-------------------------- MODULE AgentRunProofs --------------------------
(***************************************************************************)
(* Theorems about AgentRun, for every value of its constants.  RunInv is   *)
(* inductive; it is proved conjunct by conjunct, each lemma assuming the   *)
(* whole invariant in the old state and going through the actions.  The    *)
(* safety properties, the action properties and the refinement of          *)
(* RunContract follow from it.                                             *)
(***************************************************************************)
EXTENDS AgentRun, TLAPS

\* Every stop check yields a limit text or nothing.
LEMMA CheckTexts ==
    /\ StopCheck \in LimitTexts \cup {"none"}
    /\ TopCheck \in LimitTexts \cup {"none"}
    /\ ResponseCheck \in LimitTexts \cup {"none"}
BY DEF StopCheck, TopCheck, ResponseCheck, LimitTexts

\* The texts that come from the model or from a review.
LEMMA TextsOfTheModel ==
    /\ {"none", "goal", "rewritten"} \subseteq Texts
    /\ LimitTexts \subseteq Texts
    /\ {"none", "goal", "rewritten"} \cap LimitTexts = {}
BY DEF Texts, LimitTexts

\* The parts of the assumptions that the arithmetic of the steps needs.
LEMMA NaturalBounds ==
    /\ MaxIterations \in Nat /\ MaxTokens \in Nat /\ MaxRetries \in Nat
    /\ MaxCost \subseteq Nat
    /\ MaxCalls \in Nat /\ TokenUse \subseteq Nat /\ Prices \subseteq Nat
    /\ NoPath \notin Paths
BY LimitsAssumption, DataAssumption

-----------------------------------------------------------------------------
(* RunInv is inductive.                                                    *)

\* The initial state: nothing asked, nothing owed, nothing announced.
LEMMA InitRunInv == Init => RunInv
<1> SUFFICES ASSUME Init PROVE RunInv
  OBVIOUS
<1> USE NaturalBounds DEF Init
<1>1. TypeOK
  <2>1. 0 \in 0..MaxIterations /\ 0 \in 0..MaxRetries /\ 0 \in 0..(MaxRetries + 1)
        /\ 0 \in 0..MaxCalls
    OBVIOUS
  <2>2. "none" \in Texts
    BY DEF Texts
  <2> QED
    BY <2>1, <2>2 DEF TypeOK, Locations
<1>2. CallShape
  BY DEF CallShape, InCall
<1>3. StreamShape
  BY DEF StreamShape
<1>4. BudgetShape
  BY DEF BudgetShape, InCall
<1>5. StopShape
  BY DEF StopShape, LimitTexts
<1>6. LedgerShape
  BY DEF LedgerShape
<1>7. MissShape
  BY DEF MissShape
<1>8. CauseShape
  BY DEF CauseShape
<1> QED
  BY <1>1, <1>2, <1>3, <1>4, <1>5, <1>6, <1>7, <1>8 DEF RunInv

\* Counters stay in their ranges: a call under way is one the directive holds.
LEMMA TypeStep == ASSUME TypeOK, CallShape, Next PROVE TypeOK'
<1> USE DEF TypeOK, CallShape, Locations, clock, money, turn, result
<1>1. CASE Expire
  BY <1>1 DEF Expire
<1>2. CASE SleeperCancels
  BY <1>2 DEF SleeperCancels
<1>3. CASE UserCancels
  BY <1>3 DEF UserCancels
<1>4. CASE SendRequest
  BY <1>4 DEF SendRequest
<1>5. CASE DirectiveRejected
  BY <1>5 DEF DirectiveRejected
<1>6. CASE CallAnnounced
  BY <1>6 DEF CallAnnounced
<1>7. CASE CallStarts
  BY <1>7 DEF CallStarts
<1>8. CASE CallReturns
  BY <1>8 DEF CallReturns
<1>9. CASE ReviewBegins
  BY <1>9 DEF ReviewBegins
<1>10. CASE Conclude
  BY <1>10 DEF Conclude
<1>11. CASE StopAtTop
  BY <1>11, CheckTexts, TextsOfTheModel DEF StopAtTop, StopWith
<1>12. CASE BeginIteration
  BY <1>12, NaturalBounds DEF BeginIteration, TopCheck
<1>13. ASSUME NEW stage \in Stages, ChainPasses(stage) PROVE TypeOK'
  <2>1. AfterStage(stage) \in Locations
    BY DEF AfterStage, Stages
  <2>2. final' \in Texts /\ reviewed' \in BOOLEAN
    BY <1>13, TextsOfTheModel DEF ChainPasses
  <2>3. pc' \in Locations
    BY <1>13, <2>1 DEF ChainPasses
  <2>4. UNCHANGED <<clock, fault, iter, tokens, money, turn, stop, stream, verdict>>
    BY <1>13 DEF ChainPasses
  <2> QED
    BY <2>2, <2>3, <2>4
<1>14. ASSUME NEW stage \in Stages, ChainFails(stage) PROVE TypeOK'
  BY <1>14 DEF ChainFails, Abandon, Stages
<1>15. ASSUME NEW stage \in Stages, ChainCancelled(stage) PROVE TypeOK'
  BY <1>15 DEF ChainCancelled, Abandon, Stages
<1>16. CASE RequestRetried
  BY <1>16, NaturalBounds DEF RequestRetried
<1>17. ASSUME NEW ok \in BOOLEAN, RequestEnds(ok) PROVE TypeOK'
  BY <1>17, NaturalBounds DEF RequestEnds
<1>18. CASE CompletionCancelled
  <2>1. final' \in Texts
    BY <1>18, CheckTexts, TextsOfTheModel DEF CompletionCancelled, StopWith
  <2>2. tries' \in 0..MaxRetries
    BY <1>18, NaturalBounds DEF CompletionCancelled
  <2> QED
    BY <1>18, <2>1, <2>2 DEF CompletionCancelled, StopWith
<1>19. CASE AttemptPriced
  BY <1>19, NaturalBounds DEF AttemptPriced
<1>20. CASE TokensAdded
  BY <1>20, NaturalBounds DEF TokensAdded
<1>21. CASE CompletionFailed
  BY <1>21 DEF CompletionFailed, Abandon
<1>22. CASE StopAfterResponse
  BY <1>22, CheckTexts, TextsOfTheModel DEF StopAfterResponse, StopWith
<1>23. CASE DirectiveParsed
  BY <1>23, NaturalBounds DEF DirectiveParsed
<1>24. CASE CallRefused
  BY <1>24, NaturalBounds DEF CallRefused
<1>25. CASE CallCancelled
  <2>1. final' \in Texts
    BY <1>25, CheckTexts, TextsOfTheModel DEF CallCancelled, StopWith
  <2>2. todo' \in 0..MaxCalls
    BY <1>25, NaturalBounds DEF CallCancelled
  <2> QED
    BY <1>25, <2>1, <2>2 DEF CallCancelled, StopWith
<1>26. CASE CallFails
  <2>1. todo' \in 0..MaxCalls
    BY <1>26, NaturalBounds DEF CallFails, InCall
  <2>2. absent' \subseteq Paths /\ misses' \in [Paths -> Nat]
    BY <1>26 DEF CallFails
  <2> QED
    BY <1>26, <2>1, <2>2, ZenonT(30) DEF CallFails
<1>27. CASE CallSettled
  <2>1. final' \in Texts /\ stop' \in {"LimitReached", "GoalReached"}
    BY <1>27, CheckTexts, TextsOfTheModel DEF CallSettled, StopWith
  <2>2. todo' \in 0..MaxCalls
    BY <1>27, NaturalBounds DEF CallSettled, InCall
  <2> QED
    BY <1>27, <2>1, <2>2, ZenonT(30) DEF CallSettled
<1>28. CASE TurnEnds
  <2>1. final' \in Texts /\ stop' \in {"LimitReached", "GoalReached"}
    BY <1>28, TextsOfTheModel DEF TurnEnds
  <2>2. pc' \in Locations /\ goal' \in BOOLEAN
    BY <1>28 DEF TurnEnds
  <2> QED
    BY <1>28, <2>1, <2>2 DEF TurnEnds
<1> QED
  BY <1>1, <1>2, <1>3, <1>4, <1>5, <1>6, <1>7, <1>8, <1>9, <1>10, <1>11,
     <1>12, <1>13, <1>14, <1>15, <1>16, <1>17, <1>18, <1>19, <1>20, <1>21,
     <1>22, <1>23, <1>24, <1>25, <1>26, <1>27, <1>28
  DEF Next, EngineStep, PeerStep

\* A call is opened at "tools" with a path not absent, and closed when it leaves.
LEMMA CallStep == ASSUME TypeOK, CallShape, Next PROVE CallShape'
<1> USE DEF TypeOK, CallShape, InCall, clock, money, turn, result
<1>1. CASE Expire \/ SleeperCancels \/ UserCancels \/ BeginIteration \/
          SendRequest \/ RequestRetried
  BY <1>1 DEF Expire, SleeperCancels, UserCancels, BeginIteration,
     SendRequest, RequestRetried
<1>2. CASE AttemptPriced \/ TokensAdded \/ DirectiveRejected \/
          CallStarts \/ CallReturns \/ ReviewBegins
  BY <1>2 DEF AttemptPriced, TokensAdded, DirectiveRejected, CallStarts,
     CallReturns, ReviewBegins
<1>3. CASE Conclude
  BY <1>3 DEF Conclude
<1>4. CASE StopAtTop
  BY <1>4 DEF StopAtTop, StopWith
<1>5. ASSUME NEW stage \in Stages, ChainPasses(stage) PROVE CallShape'
  BY <1>5 DEF ChainPasses, AfterStage, Stages
<1>6. ASSUME NEW stage \in Stages, ChainFails(stage) PROVE CallShape'
  BY <1>6 DEF ChainFails, Abandon, Stages
<1>7. ASSUME NEW stage \in Stages, ChainCancelled(stage) PROVE CallShape'
  BY <1>7 DEF ChainCancelled, Abandon, Stages
<1>8. ASSUME NEW ok \in BOOLEAN, RequestEnds(ok) PROVE CallShape'
  BY <1>8 DEF RequestEnds
<1>9. CASE CompletionCancelled
  BY <1>9 DEF CompletionCancelled, StopWith
<1>10. CASE CompletionFailed
  BY <1>10 DEF CompletionFailed, Abandon
<1>11. CASE StopAfterResponse
  BY <1>11 DEF StopAfterResponse, StopWith
<1>12. CASE DirectiveParsed
  BY <1>12, NaturalBounds DEF DirectiveParsed
<1>13. CASE CallRefused
  BY <1>13, NaturalBounds DEF CallRefused
<1>14. CASE CallAnnounced
  BY <1>14, NaturalBounds DEF CallAnnounced
<1>15. CASE CallCancelled
  BY <1>15, NaturalBounds DEF CallCancelled, StopWith
<1>16. CASE CallFails
  BY <1>16, NaturalBounds DEF CallFails
<1>17. CASE CallSettled
  BY <1>17, NaturalBounds DEF CallSettled, StopWith
<1>18. CASE TurnEnds
  BY <1>18, NaturalBounds DEF TurnEnds
<1> QED
  BY <1>1, <1>2, <1>3, <1>4, <1>5, <1>6, <1>7, <1>8, <1>9, <1>10, <1>11,
     <1>12, <1>13, <1>14, <1>15, <1>16, <1>17, <1>18
  DEF Next, EngineStep, PeerStep

\* Only Conclude and Abandon touch the stream, and both go to "done".
LEMMA StreamStep == ASSUME TypeOK, StreamShape, Next PROVE StreamShape'
<1> USE DEF TypeOK, StreamShape, clock, money, turn, result
<1>1. CASE Expire \/ SleeperCancels \/ UserCancels \/ BeginIteration \/
          SendRequest \/ RequestRetried
  BY <1>1 DEF Expire, SleeperCancels, UserCancels, BeginIteration,
     SendRequest, RequestRetried
<1>2. CASE AttemptPriced \/ TokensAdded \/ DirectiveRejected \/
          DirectiveParsed \/ CallRefused \/ CallAnnounced
  BY <1>2 DEF AttemptPriced, TokensAdded, DirectiveRejected, DirectiveParsed,
     CallRefused, CallAnnounced
<1>3. CASE CallStarts \/ CallReturns \/ CallFails \/ TurnEnds \/
          ReviewBegins \/ Conclude
  BY <1>3 DEF CallStarts, CallReturns, CallFails, TurnEnds, ReviewBegins,
     Conclude
<1>4. CASE StopAtTop
  BY <1>4 DEF StopAtTop, StopWith
<1>5. ASSUME NEW stage \in Stages, ChainPasses(stage) PROVE StreamShape'
  BY <1>5 DEF ChainPasses, AfterStage, Stages
<1>6. ASSUME NEW stage \in Stages, ChainFails(stage) PROVE StreamShape'
  BY <1>6 DEF ChainFails, Abandon, Stages
<1>7. ASSUME NEW stage \in Stages, ChainCancelled(stage) PROVE StreamShape'
  BY <1>7 DEF ChainCancelled, Abandon, Stages
<1>8. ASSUME NEW ok \in BOOLEAN, RequestEnds(ok) PROVE StreamShape'
  BY <1>8 DEF RequestEnds
<1>9. CASE CompletionCancelled
  BY <1>9 DEF CompletionCancelled, StopWith
<1>10. CASE CompletionFailed
  BY <1>10 DEF CompletionFailed, Abandon
<1>11. CASE StopAfterResponse
  BY <1>11 DEF StopAfterResponse, StopWith
<1>12. CASE CallCancelled
  BY <1>12 DEF CallCancelled, StopWith
<1>13. CASE CallSettled
  BY <1>13 DEF CallSettled, StopWith
<1> QED
  BY <1>1, <1>2, <1>3, <1>4, <1>5, <1>6, <1>7, <1>8, <1>9, <1>10, <1>11,
     <1>12, <1>13
  DEF Next, EngineStep, PeerStep

\* The two ways into the guarded part pass a check; spending is outside it.
LEMMA BudgetStep == ASSUME TypeOK, BudgetShape, Next PROVE BudgetShape'
<1> USE DEF TypeOK, BudgetShape, InCall, clock, money, turn, result
<1>1. CASE Expire \/ SleeperCancels \/ UserCancels \/ SendRequest \/
          RequestRetried \/ AttemptPriced
  BY <1>1 DEF Expire, SleeperCancels, UserCancels, SendRequest,
     RequestRetried, AttemptPriced
<1>2. CASE TokensAdded \/ CallRefused \/ CallAnnounced \/ CallStarts \/
          CallReturns \/ CallFails
  BY <1>2 DEF TokensAdded, CallRefused, CallAnnounced, CallStarts,
     CallReturns, CallFails
<1>3. CASE TurnEnds \/ ReviewBegins \/ Conclude
  BY <1>3 DEF TurnEnds, ReviewBegins, Conclude
<1>4. CASE StopAtTop
  BY <1>4 DEF StopAtTop, StopWith
<1>5. CASE BeginIteration
  BY <1>5, NaturalBounds DEF BeginIteration, TopCheck, CostLimitHit, TokensLimitHit
<1>6. ASSUME NEW stage \in Stages, ChainPasses(stage) PROVE BudgetShape'
  BY <1>6 DEF ChainPasses, AfterStage, Stages
<1>7. ASSUME NEW stage \in Stages, ChainFails(stage) PROVE BudgetShape'
  BY <1>7 DEF ChainFails, Abandon, Stages
<1>8. ASSUME NEW stage \in Stages, ChainCancelled(stage) PROVE BudgetShape'
  BY <1>8 DEF ChainCancelled, Abandon, Stages
<1>9. ASSUME NEW ok \in BOOLEAN, RequestEnds(ok) PROVE BudgetShape'
  BY <1>9 DEF RequestEnds
<1>10. CASE CompletionCancelled
  BY <1>10 DEF CompletionCancelled, StopWith
<1>11. CASE CompletionFailed
  BY <1>11 DEF CompletionFailed, Abandon
<1>12. CASE StopAfterResponse
  BY <1>12 DEF StopAfterResponse, StopWith
<1>13. CASE DirectiveRejected
  BY <1>13 DEF DirectiveRejected, ResponseCheck
<1>14. CASE DirectiveParsed
  BY <1>14, NaturalBounds DEF DirectiveParsed, ResponseCheck, CostLimitHit, TokensLimitHit
<1>15. CASE CallCancelled
  BY <1>15 DEF CallCancelled, StopWith
<1>16. CASE CallSettled
  BY <1>16 DEF CallSettled, StopWith
<1> QED
  BY <1>1, <1>2, <1>3, <1>4, <1>5, <1>6, <1>7, <1>8, <1>9, <1>10, <1>11,
     <1>12, <1>13, <1>14, <1>15, <1>16
  DEF Next, EngineStep, PeerStep

\* A limit text is set together with the stop and with the end of the turn.
LEMMA StopStep == ASSUME TypeOK, CallShape, StopShape, Next PROVE StopShape'
<1> USE DEF TypeOK, CallShape, StopShape, clock, money, turn, result
<1>1. CASE Expire \/ SleeperCancels \/ UserCancels \/ BeginIteration \/
          SendRequest \/ RequestRetried
  BY <1>1 DEF Expire, SleeperCancels, UserCancels, BeginIteration,
     SendRequest, RequestRetried
<1>2. CASE AttemptPriced \/ TokensAdded \/ DirectiveRejected \/
          DirectiveParsed \/ CallRefused \/ CallStarts
  BY <1>2 DEF AttemptPriced, TokensAdded, DirectiveRejected, DirectiveParsed,
     CallRefused, CallStarts
<1>3. CASE CallReturns \/ ReviewBegins \/ Conclude
  BY <1>3 DEF CallReturns, ReviewBegins, Conclude
<1>4. CASE StopAtTop
  BY <1>4 DEF StopAtTop, StopWith
<1>5. ASSUME NEW stage \in Stages, ChainPasses(stage) PROVE StopShape'
  BY <1>5, TextsOfTheModel DEF ChainPasses, AfterStage, Stages
<1>6. ASSUME NEW stage \in Stages, ChainFails(stage) PROVE StopShape'
  BY <1>6 DEF ChainFails, Abandon, Stages
<1>7. ASSUME NEW stage \in Stages, ChainCancelled(stage) PROVE StopShape'
  BY <1>7 DEF ChainCancelled, Abandon, Stages
<1>8. ASSUME NEW ok \in BOOLEAN, RequestEnds(ok) PROVE StopShape'
  BY <1>8 DEF RequestEnds
<1>9. CASE CompletionCancelled
  BY <1>9 DEF CompletionCancelled, StopWith
<1>10. CASE CompletionFailed
  BY <1>10 DEF CompletionFailed, Abandon
<1>11. CASE StopAfterResponse
  BY <1>11 DEF StopAfterResponse, StopWith
<1>12. CASE CallAnnounced
  BY <1>12, NaturalBounds DEF CallAnnounced
<1>13. CASE CallCancelled
  BY <1>13 DEF CallCancelled, StopWith, InCall
<1>14. CASE CallFails
  BY <1>14, NaturalBounds DEF CallFails, InCall
<1>15. CASE CallSettled
  BY <1>15, CheckTexts, TextsOfTheModel DEF CallSettled, StopWith, InCall
<1>16. CASE TurnEnds
  BY <1>16, TextsOfTheModel DEF TurnEnds, TurnStopped
<1> QED
  BY <1>1, <1>2, <1>3, <1>4, <1>5, <1>6, <1>7, <1>8, <1>9, <1>10, <1>11,
     <1>12, <1>13, <1>14, <1>15, <1>16
  DEF Next, EngineStep, PeerStep

\* Each request moves from flight to the retries, to the due ones, to the ledger.
LEMMA LedgerStep == ASSUME TypeOK, LedgerShape, Next PROVE LedgerShape'
<1> USE DEF TypeOK, LedgerShape, clock, money, turn, result
<1>1. CASE Expire \/ SleeperCancels \/ UserCancels \/ BeginIteration \/
          SendRequest \/ TokensAdded
  BY <1>1 DEF Expire, SleeperCancels, UserCancels, BeginIteration,
     SendRequest, TokensAdded
<1>2. CASE DirectiveRejected \/ DirectiveParsed \/ CallRefused \/
          CallAnnounced \/ CallStarts \/ CallReturns
  BY <1>2 DEF DirectiveRejected, DirectiveParsed, CallRefused, CallAnnounced,
     CallStarts, CallReturns
<1>3. CASE CallFails \/ TurnEnds \/ ReviewBegins \/ Conclude
  BY <1>3 DEF CallFails, TurnEnds, ReviewBegins, Conclude
<1>4. CASE StopAtTop
  BY <1>4 DEF StopAtTop, StopWith
<1>5. ASSUME NEW stage \in Stages, ChainPasses(stage) PROVE LedgerShape'
  BY <1>5 DEF ChainPasses, AfterStage, Stages
<1>6. ASSUME NEW stage \in Stages, ChainFails(stage) PROVE LedgerShape'
  BY <1>6 DEF ChainFails, Abandon, Stages
<1>7. ASSUME NEW stage \in Stages, ChainCancelled(stage) PROVE LedgerShape'
  BY <1>7 DEF ChainCancelled, Abandon, Stages
<1>8. CASE RequestRetried
  BY <1>8, NaturalBounds DEF RequestRetried
<1>9. ASSUME NEW ok \in BOOLEAN, RequestEnds(ok) PROVE LedgerShape'
  BY <1>9, NaturalBounds DEF RequestEnds
<1>10. CASE CompletionCancelled
  BY <1>10 DEF CompletionCancelled, StopWith
<1>11. CASE AttemptPriced
  BY <1>11, NaturalBounds DEF AttemptPriced
<1>12. CASE CompletionFailed
  BY <1>12 DEF CompletionFailed, Abandon
<1>13. CASE StopAfterResponse
  BY <1>13 DEF StopAfterResponse, StopWith
<1>14. CASE CallCancelled
  BY <1>14 DEF CallCancelled, StopWith
<1>15. CASE CallSettled
  BY <1>15 DEF CallSettled, StopWith
<1> QED
  BY <1>1, <1>2, <1>3, <1>4, <1>5, <1>6, <1>7, <1>8, <1>9, <1>10, <1>11,
     <1>12, <1>13, <1>14, <1>15
  DEF Next, EngineStep, PeerStep

\* A miss is counted for the path of the open call, which was not absent.
LEMMA MissStep == ASSUME TypeOK, CallShape, MissShape, Next PROVE MissShape'
<1> USE DEF TypeOK, CallShape, MissShape, clock, money, turn, result
<1>1. CASE Expire \/ SleeperCancels \/ UserCancels \/ BeginIteration \/
          SendRequest \/ RequestRetried
  BY <1>1 DEF Expire, SleeperCancels, UserCancels, BeginIteration,
     SendRequest, RequestRetried
<1>2. CASE AttemptPriced \/ TokensAdded \/ DirectiveRejected \/
          DirectiveParsed \/ CallRefused \/ CallAnnounced
  BY <1>2 DEF AttemptPriced, TokensAdded, DirectiveRejected, DirectiveParsed,
     CallRefused, CallAnnounced
<1>3. CASE CallStarts \/ CallReturns \/ CallFails \/ TurnEnds \/
          ReviewBegins \/ Conclude
  BY <1>3 DEF CallStarts, CallReturns, CallFails, TurnEnds, ReviewBegins,
     Conclude
<1>4. CASE StopAtTop
  BY <1>4 DEF StopAtTop, StopWith
<1>5. ASSUME NEW stage \in Stages, ChainPasses(stage) PROVE MissShape'
  BY <1>5 DEF ChainPasses, AfterStage, Stages
<1>6. ASSUME NEW stage \in Stages, ChainFails(stage) PROVE MissShape'
  BY <1>6 DEF ChainFails, Abandon, Stages
<1>7. ASSUME NEW stage \in Stages, ChainCancelled(stage) PROVE MissShape'
  BY <1>7 DEF ChainCancelled, Abandon, Stages
<1>8. ASSUME NEW ok \in BOOLEAN, RequestEnds(ok) PROVE MissShape'
  BY <1>8 DEF RequestEnds
<1>9. CASE CompletionCancelled
  BY <1>9 DEF CompletionCancelled, StopWith
<1>10. CASE CompletionFailed
  BY <1>10 DEF CompletionFailed, Abandon
<1>11. CASE StopAfterResponse
  BY <1>11 DEF StopAfterResponse, StopWith
<1>12. CASE CallCancelled
  BY <1>12 DEF CallCancelled, StopWith
<1>13. CASE CallSettled
  BY <1>13 DEF CallSettled, StopWith
<1> QED
  BY <1>1, <1>2, <1>3, <1>4, <1>5, <1>6, <1>7, <1>8, <1>9, <1>10, <1>11,
     <1>12, <1>13
  DEF Next, EngineStep, PeerStep

\* An Error comes from a failed peer or from a handler on a cancelled token.
LEMMA CauseStep == ASSUME TypeOK, StreamShape, CauseShape, Next PROVE CauseShape'
<1> USE DEF TypeOK, StreamShape, CauseShape, clock, money, turn, result
<1>1. CASE Expire \/ SleeperCancels \/ UserCancels \/ BeginIteration \/
          SendRequest \/ RequestRetried
  BY <1>1 DEF Expire, SleeperCancels, UserCancels, BeginIteration,
     SendRequest, RequestRetried
<1>2. CASE AttemptPriced \/ TokensAdded \/ DirectiveRejected \/
          DirectiveParsed \/ CallRefused \/ CallAnnounced
  BY <1>2 DEF AttemptPriced, TokensAdded, DirectiveRejected, DirectiveParsed,
     CallRefused, CallAnnounced
<1>3. CASE CallStarts \/ CallReturns \/ CallFails \/ TurnEnds \/
          ReviewBegins \/ Conclude
  BY <1>3 DEF CallStarts, CallReturns, CallFails, TurnEnds, ReviewBegins,
     Conclude
<1>4. CASE StopAtTop
  BY <1>4 DEF StopAtTop, StopWith
<1>5. ASSUME NEW stage \in Stages, ChainPasses(stage) PROVE CauseShape'
  BY <1>5 DEF ChainPasses, AfterStage, Stages
<1>6. ASSUME NEW stage \in Stages, ChainFails(stage) PROVE CauseShape'
  BY <1>6 DEF ChainFails, Abandon, Stages
<1>7. ASSUME NEW stage \in Stages, ChainCancelled(stage) PROVE CauseShape'
  BY <1>7 DEF ChainCancelled, Abandon, Stages
<1>8. ASSUME NEW ok \in BOOLEAN, RequestEnds(ok) PROVE CauseShape'
  BY <1>8 DEF RequestEnds
<1>9. CASE CompletionCancelled
  BY <1>9 DEF CompletionCancelled, StopWith
<1>10. CASE CompletionFailed
  BY <1>10 DEF CompletionFailed, Abandon
<1>11. CASE StopAfterResponse
  BY <1>11 DEF StopAfterResponse, StopWith
<1>12. CASE CallCancelled
  BY <1>12 DEF CallCancelled, StopWith
<1>13. CASE CallSettled
  BY <1>13 DEF CallSettled, StopWith
<1> QED
  BY <1>1, <1>2, <1>3, <1>4, <1>5, <1>6, <1>7, <1>8, <1>9, <1>10, <1>11,
     <1>12, <1>13
  DEF Next, EngineStep, PeerStep

\* A stuttering step changes nothing the invariant reads.
LEMMA RunInvStutters == ASSUME RunInv, UNCHANGED vars PROVE RunInv'
BY DEF RunInv, TypeOK, CallShape, StreamShape, BudgetShape, StopShape, LedgerShape,
       MissShape, CauseShape, vars, clock, money, turn, result

\* The invariant of the run: what each place of the engine may rely on.
THEOREM RunInvariant == Spec => []RunInv
<1>1. Init => RunInv
  BY InitRunInv
<1>2. RunInv /\ [Next]_vars => RunInv'
  <2> SUFFICES ASSUME RunInv, [Next]_vars PROVE RunInv'
    OBVIOUS
  <2>1. CASE Next
    BY <2>1, TypeStep, CallStep, StreamStep, BudgetStep, StopStep, LedgerStep,
       MissStep, CauseStep DEF RunInv
  <2>2. CASE UNCHANGED vars
    BY <2>2, RunInvStutters
  <2> QED
    BY <2>1, <2>2
<1> QED
  BY <1>1, <1>2, PTL DEF Spec

-----------------------------------------------------------------------------
(* The safety properties.                                                  *)

\* Every variable keeps its type.
THEOREM TypeCorrect == Spec => []TypeOK
<1>1. RunInv => TypeOK
  BY DEF RunInv
<1> QED
  BY <1>1, RunInvariant, PTL

\* No completion is asked for and no tool called at or over a limit.
THEOREM BudgetKept == Spec => []WithinBudget
<1>1. RunInv => WithinBudget
  BY DEF RunInv, BudgetShape, InCall, WithinBudget
<1> QED
  BY <1>1, RunInvariant, PTL

\* A missing home path is asked of the executor at most once.
THEOREM AbsentOnce == Spec => []AbsentAskedOnce
<1>1. RunInv => AbsentAskedOnce
  BY DEF RunInv, TypeOK, MissShape, AbsentAskedOnce
<1> QED
  BY <1>1, RunInvariant, PTL

\* A run that was never cancelled has paid for every request it sent.
THEOREM LedgerOfAnUncancelledRun == Spec => []LedgerMatches
<1>1. RunInv => LedgerMatches
  BY DEF RunInv, TypeOK, StreamShape, LedgerShape, LedgerMatches
<1> QED
  BY <1>1, RunInvariant, PTL

\* An Error verdict has a failed peer or a cancelled token behind it.
THEOREM ErrorsAreCaused == Spec => []ErrorHasCause
<1>1. RunInv => ErrorHasCause
  BY DEF RunInv, CauseShape, ErrorHasCause
<1> QED
  BY <1>1, RunInvariant, PTL

-----------------------------------------------------------------------------
(* The action properties.                                                  *)

\* Sending and calling both poll the token first.
LEMMA CancelStep == ASSUME Next PROVE NoNewWork
<1> USE DEF NoNewWork, clock, money, turn, result
<1>1. CASE Expire \/ SleeperCancels \/ UserCancels \/ BeginIteration \/
          SendRequest \/ RequestRetried
  BY <1>1 DEF Expire, SleeperCancels, UserCancels, BeginIteration,
     SendRequest, RequestRetried
<1>2. CASE AttemptPriced \/ TokensAdded \/ DirectiveRejected \/
          DirectiveParsed \/ CallRefused \/ CallAnnounced
  BY <1>2 DEF AttemptPriced, TokensAdded, DirectiveRejected, DirectiveParsed,
     CallRefused, CallAnnounced
<1>3. CASE CallStarts \/ CallReturns \/ CallFails \/ TurnEnds \/
          ReviewBegins \/ Conclude
  BY <1>3 DEF CallStarts, CallReturns, CallFails, TurnEnds, ReviewBegins,
     Conclude
<1>4. CASE StopAtTop
  BY <1>4 DEF StopAtTop, StopWith
<1>5. ASSUME NEW stage \in Stages, ChainPasses(stage) PROVE NoNewWork
  BY <1>5 DEF ChainPasses, AfterStage, Stages
<1>6. ASSUME NEW stage \in Stages, ChainFails(stage) PROVE NoNewWork
  BY <1>6 DEF ChainFails, Abandon, Stages
<1>7. ASSUME NEW stage \in Stages, ChainCancelled(stage) PROVE NoNewWork
  BY <1>7 DEF ChainCancelled, Abandon, Stages
<1>8. ASSUME NEW ok \in BOOLEAN, RequestEnds(ok) PROVE NoNewWork
  BY <1>8 DEF RequestEnds
<1>9. CASE CompletionCancelled
  BY <1>9 DEF CompletionCancelled, StopWith
<1>10. CASE CompletionFailed
  BY <1>10 DEF CompletionFailed, Abandon
<1>11. CASE StopAfterResponse
  BY <1>11 DEF StopAfterResponse, StopWith
<1>12. CASE CallCancelled
  BY <1>12 DEF CallCancelled, StopWith
<1>13. CASE CallSettled
  BY <1>13 DEF CallSettled, StopWith
<1> QED
  BY <1>1, <1>2, <1>3, <1>4, <1>5, <1>6, <1>7, <1>8, <1>9, <1>10, <1>11,
     <1>12, <1>13
  DEF Next, EngineStep, PeerStep

\* On a cancelled token nothing is sent and no call is started.
THEOREM CancelStopsWork == Spec => NoWorkAfterCancel
<1>1. [Next]_vars => [NoNewWork]_vars
  BY CancelStep
<1> QED
  BY <1>1, PTL DEF Spec, NoWorkAfterCancel

\* At a limit text the turn ends as stopped, and only there is stop written.
LEMMA StickStep == ASSUME RunInv, Next PROVE StaysStopped
<1>0. TypeOK /\ StopShape
  BY DEF RunInv
<1> USE <1>0 DEF TypeOK, StopShape, StaysStopped, clock, money, turn, result
<1>1. CASE Expire \/ SleeperCancels \/ UserCancels \/ BeginIteration \/
          SendRequest \/ RequestRetried
  BY <1>1 DEF Expire, SleeperCancels, UserCancels, BeginIteration,
     SendRequest, RequestRetried
<1>2. CASE AttemptPriced \/ TokensAdded \/ DirectiveRejected \/
          DirectiveParsed \/ CallRefused \/ CallAnnounced
  BY <1>2 DEF AttemptPriced, TokensAdded, DirectiveRejected, DirectiveParsed,
     CallRefused, CallAnnounced
<1>3. CASE CallStarts \/ CallReturns \/ CallFails \/ ReviewBegins \/
          Conclude
  BY <1>3 DEF CallStarts, CallReturns, CallFails, ReviewBegins, Conclude
<1>4. CASE StopAtTop
  BY <1>4 DEF StopAtTop, StopWith
<1>5. ASSUME NEW stage \in Stages, ChainPasses(stage) PROVE StaysStopped
  BY <1>5 DEF ChainPasses, AfterStage, Stages
<1>6. ASSUME NEW stage \in Stages, ChainFails(stage) PROVE StaysStopped
  BY <1>6 DEF ChainFails, Abandon, Stages
<1>7. ASSUME NEW stage \in Stages, ChainCancelled(stage) PROVE StaysStopped
  BY <1>7 DEF ChainCancelled, Abandon, Stages
<1>8. ASSUME NEW ok \in BOOLEAN, RequestEnds(ok) PROVE StaysStopped
  BY <1>8 DEF RequestEnds
<1>9. CASE CompletionCancelled
  BY <1>9 DEF CompletionCancelled, StopWith
<1>10. CASE CompletionFailed
  BY <1>10 DEF CompletionFailed, Abandon
<1>11. CASE StopAfterResponse
  BY <1>11 DEF StopAfterResponse, StopWith
<1>12. CASE CallCancelled
  BY <1>12 DEF CallCancelled, StopWith
<1>13. CASE CallSettled
  BY <1>13 DEF CallSettled, StopWith
<1>14. CASE TurnEnds
  BY <1>14, TextsOfTheModel DEF TurnEnds, TurnStopped
<1> QED
  BY <1>1, <1>2, <1>3, <1>4, <1>5, <1>6, <1>7, <1>8, <1>9, <1>10, <1>11,
     <1>12, <1>13, <1>14
  DEF Next, EngineStep, PeerStep

\* A limit or a cancellation is not overridden by a done flag.
THEOREM LimitsStick == Spec => LimitVerdictSticks
<1>1. RunInv /\ [Next]_vars => [StaysStopped]_vars
  BY StickStep
<1> QED
  BY <1>1, RunInvariant, PTL DEF Spec, LimitVerdictSticks

\* Only Conclude summarises, from "finish" or where no review is needed.
LEMMA ReviewStep == ASSUME RunInv, Next PROVE ReviewedAtEnd
<1>0. TypeOK /\ CauseShape
  BY DEF RunInv
<1> USE <1>0 DEF TypeOK, CauseShape, ReviewedAtEnd, clock, money, turn, result
<1>1. CASE Expire \/ SleeperCancels \/ UserCancels \/ BeginIteration \/
          SendRequest \/ RequestRetried
  BY <1>1 DEF Expire, SleeperCancels, UserCancels, BeginIteration,
     SendRequest, RequestRetried
<1>2. CASE AttemptPriced \/ TokensAdded \/ DirectiveRejected \/
          DirectiveParsed \/ CallRefused \/ CallAnnounced
  BY <1>2 DEF AttemptPriced, TokensAdded, DirectiveRejected, DirectiveParsed,
     CallRefused, CallAnnounced
<1>3. CASE CallStarts \/ CallReturns \/ CallFails \/ TurnEnds \/
          ReviewBegins
  BY <1>3 DEF CallStarts, CallReturns, CallFails, TurnEnds, ReviewBegins
<1>4. CASE StopAtTop
  BY <1>4 DEF StopAtTop, StopWith
<1>5. ASSUME NEW stage \in Stages, ChainPasses(stage) PROVE ReviewedAtEnd
  BY <1>5 DEF ChainPasses, AfterStage, Stages
<1>6. ASSUME NEW stage \in Stages, ChainFails(stage) PROVE ReviewedAtEnd
  BY <1>6 DEF ChainFails, Abandon, Stages
<1>7. ASSUME NEW stage \in Stages, ChainCancelled(stage) PROVE ReviewedAtEnd
  BY <1>7 DEF ChainCancelled, Abandon, Stages
<1>8. ASSUME NEW ok \in BOOLEAN, RequestEnds(ok) PROVE ReviewedAtEnd
  BY <1>8 DEF RequestEnds
<1>9. CASE CompletionCancelled
  BY <1>9 DEF CompletionCancelled, StopWith
<1>10. CASE CompletionFailed
  BY <1>10 DEF CompletionFailed, Abandon
<1>11. CASE StopAfterResponse
  BY <1>11 DEF StopAfterResponse, StopWith
<1>12. CASE CallCancelled
  BY <1>12 DEF CallCancelled, StopWith
<1>13. CASE CallSettled
  BY <1>13 DEF CallSettled, StopWith
<1>14. CASE Conclude
  BY <1>14 DEF Conclude, NeedsReview
<1> QED
  BY <1>1, <1>2, <1>3, <1>4, <1>5, <1>6, <1>7, <1>8, <1>9, <1>10, <1>11,
     <1>12, <1>13, <1>14
  DEF Next, EngineStep, PeerStep

\* A final text leaves the run reviewed, or the run was cancelled.
THEOREM ReviewBeforeOutput == Spec => ConcludesReviewed
<1>1. RunInv /\ [Next]_vars => [ReviewedAtEnd]_vars
  BY ReviewStep
<1> QED
  BY <1>1, RunInvariant, PTL DEF Spec, ConcludesReviewed

-----------------------------------------------------------------------------
(* AgentRun implements RunContract.                                        *)

\* What RunContract lets a step do.
ContractAllows == [Contract!ContractNext]_(Contract!contractVars)

\* Calls open and close one at a time, the end comes with none open, and the
\* rest of the engine is a stutter.
LEMMA ContractStep == ASSUME RunInv, Next PROVE ContractAllows
<1>0. TypeOK /\ CallShape /\ StreamShape
  BY DEF RunInv
<1> USE <1>0 DEF TypeOK, CallShape, InCall, StreamShape, clock, money, turn, result,
               ContractAllows, Contract!ContractNext, Contract!contractVars, Contract!OpenCall,
               Contract!CloseCall, Contract!Conclude, Contract!Abandon
<1>1. CASE Expire \/ SleeperCancels \/ UserCancels \/ BeginIteration \/
          SendRequest \/ RequestRetried
  BY <1>1 DEF Expire, SleeperCancels, UserCancels, BeginIteration,
     SendRequest, RequestRetried
<1>2. CASE AttemptPriced \/ TokensAdded \/ DirectiveRejected \/
          DirectiveParsed \/ CallRefused \/ CallAnnounced
  BY <1>2 DEF AttemptPriced, TokensAdded, DirectiveRejected, DirectiveParsed,
     CallRefused, CallAnnounced
<1>3. CASE CallStarts \/ CallReturns \/ CallFails \/ TurnEnds \/
          ReviewBegins \/ Conclude
  BY <1>3 DEF CallStarts, CallReturns, CallFails, TurnEnds, ReviewBegins,
     Conclude
<1>4. CASE StopAtTop
  BY <1>4 DEF StopAtTop, StopWith
<1>5. ASSUME NEW stage \in Stages, ChainPasses(stage) PROVE ContractAllows
  BY <1>5 DEF ChainPasses, AfterStage, Stages
<1>6. ASSUME NEW stage \in Stages, ChainFails(stage) PROVE ContractAllows
  BY <1>6 DEF ChainFails, Abandon, Stages
<1>7. ASSUME NEW stage \in Stages, ChainCancelled(stage) PROVE ContractAllows
  BY <1>7 DEF ChainCancelled, Abandon, Stages
<1>8. ASSUME NEW ok \in BOOLEAN, RequestEnds(ok) PROVE ContractAllows
  BY <1>8 DEF RequestEnds
<1>9. CASE CompletionCancelled
  BY <1>9 DEF CompletionCancelled, StopWith
<1>10. CASE CompletionFailed
  BY <1>10 DEF CompletionFailed, Abandon
<1>11. CASE StopAfterResponse
  BY <1>11 DEF StopAfterResponse, StopWith
<1>12. CASE CallCancelled
  BY <1>12 DEF CallCancelled, StopWith
<1>13. CASE CallSettled
  BY <1>13 DEF CallSettled, StopWith
<1> QED
  BY <1>1, <1>2, <1>3, <1>4, <1>5, <1>6, <1>7, <1>8, <1>9, <1>10, <1>11,
     <1>12, <1>13
  DEF Next, EngineStep, PeerStep

\* The engine keeps the caller's contract.
THEOREM RunImplementsContract == Spec => ContractHolds
<1>1. Init => Contract!ContractInit
  BY DEF Init, Contract!ContractInit
<1>2. RunInv /\ [Next]_vars => [Contract!ContractNext]_(Contract!contractVars)
  <2>1. UNCHANGED vars => UNCHANGED Contract!contractVars
    BY DEF vars, turn, result, Contract!contractVars
  <2> QED
    BY <2>1, ContractStep DEF ContractAllows
<1> QED
  BY <1>1, <1>2, RunInvariant, PTL DEF Spec, ContractHolds, Contract!ContractSpec

==============================================================================
