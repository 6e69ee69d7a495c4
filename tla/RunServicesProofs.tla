-------------------------- MODULE RunServicesProofs -------------------------
(***************************************************************************)
(* Theorems about what surrounds the engine: the chain of handlers, the    *)
(* audit sink, the Studio's jobs and the A2A tasks.                        *)
(*                                                                         *)
(* EventMcp, for chains of any length: ChainInv is made inductive by what  *)
(* a turn under way has behind it (ChainShape), one record per handler     *)
(* before it, none of which ended the chain, and one call per handler.     *)
(*                                                                         *)
(* AuditSink, for any records and any channel: rows go through a pipeline  *)
(* without overtaking.  Those in the channel are the end of the accepted   *)
(* ones (Waiting), the one in flight is the last that left it, and each    *)
(* before that is in the file or lost (Taken).  The losses of one error    *)
(* are counted by an error to be told and a torn line (LossCount).         *)
(*                                                                         *)
(* StudioJobs, for any runs, events, viewers and buffers: the verdicts     *)
(* follow from the life of a run (RunShape) and of the slot (SlotShape).   *)
(* The order of the events, and the meaning of the marker, follow from the *)
(* newest event of a run (Newest), which only grows, and which bounds what *)
(* is in its history, in a snapshot or on its way (HistoryShape,           *)
(* ViewShape).                                                             *)
(*                                                                         *)
(* A2aTasks, for any set of tasks and any number of permits: that an       *)
(* acknowledged cancellation is the final state needs the token that was   *)
(* cancelled before, and that the registry is exact needs that nothing is  *)
(* aborted while the server is up (TasksIndInv).                           *)
(***************************************************************************)
EXTENDS RunServices, FiniteSetTheorems, WellFoundedInduction, TLAPS

\* What Append, Head and Tail make of a sequence, element by element.
LEMMA SeqFacts ==
    ASSUME NEW S, NEW s \in Seq(S)
    PROVE  /\ Len(s) \in Nat
           /\ \A i \in 1..Len(s) : s[i] \in S
           /\ \A x \in S : /\ Append(s, x) \in Seq(S) /\ Len(Append(s, x)) = Len(s) + 1
                           /\ Append(s, x)[Len(s) + 1] = x
                           /\ \A i \in 1..Len(s) : Append(s, x)[i] = s[i]
           /\ s # <<>> => /\ Len(s) \in Nat \ {0} /\ Head(s) \in S /\ Head(s) = s[1]
                          /\ Tail(s) \in Seq(S) /\ Len(Tail(s)) = Len(s) - 1
                          /\ \A i \in 1..(Len(s) - 1) : Tail(s)[i] = s[i + 1]
OBVIOUS

-----------------------------------------------------------------------------
(* EventMcp.                                                               *)

Active == {"turn", "polled", "waiting"}

\* A record that lets the chain go on past handler i.
GoesOn(i, record) ==
    /\ record.how \notin {"reject", "cancelled"}
    /\ record.how \in Failures => i \in Lenient

\* Where a chain is and what it has recorded.
ChainShape ==
    /\ pc = "idle" => pos = 1 /\ ~requested
    /\ pc \in Active \cup {"idle"} =>
          /\ pos <= Handlers /\ Len(log) = pos - 1
          /\ calls <= Len(log) + IF requested THEN 1 ELSE 0
    /\ pc = "passed" => Len(log) = Handlers
    /\ pc # "failed" => \A i \in 1..Len(log) : GoesOn(i, log[i])

ChainIndInv == ChainInv /\ ChainShape

-----------------------------------------------------------------------------
(* What LastReplacement computes as turns are recorded.                    *)

\* A set of positions that is not empty has a last one.
LEMMA GreatestExists ==
    ASSUME NEW n \in Nat, NEW S \in SUBSET (1..n), S # {}
    PROVE  \E m \in S : \A k \in S : k <= m
<1> DEFINE Less == {ss \in Nat \X Nat : ss[1] < ss[2]}
           T == {n - i : i \in S}
<1>1. IsWellFoundedOn(Less, Nat)
  BY NatLessThanWellFounded DEF OpToRel
<1>2. PICK i \in S : TRUE
  OBVIOUS
<1>3. n - i \in T /\ T \subseteq Nat
  OBVIOUS
<1>4. \E x \in T : \A y \in T : ~(<<y, x>> \in Less)
  <2> HIDE DEF Less, T
  <2> QED
    BY <1>1, <1>3, WFMin, Zenon
<1>5. PICK x \in T : \A y \in T : ~(<<y, x>> \in Less)
  BY <1>4
<1>6. ASSUME NEW y \in T PROVE x <= y
  <2>1. <<y, x>> \in Nat \X Nat /\ <<y, x>>[1] = y /\ <<y, x>>[2] = x
    BY <1>3
  <2>2. ~(y < x)
    BY <1>5, <2>1
  <2> QED
    BY <1>3, <2>2
<1>7. PICK m \in S : x = n - m
  OBVIOUS
<1>8. ASSUME NEW k \in S PROVE k <= m
  <2>1. n - k \in T /\ x <= n - k
    BY <1>6
  <2> QED
    BY <1>7, <2>1
<1> QED
  BY <1>8

\* No turn, no replacement.
LEMMA NoReplacement == ASSUME NEW payload PROVE LastReplacement(<<>>, payload) = payload
BY DEF LastReplacement

\* A turn that replaces nothing leaves the last replacement.
LEMMA OtherTurnKept ==
    ASSUME NEW turns \in Seq(Turns), NEW turn \in Turns, turn.how # "replace", NEW payload
    PROVE  LastReplacement(Append(turns, turn), payload) = LastReplacement(turns, payload)
<1> DEFINE more == Append(turns, turn)
           replaced == {i \in 1..Len(turns) : turns[i].how = "replace"}
           replacedNow == {i \in 1..Len(more) : more[i].how = "replace"}
<1>1. /\ Len(turns) \in Nat /\ Len(more) = Len(turns) + 1
      /\ more[Len(turns) + 1] = turn
      /\ \A i \in 1..Len(turns) : more[i] = turns[i]
  OBVIOUS
<1>2. replacedNow = replaced
  BY <1>1
<1>3. CASE replaced = {}
  BY <1>2, <1>3 DEF LastReplacement
<1>4. CASE replaced # {}
  <2> DEFINE newest == CHOOSE i \in replaced : \A j \in replaced : j <= i
  <2>1. LastReplacement(turns, payload) = turns[newest].new
    BY <1>4 DEF LastReplacement
  <2>2. LastReplacement(more, payload) = more[newest].new
    BY <1>2, <1>4 DEF LastReplacement
  <2>3. newest \in replaced
    <3>1. \E i \in replaced : \A j \in replaced : j <= i
      BY <1>1, <1>4, GreatestExists
    <3> QED
      BY <3>1
  <2> QED
    BY <1>1, <2>1, <2>2, <2>3
<1> QED
  BY <1>3, <1>4

\* A turn that replaces the payload is the last replacement.
LEMMA ReplacementLast ==
    ASSUME NEW turns \in Seq(Turns), NEW turn \in Turns, turn.how = "replace", NEW payload
    PROVE  LastReplacement(Append(turns, turn), payload) = turn.new
<1> DEFINE more == Append(turns, turn)
           n == Len(turns) + 1
           replacedNow == {i \in 1..Len(more) : more[i].how = "replace"}
           newest == CHOOSE i \in replacedNow : \A j \in replacedNow : j <= i
<1>1. Len(more) = n /\ n \in Nat \ {0} /\ more[n] = turn
  OBVIOUS
<1>2. n \in replacedNow /\ \A j \in replacedNow : j <= n
  BY <1>1
<1>3. newest \in replacedNow /\ \A j \in replacedNow : j <= newest
  BY <1>2
<1>4. newest = n
  BY <1>1, <1>2, <1>3
<1>5. replacedNow # {}
  BY <1>2
<1> QED
  BY <1>1, <1>4, <1>5 DEF LastReplacement

-----------------------------------------------------------------------------
(* ChainIndInv is inductive.                                               *)

\* The dispatcher starts with no event taken and no chain.
LEMMA InitChainIndInv == ChainInit => ChainIndInv
<1> SUFFICES ASSUME ChainInit PROVE ChainIndInv
  OBVIOUS
<1>1. ChainTypeOK
  <2>1. log \in Seq(Turns) /\ Len(log) = 0
    BY DEF ChainInit
  <2>2. pos \in 1..(Handlers + 1) /\ calls \in 0..Handlers /\ 0 <= Handlers
    BY ChainAssumption DEF ChainInit
  <2> QED
    BY <2>1, <2>2 DEF ChainInit, ChainTypeOK
<1>2. PayloadIsLastReplacement
  BY NoReplacement DEF ChainInit, PayloadIsLastReplacement
<1>3. PassedMeansAccepted /\ ChainShape
  BY ChainAssumption DEF ChainInit, PassedMeansAccepted, ChainShape, Active, GoesOn
<1> QED
  BY <1>1, <1>2, <1>3 DEF ChainIndInv, ChainInv

\* A turn that fails, and is forgiven or is not.
LEMMA FailureStep ==
    ASSUME ChainIndInv, pc \in Active, NEW how \in Failures, TurnFails(how),
           UNCHANGED <<runToken, first, calls>>
    PROVE  ChainIndInv'
<1> USE DEF ChainIndInv, ChainInv
<1> DEFINE record == [how |-> how, new |-> current]
<1>1. /\ log' = Append(log, record) /\ current' = current /\ record \in Turns
      /\ record.how \notin {"replace", "reject", "cancelled"}
  BY DEF TurnFails, Record, ChainTypeOK, Turns, Failures
<1>2. /\ log \in Seq(Turns) /\ Len(log) = pos - 1 /\ pos \in 1..Handlers
      /\ Handlers \in Nat /\ calls <= pos
  BY ChainAssumption DEF ChainTypeOK, ChainShape, Active
<1>3. /\ log' \in Seq(Turns) /\ Len(log') = pos /\ log'[pos] = record
      /\ \A i \in 1..(pos - 1) : log'[i] = log[i]
  BY <1>1, <1>2
<1>4. PayloadIsLastReplacement'
  BY <1>1, <1>2, OtherTurnKept DEF PayloadIsLastReplacement, ChainTypeOK
<1>5. CASE pos \in Lenient
  <2>1. /\ pos' = pos + 1 /\ requested' = FALSE
        /\ pc' = IF pos = Handlers THEN "passed" ELSE "turn"
    BY <1>5 DEF TurnFails, NextTurn
  <2>2. ChainTypeOK'
    <3>1. pos' \in 1..(Handlers + 1) /\ Len(log') <= Handlers
      BY <1>2, <1>3, <2>1
    <3> QED
      BY <1>1, <1>3, <2>1, <3>1 DEF ChainTypeOK
  <2>3. \A i \in 1..pos : GoesOn(i, log'[i])
    BY <1>1, <1>2, <1>3, <1>5 DEF ChainShape, GoesOn, Active
  <2>4. ChainShape'
    BY <1>2, <1>3, <2>1, <2>3 DEF ChainShape, Active
  <2>5. PassedMeansAccepted'
    BY <1>2, <1>3, <2>1, <2>3 DEF PassedMeansAccepted, GoesOn
  <2> QED
    BY <1>4, <2>2, <2>4, <2>5
<1>6. CASE pos \notin Lenient
  <2>1. pc' = "failed" /\ pos' = pos /\ requested' = requested
    BY <1>6 DEF TurnFails
  <2>2. ChainTypeOK'
    BY <1>1, <1>2, <1>3, <2>1 DEF ChainTypeOK
  <2> QED
    BY <1>4, <2>1, <2>2 DEF ChainShape, PassedMeansAccepted, Active
<1> QED
  BY <1>5, <1>6

\* A rejection or a cancellation: the payload stays as the last handler left it.
LEMMA EndStep ==
    ASSUME ChainIndInv, pc \in Active, NEW how \in {"reject", "cancelled"}, ChainEnds(how),
           UNCHANGED <<runToken, first, calls>>
    PROVE  ChainIndInv'
<1> USE DEF ChainIndInv, ChainInv
<1> DEFINE record == [how |-> how, new |-> current]
<1>1. /\ log' = Append(log, record) /\ UNCHANGED <<current, pos, requested>> /\ pc' = "failed"
      /\ record \in Turns /\ record.how # "replace"
  BY DEF ChainEnds, Record, ChainTypeOK, Turns
<1>2. log \in Seq(Turns) /\ Len(log) = pos - 1 /\ pos \in 1..Handlers /\ Handlers \in Nat
  BY ChainAssumption DEF ChainTypeOK, ChainShape, Active
<1>3. log' \in Seq(Turns) /\ Len(log') = pos
  BY <1>1, <1>2
<1>4. PayloadIsLastReplacement'
  BY <1>1, <1>2, OtherTurnKept DEF PayloadIsLastReplacement, ChainTypeOK
<1>5. ChainTypeOK'
  BY <1>1, <1>2, <1>3 DEF ChainTypeOK
<1> QED
  BY <1>1, <1>4, <1>5 DEF ChainShape, PassedMeansAccepted, Active

\* An accepted turn leaves the payload or replaces it.
LEMMA HandlerStep == ASSUME ChainIndInv, HandlerAccepts PROVE ChainIndInv'
<1> USE DEF ChainIndInv, ChainInv
<1>1. PICK how \in {"pass", "replace"}, payload \in Payloads :
          /\ Record(how, payload) /\ current' = payload
          /\ how = "pass" => payload = current
  BY DEF HandlerAccepts, ChainTypeOK
<1> DEFINE record == [how |-> how, new |-> payload]
<1>2. /\ log' = Append(log, record) /\ record \in Turns
      /\ GoesOn(pos, record)
  BY <1>1 DEF Record, Turns, GoesOn, Failures
<1>3. /\ log \in Seq(Turns) /\ Len(log) = pos - 1 /\ pos \in 1..Handlers
      /\ Handlers \in Nat /\ calls <= pos
  BY ChainAssumption DEF ChainTypeOK, ChainShape, HandlerAccepts, Active
<1>4. /\ log' \in Seq(Turns) /\ Len(log') = pos /\ log'[pos] = record
      /\ \A i \in 1..(pos - 1) : log'[i] = log[i]
  BY <1>2, <1>3
<1>5. /\ pos' = pos + 1 /\ requested' = FALSE
      /\ pc' = IF pos = Handlers THEN "passed" ELSE "turn"
      /\ UNCHANGED <<runToken, first, calls>>
  BY DEF HandlerAccepts, NextTurn
<1>6. PayloadIsLastReplacement'
  <2>1. CASE how = "replace"
    BY <1>1, <1>2, <1>3, <1>5, <2>1, ReplacementLast DEF PayloadIsLastReplacement
  <2>2. CASE how = "pass"
    BY <1>1, <1>2, <1>3, <1>5, <2>2, OtherTurnKept DEF PayloadIsLastReplacement
  <2> QED
    BY <2>1, <2>2
<1>7. ChainTypeOK'
  <2>1. pos' \in 1..(Handlers + 1) /\ Len(log') <= Handlers
    BY <1>3, <1>4, <1>5
  <2> QED
    BY <1>1, <1>4, <1>5, <2>1 DEF ChainTypeOK
<1>8. \A i \in 1..pos : GoesOn(i, log'[i])
  BY <1>2, <1>3, <1>4 DEF ChainShape, HandlerAccepts
<1>9. ChainShape' /\ PassedMeansAccepted'
  BY <1>3, <1>4, <1>5, <1>8 DEF ChainShape, PassedMeansAccepted, Active, GoesOn
<1> QED
  BY <1>6, <1>7, <1>9

\* Before the first turn, and while a call is polled, nothing is recorded.
LEMMA SilentStep ==
    ASSUME ChainIndInv, Dispatch \/ Cancel \/ PollsToken \/ CallPending
    PROVE  ChainIndInv'
<1> USE DEF ChainIndInv, ChainInv
<1>1. UNCHANGED <<pos, current, log, first>>
  BY DEF Dispatch, Cancel, PollsToken, CallPending
<1>2. PayloadIsLastReplacement'
  BY <1>1 DEF PayloadIsLastReplacement
<1>3. Len(log) \in Nat /\ pos \in Nat /\ Handlers \in Nat /\ calls \in Nat
  BY ChainAssumption DEF ChainTypeOK
<1>4. ASSUME Dispatch \/ Cancel \/ PollsToken PROVE ChainTypeOK' /\ ChainShape'
  <2>1. UNCHANGED <<requested, calls>> /\ runToken' \in BOOLEAN
    BY <1>4 DEF Dispatch, Cancel, PollsToken, ChainTypeOK
  <2>2. CASE Dispatch
    BY <1>1, <2>1, <2>2 DEF Dispatch, ChainTypeOK, ChainShape, Active
  <2>3. CASE Cancel
    BY <1>1, <2>1, <2>3 DEF Cancel, ChainTypeOK, ChainShape, Active
  <2>4. CASE PollsToken
    BY <1>1, <2>1, <2>4 DEF PollsToken, ChainTypeOK, ChainShape, Active
  <2> QED
    BY <1>4, <2>2, <2>3, <2>4
<1>5. ASSUME CallPending PROVE ChainTypeOK' /\ ChainShape'
  <2>1. calls' \in 0..Handlers /\ calls' <= Len(log) + IF requested' THEN 1 ELSE 0
    <3>1. Len(log) < Handlers /\ calls <= Len(log) + IF requested THEN 1 ELSE 0
      BY <1>3, <1>5 DEF CallPending, ChainShape, Active
    <3>2. CASE requested
      BY <1>3, <1>5, <3>1, <3>2 DEF CallPending, ChainTypeOK
    <3>3. CASE ~requested /\ requested'
      BY <1>3, <1>5, <3>1, <3>3 DEF CallPending, ChainTypeOK
    <3>4. CASE ~requested /\ ~requested'
      BY <1>3, <1>5, <3>1, <3>4 DEF CallPending, ChainTypeOK
    <3> QED
      BY <3>2, <3>3, <3>4
  <2>2. requested' \in BOOLEAN /\ pc' = "waiting" /\ runToken' = runToken
    BY <1>5 DEF CallPending, ChainTypeOK
  <2> QED
    BY <1>1, <1>5, <2>1, <2>2 DEF CallPending, ChainTypeOK, ChainShape, Active
<1>6. PassedMeansAccepted'
  BY DEF Dispatch, Cancel, PollsToken, CallPending, PassedMeansAccepted
<1> QED
  BY <1>2, <1>4, <1>5, <1>6

\* Every step of a chain.
LEMMA ChainIndStep == ChainIndInv /\ [ChainNext]_chainVars => ChainIndInv'
<1> SUFFICES ASSUME ChainIndInv, [ChainNext]_chainVars PROVE ChainIndInv'
  OBVIOUS
<1>1. CASE Dispatch \/ Cancel \/ PollsToken \/ CallPending
  BY <1>1, SilentStep
<1>2. CASE PayloadTooLarge \/ CallCut \/ HandlerErrs \/ HandlerAnswersInvalid \/ HandlerTimesOut
  BY <1>2, FailureStep DEF PayloadTooLarge, CallCut, HandlerErrs, HandlerAnswersInvalid,
     HandlerTimesOut, Active, Failures
<1>3. CASE SeesCancel \/ HandlerRejects
  BY <1>3, EndStep DEF SeesCancel, HandlerRejects, Active
<1>4. CASE HandlerAccepts
  BY <1>4, HandlerStep
<1>5. CASE UNCHANGED chainVars
  BY <1>5 DEF chainVars, ChainIndInv, ChainInv, ChainTypeOK, ChainShape, Active, GoesOn,
     PayloadIsLastReplacement, LastReplacement, PassedMeansAccepted
<1> QED
  BY <1>1, <1>2, <1>3, <1>4, <1>5 DEF ChainNext

-----------------------------------------------------------------------------

\* The payload of a chain of any length is the last valid replacement, and a
\* chain that passed was accepted by every handler that may not fail (dispatch).
THEOREM ChainInvariant == ChainSpec => []ChainInv
<1>1. ChainInit => ChainIndInv
  BY InitChainIndInv
<1>2. ChainIndInv /\ [ChainNext]_chainVars => ChainIndInv'
  BY ChainIndStep
<1>3. ChainIndInv => ChainInv
  BY DEF ChainIndInv
<1> QED
  BY <1>1, <1>2, <1>3, PTL DEF ChainSpec

-----------------------------------------------------------------------------
(* AuditSink.                                                              *)

\* The rows that have left the channel.
Left == Len(accepted) - Len(channel)

\* A record is accepted once, at the end of those accepted before it.
AcceptedOnce ==
    /\ \A k \in 1..Len(accepted) : event[accepted[k]] = "accepted"
    /\ \A k, l \in 1..Len(accepted) : accepted[k] = accepted[l] => k = l

\* The channel holds the end of what was accepted.
Waiting ==
    /\ Len(channel) <= Len(accepted)
    /\ \A i \in 1..Len(channel) : channel[i] = accepted[Left + i]

\* What has left the channel is in flight, in the file or lost.
Taken ==
    /\ inFlight # Nothing => Left >= 1 /\ inFlight = accepted[Left]
    /\ \A k \in 1..Left :
         \/ accepted[k] \in lost \/ accepted[k] = inFlight
         \/ \E i \in 1..Len(file) : file[i] = accepted[k]
    /\ \A r \in lost : \E k \in 1..Left : accepted[k] = r
    /\ \A i \in 1..Len(file) : \E k \in 1..Left :
         accepted[k] = file[i] /\ (inFlight # Nothing => k < Left)
    /\ \A i, j \in 1..Len(file), k, l \in 1..Len(accepted) :
         i < j /\ file[i] = accepted[k] /\ file[j] = accepted[l] => k < l

\* What an error has cost and may still cost.
LossCount ==
    /\ IsFiniteSet(lost)
    /\ Cardinality(lost) + (IF ioError THEN 1 ELSE 0) + (IF torn THEN 1 ELSE 0) <= 3 * errors

\* The sink is closed before its writer ends, and the writer before the drain.
EndOrder ==
    /\ closer = "none" <=> tx
    /\ writer # "writing" =>
         ~tx /\ channel = <<>> /\ \A r \in Records : event[r] # "sending"
    /\ writer = "ended" => inFlight = Nothing
    /\ closer = "drained" => writer = "ended"

SinkIndInv == SinkTypeOK /\ AcceptedOnce /\ Waiting /\ Taken /\ LossCount /\ EndOrder

-----------------------------------------------------------------------------
(* Sequences.                                                              *)

\* The positions of the pipeline are numbers, the rows in it are records.
LEMMA Positions ==
    ASSUME SinkTypeOK, Waiting
    PROVE  /\ Len(accepted) \in Nat /\ Len(channel) \in Nat /\ Len(file) \in Nat
           /\ Left \in 0..Len(accepted) /\ Len(accepted) = Left + Len(channel)
           /\ \A k \in 1..Len(accepted) : accepted[k] \in Records
           /\ \A i \in 1..Len(file) : file[i] \in Records
<1>1. /\ Len(accepted) \in Nat /\ Len(channel) \in Nat /\ Len(file) \in Nat
      /\ \A k \in 1..Len(accepted) : accepted[k] \in Records
      /\ \A i \in 1..Len(file) : file[i] \in Records
  BY SeqFacts DEF SinkTypeOK
<1> QED
  BY <1>1 DEF Left, Waiting

\* Losing a row costs at most one.
LEMMA OneMoreLost ==
    ASSUME NEW S, IsFiniteSet(S), NEW r
    PROVE  /\ IsFiniteSet(S \cup {r}) /\ Cardinality(S) \in Nat
           /\ Cardinality(S \cup {r}) \in {Cardinality(S), Cardinality(S) + 1}
BY FS_AddElement, FS_CardinalityType

-----------------------------------------------------------------------------
(* The steps.                                                              *)

\* A record the channel takes was not accepted before.
LEMMA AcceptStep ==
    ASSUME SinkIndInv, NEW r \in Records, WriteAccepted(r) PROVE SinkIndInv'
<1> USE DEF SinkIndInv, writerVars
<1>1. /\ event[r] = "sending" /\ event' = [event EXCEPT ![r] = "accepted"]
      /\ channel \in Seq(Records) /\ accepted \in Seq(Records)
      /\ channel' = Append(channel, r) /\ accepted' = Append(accepted, r)
      /\ Len(channel) < ChannelRoom /\ UNCHANGED <<tx, flag, writerVars, closer>>
  BY DEF WriteAccepted, SinkTypeOK
<1>2. /\ channel' \in Seq(Records) /\ Len(channel') = Len(channel) + 1
      /\ channel'[Len(channel) + 1] = r /\ \A i \in 1..Len(channel) : channel'[i] = channel[i]
  BY <1>1, SeqFacts
<1>3. /\ accepted' \in Seq(Records) /\ Len(accepted') = Len(accepted) + 1
      /\ accepted'[Len(accepted) + 1] = r
      /\ \A k \in 1..Len(accepted) : accepted'[k] = accepted[k]
  BY <1>1, SeqFacts
<1>4. Left' = Left
  BY <1>2, <1>3, Positions DEF Left
<1>5. SinkTypeOK'
  BY <1>1, <1>2, <1>3, Positions, ChannelAssumption DEF SinkTypeOK
<1>6. AcceptedOnce'
  <2>1. \A k \in 1..Len(accepted) : accepted[k] \in Records /\ accepted[k] # r
    BY <1>1, Positions DEF AcceptedOnce
  <2>2. \A k \in 1..Len(accepted') : k \in 1..Len(accepted) \/ k = Len(accepted) + 1
    BY <1>3, Positions
  <2>3. event'[r] = "accepted" /\ \A q \in Records \ {r} : event'[q] = event[q]
    BY <1>1 DEF SinkTypeOK
  <2> QED
    BY <1>3, <2>1, <2>2, <2>3 DEF AcceptedOnce
<1>7. Waiting'
  <2>1. ASSUME NEW i \in 1..Len(channel') PROVE channel'[i] = accepted'[Left + i]
    <3>1. CASE i \in 1..Len(channel)
      <4>1. Left + i \in 1..Len(accepted) /\ channel[i] = accepted[Left + i]
        BY <3>1, Positions DEF Waiting
      <4> QED
        BY <1>2, <1>3, <3>1, <4>1
    <3>2. CASE i = Len(channel) + 1
      <4>1. Left + i = Len(accepted) + 1
        BY <3>2, Positions
      <4> QED
        BY <1>2, <1>3, <3>2, <4>1
    <3> QED
      BY <1>2, <3>1, <3>2, Positions
  <2> QED
    BY <1>2, <1>3, <1>4, <2>1, Positions DEF Waiting
<1>8. Taken'
  <2>1. r \notin lost /\ \A i \in 1..Len(file) : file[i] # r
    BY <1>1, Positions DEF Taken, AcceptedOnce
  <2>2. \A k \in 1..Left : accepted'[k] = accepted[k]
    BY <1>3, Positions
  <2>3. inFlight' = inFlight /\ lost' = lost /\ file' = file
    BY <1>1
  <2>4. \A i, j \in 1..Len(file), k, l \in 1..Len(accepted') :
           i < j /\ file[i] = accepted'[k] /\ file[j] = accepted'[l] => k < l
    <3> SUFFICES ASSUME NEW i \in 1..Len(file), NEW j \in 1..Len(file),
                        NEW k \in 1..Len(accepted'), NEW l \in 1..Len(accepted'),
                        i < j, file[i] = accepted'[k], file[j] = accepted'[l]
                 PROVE  k < l
      OBVIOUS
    <3>1. k \in 1..Len(accepted) /\ l \in 1..Len(accepted)
      BY <1>3, <2>1, Positions
    <3> QED
      BY <1>3, <3>1 DEF Taken
  <2>5. inFlight # Nothing => Left >= 1 /\ inFlight = accepted'[Left]
    BY <2>2, Positions DEF Taken
  <2>6. \A k \in 1..Left : \/ accepted'[k] \in lost \/ accepted'[k] = inFlight
                           \/ \E i \in 1..Len(file) : file[i] = accepted'[k]
    BY <2>2 DEF Taken
  <2>7. \A q \in lost : \E k \in 1..Left : accepted'[k] = q
    BY <2>2 DEF Taken
  <2>8. \A i \in 1..Len(file) : \E k \in 1..Left :
           accepted'[k] = file[i] /\ (inFlight # Nothing => k < Left)
    BY <2>2 DEF Taken
  <2> QED
    BY <1>4, <2>3, <2>4, <2>5, <2>6, <2>7, <2>8 DEF Taken
<1>9. LossCount' /\ EndOrder'
  BY <1>1 DEF LossCount, EndOrder, SinkTypeOK
<1> QED
  BY <1>5, <1>6, <1>7, <1>8, <1>9

\* The writer takes the next row into flight, or loses it to an old error.
LEMMA TakeStep == ASSUME SinkIndInv, RowTaken PROVE SinkIndInv'
<1> USE DEF SinkIndInv
<1>1. /\ writer = "writing" /\ inFlight = Nothing /\ channel # <<>> /\ channel' = Tail(channel)
      /\ channel \in Seq(Records)
      /\ UNCHANGED <<event, tx, flag, accepted, writer, file, torn, errors, closer>>
  BY DEF RowTaken, SinkTypeOK
<1>2. /\ Len(channel) \in Nat \ {0} /\ Head(channel) \in Records /\ Head(channel) = channel[1]
      /\ channel' \in Seq(Records) /\ Len(channel') = Len(channel) - 1
      /\ \A i \in 1..(Len(channel) - 1) : channel'[i] = channel[i + 1]
  BY <1>1, SeqFacts
<1>3. Left' = Left + 1 /\ Left + 1 \in 1..Len(accepted) /\ accepted[Left + 1] = Head(channel)
  BY <1>1, <1>2, Positions DEF Left, Waiting
<1>4. SinkTypeOK'
  <2>1. Len(channel') <= ChannelRoom
    BY <1>2, ChannelAssumption DEF SinkTypeOK
  <2>2. /\ inFlight' \in Records \cup {Nothing} /\ lost' \subseteq Records /\ ioError' \in BOOLEAN
    BY <1>1, <1>2 DEF RowTaken, SinkTypeOK
  <2> QED
    BY <1>1, <1>2, <2>1, <2>2 DEF SinkTypeOK
<1>5. AcceptedOnce'
  BY <1>1 DEF AcceptedOnce
<1>6. Waiting'
  BY <1>1, <1>2, <1>3, Positions DEF Waiting
<1>7. Taken'
  <2>1. \/ lost' = lost \cup {Head(channel)} /\ inFlight' = Nothing
        \/ lost' = lost /\ inFlight' = Head(channel)
    BY <1>1 DEF RowTaken
  <2>2. \A k \in 1..Left : accepted'[k] = accepted[k] /\ k < Left' /\ k \in 1..Left'
    BY <1>1, <1>3, Positions
  <2>3. \A k \in 1..Left' : k \in 1..Left \/ k = Left + 1
    BY <1>3, Positions
  <2>4. \A k \in 1..Left : accepted[k] \in Records /\ accepted[k] # Nothing
    BY Positions, NothingAssumption
  <2>5. /\ inFlight' # Nothing => Left' >= 1 /\ inFlight' = accepted'[Left']
        /\ \A r \in lost' : \E k \in 1..Left' : accepted'[k] = r
    BY <1>1, <1>3, <2>1, <2>2, Positions DEF Taken
  <2>6. \A k \in 1..Left' :
         \/ accepted'[k] \in lost' \/ accepted'[k] = inFlight'
         \/ \E i \in 1..Len(file') : file'[i] = accepted'[k]
    BY <1>1, <1>3, <2>1, <2>2, <2>3, <2>4 DEF Taken
  <2>7. \A i \in 1..Len(file') : \E k \in 1..Left' :
         accepted'[k] = file'[i] /\ (inFlight' # Nothing => k < Left')
    BY <1>1, <2>2 DEF Taken
  <2> QED
    BY <1>1, <2>5, <2>6, <2>7 DEF Taken
<1>8. LossCount'
  <2>1. CASE ioError
    <3>1. lost' = lost \cup {Head(channel)} /\ ioError' = FALSE
      BY <2>1 DEF RowTaken
    <3>2. /\ IsFiniteSet(lost') /\ Cardinality(lost) \in Nat
          /\ Cardinality(lost') \in {Cardinality(lost), Cardinality(lost) + 1}
      BY <3>1, OneMoreLost DEF LossCount
    <3> QED
      BY <1>1, <2>1, <3>1, <3>2 DEF LossCount, SinkTypeOK
  <2>2. CASE ~ioError
    BY <1>1, <2>2 DEF RowTaken, LossCount
  <2> QED
    BY <2>1, <2>2
<1>9. EndOrder'
  BY <1>1 DEF EndOrder
<1> QED
  BY <1>4, <1>5, <1>6, <1>7, <1>8, <1>9

\* The row in flight is the newest that left the channel: it is appended to the
\* file behind all others, or shares the line of a torn one and is lost.
LEMMA WrittenStep == ASSUME SinkIndInv, RowWritten PROVE SinkIndInv'
<1> USE DEF SinkIndInv
<1>1. /\ inFlight \in Records /\ inFlight' = Nothing /\ torn' = FALSE /\ inFlight # Nothing
      /\ UNCHANGED <<event, tx, channel, flag, accepted, writer, ioError, errors, closer>>
  BY DEF RowWritten, SinkTypeOK, sinkVars
<1>2. Left' = Left /\ Left \in 1..Len(accepted) /\ accepted[Left] = inFlight
  BY <1>1, Positions DEF Left, Taken
<1>3. AcceptedOnce' /\ Waiting' /\ EndOrder'
  BY <1>1, <1>2 DEF AcceptedOnce, Waiting, EndOrder
<1>4. CASE torn
  <2>1. lost' = lost \cup {inFlight} /\ file' = file
    BY <1>4 DEF RowWritten
  <2>2. SinkTypeOK'
    BY <1>1, <2>1 DEF SinkTypeOK
  <2>3. Taken'
    BY <1>1, <1>2, <2>1, Positions DEF Taken
  <2>4. /\ IsFiniteSet(lost') /\ Cardinality(lost) \in Nat
        /\ Cardinality(lost') \in {Cardinality(lost), Cardinality(lost) + 1}
    BY <2>1, OneMoreLost DEF LossCount
  <2>5. LossCount'
    BY <1>1, <1>4, <2>4 DEF LossCount, SinkTypeOK
  <2> QED
    BY <1>3, <2>2, <2>3, <2>5
<1>5. CASE ~torn
  <2>1. lost' = lost /\ file' = Append(file, inFlight) /\ file \in Seq(Records)
    BY <1>5 DEF RowWritten, SinkTypeOK
  <2>2. /\ file' \in Seq(Records) /\ Len(file') = Len(file) + 1 /\ file'[Len(file) + 1] = inFlight
        /\ \A i \in 1..Len(file) : file'[i] = file[i]
    BY <1>1, <2>1, SeqFacts
  <2>3. SinkTypeOK'
    BY <1>1, <2>1, <2>2 DEF SinkTypeOK
  <2>4. \A i \in 1..Len(file') : i \in 1..Len(file) \/ i = Len(file) + 1
    BY <2>2, Positions
  <2>5. \A k \in 1..Left :
          accepted[k] \in lost \/ \E i \in 1..Len(file') : file'[i] = accepted[k]
    <3> SUFFICES ASSUME NEW k \in 1..Left, accepted[k] \notin lost
                 PROVE  \E i \in 1..Len(file') : file'[i] = accepted[k]
      OBVIOUS
    <3>1. CASE accepted[k] = inFlight
      BY <2>2, <3>1, Positions
    <3>2. CASE accepted[k] # inFlight
      BY <2>2, <3>2, Positions DEF Taken
    <3> QED
      BY <3>1, <3>2
  <2>6. \A i \in 1..Len(file') : \E k \in 1..Left : accepted[k] = file'[i]
    BY <1>2, <2>2, <2>4, Positions DEF Taken
  <2>7. \A i, j \in 1..Len(file'), k, l \in 1..Len(accepted) :
           i < j /\ file'[i] = accepted[k] /\ file'[j] = accepted[l] => k < l
    <3> SUFFICES ASSUME NEW i \in 1..Len(file'), NEW j \in 1..Len(file'),
                        NEW k \in 1..Len(accepted), NEW l \in 1..Len(accepted),
                        i < j, file'[i] = accepted[k], file'[j] = accepted[l]
                 PROVE  k < l
      OBVIOUS
    <3>1. i \in 1..Len(file)
      BY <2>2, Positions
    <3>2. CASE j \in 1..Len(file)
      BY <2>2, <3>1, <3>2 DEF Taken
    <3>3. CASE j = Len(file) + 1
      <4>1. l = Left
        BY <1>2, <2>2, <3>3 DEF AcceptedOnce
      <4>2. PICK m \in 1..Left : accepted[m] = file[i] /\ m < Left
        BY <1>1, <3>1 DEF Taken
      <4>3. k = m
        BY <1>2, <2>2, <3>1, <4>2, Positions DEF AcceptedOnce
      <4> QED
        BY <4>1, <4>2, <4>3
    <3> QED
      BY <2>4, <3>2, <3>3
  <2>8. Taken'
    BY <1>1, <1>2, <2>1, <2>5, <2>6, <2>7 DEF Taken
  <2>9. LossCount'
    BY <1>1, <1>5, <2>1 DEF LossCount
  <2> QED
    BY <1>3, <2>3, <2>8, <2>9
<1> QED
  BY <1>4, <1>5

\* A failed write loses its row, leaves an error to be told and perhaps a torn
\* line: three losses at most.
LEMMA FailsStep == ASSUME SinkIndInv, RowFails PROVE SinkIndInv'
<1> USE DEF SinkIndInv
<1>1. /\ inFlight \in Records /\ inFlight' = Nothing /\ lost' = lost \cup {inFlight}
      /\ torn' \in BOOLEAN /\ ioError' = TRUE /\ errors' = errors + 1 /\ inFlight # Nothing
      /\ UNCHANGED <<event, tx, channel, flag, accepted, writer, file, closer>>
  BY DEF RowFails, SinkTypeOK, sinkVars
<1>2. Left' = Left /\ Left \in 1..Len(accepted) /\ accepted[Left] = inFlight
  BY <1>1, Positions DEF Left, Taken
<1>3. SinkTypeOK' /\ AcceptedOnce' /\ Waiting' /\ EndOrder'
  BY <1>1, <1>2 DEF SinkTypeOK, AcceptedOnce, Waiting, EndOrder
<1>4. Taken'
  BY <1>1, <1>2, Positions DEF Taken
<1>5. /\ IsFiniteSet(lost') /\ Cardinality(lost) \in Nat
      /\ Cardinality(lost') \in {Cardinality(lost), Cardinality(lost) + 1}
  BY <1>1, OneMoreLost DEF LossCount
<1>6. LossCount'
  <2>1. errors \in Nat /\ Cardinality(lost) <= 3 * errors
    BY <1>5 DEF LossCount, SinkTypeOK
  <2> QED
    BY <1>1, <1>5, <2>1 DEF LossCount
<1> QED
  BY <1>3, <1>4, <1>6

\* Where the rows are does not change when no row moves.
LEMMA TakenKept ==
    ASSUME Taken, UNCHANGED <<accepted, inFlight, file, lost, Left>>
    PROVE  Taken'
BY DEF Taken

\* The rows stay where they are while callers come and go, and while sink and
\* writer close.
LEMMA CloseStep ==
    ASSUME SinkIndInv,
           \/ \E r \in Records : WriteBegins(r) \/ WriteDropped(r)
           \/ ChannelEnds \/ Flushed \/ Shutdown \/ DropSink \/ Drained \/ DropTimesOut
    PROVE  SinkIndInv'
<1> USE DEF SinkIndInv, writerVars, sinkVars
<1>1. UNCHANGED <<channel, accepted, inFlight, file, torn, lost, errors>>
  BY DEF WriteBegins, WriteDropped, ChannelEnds, Flushed, Shutdown, DropSink, Close, Drained,
     DropTimesOut
<1>2. SinkTypeOK'
  BY DEF WriteBegins, WriteDropped, ChannelEnds, Flushed, Shutdown, DropSink, Close, Drained,
     DropTimesOut, SinkTypeOK
<1>3. AcceptedOnce'
  <2>1. \A r \in Records : event[r] = "accepted" => event'[r] = "accepted"
    BY DEF WriteBegins, WriteDropped, ChannelEnds, Flushed, Shutdown, DropSink, Close, Drained,
       DropTimesOut, SinkTypeOK
  <2> QED
    BY <1>1, <2>1, Positions DEF AcceptedOnce
<1>4. Waiting' /\ Taken'
  <2>1. Left' = Left
    BY <1>1 DEF Left
  <2>2. Waiting'
    BY <1>1, <2>1 DEF Waiting
  <2>3. Taken'
    <3>1. UNCHANGED <<accepted, inFlight, file, lost, Left>>
      BY <1>1, <2>1
    <3> QED
      BY <3>1, TakenKept
  <2> QED
    BY <2>2, <2>3
<1>5. LossCount'
  <2>1. ioError' => ioError
    BY DEF WriteBegins, WriteDropped, ChannelEnds, Flushed, Shutdown, DropSink, Close, Drained,
       DropTimesOut
  <2>2. Cardinality(lost) \in Nat /\ errors \in Nat
    BY FS_CardinalityType DEF LossCount, SinkTypeOK
  <2> QED
    BY <1>1, <2>1, <2>2 DEF LossCount
<1>6. EndOrder'
  <2>1. ASSUME NEW r \in Records, WriteBegins(r) \/ WriteDropped(r) PROVE EndOrder'
    BY <2>1 DEF WriteBegins, WriteDropped, EndOrder, SinkTypeOK
  <2>2. CASE ChannelEnds \/ Flushed
    BY <2>2 DEF ChannelEnds, Flushed, EndOrder
  <2>3. CASE Shutdown \/ DropSink \/ Drained \/ DropTimesOut
    BY <2>3 DEF Shutdown, DropSink, Close, Drained, DropTimesOut, EndOrder
  <2> QED
    BY <2>1, <2>2, <2>3
<1> QED
  BY <1>2, <1>3, <1>4, <1>5, <1>6

-----------------------------------------------------------------------------
(* The invariant.                                                          *)

\* The sink starts with an empty channel and an empty file.
LEMMA InitSinkIndInv == SinkInit => SinkIndInv
<1> SUFFICES ASSUME SinkInit PROVE SinkIndInv
  OBVIOUS
<1>1. SinkTypeOK
  <2>1. /\ channel \in Seq(Records) /\ file \in Seq(Records) /\ accepted \in Seq(Records)
        /\ Len(channel) <= ChannelRoom
    BY ChannelAssumption DEF SinkInit
  <2> QED
    BY <2>1 DEF SinkInit, SinkTypeOK
<1>2. LossCount
  BY FS_EmptySet DEF SinkInit, LossCount
<1>3. AcceptedOnce /\ Waiting /\ Taken /\ EndOrder
  BY DEF SinkInit, AcceptedOnce, Waiting, Taken, EndOrder, Left
<1> QED
  BY <1>1, <1>2, <1>3 DEF SinkIndInv

\* Every step of a producer or of the writer task keeps the invariant.
LEMMA SinkIndStep == SinkIndInv /\ [SinkNext]_auditVars => SinkIndInv'
<1> SUFFICES ASSUME SinkIndInv, [SinkNext]_auditVars PROVE SinkIndInv'
  OBVIOUS
<1>1. CASE SinkNext
  BY <1>1, AcceptStep, TakeStep, WrittenStep, FailsStep, CloseStep DEF SinkNext, WriterStep
<1>2. CASE UNCHANGED auditVars
  BY <1>2 DEF SinkIndInv, SinkTypeOK, AcceptedOnce, Waiting, Taken, LossCount, EndOrder, Left,
     auditVars, sinkVars, writerVars
<1> QED
  BY <1>1, <1>2

\* The file keeps the order of the accepted rows and each at most once, a
\* shutdown leaves none on its way, and an I/O error costs at most three
\* (FileJsonlSink and its writer task).
THEOREM FileInvariant == SinkSpec => []FileInv
<1>1. SinkIndInv => FileInv
  <2> SUFFICES ASSUME SinkIndInv PROVE FileInv
    OBVIOUS
  <2> USE DEF SinkIndInv
  <2>1. /\ ToSet(file) = {file[i] : i \in 1..Len(file)}
        /\ ToSet(accepted) = {accepted[k] : k \in 1..Len(accepted)}
    BY DEF ToSet, SinkTypeOK
  <2>2. \A k \in 1..Left : k \in 1..Len(accepted)
    BY Positions
  <2>3. FileInOrder
    BY <2>1, <2>2 DEF Taken, FileInOrder
  <2>4. DrainedIsComplete
    <3> SUFFICES ASSUME closer = "drained" PROVE ToSet(accepted) = ToSet(file) \cup lost
      BY DEF DrainedIsComplete
    <3>1. inFlight = Nothing /\ Len(channel) = 0 /\ Left = Len(accepted)
      BY Positions DEF EndOrder
    <3>2. \A k \in 1..Len(accepted) : accepted[k] # Nothing
      BY Positions, NothingAssumption
    <3> QED
      BY <2>1, <2>2, <3>1, <3>2 DEF Taken
  <2>5. ThreeLostPerError
    <3>1. Cardinality(lost) \in Nat /\ errors \in Nat
      BY FS_CardinalityType DEF LossCount, SinkTypeOK
    <3> QED
      BY <3>1 DEF LossCount, ThreeLostPerError
  <2> QED
    BY <2>3, <2>4, <2>5 DEF FileInv
<1> QED
  BY <1>1, InitSinkIndInv, SinkIndStep, PTL DEF SinkSpec

-----------------------------------------------------------------------------
(* StudioJobs.                                                             *)

Watched == {"waiting", "signalled", "reaped", "cancelled"}
Over == {"settled", "announced", "parked"}

\* A run from its start to its last verdict.
RunShape ==
    \A r \in Runs :
        /\ worker[r] = "none" <=> r > started
        /\ worker[r] = "none" => sender[r] = "armed" /\ status[r] = "none"
        /\ status[r] = "running" <=> worker[r] \in Watched
        /\ status[r] = "running" => active = r
        /\ child[r] \in {"alive", "interrupted"} => worker[r] \in {"waiting", "signalled"}
        /\ read[r] <= written[r] /\ (worker[r] \in Over => read[r] = written[r])
        /\ worker[r] \in {"signalled", "cancelled"} \/ sender[r] = "sent" \/ status[r] = "cancelled"
              => asked[r]
        /\ sender[r] = "dropped" => worker[r] \in Over

\* The slot holds the newest run, or it was the last to hold it.
SlotShape == started # 0 => active = started \/ (active = None /\ last = started)

\* The newest event of a run.
Newest(r) == IF worker[r] \in {"announced", "parked"} THEN Done ELSE read[r]

Sorted(s) == \A i, j \in 1..Len(s) : i <= j => s[i] <= s[j]

HistoryShape ==
    /\ history \in [Runs -> Seq(Events)]
    /\ \A r \in Runs :
         /\ Sorted(history[r]) /\ \A i \in 1..Len(history[r]) : history[r][i] <= Newest(r)
         /\ pending[r] # None => pending[r] = Newest(r)
         /\ worker[r] \in {"announced", "parked"} =>
              history[r] # <<>> /\ history[r][Len(history[r])] = Done

\* What is on its way to a viewer comes in order, after what it was shown.
View(v) ==
    /\ stream[v] \in {"closed", "handle"} => backlog[v] = <<>>
    /\ stream[v] # "live" => queue[v] = <<>> /\ shown[v] = None
    /\ stream[v] # "closed" => viewing[v] \in Runs /\ shown[v] <= Newest(viewing[v])
    /\ Sorted(backlog[v]) /\ Sorted(queue[v])
    /\ \A i \in 1..Len(backlog[v]) :
         /\ shown[v] <= backlog[v][i] /\ backlog[v][i] <= Newest(viewing[v])
         /\ \A j \in 1..Len(queue[v]) : backlog[v][i] <= queue[v][j]
    /\ \A j \in 1..Len(queue[v]) : shown[v] <= queue[v][j] /\ queue[v][j] <= Newest(viewing[v])

ViewShape ==
    /\ backlog \in [Viewers -> Seq(Events)] /\ queue \in [Viewers -> Seq(Events)]
    /\ \A v \in Viewers : View(v)

StudioIndInv == StudioTypeOK /\ RunShape /\ SlotShape /\ HistoryShape /\ ViewShape

-----------------------------------------------------------------------------
(* Sequences.                                                              *)

\* The two buffers of a run work alike: a full one forgets its oldest event.
Pushed(s, x, room) == IF Len(s) >= room THEN Append(Tail(s), x) ELSE Append(s, x)

\* What is added at the end, not below what is there, keeps the buffer sorted.
LEMMA PushedSorted ==
    ASSUME NEW room \in Nat \ {0}, NEW s \in Seq(Events), NEW x \in Events,
           NEW t, t = Pushed(s, x, room),
           Sorted(s), \A i \in 1..Len(s) : s[i] <= x
    PROVE  /\ t \in Seq(Events) /\ Sorted(t) /\ Len(t) \in Nat \ {0}
           /\ t[Len(t)] = x
           /\ \A i \in 1..Len(t) : t[i] = x \/ \E j \in 1..Len(s) : t[i] = s[j]
           /\ \A i \in 1..Len(t) : t[i] <= x
           /\ Len(s) <= room => Len(t) <= room
<1>1. Events \subseteq Nat
  BY StudioAssumption DEF Events, Done
<1>2. CASE Len(s) < room
  <2>1. /\ t \in Seq(Events) /\ Len(t) = Len(s) + 1 /\ t[Len(s) + 1] = x
        /\ \A i \in 1..Len(s) : t[i] = s[i] /\ s[i] \in Events
        /\ Len(s) \in Nat
    BY <1>2, SeqFacts DEF Pushed
  <2> QED
    BY <1>1, <1>2, <2>1 DEF Sorted
<1>3. CASE Len(s) >= room
  <2> DEFINE u == Tail(s)
  <2>1. /\ u \in Seq(Events) /\ Len(u) = Len(s) - 1 /\ Len(s) \in Nat \ {0}
        /\ \A i \in 1..(Len(s) - 1) : u[i] = s[i + 1] /\ s[i + 1] \in Events
    BY <1>3, SeqFacts
  <2>2. t = Append(u, x)
    BY <1>3 DEF Pushed
  <2> HIDE DEF u
  <2>3. /\ t \in Seq(Events) /\ Len(t) = Len(u) + 1 /\ t[Len(u) + 1] = x
        /\ \A i \in 1..Len(u) : t[i] = u[i]
    BY <2>1, <2>2, SeqFacts
  <2>4. Len(t) = Len(s) /\ t[Len(s)] = x
    BY <2>1, <2>3
  <2>5. \A i \in 1..(Len(s) - 1) : t[i] = s[i + 1] /\ i + 1 \in 1..Len(s)
    BY <2>1, <2>3
  <2>6. Sorted(t)
    BY <1>1, <2>1, <2>4, <2>5, SMTT(30) DEF Sorted
  <2> QED
    BY <1>1, <1>3, <2>1, <2>3, <2>4, <2>5, <2>6
<1> QED
  BY <1>2, <1>3, SeqFacts

\* What is left after the first element.
LEMMA TailSorted ==
    ASSUME NEW s \in Seq(Events), s # <<>>, Sorted(s)
    PROVE  /\ Tail(s) \in Seq(Events) /\ Sorted(Tail(s)) /\ Len(s) \in Nat \ {0}
           /\ Head(s) \in Events /\ Head(s) = s[1]
           /\ \A i \in 1..Len(Tail(s)) : Head(s) <= Tail(s)[i] /\ i + 1 \in 1..Len(s) /\ Tail(s)[i] = s[i + 1]
<1>1. /\ Tail(s) \in Seq(Events) /\ Len(Tail(s)) = Len(s) - 1 /\ Len(s) \in Nat \ {0}
      /\ \A i \in 1..(Len(s) - 1) : Tail(s)[i] = s[i + 1]
      /\ Head(s) \in Events /\ Head(s) = s[1]
  BY SeqFacts
<1> QED
  BY <1>1 DEF Sorted

-----------------------------------------------------------------------------
(* Types and the life of a run.                                            *)

\* The bounds, and where the numbers of runs and events lie.
LEMMA Numbers ==
    ASSUME StudioTypeOK
    PROVE  /\ MaxRuns \in Nat /\ MaxEvents \in Nat /\ Runs \subseteq Nat \ {0}
           /\ started \in Nat /\ Done \in Events /\ Events \subseteq Nat \ {0}
           /\ 1..MaxEvents \subseteq Events /\ Done = MaxEvents + 1
           /\ 0..started \subseteq Runs \cup {None}
BY StudioAssumption DEF Runs, Events, Done, None, StudioTypeOK

\* A step pushes the newest event of one run.
LEMMA PushStep ==
    ASSUME StudioTypeOK, RunShape, HistoryShape,
           NEW r \in Runs, EventRead(r) \/ Announce(r)
    PROVE  \E item \in Events :
             /\ Push(r, item) /\ Newest(r) <= item /\ Newest(r)' = item
             /\ EventRead(r) => item = read[r] + 1 /\ item \in 1..MaxEvents
             /\ Announce(r) => item = Done
<1>1. CASE EventRead(r)
  <2>1. /\ read' = [read EXCEPT ![r] = read[r] + 1] /\ Push(r, read[r] + 1) /\ worker' = worker
        /\ read[r] < written[r]
    BY <1>1 DEF EventRead, StudioTypeOK
  <2>2. worker[r] \notin Over /\ read[r] + 1 \in 1..MaxEvents
    BY <2>1, Numbers DEF RunShape, StudioTypeOK, Over
  <2>3. ~Announce(r)
    BY <2>2 DEF Announce, Over
  <2> QED
    BY <2>1, <2>2, <2>3, Numbers DEF Newest, Over, StudioTypeOK
<1>2. CASE Announce(r)
  <2>1. worker[r] = "settled" /\ worker'[r] = "announced" /\ Push(r, Done)
    BY <1>2 DEF Announce, StudioTypeOK
  <2>2. ~EventRead(r)
    BY <2>1 DEF EventRead, RunShape, StudioTypeOK, Over
  <2> QED
    BY <1>2, <2>1, <2>2, Numbers DEF Newest, StudioTypeOK
<1> QED
  BY <1>1, <1>2

\* What a push leaves in the history of the run, and in those of the others.
LEMMA Remembering ==
    ASSUME StudioTypeOK, HistoryShape, NEW r \in Runs, NEW item \in Events, Push(r, item),
           Newest(r) <= item
    PROVE  /\ history' \in [Runs -> Seq(Events)]
           /\ \A q \in Runs \ {r} : history'[q] = history[q] /\ pending'[q] = pending[q]
           /\ pending'[r] = item /\ pending' \in [Runs -> Events \cup {None}]
           /\ history'[r] # <<>> /\ Sorted(history'[r]) /\ Len(history'[r]) <= EventBuffer
           /\ history'[r][Len(history'[r])] = item
           /\ \A i \in 1..Len(history'[r]) : history'[r][i] <= item
<1>1. /\ history[r] \in Seq(Events) /\ Sorted(history[r]) /\ Len(history[r]) <= EventBuffer
      /\ \A i \in 1..Len(history[r]) : history[r][i] <= Newest(r)
  BY DEF HistoryShape, StudioTypeOK
<1>2. /\ Newest(r) \in Nat /\ item \in Nat
      /\ \A i \in 1..Len(history[r]) : history[r][i] \in Nat
  BY <1>1, Numbers, SeqFacts DEF Newest, StudioTypeOK
<1>3. \A i \in 1..Len(history[r]) : history[r][i] <= item
  BY <1>1, <1>2
<1>4. PICK t : t = Remembered(history[r], item)
  OBVIOUS
<1> DEFINE h == history[r]
<1>8. t = Pushed(h, item, EventBuffer)
  BY <1>4 DEF Remembered, Pushed
<1>5. /\ t \in Seq(Events) /\ Sorted(t) /\ Len(t) \in Nat \ {0} /\ t[Len(t)] = item
      /\ \A i \in 1..Len(t) : t[i] <= item
      /\ Len(t) <= EventBuffer
  <2>1. h \in Seq(Events) /\ Sorted(h) /\ Len(h) <= EventBuffer /\ \A i \in 1..Len(h) : h[i] <= item
    BY <1>1, <1>3
  <2> HIDE DEF h
  <2> QED
    BY <1>8, <2>1, PushedSorted, StudioAssumption
<1>6. t # <<>>
  BY <1>5, SeqFacts
<1>7. /\ history' = [history EXCEPT ![r] = t] /\ pending' = [pending EXCEPT ![r] = item]
  BY <1>4 DEF Push
<1> QED
  BY <1>5, <1>6, <1>7 DEF HistoryShape, StudioTypeOK

\* Every step of a worker, a viewer or the broadcast keeps the types.
LEMMA TypeStep ==
    ASSUME StudioTypeOK, RunShape, HistoryShape, ViewShape, StudioNext PROVE StudioTypeOK'
<1> USE DEF registry, process, job, views
<1>1. CASE Start
  <2>1. /\ started' = started + 1 /\ started' \in Runs /\ active' = started' /\ last' = last
        /\ started' \in 0..MaxRuns /\ active' \in 0..started' /\ last' \in 0..started'
        /\ viewing' = viewing /\ \A n \in 0..started : n \in 0..started'
    BY <1>1, Numbers DEF Start, StudioTypeOK, Runs
  <2>2. viewing' \in [Viewers -> 0..started']
    BY <2>1 DEF StudioTypeOK
  <2> QED
    BY <1>1, <2>1, <2>2 DEF Start, StudioTypeOK
<1>2. CASE CancelRun
  BY <1>2, Numbers DEF CancelRun, StudioTypeOK, None
<1>3. ASSUME NEW r \in Runs, ChildReaped(r) \/ CancelSeen(r) \/ ReapedAfterCancel(r)
      PROVE StudioTypeOK'
  BY <1>3 DEF ChildReaped, CancelSeen, ReapedAfterCancel, StudioTypeOK
<1>4. ASSUME NEW r \in Runs, Settle(r) \/ ChildExits(r) PROVE StudioTypeOK'
  <2>1. CASE Settle(r)
    <3>1. PICK result \in {"completed", "failed", "cancelled"} :
             status' = [status EXCEPT ![r] = result]
      BY <2>1 DEF Settle
    <3> QED
      BY <2>1, <3>1 DEF Settle, StudioTypeOK
  <2>2. CASE ChildExits(r)
    BY <2>2 DEF ChildExits, StudioTypeOK
  <2> QED
    BY <1>4, <2>1, <2>2
<1>5. ASSUME NEW r \in Runs, Park(r) PROVE StudioTypeOK'
  <2>1. last' \in 0..started /\ active' \in 0..started
    BY <1>5, Numbers DEF Park, StudioTypeOK, None
  <2> QED
    BY <1>5, <2>1 DEF Park, StudioTypeOK
<1>6. ASSUME NEW r \in Runs, ChildWrites(r) PROVE StudioTypeOK'
  <2>1. written' = [written EXCEPT ![r] = written[r] + 1] /\ written[r] + 1 \in 0..MaxEvents
    BY <1>6, Numbers DEF ChildWrites, StudioTypeOK
  <2>2. written' \in [Runs -> 0..MaxEvents]
    BY <2>1 DEF StudioTypeOK
  <2> QED
    BY <1>6, <2>2 DEF ChildWrites, StudioTypeOK
<1>7. ASSUME NEW r \in Runs, EventRead(r) \/ Announce(r) PROVE StudioTypeOK'
  <2>1. PICK item \in Events :
           /\ Push(r, item) /\ Newest(r) <= item
           /\ EventRead(r) => item = read[r] + 1 /\ item \in 1..MaxEvents
    BY <1>7, PushStep
  <2>2. /\ history' \in [Runs -> Seq(Events)] /\ pending' \in [Runs -> Events \cup {None}]
        /\ \A q \in Runs : Len(history'[q]) <= EventBuffer
    BY <2>1, Remembering DEF StudioTypeOK
  <2>3. read' \in [Runs -> 0..MaxEvents]
    <3>1. CASE EventRead(r)
      <4>1. read' = [read EXCEPT ![r] = read[r] + 1] /\ read[r] + 1 \in 0..MaxEvents
        BY <2>1, <3>1, Numbers DEF EventRead
      <4> QED
        BY <4>1 DEF StudioTypeOK
    <3>2. CASE Announce(r)
      BY <3>2 DEF Announce, StudioTypeOK
    <3> QED
      BY <1>7, <3>1, <3>2
  <2> QED
    BY <1>7, <2>2, <2>3, ZenonT(30) DEF EventRead, Announce, StudioTypeOK
<1>8. ASSUME NEW r \in Runs, Broadcast(r) PROVE StudioTypeOK'
  <2>1. ASSUME NEW v \in Viewers PROVE queue'[v] \in Seq(Events)
    <3>1. queue[v] \in Seq(Events) /\ pending[r] \in Events
      BY <1>8 DEF Broadcast, StudioTypeOK
    <3>2. Delivered(queue[v], pending[r]) \in Seq(Events)
      <4>1. Append(queue[v], pending[r]) \in Seq(Events)
        BY <3>1, SeqFacts
      <4>2. queue[v] # <<>> => Append(Tail(queue[v]), pending[r]) \in Seq(Events)
        BY <3>1, SeqFacts
      <4>3. Len(queue[v]) >= Capacity => queue[v] # <<>>
        BY <3>1, StudioAssumption
      <4> QED
        BY <4>1, <4>2, <4>3 DEF Delivered
    <3> QED
      BY <1>8, <3>1, <3>2 DEF Broadcast
  <2> QED
    BY <1>8, <2>1 DEF Broadcast, StudioTypeOK
<1>9. ASSUME NEW v \in Viewers, NEW r \in Runs, OpenStream(v, r) PROVE StudioTypeOK'
  <2>1. r \in 0..started
    BY <1>9 DEF OpenStream, StudioTypeOK
  <2> QED
    BY <1>9, <2>1 DEF OpenStream, StudioTypeOK
<1>10. ASSUME NEW v \in Viewers, TakeSnapshot(v) PROVE StudioTypeOK'
  <2>1. viewing[v] \in Runs
    BY <1>10 DEF TakeSnapshot, ViewShape, View
  <2> QED
    BY <1>10, <2>1 DEF TakeSnapshot, StudioTypeOK, ViewShape
<1>11. ASSUME NEW v \in Viewers, Subscribe(v) PROVE StudioTypeOK'
  BY <1>11 DEF Subscribe, StudioTypeOK
<1>12. ASSUME NEW v \in Viewers, Show(v) PROVE StudioTypeOK'
  <2>1. CASE backlog[v] # <<>>
    <3>1. Head(backlog[v]) \in Events /\ Tail(backlog[v]) \in Seq(Events)
      BY <2>1, SeqFacts DEF StudioTypeOK
    <3> QED
      BY <1>12, <2>1, <3>1, ZenonT(30) DEF Show, StudioTypeOK, ViewShape
  <2>2. CASE backlog[v] = <<>>
    <3>1. queue[v] # <<>> /\ Head(queue[v]) \in Events /\ Tail(queue[v]) \in Seq(Events)
      BY <1>12, <2>2, SeqFacts DEF Show, StudioTypeOK
    <3> QED
      BY <1>12, <2>2, <3>1 DEF Show, StudioTypeOK, ViewShape
  <2> QED
    BY <2>1, <2>2
<1> QED
  BY <1>1, <1>2, <1>3, <1>4, <1>5, <1>6, <1>7, <1>8, <1>9, <1>10, <1>11, <1>12
  DEF StudioNext, WorkerStep

\* The slot and the task of a run change together (spawn_job, the guard that frees it).
LEMMA RunStep ==
    ASSUME StudioTypeOK, RunShape, SlotShape, StudioNext PROVE RunShape' /\ SlotShape'
<1> USE DEF registry, process, job, views, Watched, Over
<1>1. CASE Start
  <2>1. /\ started' = started + 1 /\ started' \in Runs /\ active' = started'
        /\ \A r \in Runs : worker[r] \notin Watched
    <3>1. started' = started + 1 /\ started' \in Runs /\ active' = started' /\ ~Busy
      BY <1>1, Numbers DEF Start, Runs
    <3>2. ASSUME NEW r \in Runs, worker[r] \in Watched PROVE FALSE
      <4>1. status[r] = "running" /\ active = r /\ r # None
        BY <3>2, Numbers DEF RunShape, None
      <4> QED
        BY <3>1, <4>1 DEF Busy
    <3> QED
      BY <3>1, <3>2
  <2>2. RunShape'
    BY <1>1, <2>1, Numbers DEF Start, RunShape, StudioTypeOK
  <2> QED
    BY <2>1, <2>2 DEF SlotShape
<1>2. CASE CancelRun
  <2>1. active \in Runs /\ worker[active] # "none"
    BY <1>2, Numbers DEF CancelRun, RunShape, StudioTypeOK
  <2> QED
    BY <1>2, <2>1 DEF CancelRun, RunShape, SlotShape, StudioTypeOK
<1>3. ASSUME NEW r \in Runs, ChildReaped(r) \/ CancelSeen(r) \/ ReapedAfterCancel(r)
      PROVE RunShape' /\ SlotShape'
  BY <1>3 DEF ChildReaped, CancelSeen, ReapedAfterCancel, RunShape, SlotShape, StudioTypeOK
<1>4. ASSUME NEW r \in Runs, Settle(r) PROVE RunShape' /\ SlotShape'
  BY <1>4 DEF Settle, RunShape, SlotShape, StudioTypeOK
<1>5. ASSUME NEW r \in Runs, ChildExits(r) PROVE RunShape' /\ SlotShape'
  BY <1>5 DEF ChildExits, RunShape, SlotShape, StudioTypeOK
<1>6. ASSUME NEW r \in Runs, Park(r) PROVE RunShape' /\ SlotShape'
  BY <1>6, Numbers DEF Park, RunShape, SlotShape, StudioTypeOK
<1>7. ASSUME NEW r \in Runs, ChildWrites(r) PROVE RunShape' /\ SlotShape'
  BY <1>7, Numbers, SMTT(30) DEF ChildWrites, RunShape, SlotShape, StudioTypeOK
<1>8. ASSUME NEW r \in Runs, EventRead(r) PROVE RunShape' /\ SlotShape'
  BY <1>8, Numbers DEF EventRead, RunShape, SlotShape, StudioTypeOK
<1>9. ASSUME NEW r \in Runs, Announce(r) PROVE RunShape' /\ SlotShape'
  BY <1>9 DEF Announce, RunShape, SlotShape, StudioTypeOK
<1>10. ASSUME NEW r \in Runs, Broadcast(r) PROVE RunShape' /\ SlotShape'
  BY <1>10 DEF Broadcast, RunShape, SlotShape
<1>11. ASSUME NEW v \in Viewers,
              (\E r \in Runs : OpenStream(v, r)) \/ TakeSnapshot(v) \/ Subscribe(v) \/ Show(v)
       PROVE RunShape' /\ SlotShape'
  BY <1>11 DEF OpenStream, TakeSnapshot, Subscribe, Show, RunShape, SlotShape
<1> QED
  BY <1>1, <1>2, <1>3, <1>4, <1>5, <1>6, <1>7, <1>8, <1>9, <1>10, <1>11
  DEF StudioNext, WorkerStep

-----------------------------------------------------------------------------
(* The events of a run and of its viewers.                                 *)

\* Nothing but a push makes an event the newest one of its run.
LEMMA NewestSame ==
    ASSUME StudioTypeOK, RunShape, StudioNext, ~\E r \in Runs : EventRead(r) \/ Announce(r)
    PROVE  /\ \A r \in Runs : Newest(r)' = Newest(r)
           /\ \A r \in Runs : worker'[r] \in {"announced", "parked"} => worker[r] \in {"announced", "parked"}
           /\ history' = history
           /\ \A r \in Runs : pending'[r] # None => pending'[r] = pending[r]
<1> DEFINE Same == /\ read' = read /\ history' = history
                   /\ \A r \in Runs : pending'[r] # None => pending'[r] = pending[r]
                   /\ \A r \in Runs : worker'[r] \in {"announced", "parked"}
                                        <=> worker[r] \in {"announced", "parked"}
<1> USE DEF registry, process, job, views
<1>1. CASE Start
  <2>1. started' \in Runs /\ worker[started'] = "none"
    BY <1>1, Numbers DEF Start, Runs, RunShape
  <2>2. worker' = [worker EXCEPT ![started'] = "waiting"] /\ UNCHANGED <<read, history, pending>>
    BY <1>1 DEF Start
  <2> QED
    BY <2>1, <2>2 DEF StudioTypeOK, Newest
<1>2. ASSUME Same PROVE \A r \in Runs : Newest(r)' = Newest(r)
  BY <1>2 DEF Newest
<1>3. CASE CancelRun \/ \E v \in Viewers : \/ \E r \in Runs : OpenStream(v, r)
                                           \/ TakeSnapshot(v) \/ Subscribe(v) \/ Show(v)
  <2>1. Same
    BY <1>3 DEF CancelRun, OpenStream, TakeSnapshot, Subscribe, Show
  <2> QED
    BY <1>2, <2>1
<1>4. ASSUME NEW r \in Runs,
             ChildReaped(r) \/ CancelSeen(r) \/ ReapedAfterCancel(r) \/ Settle(r) \/ Park(r)
      PROVE Same
  BY <1>4 DEF ChildReaped, CancelSeen, ReapedAfterCancel, Settle, Park, StudioTypeOK
<1>5. ASSUME NEW r \in Runs, ChildWrites(r) \/ ChildExits(r) \/ Broadcast(r)
      PROVE Same
  BY <1>5 DEF ChildWrites, ChildExits, Broadcast, StudioTypeOK
<1> QED
  BY <1>1, <1>2, <1>3, <1>4, <1>5 DEF StudioNext, WorkerStep

\* The newest event of a run only grows.
LEMMA NewestGrows ==
    ASSUME StudioTypeOK, RunShape, HistoryShape, StudioNext
    PROVE  \A r \in Runs : Newest(r) \in Nat /\ Newest(r)' \in Nat /\ Newest(r) <= Newest(r)'
<1>1. \A r \in Runs : Newest(r) \in Nat
  BY Numbers DEF StudioTypeOK, Newest
<1>2. CASE \E r \in Runs : EventRead(r) \/ Announce(r)
  <2>1. PICK r \in Runs : EventRead(r) \/ Announce(r)
    BY <1>2
  <2>2. Newest(r)' \in Nat /\ Newest(r) <= Newest(r)'
    BY <2>1, PushStep, Numbers
  <2>3. \A q \in Runs \ {r} : Newest(q)' = Newest(q)
    BY <2>1 DEF EventRead, Announce, StudioTypeOK, Newest, job
  <2> QED
    BY <1>1, <2>2, <2>3
<1>3. CASE ~\E r \in Runs : EventRead(r) \/ Announce(r)
  BY <1>1, <1>3, NewestSame
<1> QED
  BY <1>2, <1>3

\* push_event() keeps a history in the order of its sequence numbers and within its bound.
LEMMA HistoryStep ==
    ASSUME StudioTypeOK, RunShape, HistoryShape, StudioNext PROVE HistoryShape'
<1>1. CASE \E r \in Runs : EventRead(r) \/ Announce(r)
  <2>1. PICK r \in Runs : EventRead(r) \/ Announce(r)
    BY <1>1
  <2>2. PICK item \in Events :
           /\ Push(r, item) /\ Newest(r) <= item /\ Newest(r)' = item
           /\ Announce(r) => item = Done
    BY <2>1, PushStep
  <2>3. /\ history' \in [Runs -> Seq(Events)]
        /\ \A q \in Runs \ {r} : history'[q] = history[q] /\ pending'[q] = pending[q]
        /\ pending'[r] = item /\ history'[r] # <<>> /\ Sorted(history'[r])
        /\ history'[r][Len(history'[r])] = item
        /\ \A i \in 1..Len(history'[r]) : history'[r][i] <= item
    BY <2>2, Remembering
  <2>4. \A q \in Runs \ {r} : Newest(q)' = Newest(q) /\ worker'[q] = worker[q]
    BY <2>1 DEF EventRead, Announce, StudioTypeOK, Newest, job
  <2>5. EventRead(r) => worker'[r] = worker[r] /\ worker[r] \notin {"announced", "parked"}
    BY Numbers DEF EventRead, RunShape, StudioTypeOK, Over
  <2> QED
    BY <2>1, <2>2, <2>3, <2>4, <2>5, ZenonT(30) DEF HistoryShape, Sorted
<1>2. CASE ~\E r \in Runs : EventRead(r) \/ Announce(r)
  BY <1>2, NewestSame DEF HistoryShape, Sorted
<1> QED
  BY <1>1, <1>2

\* Nothing happens to a viewer, while the newest event grows.
LEMMA ViewKept ==
    ASSUME StudioTypeOK, ViewShape, NEW v \in Viewers,
           viewing'[v] = viewing[v], stream'[v] = stream[v], backlog'[v] = backlog[v],
           queue'[v] = queue[v], shown'[v] = shown[v],
           \A r \in Runs : Newest(r) \in Nat /\ Newest(r)' \in Nat /\ Newest(r) <= Newest(r)'
    PROVE  View(v)'
<1>1. /\ View(v) /\ shown[v] \in Nat
      /\ \A i \in 1..Len(backlog[v]) : backlog[v][i] \in Nat
      /\ \A i \in 1..Len(queue[v]) : queue[v][i] \in Nat
  BY Numbers, SeqFacts, SMTT(30) DEF ViewShape, StudioTypeOK, None
<1>2. CASE stream[v] = "closed"
  <2>1. Len(backlog[v]) = 0 /\ Len(queue[v]) = 0
    BY <1>1, <1>2 DEF View
  <2> QED
    BY <1>1, <1>2, <2>1 DEF View, Sorted
<1>3. CASE stream[v] # "closed"
  <2>1. PICK r \in Runs : r = viewing[v]
    BY <1>1, <1>3 DEF View
  <2>2. Newest(viewing[v]) = Newest(r) /\ Newest(viewing[v])' = Newest(r)'
    BY <2>1 DEF Newest
  <2>3. Newest(viewing[v]) \in Nat /\ Newest(viewing[v])' \in Nat /\ Newest(viewing[v]) <= Newest(viewing[v])'
    BY <2>2
  <2> QED
    BY <1>1, <1>3, <2>1, <2>3 DEF View, Sorted
<1> QED
  BY <1>2, <1>3

\* A broadcast gives every subscriber of the run an event newer than all it has.
LEMMA BroadcastStep ==
    ASSUME StudioTypeOK, HistoryShape, ViewShape, NEW r \in Runs, Broadcast(r),
           \A q \in Runs : Newest(q)' = Newest(q)
    PROVE  ViewShape'
<1>1. /\ pending[r] \in Events /\ pending[r] = Newest(r) /\ Events \subseteq Nat
      /\ UNCHANGED <<viewing, stream, backlog, shown>>
  BY <1>1, Numbers DEF Broadcast, HistoryShape, StudioTypeOK
<1>2. ASSUME NEW v \in Viewers, ~(viewing[v] = r /\ stream[v] = "live")
      PROVE  queue'[v] = queue[v]
  BY <1>2 DEF Broadcast
<1>3. ASSUME NEW v \in Viewers, viewing[v] = r, stream[v] = "live"
      PROVE  queue'[v] \in Seq(Events) /\ View(v)'
  <2>1. PICK t : t = queue'[v]
    OBVIOUS
  <2>2. PICK x \in Events : x = pending[r] /\ x = Newest(viewing[v])
    BY <1>1, <1>3
  <2>3. /\ queue[v] \in Seq(Events) /\ backlog[v] \in Seq(Events) /\ shown[v] \in Nat
        /\ View(v) /\ t = Pushed(queue[v], x, Capacity)
    BY <1>3, <2>1, <2>2, Numbers, SMTT(30) DEF Broadcast, ViewShape, StudioTypeOK, None, Delivered, Pushed
  <2>4. Sorted(queue[v]) /\ \A j \in 1..Len(queue[v]) : queue[v][j] <= x
    BY <2>2, <2>3 DEF View
  <2>5. /\ t \in Seq(Events) /\ Sorted(t) /\ \A i \in 1..Len(t) : t[i] <= x
        /\ \A i \in 1..Len(t) : t[i] = x \/ \E j \in 1..Len(queue[v]) : t[i] = queue[v][j]
    <3>1. PICK q \in Seq(Events) : q = queue[v]
      BY <2>3
    <3>2. t = Pushed(q, x, Capacity) /\ Sorted(q) /\ \A j \in 1..Len(q) : q[j] <= x
      BY <2>3, <2>4, <3>1
    <3>3. /\ t \in Seq(Events) /\ Sorted(t) /\ \A i \in 1..Len(t) : t[i] <= x
          /\ \A i \in 1..Len(t) : t[i] = x \/ \E j \in 1..Len(q) : t[i] = q[j]
      BY <3>2, PushedSorted, StudioAssumption
    <3> QED
      BY <3>1, <3>3
  <2>6. /\ shown[v] <= x /\ \A i \in 1..Len(backlog[v]) : backlog[v][i] <= x
        /\ \A j \in 1..Len(t) : shown[v] <= t[j]
        /\ \A i \in 1..Len(backlog[v]) : \A j \in 1..Len(t) : backlog[v][i] <= t[j]
    BY <1>3, <2>2, <2>3, <2>5, SMTT(30) DEF View
  <2>7. Newest(viewing[v])' = x /\ Sorted(backlog[v])
    BY <1>1, <1>3, <2>2, <2>3 DEF View, Newest
  <2>8. View(v)'
    BY <1>1, <1>3, <2>1, <2>3, <2>5, <2>6, <2>7 DEF View, Sorted
  <2> QED
    BY <2>1, <2>5, <2>8
<1>4. ASSUME NEW v \in Viewers PROVE queue'[v] \in Seq(Events) /\ View(v)'
  <2>1. CASE viewing[v] = r /\ stream[v] = "live"
    BY <1>3, <2>1
  <2>2. CASE ~(viewing[v] = r /\ stream[v] = "live")
    <3>1. \A q \in Runs : Newest(q) \in Nat /\ Newest(q)' \in Nat /\ Newest(q) <= Newest(q)'
      BY Numbers DEF Newest, StudioTypeOK
    <3>2. View(v)'
      BY <1>1, <1>2, <2>2, <3>1, ViewKept
    <3> QED
      BY <1>2, <2>2, <3>2 DEF ViewShape
  <2> QED
    BY <2>1, <2>2
<1> QED
  BY <1>1, <1>4 DEF Broadcast, ViewShape

\* Whoever is shown an event is shown the smallest of what is on its way.
LEMMA ShowStep ==
    ASSUME StudioTypeOK, HistoryShape, ViewShape, NEW v \in Viewers, Show(v),
           \A q \in Runs : Newest(q)' = Newest(q)
    PROVE  /\ backlog'[v] \in Seq(Events) /\ queue'[v] \in Seq(Events) /\ View(v)'
           /\ shown[v] <= shown'[v]
<1>1. PICK r \in Runs : r = viewing[v]
  BY DEF Show, ViewShape, View
<1>2. PICK top \in Nat : top = Newest(viewing[v]) /\ top = Newest(viewing[v])'
  <2>1. Newest(r) \in Nat /\ Newest(viewing[v]) = Newest(r) /\ Newest(viewing[v])' = Newest(r)'
    BY <1>1, Numbers DEF Newest, Show, StudioTypeOK
  <2> QED
    BY <2>1
<1>3. /\ View(v) /\ backlog[v] \in Seq(Events) /\ queue[v] \in Seq(Events) /\ shown[v] \in Nat
      /\ \A i \in 1..Len(backlog[v]) : backlog[v][i] \in Nat
      /\ \A i \in 1..Len(queue[v]) : queue[v][i] \in Nat
      /\ Events \subseteq Nat /\ stream[v] = "live" /\ stream' = stream /\ viewing' = viewing
  <2>1. /\ View(v) /\ backlog[v] \in Seq(Events) /\ queue[v] \in Seq(Events) /\ shown[v] \in Nat
        /\ Events \subseteq Nat
    BY Numbers DEF ViewShape, StudioTypeOK, None
  <2>2. stream[v] = "live" /\ stream' = stream /\ viewing' = viewing
    BY DEF Show
  <2> QED
    BY <2>1, <2>2, SeqFacts
<1>4. CASE backlog[v] # <<>>
  <2>1. PICK h, t : h = Head(backlog[v]) /\ t = Tail(backlog[v])
    OBVIOUS
  <2>2. /\ t \in Seq(Events) /\ Sorted(t) /\ h \in Events /\ h = backlog[v][1]
        /\ Len(backlog[v]) \in Nat \ {0}
        /\ \A i \in 1..Len(t) : h <= t[i] /\ i + 1 \in 1..Len(backlog[v]) /\ t[i] = backlog[v][i + 1]
    BY <1>3, <1>4, <2>1, TailSorted DEF View
  <2>3. shown'[v] = h /\ backlog'[v] = t /\ queue'[v] = queue[v]
    BY <1>4, <2>1 DEF Show, ViewShape, StudioTypeOK
  <2>4. shown[v] <= h /\ h <= top /\ \A j \in 1..Len(queue[v]) : h <= queue[v][j]
    BY <1>2, <1>3, <2>2 DEF View
  <2>5. \A i \in 1..Len(t) : /\ t[i] <= top
                             /\ \A j \in 1..Len(queue[v]) : t[i] <= queue[v][j]
    BY <1>2, <1>3, <2>2 DEF View
  <2>6. View(v)'
    BY <1>1, <1>2, <1>3, <2>2, <2>3, <2>4, <2>5 DEF View, Sorted
  <2> QED
    BY <1>3, <2>2, <2>3, <2>4, <2>6
<1>5. CASE backlog[v] = <<>>
  <2>1. PICK h, t : h = Head(queue[v]) /\ t = Tail(queue[v])
    OBVIOUS
  <2>2. queue[v] # <<>>
    BY <1>5 DEF Show
  <2>3. /\ t \in Seq(Events) /\ Sorted(t) /\ h \in Events /\ h = queue[v][1]
        /\ Len(queue[v]) \in Nat \ {0}
        /\ \A i \in 1..Len(t) : h <= t[i] /\ i + 1 \in 1..Len(queue[v]) /\ t[i] = queue[v][i + 1]
    BY <1>3, <2>1, <2>2, TailSorted DEF View
  <2>4. shown'[v] = h /\ queue'[v] = t /\ backlog'[v] = backlog[v] /\ Len(backlog[v]) = 0
    BY <1>5, <2>1 DEF Show, ViewShape, StudioTypeOK
  <2> QED
    BY <1>2, <1>3, <2>3, <2>4 DEF View, Sorted
<1> QED
  BY <1>4, <1>5

\* What a viewer has shown, then its backlog, then its queue stay in order.
LEMMA ViewStep ==
    ASSUME StudioTypeOK, RunShape, HistoryShape, ViewShape, StudioNext
    PROVE  ViewShape' /\ \A v \in Viewers : shown'[v] >= shown[v]
<1> DEFINE Goal == ViewShape' /\ \A v \in Viewers : shown'[v] >= shown[v]
<1>1. \A r \in Runs : Newest(r) \in Nat /\ Newest(r)' \in Nat /\ Newest(r) <= Newest(r)'
  BY NewestGrows
<1>2. \A v \in Viewers : shown[v] \in Nat /\ View(v)
  BY Numbers DEF StudioTypeOK, None, ViewShape
<1>3. CASE UNCHANGED views
  <2>1. \A v \in Viewers : View(v)'
    BY <1>1, <1>3, ViewKept DEF views
  <2> QED
    BY <1>2, <1>3, <2>1 DEF views, ViewShape
<1>4. ASSUME NEW r \in Runs, Broadcast(r) PROVE Goal
  <2>1. \A q \in Runs : Newest(q)' = Newest(q)
    BY <1>4 DEF Broadcast, Newest
  <2>2. ViewShape'
    BY <1>4, <2>1, BroadcastStep
  <2>3. shown' = shown
    BY <1>4 DEF Broadcast
  <2> QED
    BY <1>2, <2>2, <2>3
<1>5. ASSUME NEW v \in Viewers,
             (\E r \in Runs : OpenStream(v, r)) \/ TakeSnapshot(v) \/ Subscribe(v) \/ Show(v)
      PROVE Goal
  <2>1. \A q \in Runs : Newest(q)' = Newest(q)
    BY <1>5 DEF OpenStream, TakeSnapshot, Subscribe, Show, Newest, job
  <2>2. \A w \in Viewers \ {v} :
           /\ viewing'[w] = viewing[w] /\ stream'[w] = stream[w] /\ backlog'[w] = backlog[w]
           /\ queue'[w] = queue[w] /\ shown'[w] = shown[w]
    BY <1>5 DEF OpenStream, TakeSnapshot, Subscribe, Show, StudioTypeOK, ViewShape
  <2>3. \A w \in Viewers \ {v} : View(w)' /\ shown'[w] >= shown[w]
    BY <1>1, <1>2, <2>2, ViewKept
  <2>4. /\ backlog' = [w \in Viewers |-> backlog'[w]] /\ queue' = [w \in Viewers |-> queue'[w]]
        /\ \A w \in Viewers \ {v} : backlog'[w] \in Seq(Events) /\ queue'[w] \in Seq(Events)
    BY <1>5, <2>2 DEF OpenStream, TakeSnapshot, Subscribe, Show, ViewShape
  <2>5. /\ backlog'[v] \in Seq(Events) /\ queue'[v] \in Seq(Events) /\ View(v)'
        /\ shown'[v] >= shown[v]
    <3>1. ASSUME NEW r \in Runs, OpenStream(v, r)
          PROVE  /\ backlog'[v] \in Seq(Events) /\ queue'[v] \in Seq(Events) /\ View(v)'
                 /\ shown'[v] >= shown[v]
      <4>1. /\ stream[v] = "closed" /\ stream'[v] = "handle" /\ viewing'[v] = r
            /\ UNCHANGED <<backlog, queue, shown>>
        BY <3>1 DEF OpenStream, StudioTypeOK
      <4>2. backlog[v] = <<>> /\ queue[v] = <<>> /\ shown[v] = None /\ Len(<<>>) = 0
        BY <1>2, <4>1 DEF View
      <4>3. Newest(viewing[v])' = Newest(r)'
        BY <4>1 DEF Newest
      <4> QED
        BY <1>1, <4>1, <4>2, <4>3 DEF View, Sorted, ViewShape, None
    <3>2. CASE TakeSnapshot(v)
      <4>1. PICK r \in Runs : r = viewing[v]
        BY <1>2, <3>2 DEF TakeSnapshot, View
      <4>2. /\ stream[v] = "handle" /\ stream'[v] = "snapshot" /\ backlog'[v] = history[r]
            /\ UNCHANGED <<viewing, queue, shown>>
        BY <3>2, <4>1 DEF TakeSnapshot, StudioTypeOK, ViewShape
      <4>3. queue[v] = <<>> /\ shown[v] = None /\ Len(<<>>) = 0
        BY <1>2, <4>2 DEF View
      <4>4. /\ history[r] \in Seq(Events) /\ Sorted(history[r])
            /\ \A i \in 1..Len(history[r]) : 0 <= history[r][i] /\ history[r][i] <= Newest(r)
        BY Numbers, SeqFacts DEF HistoryShape
      <4>5. Newest(viewing[v])' = Newest(r)
        BY <2>1, <4>1, <4>2 DEF Newest
      <4> QED
        BY <1>1, <4>1, <4>2, <4>3, <4>4, <4>5 DEF View, Sorted, ViewShape, None
    <3>3. CASE Subscribe(v)
      <4>1. PICK r \in Runs : r = viewing[v]
        BY <1>2, <3>3 DEF Subscribe, View
      <4>2. Newest(viewing[v])' = Newest(viewing[v])
        BY <2>1, <3>3, <4>1 DEF Subscribe, Newest
      <4> QED
        BY <1>2, <3>3, <4>1, <4>2 DEF Subscribe, View, Sorted, ViewShape, StudioTypeOK
    <3>4. CASE Show(v)
      <4>1. StudioTypeOK'
        BY TypeStep
      <4>2. shown'[v] \in Events \cup {0}
        BY <4>1 DEF StudioTypeOK, None, Events, Done
      <4>3. shown'[v] \in Nat
        BY <4>2, Numbers
      <4> QED
        BY <1>2, <2>1, <3>4, <4>3, ShowStep
    <3> QED
      BY <1>5, <3>1, <3>2, <3>3, <3>4
  <2> QED
    BY <2>3, <2>4, <2>5 DEF ViewShape
<1>6. CASE Start \/ CancelRun
  BY <1>3, <1>6 DEF Start, CancelRun
<1>7. ASSUME NEW r \in Runs,
             \/ ChildReaped(r) \/ CancelSeen(r) \/ ReapedAfterCancel(r) \/ Settle(r) \/ Park(r)
             \/ ChildWrites(r) \/ ChildExits(r) \/ EventRead(r) \/ Announce(r)
      PROVE Goal
  BY <1>3, <1>7 DEF ChildReaped, CancelSeen, ReapedAfterCancel, Settle, Park, ChildWrites,
     ChildExits, EventRead, Announce
<1> QED
  BY <1>4, <1>5, <1>6, <1>7 DEF StudioNext, WorkerStep

-----------------------------------------------------------------------------
(* The invariant and the order of the events.                              *)

\* The registry starts empty.
LEMMA InitStudioIndInv == StudioInit => StudioIndInv
<1> SUFFICES ASSUME StudioInit PROVE StudioIndInv
  OBVIOUS
<1> USE DEF StudioInit
<1>1. StudioTypeOK
  BY StudioAssumption DEF StudioTypeOK, Events, None
<1>2. RunShape /\ SlotShape
  BY Numbers, <1>1 DEF RunShape, SlotShape, Watched, Over
<1>3. HistoryShape
  BY Numbers, <1>1 DEF HistoryShape, Sorted, Newest
<1>4. ViewShape
  BY Numbers, <1>1 DEF ViewShape, View, Sorted
<1> QED
  BY <1>1, <1>2, <1>3, <1>4 DEF StudioIndInv

\* A stuttering step changes nothing the invariant reads.
LEMMA StudioStutters == ASSUME StudioIndInv, UNCHANGED studioVars PROVE StudioIndInv'
BY DEF StudioIndInv, StudioTypeOK, RunShape, SlotShape, HistoryShape, ViewShape, View, Newest,
       Sorted, studioVars, registry, process, job, views, Watched, Over

\* Every step keeps the four parts of the invariant.
LEMMA StudioIndStep == StudioIndInv /\ [StudioNext]_studioVars => StudioIndInv'
<1> SUFFICES ASSUME StudioIndInv, [StudioNext]_studioVars PROVE StudioIndInv'
  OBVIOUS
<1>1. CASE StudioNext
  BY <1>1, TypeStep, RunStep, HistoryStep, ViewStep DEF StudioIndInv
<1>2. CASE UNCHANGED studioVars
  BY <1>2, StudioStutters
<1> QED
  BY <1>1, <1>2

\* One child and one running run at a time, in the slot; the newest run within
\* reach; no verdict nobody asked for; a marker that can be relied on
\* (JobManager, drive_run, push_event).
THEOREM RegistryInvariant == StudioSpec => []RegistryInv
<1>1. StudioIndInv => RegistryInv
  <2> SUFFICES ASSUME StudioIndInv PROVE RegistryInv
    OBVIOUS
  <2> USE DEF StudioIndInv
  <2>1. OneChild
    <3> DEFINE S == {r \in Runs : child[r] \in {"alive", "interrupted"}}
    <3>1. \A r \in S : r = active
      BY DEF RunShape, Watched
    <3>2. S = {} \/ S = {active}
      BY <3>1
    <3> HIDE DEF S
    <3>3. Cardinality({}) = 0 /\ Cardinality({active}) = 1
      BY FS_EmptySet, FS_Singleton
    <3>4. Cardinality(S) <= 1
      BY <3>2, <3>3
    <3> QED
      BY <3>4 DEF OneChild, S
  <2>2. RunningIsActive /\ NewestIsKnown /\ CancelledWasAsked
    BY DEF RunShape, SlotShape, RunningIsActive, NewestIsKnown, CancelledWasAsked
  <2>3. DoneMeansSettled
    <3> SUFFICES ASSUME NEW v \in Viewers, shown[v] = Done PROVE status[viewing[v]] # "running"
      BY DEF DoneMeansSettled
    <3>1. viewing[v] \in Runs /\ Done <= Newest(viewing[v])
      BY Numbers DEF ViewShape, View, StudioTypeOK, None
    <3>2. worker[viewing[v]] \in {"announced", "parked"}
      BY <3>1, Numbers DEF Newest, StudioTypeOK
    <3> QED
      BY <3>1, <3>2 DEF RunShape, Watched
  <2>4. LateViewerFindsDone
    BY SeqFacts DEF HistoryShape, LateViewerFindsDone
  <2> QED
    BY <2>1, <2>2, <2>3, <2>4 DEF RegistryInv
<1> QED
  BY <1>1, InitStudioIndInv, StudioIndStep, PTL DEF StudioSpec

\* No viewer is shown an event after a later one of the same run, however it
\* lags and wherever its snapshot falls (push_event, run_events).
THEOREM OrderOfEvents == StudioSpec => EventsInOrder
<1>1. StudioIndInv /\ [StudioNext]_studioVars => [\A v \in Viewers : shown'[v] >= shown[v]]_studioVars
  BY ViewStep DEF StudioIndInv
<1> QED
  BY <1>1, InitStudioIndInv, StudioIndStep, PTL DEF StudioSpec, EventsInOrder

-----------------------------------------------------------------------------
(* A2aTasks.                                                               *)

\* The permits and the tasks that hold them.  The tasks are any number, those
\* that hold a permit are not.
PermitsHeld == IsFiniteSet(LiveTasks) /\ PermitsAccounted

\* A last word is the last thing of a task, and a task in the registry has yet
\* to be taken out of it.
WordsLast ==
    /\ \A t \in Tasks : stage[t] # "ended" => reported[t] = "none"
    /\ \A t \in cancels : stage[t] # "removed" /\ reported[t] = "none"

\* An acknowledgement comes with a cancelled token, for good.
AckedToken == \A t \in Tasks : acked[t] => token[t] # "quiet"

\* Only the shutdown aborts.
AbortsAtShutdown == aborting # {} => server = "stopped"

TasksIndInv == TasksInv /\ PermitsHeld /\ WordsLast /\ AckedToken /\ AbortsAtShutdown

-----------------------------------------------------------------------------

\* A state in which no task holds a permit, and all permits are there.
LEMMA InitTasksIndInv == TasksInit => TasksIndInv
<1> SUFFICES ASSUME TasksInit PROVE TasksIndInv
  OBVIOUS
<1>1. LiveTasks = {}
  BY DEF TasksInit, LiveTasks, Live
<1>2. IsFiniteSet(LiveTasks) /\ Cardinality(LiveTasks) = 0
  BY <1>1, FS_EmptySet
<1>3. PermitsHeld
  BY <1>2, PermitsAssumption DEF TasksInit, PermitsHeld, PermitsAccounted
<1>4. TasksTypeOK
  BY PermitsAssumption DEF TasksInit, TasksTypeOK
<1>5. RegistryExact /\ AckedIsCanceled /\ PeerIsAnswered
  BY DEF TasksInit, RegistryExact, AckedIsCanceled, PeerIsAnswered, Live
<1>6. WordsLast /\ AckedToken /\ AbortsAtShutdown
  BY DEF TasksInit, WordsLast, AckedToken, AbortsAtShutdown
<1> QED
  BY <1>3, <1>4, <1>5, <1>6 DEF TasksIndInv, TasksInv, PermitsHeld

\* What a step changes of the tasks that hold a permit, and of the permits.
LEMMA PermitMoves ==
    ASSUME TasksTypeOK, TasksNext
    PROVE  \/ LiveTasks' = LiveTasks /\ permits' = permits
           \/ \E t \in Tasks : /\ t \notin LiveTasks /\ LiveTasks' = LiveTasks \cup {t}
                               /\ permits > 0 /\ permits' = permits - 1
           \/ \E t \in LiveTasks : LiveTasks' = LiveTasks \ {t} /\ permits' = permits + 1
<1> USE DEF TasksTypeOK, LiveTasks, Live, TaskMoves
<1> DEFINE Kept == LiveTasks' = LiveTasks /\ permits' = permits
<1>1. ASSUME NEW t \in Tasks, Refuse(t) PROVE Kept
  BY <1>1 DEF Refuse
<1>2. ASSUME NEW t \in Tasks, Admit(t)
      PROVE /\ t \notin LiveTasks /\ LiveTasks' = LiveTasks \cup {t}
            /\ permits > 0 /\ permits' = permits - 1
  BY <1>2 DEF Admit
<1>3. ASSUME NEW t \in Tasks, Launch(t) \/ SendWorking(t) \/ TaskRunStarts(t)
                              \/ TaskRunReturns(t) \/ Unregister(t)
      PROVE Kept
  BY <1>3 DEF Launch, SendWorking, TaskRunStarts, TaskRunReturns, Unregister
<1>4. ASSUME NEW t \in Tasks, CancelTask(t) \/ Detach(t) \/ TaskDeadlineFires(t)
      PROVE Kept
  BY <1>4 DEF CancelTask, Detach, TaskDeadlineFires
<1>5. ASSUME NEW t \in Tasks,
             LaunchCancelled(t) \/ NobodyReads(t) \/ CancelledBeforeRun(t)
             \/ Report(t) \/ Dropped(t)
      PROVE t \in LiveTasks /\ LiveTasks' = LiveTasks \ {t} /\ permits' = permits + 1
  BY <1>5 DEF LaunchCancelled, NobodyReads, CancelledBeforeRun, Report, Dropped, Ends
<1>6. CASE CancelAll \/ AbortAll
  BY <1>6 DEF CancelAll, AbortAll
<1> QED
  BY <1>1, <1>2, <1>3, <1>4, <1>5, <1>6 DEF TasksNext, TaskStep

\* Whoever takes a permit gives it back once, so the count is right at every step.
LEMMA PermitsStep == ASSUME TasksTypeOK, PermitsHeld, TasksNext PROVE PermitsHeld'
<1> USE DEF PermitsHeld, PermitsAccounted
<1>1. Cardinality(LiveTasks) \in Nat /\ permits \in Nat
  BY FS_CardinalityType, PermitsAssumption DEF TasksTypeOK
<1>2. CASE LiveTasks' = LiveTasks /\ permits' = permits
  BY <1>2
<1>3. ASSUME NEW t \in Tasks, t \notin LiveTasks, LiveTasks' = LiveTasks \cup {t},
             permits' = permits - 1
      PROVE PermitsHeld'
  <2>1. IsFiniteSet(LiveTasks') /\ Cardinality(LiveTasks') = Cardinality(LiveTasks) + 1
    BY <1>3, FS_AddElement
  <2> QED
    BY <1>1, <1>3, <2>1, PermitsAssumption
<1>4. ASSUME NEW t \in LiveTasks, LiveTasks' = LiveTasks \ {t}, permits' = permits + 1
      PROVE PermitsHeld'
  <2>1. IsFiniteSet(LiveTasks') /\ Cardinality(LiveTasks') = Cardinality(LiveTasks) - 1
    BY <1>4, FS_RemoveElement
  <2> QED
    BY <1>1, <1>4, <2>1, PermitsAssumption
<1> QED
  BY <1>2, <1>3, <1>4, PermitMoves

\* The final state of a run is one of the three, Canceled with a cancelled token.
LEMMA FinalStates ==
    ASSUME NEW t \in Tasks
    PROVE  /\ FinalState(t) \in {"Completed", "Failed", "Canceled"}
           /\ token[t] # "quiet" => FinalState(t) = "Canceled"
BY DEF FinalState

\* Types; the permits stay in their range because those who hold one are counted.
LEMMA TasksTypeStep ==
    ASSUME TasksTypeOK, PermitsHeld, TasksNext PROVE TasksTypeOK'
<1> USE DEF TasksTypeOK, TaskMoves, answers, Ends, Live
<1>1. permits' \in 0..Permits
  <2>1. permits \in Nat
    BY PermitsAssumption
  <2>2. permits' \in Nat
    BY <2>1, PermitMoves
  <2>3. permits' <= Permits
    <3>1. PermitsHeld'
      BY PermitsStep
    <3>2. Cardinality(LiveTasks)' \in Nat
      BY <3>1, FS_CardinalityType DEF PermitsHeld
    <3> QED
      BY <2>2, <3>1, <3>2, PermitsAssumption DEF PermitsHeld, PermitsAccounted
  <2> QED
    BY <2>2, <2>3, PermitsAssumption
<1>2. ASSUME NEW t \in Tasks, Refuse(t) \/ Admit(t) \/ LaunchCancelled(t) \/ Launch(t)
      PROVE TasksTypeOK'
  BY <1>1, <1>2 DEF Refuse, Admit, LaunchCancelled, Launch
<1>3. ASSUME NEW t \in Tasks, SendWorking(t) \/ NobodyReads(t) \/ CancelledBeforeRun(t)
                              \/ TaskRunStarts(t)
      PROVE TasksTypeOK'
  BY <1>1, <1>3 DEF SendWorking, NobodyReads, CancelledBeforeRun, TaskRunStarts
<1>4. ASSUME NEW t \in Tasks, TaskRunReturns(t) PROVE TasksTypeOK'
  BY <1>1, <1>4 DEF TaskRunReturns
<1>5. ASSUME NEW t \in Tasks, Unregister(t) \/ Dropped(t) PROVE TasksTypeOK'
  BY <1>1, <1>5 DEF Unregister, Dropped
<1>6. ASSUME NEW t \in Tasks, Report(t) PROVE TasksTypeOK'
  BY <1>1, <1>6, FinalStates DEF Report
<1>7. ASSUME NEW t \in Tasks, CancelTask(t) \/ Detach(t) \/ TaskDeadlineFires(t)
      PROVE TasksTypeOK'
  BY <1>1, <1>7, ZenonT(30) DEF CancelTask, Detach, TaskDeadlineFires
<1>8. CASE CancelAll
  BY <1>1, <1>8 DEF CancelAll
<1>9. CASE AbortAll
  BY <1>1, <1>9 DEF AbortAll, LiveTasks
<1> QED
  BY <1>2, <1>3, <1>4, <1>5, <1>6, <1>7, <1>8, <1>9 DEF TasksNext, TaskStep

\* The registry and the stages change together while the server is up.
LEMMA RegistryStep ==
    ASSUME TasksTypeOK, RegistryExact, AbortsAtShutdown, TasksNext
    PROVE  RegistryExact' /\ AbortsAtShutdown'
<1> USE DEF TasksTypeOK, RegistryExact, AbortsAtShutdown, TaskMoves, answers, Ends, Live
<1>1. ASSUME NEW t \in Tasks, Refuse(t) \/ Admit(t) \/ LaunchCancelled(t) \/ Launch(t)
      PROVE RegistryExact' /\ AbortsAtShutdown'
  BY <1>1 DEF Refuse, Admit, LaunchCancelled, Launch
<1>2. ASSUME NEW t \in Tasks, SendWorking(t) \/ NobodyReads(t) \/ CancelledBeforeRun(t)
                              \/ TaskRunStarts(t) \/ TaskRunReturns(t)
      PROVE RegistryExact' /\ AbortsAtShutdown'
  BY <1>2 DEF SendWorking, NobodyReads, CancelledBeforeRun, TaskRunStarts, TaskRunReturns
<1>3. ASSUME NEW t \in Tasks, Unregister(t) \/ Report(t) \/ Dropped(t)
      PROVE RegistryExact' /\ AbortsAtShutdown'
  BY <1>3 DEF Unregister, Report, Dropped
<1>4. ASSUME NEW t \in Tasks, CancelTask(t) \/ Detach(t) \/ TaskDeadlineFires(t)
      PROVE RegistryExact' /\ AbortsAtShutdown'
  BY <1>4 DEF CancelTask, Detach, TaskDeadlineFires
<1>5. CASE CancelAll \/ AbortAll
  BY <1>5 DEF CancelAll, AbortAll
<1> QED
  BY <1>1, <1>2, <1>3, <1>4, <1>5 DEF TasksNext, TaskStep

\* A word is sent in the step that ends the task, out of the registry by then.
LEMMA WordsStep == ASSUME TasksTypeOK, WordsLast, TasksNext PROVE WordsLast'
<1> USE DEF TasksTypeOK, WordsLast, TaskMoves, answers, Ends, Live
<1>1. ASSUME NEW t \in Tasks, Refuse(t) \/ Admit(t) \/ LaunchCancelled(t) \/ Launch(t)
      PROVE WordsLast'
  BY <1>1 DEF Refuse, Admit, LaunchCancelled, Launch
<1>2. ASSUME NEW t \in Tasks, SendWorking(t) \/ NobodyReads(t) \/ CancelledBeforeRun(t)
                              \/ TaskRunStarts(t) \/ TaskRunReturns(t)
      PROVE WordsLast'
  BY <1>2 DEF SendWorking, NobodyReads, CancelledBeforeRun, TaskRunStarts, TaskRunReturns
<1>3. ASSUME NEW t \in Tasks, Unregister(t) \/ Dropped(t) PROVE WordsLast'
  BY <1>3 DEF Unregister, Dropped
<1>4. ASSUME NEW t \in Tasks, Report(t) PROVE WordsLast'
  BY <1>4 DEF Report
<1>5. ASSUME NEW t \in Tasks, CancelTask(t) \/ Detach(t) \/ TaskDeadlineFires(t)
      PROVE WordsLast'
  BY <1>5 DEF CancelTask, Detach, TaskDeadlineFires
<1>6. CASE CancelAll \/ AbortAll
  BY <1>6 DEF CancelAll, AbortAll
<1> QED
  BY <1>1, <1>2, <1>3, <1>4, <1>5, <1>6 DEF TasksNext, TaskStep

\* No token becomes quiet again, and an acknowledgement finds a task in the registry.
LEMMA AckStep ==
    ASSUME TasksTypeOK, WordsLast, AckedToken, AckedIsCanceled, TasksNext
    PROVE  AckedToken' /\ AckedIsCanceled'
<1> USE DEF TasksTypeOK, WordsLast, AckedToken, AckedIsCanceled, TaskMoves, answers, Ends
<1>1. ASSUME NEW t \in Tasks, Refuse(t) \/ Admit(t) \/ LaunchCancelled(t) \/ Launch(t)
      PROVE AckedToken' /\ AckedIsCanceled'
  BY <1>1 DEF Refuse, Admit, LaunchCancelled, Launch
<1>2. ASSUME NEW t \in Tasks, SendWorking(t) \/ NobodyReads(t) \/ CancelledBeforeRun(t)
                              \/ TaskRunStarts(t) \/ TaskRunReturns(t)
      PROVE AckedToken' /\ AckedIsCanceled'
  BY <1>2 DEF SendWorking, NobodyReads, CancelledBeforeRun, TaskRunStarts, TaskRunReturns
<1>3. ASSUME NEW t \in Tasks, Unregister(t) \/ Dropped(t)
      PROVE AckedToken' /\ AckedIsCanceled'
  BY <1>3 DEF Unregister, Dropped
<1>4. ASSUME NEW t \in Tasks, Report(t) PROVE AckedToken' /\ AckedIsCanceled'
  BY <1>4, FinalStates DEF Report
<1>5. ASSUME NEW t \in Tasks, CancelTask(t) PROVE AckedToken' /\ AckedIsCanceled'
  BY <1>5 DEF CancelTask
<1>6. ASSUME NEW t \in Tasks, Detach(t) \/ TaskDeadlineFires(t)
      PROVE AckedToken' /\ AckedIsCanceled'
  BY <1>6 DEF Detach, TaskDeadlineFires
<1>7. CASE CancelAll \/ AbortAll
  BY <1>7 DEF CancelAll, AbortAll
<1> QED
  BY <1>1, <1>2, <1>3, <1>4, <1>5, <1>6, <1>7 DEF TasksNext, TaskStep

\* A task that ends without a word has lost its peer or was aborted.
LEMMA AnsweredStep ==
    ASSUME TasksTypeOK, AbortsAtShutdown, PeerIsAnswered, TasksNext PROVE PeerIsAnswered'
<1> USE DEF TasksTypeOK, AbortsAtShutdown, PeerIsAnswered, TaskMoves, answers, Ends, Live
<1>1. ASSUME NEW t \in Tasks, Refuse(t) \/ Admit(t) \/ LaunchCancelled(t) \/ Launch(t)
      PROVE PeerIsAnswered'
  BY <1>1 DEF Refuse, Admit, LaunchCancelled, Launch
<1>2. ASSUME NEW t \in Tasks, SendWorking(t) \/ NobodyReads(t) \/ CancelledBeforeRun(t)
                              \/ TaskRunStarts(t) \/ TaskRunReturns(t)
      PROVE PeerIsAnswered'
  BY <1>2 DEF SendWorking, NobodyReads, CancelledBeforeRun, TaskRunStarts, TaskRunReturns
<1>3. ASSUME NEW t \in Tasks, Unregister(t) \/ Dropped(t) PROVE PeerIsAnswered'
  BY <1>3 DEF Unregister, Dropped
<1>4. ASSUME NEW t \in Tasks, Report(t) PROVE PeerIsAnswered'
  BY <1>4, FinalStates DEF Report
<1>5. ASSUME NEW t \in Tasks, CancelTask(t) \/ Detach(t) \/ TaskDeadlineFires(t)
      PROVE PeerIsAnswered'
  BY <1>5 DEF CancelTask, Detach, TaskDeadlineFires
<1>6. CASE CancelAll
  BY <1>6 DEF CancelAll
<1>7. CASE AbortAll
  BY <1>7 DEF AbortAll, LiveTasks
<1> QED
  BY <1>1, <1>2, <1>3, <1>4, <1>5, <1>6, <1>7 DEF TasksNext, TaskStep

\* The whole of it, step by step.
LEMMA TasksIndStep == TasksIndInv /\ [TasksNext]_taskVars => TasksIndInv'
<1> SUFFICES ASSUME TasksIndInv, [TasksNext]_taskVars PROVE TasksIndInv'
  OBVIOUS
<1> USE DEF TasksIndInv, TasksInv
<1>1. CASE TasksNext
  <2>1. TasksTypeOK' /\ PermitsHeld'
    BY <1>1, TasksTypeStep, PermitsStep
  <2>2. RegistryExact' /\ AbortsAtShutdown' /\ WordsLast'
    BY <1>1, RegistryStep, WordsStep
  <2>3. AckedToken' /\ AckedIsCanceled' /\ PeerIsAnswered'
    BY <1>1, AckStep, AnsweredStep
  <2> QED
    BY <2>1, <2>2, <2>3 DEF PermitsHeld
<1>2. CASE UNCHANGED taskVars
  BY <1>2 DEF taskVars, answers, TasksTypeOK, PermitsHeld, PermitsAccounted, LiveTasks,
     RegistryExact, AbortsAtShutdown, WordsLast, AckedToken, AckedIsCanceled, PeerIsAnswered
<1> QED
  BY <1>1, <1>2

-----------------------------------------------------------------------------

\* What execute, cancel and the shutdown of the A2A server account for, for any
\* number of tasks: the permits, the registry of cancellations, the final states
\* of acknowledged cancellations, and the answers of peers that still read.
THEOREM TasksInvariant == TasksSpec => []TasksInv
<1>1. TasksInit => TasksIndInv
  BY InitTasksIndInv
<1>2. TasksIndInv /\ [TasksNext]_taskVars => TasksIndInv'
  BY TasksIndStep
<1>3. TasksIndInv => TasksInv
  BY DEF TasksIndInv
<1> QED
  BY <1>1, <1>2, <1>3, PTL DEF TasksSpec

=============================================================================
