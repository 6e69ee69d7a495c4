---------------------------- MODULE AgentRun ----------------------------
(***************************************************************************)
(* One agent run: AgentEngine::run (src/agent/loop/engine.rs) with the     *)
(* cancel handle and its deadline sleeper (src/agent/run_cancel.rs), the   *)
(* limits (src/limits.rs), the retrying provider client                    *)
(* (src/provider/openai_compat.rs) and the cost ledger (src/billing).      *)
(*                                                                         *)
(* The engine is one task.  It is preempted at every await, where the      *)
(* user, the clock, the provider, a tool or an Event-MCP handler may move; *)
(* an action is the code between two awaits whose order matters.  What a   *)
(* message or a tool result says is left out: the model answers a          *)
(* directive with a number of calls and a done flag, or text that does     *)
(* not parse.                                                              *)
(***************************************************************************)
EXTENDS Naturals, FiniteSets

CONSTANTS
    MaxIterations,  \* limits.max_iterations
    MaxTokens,      \* limits.max_tokens
    MaxCost,        \* limits.max_cost: an Option, so {} or one amount
    MaxRetries,     \* provider.max_retries
    Handled,        \* the stages that have Event-MCP handlers
    Paths,          \* home paths the model asks for
    NoPath,         \* a call that is not home.read or home.list
    MaxCalls,       \* bound: tool calls in one directive
    TokenUse,       \* what one completion may report as total_tokens
    Prices          \* what one priced attempt may cost

Stages == {"context", "after", "review"}

ASSUME LimitsAssumption ==
    /\ MaxIterations \in Nat /\ MaxTokens \in Nat /\ MaxRetries \in Nat
    /\ MaxCost \subseteq Nat
    /\ Cardinality(MaxCost) <= 1
    /\ Handled \subseteq Stages

ASSUME DataAssumption ==
    /\ NoPath \notin Paths
    /\ MaxCalls \in Nat
    /\ TokenUse \subseteq Nat /\ TokenUse # {}
    /\ Prices \subseteq Nat

VARIABLES
    pc,         \* where the engine task is
    token,      \* RunCancel.token is cancelled
    expired,    \* limits.max_duration_sec has elapsed since the run began
    userCancel, \* history: someone asked to cancel
    fault,      \* history: the provider or a handler failed
    iter,       \* RunMetrics.iterations
    tokens,     \* RunMetrics.token_usage.total_tokens
    spent,      \* RunCostTracker.known_total
    ledger,     \* RunCostTracker.requests, its length
    sent,       \* history: HTTP requests the provider received
    tries,      \* retry_index of the completion under way
    due,        \* attempts returned with a completion and not yet priced
    answered,   \* the completion under way is Ok
    goal,       \* directive.done
    todo,       \* tool calls of the directive still to be handled
    call,       \* home path of the announced call, or NoPath
    callOpen,   \* ToolStart emitted, ToolFinish not yet
    absent,     \* absent_paths
    misses,     \* history: "os error 2" answers per home path
    final,      \* final_result
    stop,       \* stop_reason
    reviewed,   \* history: final_result went through run.before_output
    stream,     \* how the event stream was closed
    verdict     \* stop_reason of the RunOutput, "none" until it is returned

clock == <<token, expired, userCancel>>
money == <<spent, ledger, sent, tries, due, answered>>
turn == <<goal, todo, call, callOpen, absent, misses>>
result == <<final, stop, reviewed, stream, verdict>>
vars == <<pc, clock, fault, iter, tokens, money, turn, result>>

-----------------------------------------------------------------------------
(* The texts final_result may hold.                                        *)

LimitTexts == {"max_duration_sec", "cancelled", "max_cost",
               "max_iterations", "max_tokens"}
Texts == LimitTexts \cup {"none", "goal", "rewritten"}

Locations ==
    {"top", "context", "model", "request", "billing", "after", "parse",
     "tools", "announced", "calling", "settle", "output", "review",
     "finish", "done"}

TypeOK ==
    /\ pc \in Locations
    /\ token \in BOOLEAN /\ expired \in BOOLEAN /\ userCancel \in BOOLEAN
    /\ fault \in BOOLEAN
    /\ iter \in 0..MaxIterations
    /\ tokens \in Nat /\ spent \in Nat /\ ledger \in Nat /\ sent \in Nat
    /\ tries \in 0..MaxRetries
    /\ due \in 0..(MaxRetries + 1)
    /\ answered \in BOOLEAN
    /\ goal \in BOOLEAN
    /\ todo \in 0..MaxCalls
    /\ call \in Paths \cup {NoPath}
    /\ callOpen \in BOOLEAN
    /\ absent \subseteq Paths
    /\ misses \in [Paths -> Nat]
    /\ final \in Texts
    /\ stop \in {"LimitReached", "GoalReached"}
    /\ reviewed \in BOOLEAN
    /\ stream \in {"live", "summarised", "abandoned"}
    /\ verdict \in {"none", "GoalReached", "LimitReached", "Error"}

Init ==
    /\ pc = "top"
    /\ token = FALSE /\ expired = FALSE /\ userCancel = FALSE
    /\ fault = FALSE
    /\ iter = 0 /\ tokens = 0
    /\ spent = 0 /\ ledger = 0 /\ sent = 0
    /\ tries = 0 /\ due = 0 /\ answered = FALSE
    /\ goal = FALSE /\ todo = 0 /\ call = NoPath /\ callOpen = FALSE
    /\ absent = {} /\ misses = [p \in Paths |-> 0]
    /\ final = "none" /\ stop = "LimitReached" /\ reviewed = FALSE
    /\ stream = "live" /\ verdict = "none"

-----------------------------------------------------------------------------
(* The clock, the user and the deadline sleeper.                           *)

\* limits.max_duration_sec runs out, counted from RunMetrics::new.
Expire ==
    /\ ~expired
    /\ expired' = TRUE
    /\ UNCHANGED <<pc, token, userCancel, fault, iter, tokens, money, turn, result>>

\* arm_deadline is called after RunMetrics::new, so the sleeper wakes on an
\* expired run; it outlives the run and may cancel the token afterwards.
SleeperCancels ==
    /\ expired /\ ~token
    /\ token' = TRUE
    /\ UNCHANGED <<pc, expired, userCancel, fault, iter, tokens, money, turn, result>>

\* Ctrl+C, session/cancel, CancelTask: RunCancel::cancel.
UserCancels ==
    /\ ~token
    /\ token' = TRUE /\ userCancel' = TRUE
    /\ UNCHANGED <<pc, expired, fault, iter, tokens, money, turn, result>>

-----------------------------------------------------------------------------
(* Why the engine stops.                                                   *)

\* should_stop_for_duration, then should_stop_for_cancel.
StopCheck ==
    IF expired THEN "max_duration_sec" ELSE IF token THEN "cancelled" ELSE "none"

CostLimitHit == \E cap \in MaxCost : spent >= cap
TokensLimitHit == tokens >= MaxTokens

\* The checks before an iteration begins, in the order of the loop.
TopCheck ==
    IF StopCheck # "none" THEN StopCheck
    ELSE IF CostLimitHit THEN "max_cost"
    ELSE IF iter >= MaxIterations THEN "max_iterations"
    ELSE IF TokensLimitHit THEN "max_tokens"
    ELSE "none"

\* Faulty variant: the budget is looked at only before the next iteration.
ResponseCheckOnlyStops == StopCheck

\* The checks on an accounted completion.
ResponseCheck ==
    IF TokensLimitHit THEN "max_tokens"
    ELSE IF CostLimitHit THEN "max_cost"
    ELSE StopCheck

\* final_result and stop_reason of a run that hit a limit or was cancelled.
StopWith(text) == final' = text /\ stop' = "LimitReached"

\* An Err from run_inner: the chat is persisted, no event is emitted.
Abandon ==
    /\ pc' = "done"
    /\ stream' = "abandoned"
    /\ verdict' = "Error"
    /\ UNCHANGED <<final, stop, reviewed>>

-----------------------------------------------------------------------------
(* The top of the loop.                                                    *)

StopAtTop ==
    /\ pc = "top" /\ TopCheck # "none"
    /\ StopWith(TopCheck)
    /\ pc' = "output"
    /\ UNCHANGED <<clock, fault, iter, tokens, money, turn, reviewed, stream, verdict>>

BeginIteration ==
    /\ pc = "top" /\ TopCheck = "none"
    /\ iter' = iter + 1
    /\ pc' = IF "context" \in Handled THEN "context" ELSE "model"
    /\ UNCHANGED <<clock, fault, tokens, money, turn, result>>

-----------------------------------------------------------------------------
(* An Event-MCP chain (module EventMcp models the chain itself).  Where    *)
(* the engine waits for one, pc is the stage.                              *)

AfterStage(stage) ==
    CASE stage = "context" -> "model"
      [] stage = "after" -> "parse"
      [] stage = "review" -> "finish"

\* A chain on run.before_output may replace the text, also by the empty one.
\* It may pass on a token cancelled under its last handler (see EventMcp).
ChainPasses(stage) ==
    /\ pc = stage
    /\ pc' = AfterStage(stage)
    /\ IF stage = "review"
       THEN final' \in {final, "rewritten", "none"} /\ reviewed' = TRUE
       ELSE UNCHANGED <<final, reviewed>>
    /\ UNCHANGED <<clock, fault, iter, tokens, money, turn, stop, stream, verdict>>

\* A handler rejects, or fails under on_error: abort, or its payload does
\* not decode.
ChainFails(stage) ==
    /\ pc = stage
    /\ fault' = TRUE
    /\ Abandon
    /\ UNCHANGED <<clock, iter, tokens, money, turn>>

\* EventMcpError::Cancelled ends the run like any other handler error.
ChainCancelled(stage) ==
    /\ pc = stage /\ token
    /\ Abandon
    /\ UNCHANGED <<clock, fault, iter, tokens, money, turn>>

-----------------------------------------------------------------------------
(* The completion: complete_accounted under a biased select on the token.  *)

SendRequest ==
    /\ pc = "model" /\ ~token
    /\ sent' = sent + 1
    /\ pc' = "request"
    /\ UNCHANGED <<clock, fault, iter, tokens, spent, ledger, tries, due, answered, turn, result>>

\* No response, 429 or 5xx, with retries left; the backoff is at "model".
RequestRetried ==
    /\ pc = "request" /\ ~token /\ tries < MaxRetries
    /\ tries' = tries + 1
    /\ pc' = "model"
    /\ UNCHANGED <<clock, fault, iter, tokens, spent, ledger, sent, due, answered, turn, result>>

\* Faulty variant: only the last attempt is returned for pricing.
RequestEndsForgetsRetries(ok) ==
    /\ pc = "request" /\ ~token
    /\ answered' = ok
    /\ fault' = (fault \/ ~ok)
    /\ due' = 1
    /\ tries' = 0
    /\ pc' = "billing"
    /\ UNCHANGED <<clock, iter, tokens, spent, ledger, sent, turn, result>>

\* The provider answers, or fails for good: the attempts come back to price.
RequestEnds(ok) ==
    /\ pc = "request" /\ ~token
    /\ answered' = ok
    /\ fault' = (fault \/ ~ok)
    /\ due' = tries + 1
    /\ tries' = 0
    /\ pc' = "billing"
    /\ UNCHANGED <<clock, iter, tokens, spent, ledger, sent, turn, result>>

\* Faulty variant: the token is polled between requests only.
CompletionCancelledBetween ==
    /\ pc = "model" /\ token
    /\ tries' = 0
    /\ StopWith(StopCheck)
    /\ pc' = "output"
    /\ UNCHANGED <<clock, fault, iter, tokens, spent, ledger, sent, due, answered, turn,
                   reviewed, stream, verdict>>

\* The select drops the completion, and with it the attempts it has made.
CompletionCancelled ==
    /\ pc \in {"model", "request"} /\ token
    /\ tries' = 0
    /\ StopWith(StopCheck)
    /\ pc' = "output"
    /\ UNCHANGED <<clock, fault, iter, tokens, spent, ledger, sent, due, answered, turn,
                   reviewed, stream, verdict>>

\* RunCostTracker::record of the resolved cost: a price, or no price.
AttemptPriced ==
    /\ pc = "billing" /\ due > 0
    /\ \/ \E price \in Prices : spent' = spent + price
       \/ UNCHANGED spent
    /\ ledger' = ledger + 1
    /\ due' = due - 1
    /\ UNCHANGED <<pc, clock, fault, iter, tokens, sent, tries, answered, turn, result>>

TokensAdded ==
    /\ pc = "billing" /\ due = 0 /\ answered
    /\ \E used \in TokenUse : tokens' = tokens + used
    /\ pc' = IF "after" \in Handled THEN "after" ELSE "parse"
    /\ UNCHANGED <<clock, fault, iter, money, turn, result>>

CompletionFailed ==
    /\ pc = "billing" /\ due = 0 /\ ~answered
    /\ Abandon
    /\ UNCHANGED <<clock, fault, iter, tokens, money, turn>>

-----------------------------------------------------------------------------
(* The answer of the model.                                                *)

StopAfterResponse ==
    /\ pc = "parse" /\ ResponseCheck # "none"
    /\ StopWith(ResponseCheck)
    /\ pc' = "output"
    /\ UNCHANGED <<clock, fault, iter, tokens, money, turn, reviewed, stream, verdict>>

\* parse_directive fails: two messages are pushed and the loop goes round.
DirectiveRejected ==
    /\ pc = "parse" /\ ResponseCheck = "none"
    /\ pc' = "top"
    /\ UNCHANGED <<clock, fault, iter, tokens, money, turn, result>>

DirectiveParsed ==
    /\ pc = "parse" /\ ResponseCheck = "none"
    /\ goal' \in BOOLEAN
    /\ todo' \in 0..MaxCalls
    /\ pc' = "tools"
    /\ UNCHANGED <<clock, fault, iter, tokens, money, call, callOpen, absent, misses, result>>

-----------------------------------------------------------------------------
(* The tool calls of a directive, one after the other.                     *)

\* A name that is no tool, or a home path already found absent: the call is
\* announced and finished at once and never reaches the executor.
CallRefused ==
    /\ pc = "tools" /\ todo > 0
    /\ todo' = todo - 1
    /\ UNCHANGED <<pc, clock, fault, iter, tokens, money, goal, call, callOpen, absent,
                   misses, result>>

CallAnnounced ==
    /\ pc = "tools" /\ todo > 0
    /\ call' \in (Paths \ absent) \cup {NoPath}
    /\ callOpen' = TRUE
    /\ pc' = "announced"
    /\ UNCHANGED <<clock, fault, iter, tokens, money, goal, todo, absent, misses, result>>

\* Faulty variant: an unbiased select may start the call on a cancelled token.
CallStartsUnbiased ==
    /\ pc = "announced"
    /\ pc' = "calling"
    /\ UNCHANGED <<clock, fault, iter, tokens, money, turn, result>>

\* The first poll of the biased select finds the token quiet.
CallStarts ==
    /\ pc = "announced" /\ ~token
    /\ pc' = "calling"
    /\ UNCHANGED <<clock, fault, iter, tokens, money, turn, result>>

\* Faulty variant: no ToolFinish for a cancelled call.
CallCancelledSilently ==
    /\ pc \in {"announced", "calling"} /\ token
    /\ call' = NoPath
    /\ todo' = 0
    /\ StopWith(StopCheck)
    /\ pc' = "tools"
    /\ UNCHANGED <<clock, fault, iter, tokens, money, goal, callOpen, absent, misses,
                   reviewed, stream, verdict>>

\* The select drops the call; the break drops the rest of the directive.
CallCancelled ==
    /\ pc \in {"announced", "calling"} /\ token
    /\ callOpen' = FALSE /\ call' = NoPath
    /\ todo' = 0
    /\ StopWith(StopCheck)
    /\ pc' = "tools"
    /\ UNCHANGED <<clock, fault, iter, tokens, money, goal, absent, misses, reviewed,
                   stream, verdict>>

CallReturns ==
    /\ pc = "calling" /\ ~token
    /\ pc' = "settle"
    /\ UNCHANGED <<clock, fault, iter, tokens, money, turn, result>>

\* Faulty variant: a missing path is not remembered.
CallFailsForgetful ==
    /\ pc = "calling" /\ ~token
    /\ \/ call \in Paths /\ misses' = [misses EXCEPT ![call] = @ + 1]
       \/ UNCHANGED misses
    /\ callOpen' = FALSE /\ call' = NoPath
    /\ todo' = todo - 1
    /\ pc' = "tools"
    /\ UNCHANGED <<clock, fault, iter, tokens, money, goal, absent, result>>

\* The executor returns an error, "os error 2" among others.
CallFails ==
    /\ pc = "calling" /\ ~token
    /\ \/ /\ call \in Paths
          /\ absent' = absent \cup {call}
          /\ misses' = [misses EXCEPT ![call] = @ + 1]
       \/ UNCHANGED <<absent, misses>>
    /\ callOpen' = FALSE /\ call' = NoPath
    /\ todo' = todo - 1
    /\ pc' = "tools"
    /\ UNCHANGED <<clock, fault, iter, tokens, money, goal, result>>

\* ToolFinish of a call that succeeded, then the stop checks.
CallSettled ==
    /\ pc = "settle"
    /\ callOpen' = FALSE /\ call' = NoPath
    /\ IF StopCheck # "none"
       THEN todo' = 0 /\ StopWith(StopCheck)
       ELSE todo' = todo - 1 /\ UNCHANGED <<final, stop>>
    /\ pc' = "tools"
    /\ UNCHANGED <<clock, fault, iter, tokens, money, goal, absent, misses, reviewed,
                   stream, verdict>>

\* Faulty variant: directive.done wins over a stop set among the calls.
TurnStoppedUnlessDone == stop = "LimitReached" /\ final # "none" /\ ~goal

\* The calls are done: a stop set among them wins over directive.done.
TurnStopped == stop = "LimitReached" /\ final # "none"

TurnEnds ==
    /\ pc = "tools" /\ todo = 0
    /\ \/ /\ TurnStopped
          /\ pc' = "output"
          /\ UNCHANGED <<final, stop>>
       \/ /\ ~TurnStopped /\ goal
          /\ final' \in {"goal", "none"}
          /\ stop' = "GoalReached"
          /\ pc' = "output"
       \/ /\ ~TurnStopped /\ ~goal
          /\ pc' = "top"
          /\ UNCHANGED <<final, stop>>
    /\ goal' = FALSE
    /\ UNCHANGED <<clock, fault, iter, tokens, money, todo, call, callOpen, absent,
                   misses, reviewed, stream, verdict>>

-----------------------------------------------------------------------------
(* After the loop.                                                         *)

\* Faulty variant: only a goal result is reviewed.
NeedsReviewOfGoal ==
    final # "none" /\ ~token /\ "review" \in Handled /\ stop = "GoalReached"

NeedsReview == final # "none" /\ ~token /\ "review" \in Handled

ReviewBegins ==
    /\ pc = "output" /\ NeedsReview
    /\ pc' = "review"
    /\ UNCHANGED <<clock, fault, iter, tokens, money, turn, result>>

\* run_summary, Message, UsageSummary, the persisted chat and the RunOutput.
Conclude ==
    /\ \/ pc = "output" /\ ~NeedsReview
       \/ pc = "finish"
    /\ pc' = "done"
    /\ stream' = "summarised"
    /\ verdict' = stop
    /\ UNCHANGED <<clock, fault, iter, tokens, money, turn, final, stop, reviewed>>

-----------------------------------------------------------------------------

\* What the engine does by itself, or because it was cancelled.
EngineStep ==
    \/ StopAtTop \/ BeginIteration
    \/ \E stage \in Stages : ChainCancelled(stage)
    \/ SendRequest \/ CompletionCancelled
    \/ AttemptPriced \/ TokensAdded \/ CompletionFailed
    \/ StopAfterResponse \/ DirectiveRejected \/ DirectiveParsed
    \/ CallRefused \/ CallAnnounced \/ CallStarts \/ CallCancelled
    \/ CallSettled \/ TurnEnds
    \/ ReviewBegins \/ Conclude

\* What the engine waits for: handlers, the provider, tools.
PeerStep ==
    \/ \E stage \in Stages : ChainPasses(stage) \/ ChainFails(stage)
    \/ RequestRetried
    \/ \E ok \in BOOLEAN : RequestEnds(ok)
    \/ CallReturns \/ CallFails

Next == EngineStep \/ PeerStep \/ Expire \/ SleeperCancels \/ UserCancels

Spec == Init /\ [][Next]_vars

\* Time passes, the sleeper is scheduled and the engine task is polled.
\* Nothing is assumed of the provider, the tools, the handlers or the user.
LiveSpec ==
    /\ Spec
    /\ WF_vars(EngineStep)
    /\ WF_vars(Expire)
    /\ WF_vars(SleeperCancels)

-----------------------------------------------------------------------------
(* Properties.                                                             *)

\* A completion is asked for, and a tool called, only while the tokens and the
\* priced attempts are below their limits: the answer that crosses a limit is
\* paid for but its tool calls are not run (engine.rs, the checks before and
\* after a completion; limits.rs; RunCostTracker::limit_hit).
WithinBudget ==
    pc \in {"request", "announced", "calling"} =>
        /\ tokens < MaxTokens
        /\ \A cap \in MaxCost : spent < cap

\* Once the token is cancelled no provider request goes out and no tool call
\* reaches the executor: the biased selects poll the token first.
NoNewWork == token => sent' = sent /\ (pc' = "calling" => pc = "calling")
NoWorkAfterCancel == [][NoNewWork]_vars

\* A run that was stopped by a limit or a cancellation stays stopped: a done
\* flag in the directive under way does not turn it into GoalReached.
StaysStopped == final \in LimitTexts => stop' = "LimitReached"
LimitVerdictSticks == [][StaysStopped]_vars

\* home.read and home.list of a path are answered "os error 2" at most once in
\* a run: absent_paths keeps the model from asking again.
AbsentAskedOnce == \A p \in Paths : misses[p] <= 1

\* When nobody cancels, the ledger of a finished run has one row per HTTP
\* request the provider received, retried and failed ones included.
LedgerMatches == verdict # "none" /\ ~token => ledger = sent

\* With run.before_output handlers, a final text leaves the run only after the
\* chain has passed it, limit texts included, unless the run is cancelled.
ReviewedAtEnd ==
    stream = "live" /\ stream' = "summarised" /\ final # "none" /\ "review" \in Handled
        => reviewed \/ token
ConcludesReviewed == [][ReviewedAtEnd]_vars

\* stop_reason: error means that the provider or a handler failed or that the
\* run was cancelled; a directive that does not parse never ends a run.
ErrorHasCause == verdict = "Error" => fault \/ token

\* The caller's view: the event stream and the verdict of RunContract.
Contract == INSTANCE RunContract
    WITH stream <- stream, callOpen <- callOpen, verdict <- verdict
ContractHolds == Contract!ContractSpec

\* A run ends, whatever the provider, the tools and the handlers do: the
\* deadline sleeper cancels every wait.
Termination == <>(pc = "done")

-----------------------------------------------------------------------------
(* The inductive invariant behind the theorems of AgentRunProofs.          *)

InCall == {"announced", "calling", "settle"}

\* Between ToolStart and ToolFinish the directive still holds the call, and
\* its path is not one already found absent.
CallShape ==
    /\ callOpen <=> pc \in InCall
    /\ callOpen => todo > 0
    /\ call \in Paths => callOpen /\ call \notin absent

StreamShape ==
    /\ stream = "live" <=> pc # "done"
    /\ verdict = "none" <=> stream = "live"
    /\ verdict = "Error" <=> stream = "abandoned"

\* From the check at the top to the end of the turn the limits are respected;
\* billing is where they may be crossed.
BudgetShape ==
    pc \in {"context", "model", "request", "tools"} \cup InCall =>
        /\ tokens < MaxTokens
        /\ \A cap \in MaxCost : spent < cap

\* A limit text means the loop is being left: no call of the turn remains.
StopShape ==
    final \in LimitTexts =>
        /\ stop = "LimitReached"
        /\ pc \in {"tools", "output", "review", "finish", "done"}
        /\ pc = "tools" => todo = 0

\* Where the requests the provider received are: in the ledger, returned and
\* not yet priced, retried, or in flight.
LedgerShape ==
    /\ pc \notin {"model", "request"} => tries = 0
    /\ pc # "billing" => due = 0
    /\ ~token => sent = ledger + due + tries + (IF pc = "request" THEN 1 ELSE 0)

MissShape == \A p \in Paths : misses[p] = 0 \/ (misses[p] = 1 /\ p \in absent)

CauseShape ==
    /\ pc = "billing" /\ ~answered => fault
    /\ verdict = "Error" => fault \/ token
    /\ pc = "finish" => reviewed

RunInv ==
    /\ TypeOK
    /\ CallShape
    /\ StreamShape
    /\ BudgetShape
    /\ StopShape
    /\ LedgerShape
    /\ MissShape
    /\ CauseShape

=============================================================================
