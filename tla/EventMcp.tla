---------------------------- MODULE EventMcp ----------------------------
(***************************************************************************)
(* One Event-MCP chain: EventMcpDispatcher::dispatch with invoke_handler   *)
(* (src/event_mcp/dispatcher.rs), called by the engine at a stage and      *)
(* calling each handler through McpClientHandle::request                   *)
(* (src/mcp/stdio_client/registry.rs).                                     *)
(*                                                                         *)
(* The handlers of a chain are called one after the other; each sees the   *)
(* payload the ones before it left.  The engine asks has_handlers first,   *)
(* so a chain has at least one.  Two selects guard a call: the             *)
(* dispatcher's and, inside it, the MCP client's, and both poll the same   *)
(* token.  A poll of the call is the pair of these two, and the token may  *)
(* be cancelled between them by another thread of the runtime.             *)
(***************************************************************************)
EXTENDS Naturals, Sequences, FiniteSets

CONSTANTS
    Handlers,   \* the number of handlers in the chain
    Lenient,    \* the handlers with on_error: continue
    Payloads,   \* what a payload may be
    Oversized   \* the payloads whose envelope exceeds max_payload_bytes

ASSUME ChainAssumption ==
    /\ Handlers \in Nat \ {0}
    /\ Lenient \subseteq 1..Handlers
    /\ Oversized \subseteq Payloads
    /\ Payloads # {}

VARIABLES
    pc,         \* where dispatch is
    pos,        \* the handler whose turn it is
    current,    \* the payload so far
    requested,       \* the call of this handler went to the MCP server
    runToken,      \* RunCancel.token is cancelled
    log,        \* history: how each handler's turn ended
    first,      \* history: the payload the engine passed in
    calls       \* history: calls that reached an MCP server

chainVars == <<pc, pos, current, requested, runToken, log, first, calls>>

\* How a handler's turn ends; "cut" is McpError::Cancelled, the inner select's
\* view of the cancellation.
Failures == {"timeout", "error", "invalid", "oversized", "cut"}
Turns == [how : {"pass", "replace", "reject", "cancelled"} \cup Failures, new : Payloads]

ChainTypeOK ==
    /\ pc \in {"idle", "turn", "polled", "waiting", "passed", "failed"}
    /\ pos \in 1..(Handlers + 1)
    /\ current \in Payloads /\ first \in Payloads
    /\ requested \in BOOLEAN /\ runToken \in BOOLEAN
    /\ log \in Seq(Turns) /\ Len(log) <= Handlers
    /\ calls \in 0..Handlers

ChainInit ==
    /\ pc = "idle" /\ pos = 1
    /\ current \in Payloads /\ first = current
    /\ requested = FALSE /\ runToken \in BOOLEAN
    /\ log = <<>> /\ calls = 0

-----------------------------------------------------------------------------

\* The engine dispatches a stage that has handlers.
Dispatch ==
    /\ pc = "idle" /\ pc' = "turn"
    /\ UNCHANGED <<pos, current, requested, runToken, log, first, calls>>

\* The user, or the deadline sleeper, cancels the run.
Cancel ==
    /\ ~runToken /\ pc \notin {"passed", "failed"}
    /\ runToken' = TRUE
    /\ UNCHANGED <<pc, pos, current, requested, log, first, calls>>

\* The turn of handler pos ends; the chain goes on to the next or is over.
NextTurn ==
    /\ pos' = pos + 1
    /\ requested' = FALSE
    /\ pc' = IF pos = Handlers THEN "passed" ELSE "turn"

\* The turn ended so, and left this payload.
Record(how, payload) == log' = Append(log, [how |-> how, new |-> payload])

\* A failure is fatal unless the handler is configured to continue.
TurnFails(how) ==
    /\ Record(how, current)
    /\ UNCHANGED current
    /\ IF pos \in Lenient THEN NextTurn
       ELSE pc' = "failed" /\ UNCHANGED <<pos, requested>>

\* Rejections and cancellations end the chain whatever the policy.
ChainEnds(how) ==
    /\ Record(how, current)
    /\ UNCHANGED <<current, pos, requested>>
    /\ pc' = "failed"

\* The envelope is measured before anything is sent.
PayloadTooLarge ==
    /\ pc = "turn" /\ current \in Oversized
    /\ TurnFails("oversized")
    /\ UNCHANGED <<runToken, first, calls>>

\* The dispatcher's select, on the first poll and on every wake-up: the token
\* first, and only then the call.
PollsToken ==
    /\ \/ pc = "turn" /\ current \notin Oversized
       \/ pc = "waiting"
    /\ ~runToken
    /\ pc' = "polled"
    /\ UNCHANGED <<pos, current, requested, runToken, log, first, calls>>

SeesCancel ==
    /\ \/ pc = "turn" /\ current \notin Oversized
       \/ pc = "waiting"
    /\ runToken
    /\ ChainEnds("cancelled")
    /\ UNCHANGED <<runToken, first, calls>>

\* The MCP client's own check and selects find the token cancelled: for the
\* dispatcher this is a transport error like any other.
CallCut ==
    /\ pc = "polled" /\ runToken
    /\ TurnFails("cut")
    /\ UNCHANGED <<runToken, first, calls>>

\* The MCP client finds no room in the actor's queue, queues the call, or
\* finds no reply yet.
CallPending ==
    /\ pc = "polled" /\ ~runToken
    /\ requested' \in {requested, TRUE}
    /\ calls' = IF requested' /\ ~requested THEN calls + 1 ELSE calls
    /\ pc' = "waiting"
    /\ UNCHANGED <<pos, current, runToken, log, first>>

\* The handler passes or replaces the payload.
HandlerAccepts ==
    /\ pc = "polled" /\ requested
    /\ \/ UNCHANGED current /\ Record("pass", current)
       \/ \E payload \in Payloads : current' = payload /\ Record("replace", payload)
    /\ NextTurn
    /\ UNCHANGED <<runToken, first, calls>>

\* Faulty variant: a rejection is a failure that on_error: continue forgives.
HandlerRejectsLeniently ==
    /\ pc = "polled" /\ requested
    /\ TurnFails("reject")
    /\ UNCHANGED <<runToken, first, calls>>

HandlerRejects ==
    /\ pc = "polled" /\ requested
    /\ ChainEnds("reject")
    /\ UNCHANGED <<runToken, first, calls>>

\* An MCP error (also before the call is sent), isError, an oversized or a
\* malformed outcome.
HandlerErrs ==
    /\ pc = "polled"
    /\ TurnFails("error")
    /\ UNCHANGED <<runToken, first, calls>>

HandlerAnswersInvalid ==
    /\ pc = "polled" /\ requested
    /\ TurnFails("invalid")
    /\ UNCHANGED <<runToken, first, calls>>

\* Faulty variant: the timer covers the queueing of the call only.
QueueingTimesOut ==
    /\ pc = "polled" /\ ~requested
    /\ TurnFails("timeout")
    /\ UNCHANGED <<runToken, first, calls>>

\* timeout_ms has elapsed: the call future is dropped, the request it queued
\* is not.
HandlerTimesOut ==
    /\ pc = "polled"
    /\ TurnFails("timeout")
    /\ UNCHANGED <<runToken, first, calls>>

-----------------------------------------------------------------------------

ChainNext ==
    \/ Dispatch \/ Cancel
    \/ PayloadTooLarge
    \/ PollsToken \/ SeesCancel \/ CallCut \/ CallPending
    \/ HandlerAccepts \/ HandlerRejects \/ HandlerErrs
    \/ HandlerAnswersInvalid \/ HandlerTimesOut

\* The dispatcher is polled when woken, and the timer of a call wakes it up
\* and is then found elapsed: nothing is assumed of the handlers.
ChainFairness ==
    /\ WF_chainVars(PayloadTooLarge \/ PollsToken \/ SeesCancel \/ CallCut)
    /\ SF_chainVars(HandlerTimesOut)

ChainSpec == ChainInit /\ [][ChainNext]_chainVars /\ ChainFairness

-----------------------------------------------------------------------------
(* Properties.                                                             *)

\* What a chain computes from the turns of its handlers: the last replacement.
LastReplacement(turns, payload) ==
    LET replaced == {i \in 1..Len(turns) : turns[i].how = "replace"}
    IN  IF replaced = {} THEN payload
        ELSE turns[CHOOSE i \in replaced : \A j \in replaced : j <= i].new

\* The payload a handler sees and the engine gets back is the last valid
\* replacement: a handler that failed or was skipped leaves no trace.
PayloadIsLastReplacement == current = LastReplacement(log, first)

\* A chain that passed went through every handler, none of them rejected, and
\* the ones that failed were all allowed to (on_error: continue).
PassedMeansAccepted ==
    pc = "passed" =>
        /\ Len(log) = Handlers
        /\ \A i \in 1..Len(log) :
             /\ log[i].how \notin {"reject", "cancelled"}
             /\ log[i].how \in Failures => i \in Lenient

\* What holds of a chain at every await (dispatch).
ChainInv == ChainTypeOK /\ PayloadIsLastReplacement /\ PassedMeansAccepted

\* A handler that never answers does not hold the run: the chain ends
\* (invoke_handler).
ChainTerminates == pc = "turn" ~> pc \in {"passed", "failed"}

=============================================================================
