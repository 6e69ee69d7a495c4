---------------------------- MODULE McpActor ----------------------------
(***************************************************************************)
(* One stdio MCP server: the actor that owns its client                    *)
(* (src/mcp/stdio_client/registry.rs), the NDJSON framing and the child    *)
(* (process.rs).                                                           *)
(*                                                                         *)
(* Callers put requests into a bounded channel and wait for a oneshot.     *)
(* They go away on cancellation, or because whoever awaits them gave up    *)
(* (an Event-MCP handler's timeout); the request they sent stays.  The     *)
(* actor serves one request at a time and cannot be cancelled in between.  *)
(* The child reads, answers, stalls and dies as it likes.                  *)
(*                                                                         *)
(* Each call makes one request, so a call stands for its JSON-RPC id.      *)
(* Notifications and error objects are not told apart from answers.        *)
(***************************************************************************)
EXTENDS Naturals, Sequences, FiniteSets

CONSTANTS
    Calls,      \* the calls made on the registry
    QueueSize,  \* the capacity of the actor's channel
    PipeRoom,   \* requests the child's stdin holds before a write blocks
    Nobody      \* no call

ASSUME SizesAssumption == QueueSize \in Nat \ {0} /\ PipeRoom \in Nat \ {0}

ASSUME NobodyAssumption == Nobody \notin Calls

\* What a caller may get instead of an answer; an answer is the call it is for.
Refusals == {"none", "cancelled", "closed", "timeout", "failed"}

ASSUME RefusalsAssumption == Refusals \cap Calls = {}

VARIABLES
    caller,    \* where the caller of each call is
    outcome,   \* what the caller got
    queue,     \* the channel to the actor
    actor,     \* what the actor does
    serving,   \* the request it serves, or Nobody
    partial,   \* the frame under way has its head in the read buffer
    token,     \* the RunCancel of the run is cancelled
    registry,  \* connecting, open, joining (shutdown awaits the actor) or left
    child,     \* up, exited, or killed (SIGKILL was sent)
    stdin,     \* requests written and not yet read by the child
    todo,      \* requests the child has read and not yet answered
    half,      \* the call whose answer the child has written the head of
    stdout,    \* pieces of frames written and not yet read by the actor
    expired,   \* history: requests the actor timed out
    garbled,   \* history: requests that failed on the rest of a frame
    late       \* history: requests taken after the cancellation

callers == <<caller, outcome>>
actorVars == <<actor, serving, partial>>
pipes == <<stdin, todo, half, stdout>>
clientHistory == <<expired, garbled, late>>
clientVars == <<callers, queue, actorVars, token, registry, child, pipes, clientHistory>>

Pieces == [of : Calls, part : {"whole", "head", "tail"}]

ActorTypeOK ==
    /\ caller \in [Calls -> {"idle", "sending", "queued", "done", "abandoned"}]
    /\ outcome \in [Calls -> Calls \cup Refusals]
    /\ queue \in Seq(Calls) /\ Len(queue) <= QueueSize
    /\ actor \in {"none", "listening", "checked", "writing", "reading", "closing", "killing", "gone"}
    /\ serving \in Calls \cup {Nobody} /\ partial \in BOOLEAN
    /\ token \in BOOLEAN /\ registry \in {"connecting", "open", "joining", "left"}
    /\ child \in {"none", "up", "exited", "killed"}
    /\ stdin \in Seq(Calls) /\ Len(stdin) <= PipeRoom
    /\ todo \subseteq Calls /\ half \in Calls \cup {Nobody}
    /\ stdout \in Seq(Pieces)
    /\ expired \subseteq Calls /\ garbled \subseteq Calls /\ late \in Nat

ActorInit ==
    /\ caller = [c \in Calls |-> "idle"] /\ outcome = [c \in Calls |-> "none"]
    /\ queue = <<>> /\ actor = "none" /\ serving = Nobody /\ partial = FALSE
    /\ token = FALSE /\ registry = "connecting" /\ child = "none"
    /\ stdin = <<>> /\ todo = {} /\ half = Nobody /\ stdout = <<>>
    /\ expired = {} /\ garbled = {} /\ late = 0

-----------------------------------------------------------------------------
(* The server has started and answered the handshake: its actor is spawned *)
(* (connect_all_isolated; a server that fails to is AgentTurn's).          *)

Connected ==
    /\ registry = "connecting" /\ registry' = "open"
    /\ child' = "up" /\ actor' = "listening"
    /\ UNCHANGED <<callers, queue, serving, partial, token, pipes, clientHistory>>

-----------------------------------------------------------------------------
(* The callers: McpClientHandle::request.                                  *)

Settled(c, result) ==
    /\ caller' = [caller EXCEPT ![c] = "done"]
    /\ outcome' = [outcome EXCEPT ![c] = result]

CallerOnly == UNCHANGED <<actorVars, token, registry, child, pipes, clientHistory>>

Issue(c) ==
    /\ caller[c] = "idle" /\ registry = "open"
    /\ IF token THEN Settled(c, "cancelled")
       ELSE caller' = [caller EXCEPT ![c] = "sending"] /\ UNCHANGED outcome
    /\ UNCHANGED queue /\ CallerOnly

Send(c) ==
    /\ caller[c] = "sending" /\ ~token /\ actor # "gone" /\ Len(queue) < QueueSize
    /\ caller' = [caller EXCEPT ![c] = "queued"]
    /\ queue' = Append(queue, c)
    /\ UNCHANGED outcome /\ CallerOnly

\* Faulty variant: the reply is awaited without looking at the token.
CancelledSendingOnly(c) ==
    /\ caller[c] = "sending" /\ token
    /\ Settled(c, "cancelled")
    /\ UNCHANGED queue /\ CallerOnly

\* Sending and waiting both look at the token; what was sent stays sent.
CallerCancelled(c) ==
    /\ caller[c] \in {"sending", "queued"} /\ token
    /\ Settled(c, "cancelled")
    /\ UNCHANGED queue /\ CallerOnly

\* The actor's end of the channel is dropped with the actor.
CallerClosedOut(c) ==
    /\ caller[c] \in {"sending", "queued"} /\ actor = "gone"
    /\ Settled(c, "closed")
    /\ UNCHANGED queue /\ CallerOnly

\* Faulty variant: the read of a request ends with its caller.
AbandonDropsRead(c) ==
    /\ caller[c] = "queued" /\ serving = c /\ actor = "reading"
    /\ caller' = [caller EXCEPT ![c] = "abandoned"]
    /\ actor' = "listening" /\ serving' = Nobody /\ partial' = FALSE
    /\ UNCHANGED <<outcome, queue, token, registry, child, pipes, clientHistory>>

\* The future of the call is dropped.
Abandon(c) ==
    /\ caller[c] \in {"sending", "queued"}
    /\ caller' = [caller EXCEPT ![c] = "abandoned"]
    /\ UNCHANGED <<outcome, queue>> /\ CallerOnly

Cancel ==
    /\ ~token /\ registry # "connecting" /\ token' = TRUE
    /\ UNCHANGED <<callers, queue, actorVars, registry, child, pipes, clientHistory>>

-----------------------------------------------------------------------------
(* The actor loop of spawn_actor.  Its biased select looks at the token    *)
(* first and at the channel then: two steps.                               *)

ActorMoves(to) ==
    /\ actor' = to
    /\ UNCHANGED <<callers, queue, serving, partial, token, registry, child, pipes, clientHistory>>

PollToken == actor = "listening" /\ ~token /\ ActorMoves("checked")

CancelNoticed == actor = "listening" /\ token /\ ActorMoves("closing")

NothingToTake == actor = "checked" /\ queue = <<>> /\ registry = "open" /\ ActorMoves("listening")

\* A closed channel is closed only once it is empty.
ChannelClosed == actor = "checked" /\ queue = <<>> /\ registry # "open" /\ ActorMoves("closing")

TakeRequest ==
    /\ actor = "checked" /\ queue # <<>>
    /\ actor' = "writing" /\ serving' = Head(queue) /\ queue' = Tail(queue)
    /\ late' = IF token THEN late + 1 ELSE late
    /\ UNCHANGED <<callers, partial, token, registry, child, pipes, expired, garbled>>

\* write_frame: no timeout, it waits for room in the pipe.
WriteRequest ==
    /\ actor = "writing" /\ child = "up" /\ Len(stdin) < PipeRoom
    /\ actor' = "reading"
    /\ stdin' = Append(stdin, serving)
    /\ UNCHANGED <<callers, queue, serving, partial, token, registry, child,
                   todo, half, stdout, clientHistory>>

\* The result goes to the caller, if there is one left.
Reply(result) ==
    /\ actor' = "listening" /\ serving' = Nobody /\ partial' = FALSE
    /\ IF caller[serving] = "queued" THEN Settled(serving, result) ELSE UNCHANGED callers
    /\ UNCHANGED <<queue, token, registry, child>>

WriteFails ==
    /\ actor = "writing" /\ child # "up"
    /\ Reply("failed")
    /\ UNCHANGED <<pipes, clientHistory>>

\* Faulty variant: whatever answer comes first is taken.
FirstAnswer(answered) == Reply(answered) /\ UNCHANGED garbled

\* wait_for_response: frames of other ids are skipped.
FrameOf(answered) ==
    IF answered = serving
    THEN Reply(answered) /\ UNCHANGED garbled
    ELSE /\ partial' = FALSE
         /\ UNCHANGED <<callers, queue, actor, serving, token, registry, child, garbled>>

\* Without its head, the rest of a frame is not JSON.
RestOfFrame(piece) ==
    /\ Reply("failed")
    /\ garbled' = garbled \cup {serving}

\* read_ndjson_line_bytes: a head waits in the buffer for its rest.
ReadPiece ==
    /\ actor = "reading" /\ stdout # <<>>
    /\ stdout' = Tail(stdout)
    /\ LET piece == Head(stdout) IN
         \/ /\ piece.part = "whole" \/ (piece.part = "tail" /\ partial)
            /\ FrameOf(piece.of)
         \/ piece.part = "tail" /\ ~partial /\ RestOfFrame(piece)
         \/ /\ piece.part = "head" /\ partial' = TRUE
            /\ UNCHANGED <<callers, queue, actor, serving, token, registry, child, garbled>>
    /\ UNCHANGED <<stdin, todo, half, expired, late>>

ReadsEof ==
    /\ actor = "reading" /\ child # "up" /\ stdout = <<>>
    /\ Reply("failed")
    /\ UNCHANGED <<pipes, clientHistory>>

\* The timeout drops the read with what its buffer held.
WaitTimesOut ==
    /\ actor = "reading"
    /\ Reply("timeout")
    /\ expired' = expired \cup {serving}
    /\ UNCHANGED <<pipes, garbled, late>>

-----------------------------------------------------------------------------
(* The end: McpRegistry::shutdown or Drop, and shutdown_stdio_child.       *)

\* Nobody can be calling: both need the last reference.
Close ==
    /\ registry = "open"
    /\ \A c \in Calls : caller[c] \notin {"sending", "queued"}
    /\ registry' \in {"joining", "left"}
    /\ UNCHANGED <<callers, queue, actorVars, token, child, pipes, clientHistory>>

JoinEnds ==
    /\ registry = "joining" /\ actor = "gone" /\ registry' = "left"
    /\ UNCHANGED <<callers, queue, actorVars, token, child, pipes, clientHistory>>

JoinTimesOut ==
    /\ registry = "joining" /\ registry' = "left"
    /\ UNCHANGED <<callers, queue, actorVars, token, child, pipes, clientHistory>>

ActorEnds(fate) ==
    /\ actor' = "gone" /\ child' = fate
    /\ UNCHANGED <<callers, queue, serving, partial, token, registry, pipes, clientHistory>>

ChildReaped == actor = "closing" /\ child # "up" /\ ActorEnds(child)

\* The child ignores the end of its stdin: it is killed.
GraceTimesOut ==
    /\ actor = "closing" /\ child = "up"
    /\ actor' = "killing" /\ child' = "killed"
    /\ UNCHANGED <<callers, queue, serving, partial, token, registry, pipes, clientHistory>>

KillAwaited == actor = "killing" /\ ActorEnds(child)

\* The process ends with the actor detached: kill_on_drop.
RuntimeDropped ==
    /\ registry = "left" /\ actor # "gone"
    /\ ActorEnds(IF child = "up" THEN "killed" ELSE child)

-----------------------------------------------------------------------------
(* The child.                                                              *)

ChildOnly == UNCHANGED <<callers, queue, actorVars, token, registry, clientHistory>>

ChildExits ==
    /\ child = "up" /\ child' = "exited"
    /\ UNCHANGED pipes /\ ChildOnly

ChildReads ==
    /\ child = "up" /\ stdin # <<>>
    /\ stdin' = Tail(stdin) /\ todo' = todo \cup {Head(stdin)}
    /\ UNCHANGED <<child, half, stdout>> /\ ChildOnly

Writes(c, part) == stdout' = Append(stdout, [of |-> c, part |-> part])

\* Answers come in any order, at any time, in one piece or in two.
ChildAnswers(c) ==
    /\ child = "up" /\ c \in todo /\ half = Nobody
    /\ todo' = todo \ {c}
    /\ \/ Writes(c, "whole") /\ UNCHANGED half
       \/ Writes(c, "head") /\ half' = c
    /\ UNCHANGED <<child, stdin>> /\ ChildOnly

ChildFinishes ==
    /\ child = "up" /\ half # Nobody
    /\ Writes(half, "tail") /\ half' = Nobody
    /\ UNCHANGED <<child, stdin, todo>> /\ ChildOnly

-----------------------------------------------------------------------------

ActorStep ==
    \/ PollToken \/ CancelNoticed \/ NothingToTake \/ ChannelClosed
    \/ TakeRequest \/ WriteRequest \/ WriteFails \/ ReadPiece \/ ReadsEof
    \/ ChildReaped \/ GraceTimesOut \/ KillAwaited

CallerStep(c) == Send(c) \/ CallerCancelled(c) \/ CallerClosedOut(c)

ActorNext ==
    \/ Connected \/ ActorStep \/ WaitTimesOut
    \/ Cancel \/ Close \/ JoinEnds \/ JoinTimesOut \/ RuntimeDropped
    \/ \E c \in Calls : Issue(c) \/ CallerStep(c) \/ Abandon(c) \/ ChildAnswers(c)
    \/ ChildExits \/ ChildReads \/ ChildFinishes

\* Tokio schedules the actor, the callers and the timers, and the run's
\* deadline cancels its token.  Nothing is assumed of the child.
ActorFairness ==
    /\ WF_clientVars(ActorStep) /\ WF_clientVars(WaitTimesOut) /\ WF_clientVars(Cancel)
    /\ WF_clientVars(JoinEnds) /\ WF_clientVars(JoinTimesOut)
    /\ \A c \in Calls : WF_clientVars(CallerStep(c))

ActorSpec == ActorInit /\ [][ActorNext]_clientVars /\ ActorFairness

-----------------------------------------------------------------------------
(* Properties.                                                             *)

\* A caller gets the answer to its own request and no other, although answers
\* of timed out and abandoned requests arrive late and in any order.
MatchedReply == \A c \in Calls : outcome[c] \in Calls => outcome[c] = c

\* A timeout in the middle of a frame loses the frame's head, and the rest of
\* it fails a later request.  The framing recovers from that: a timeout spoils
\* at most one request, and none is spoilt without a timeout.
OneSpoiltPerTimeout == Cardinality(garbled) <= Cardinality(expired)

\* After the cancellation at most one more request reaches the server: the one
\* the actor was about to take when the token was cancelled.
OneLateTake == late <= 1

\* The actor leaves no server behind: its child has exited or was killed.
ChildNotLeft == actor = "gone" => child # "up"

\* What the actor keeps, and how it ends (run_actor).
ActorInv ==
    /\ ActorTypeOK /\ ChildNotLeft /\ OneLateTake
    /\ MatchedReply /\ OneSpoiltPerTimeout

\* What a caller has got, as its callers see it: an answer is its own.
Got(c) ==
    IF caller[c] = "idle" THEN "none"
    ELSE IF caller[c] \in {"sending", "queued"} THEN "waiting"
    ELSE IF caller[c] = "abandoned" THEN "gone"
    ELSE IF outcome[c] = c THEN "answer"
    ELSE IF outcome[c] \in Refusals THEN "error" ELSE "answer of another call"

\* The actor, its pipes and its child keep the promise of McpRegistry
\* (McpClientHandle::request, spawn_actor).
Promise == INSTANCE McpCalls WITH got <- [c \in Calls |-> Got(c)]
PromiseHolds == Promise!CallsSpec

\* No caller waits for ever and McpRegistry::shutdown returns, even while the
\* child does not read and a write, which has no timeout, blocks the actor.
ActorCallsReturn ==
    /\ \A c \in Calls : caller[c] \in {"sending", "queued"} ~> caller[c] \in {"done", "abandoned"}
    /\ registry = "joining" ~> registry = "left"

=============================================================================
