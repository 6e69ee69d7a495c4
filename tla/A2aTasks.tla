---------------------------- MODULE A2aTasks ----------------------------
(***************************************************************************)
(* The A2A server (src/a2a/executor.rs, and the shutdown of               *)
(* src/a2a/server.rs): every message of a peer becomes a task that runs    *)
(* the engine once and answers through a stream.                           *)
(*                                                                         *)
(* execute registers the task's RunCancel and spawns a tokio task;         *)
(* CancelTask requests and Ctrl+C run on other threads, between any two of *)
(* its steps.  What the engine does is AgentRun; here a run returns some   *)
(* verdict, at the latest after its token was cancelled.                   *)
(*                                                                         *)
(* Assumed of the A2A library: it hands out a fresh id for each task.      *)
(***************************************************************************)
EXTENDS Naturals, FiniteSets

CONSTANTS
    Tasks,   \* the tasks peers ask for
    Permits  \* MAX_IN_FLIGHT_TASKS

ASSUME PermitsAssumption == Permits \in Nat

VARIABLES
    stage,      \* where execute and the spawned task of each message are
    token,      \* who cancelled the RunCancel of the task first, or "quiet"
    outcome,    \* what run returned, "Wiring" for an Err
    cancels,    \* the keys of KuibysheffExecutor.cancels
    permits,    \* the permits left in the in_flight semaphore
    attached,   \* the peer still reads the stream
    reported,   \* the final state sent to the stream, or "none"
    acked,      \* history: a CancelTask was answered with Canceled
    aborting,   \* the tasks abort_all found in the JoinSet
    server      \* up, cancelling (Ctrl+C was seen) or stopped

answers == <<attached, reported, acked>>
taskVars == <<stage, token, outcome, cancels, permits, answers, aborting, server>>

\* The phases in which a task holds its permit.
Live == {"admitted", "spawned", "working", "running", "returned", "removed"}

LiveTasks == {t \in Tasks : stage[t] \in Live}

TasksTypeOK ==
    /\ stage \in [Tasks -> Live \cup {"none", "refused", "ended"}]
    /\ token \in [Tasks -> {"quiet", "peer", "shutdown", "deadline"}]
    /\ outcome \in [Tasks -> {"none", "GoalReached", "LimitReached", "Error", "Wiring"}]
    /\ cancels \subseteq Tasks /\ aborting \subseteq Tasks
    /\ permits \in 0..Permits
    /\ attached \in [Tasks -> BOOLEAN] /\ acked \in [Tasks -> BOOLEAN]
    /\ reported \in [Tasks -> {"none", "Completed", "Failed", "Canceled"}]
    /\ server \in {"up", "cancelling", "stopped"}

TasksInit ==
    /\ stage = [t \in Tasks |-> "none"] /\ token = [t \in Tasks |-> "quiet"]
    /\ outcome = [t \in Tasks |-> "none"] /\ cancels = {} /\ permits = Permits
    /\ attached = [t \in Tasks |-> TRUE] /\ acked = [t \in Tasks |-> FALSE]
    /\ reported = [t \in Tasks |-> "none"]
    /\ aborting = {} /\ server = "up"

TaskMoves(t, from, to) == stage[t] = from /\ stage' = [stage EXCEPT ![t] = to]

\* The task is over: its permit goes back, and the peer may get a last word.
Ends(t, word) ==
    /\ stage' = [stage EXCEPT ![t] = "ended"]
    /\ permits' = permits + 1
    /\ reported' = [reported EXCEPT ![t] = word]

-----------------------------------------------------------------------------
(* execute.                                                                *)

Refuse(t) ==
    /\ permits = 0
    /\ TaskMoves(t, "none", "refused")
    /\ UNCHANGED <<token, outcome, cancels, permits, answers, aborting, server>>

Admit(t) ==
    /\ permits > 0
    /\ TaskMoves(t, "none", "admitted")
    /\ permits' = permits - 1
    /\ cancels' = cancels \cup {t}
    /\ UNCHANGED <<token, outcome, answers, aborting, server>>

\* A cancellation that is already there answers the peer at once.
LaunchCancelled(t) ==
    /\ stage[t] = "admitted" /\ token[t] # "quiet"
    /\ cancels' = cancels \ {t}
    /\ Ends(t, "Canceled")
    /\ UNCHANGED <<token, outcome, attached, acked, aborting, server>>

Launch(t) ==
    /\ token[t] = "quiet"
    /\ TaskMoves(t, "admitted", "spawned")
    /\ UNCHANGED <<token, outcome, cancels, permits, answers, aborting, server>>

-----------------------------------------------------------------------------
(* The spawned task.                                                       *)

SendWorking(t) ==
    /\ attached[t]
    /\ TaskMoves(t, "spawned", "working")
    /\ UNCHANGED <<token, outcome, cancels, permits, answers, aborting, server>>

\* The peer has gone: the working update cannot be sent and nothing is run.
NobodyReads(t) ==
    /\ stage[t] = "spawned" /\ ~attached[t]
    /\ cancels' = cancels \ {t}
    /\ Ends(t, "none")
    /\ UNCHANGED <<token, outcome, attached, acked, aborting, server>>

CancelledBeforeRun(t) ==
    /\ stage[t] = "working" /\ token[t] # "quiet"
    /\ cancels' = cancels \ {t}
    /\ Ends(t, "Canceled")
    /\ UNCHANGED <<token, outcome, attached, acked, aborting, server>>

TaskRunStarts(t) ==
    /\ token[t] = "quiet"
    /\ TaskMoves(t, "working", "running")
    /\ UNCHANGED <<token, outcome, cancels, permits, answers, aborting, server>>

TaskRunReturns(t) ==
    /\ TaskMoves(t, "running", "returned")
    /\ \E v \in {"GoalReached", "LimitReached", "Error", "Wiring"} :
         outcome' = [outcome EXCEPT ![t] = v]
    /\ UNCHANGED <<token, cancels, permits, answers, aborting, server>>

Unregister(t) ==
    /\ TaskMoves(t, "returned", "removed")
    /\ cancels' = cancels \ {t}
    /\ UNCHANGED <<token, outcome, permits, answers, aborting, server>>

\* Faulty variant: a run that reached its goal is completed, cancelled or not.
FinalStateOfVerdict(t) ==
    IF outcome[t] = "GoalReached" THEN "Completed"
    ELSE IF token[t] # "quiet" THEN "Canceled"
    ELSE IF outcome[t] = "LimitReached" THEN "Completed" ELSE "Failed"

\* map_run_output, and the same for an Err: a cancelled token comes first,
\* whoever cancelled it.
FinalState(t) ==
    IF token[t] # "quiet" THEN "Canceled"
    ELSE IF outcome[t] \in {"GoalReached", "LimitReached"} THEN "Completed" ELSE "Failed"

Report(t) ==
    /\ stage[t] = "removed"
    /\ Ends(t, FinalState(t))
    /\ UNCHANGED <<token, outcome, cancels, attached, acked, aborting, server>>

-----------------------------------------------------------------------------
(* The peer, the deadline of the run and the shutdown.                     *)

\* cancel: the lookup and the cancellation are one critical section.
CancelTask(t) ==
    /\ t \in cancels
    /\ token' = [token EXCEPT ![t] = IF @ = "quiet" THEN "peer" ELSE @]
    /\ acked' = [acked EXCEPT ![t] = TRUE]
    /\ UNCHANGED <<stage, outcome, cancels, permits, attached, reported, aborting, server>>

Detach(t) ==
    /\ stage[t] \in Live /\ attached[t]
    /\ attached' = [attached EXCEPT ![t] = FALSE]
    /\ UNCHANGED <<stage, token, outcome, cancels, permits, reported, acked, aborting, server>>

\* Faulty variant: the sleeper is stopped by the end of the run only.
DeadlineUnarmed(t) ==
    /\ stage[t] = "removed" /\ token[t] = "quiet"
    /\ token' = [token EXCEPT ![t] = "deadline"]
    /\ UNCHANGED <<stage, outcome, cancels, permits, answers, aborting, server>>

\* The sleeper of arm_deadline: the run arms it, its end does not disarm it.
TaskDeadlineFires(t) ==
    /\ stage[t] \in {"running", "returned", "removed"} /\ token[t] = "quiet"
    /\ token' = [token EXCEPT ![t] = "deadline"]
    /\ UNCHANGED <<stage, outcome, cancels, permits, answers, aborting, server>>

CancelAll ==
    /\ server = "up" /\ server' = "cancelling"
    /\ token' = [t \in Tasks |-> IF t \in cancels /\ token[t] = "quiet"
                                 THEN "shutdown" ELSE token[t]]
    /\ UNCHANGED <<stage, outcome, cancels, permits, answers, aborting>>

AbortAll ==
    /\ server = "cancelling" /\ server' = "stopped"
    /\ aborting' = {t \in LiveTasks : stage[t] # "admitted"}
    /\ UNCHANGED <<stage, token, outcome, cancels, permits, answers>>

\* An aborted task is dropped where it waits, with its permit and its stream
\* and without a last word.  A task that is past its last wait completes.
Dropped(t) ==
    /\ t \in aborting /\ stage[t] \in {"spawned", "running"}
    /\ Ends(t, "none")
    /\ UNCHANGED <<token, outcome, cancels, attached, acked, aborting, server>>

-----------------------------------------------------------------------------

TaskStep(t) ==
    \/ LaunchCancelled(t) \/ Launch(t)
    \/ SendWorking(t) \/ NobodyReads(t) \/ CancelledBeforeRun(t) \/ TaskRunStarts(t)
    \/ Unregister(t) \/ Report(t)

TasksNext ==
    \/ \E t \in Tasks :
         \/ Refuse(t) \/ Admit(t) \/ TaskStep(t) \/ TaskRunReturns(t)
         \/ CancelTask(t) \/ Detach(t) \/ TaskDeadlineFires(t) \/ Dropped(t)
    \/ CancelAll \/ AbortAll

\* Tokio schedules the tasks and the sleepers.  Of a run only this is
\* assumed: it returns once its token is cancelled (Termination of AgentRun).
TasksFairness ==
    \A t \in Tasks :
        /\ WF_taskVars(TaskStep(t)) /\ WF_taskVars(TaskDeadlineFires(t))
        /\ WF_taskVars(token[t] # "quiet" /\ TaskRunReturns(t))

TasksSpec == TasksInit /\ [][TasksNext]_taskVars /\ TasksFairness

-----------------------------------------------------------------------------
(* Properties.                                                             *)

\* Every way out of execute and of the spawned task, aborts included, gives
\* back the permit, and gives it back once: the server never runs more than
\* MAX_IN_FLIGHT_TASKS tasks and never starves.
PermitsAccounted == permits + Cardinality(LiveTasks) = Permits

\* While the server is up, exactly the tasks that can still be cancelled are
\* registered: no run is out of reach of CancelTask and no entry is left over.
RegistryExact ==
    server = "up" => cancels = {t \in Tasks : stage[t] \in Live \ {"removed"}}

\* A cancellation that was acknowledged is the task's final state as well,
\* whatever the run was about to return.
AckedIsCanceled ==
    \A t \in Tasks : acked[t] => reported[t] \in {"none", "Canceled"}

\* A peer that reads its stream to the end finds a final state there; only
\* the abort of the shutdown takes it away.
PeerIsAnswered ==
    \A t \in Tasks : stage[t] = "ended" /\ attached[t] =>
        reported[t] # "none" \/ t \in aborting

\* What execute and the shutdown account for, and what peers are told.
TasksInv ==
    /\ TasksTypeOK /\ PermitsAccounted /\ RegistryExact
    /\ AckedIsCanceled /\ PeerIsAnswered

\* The stream of every admitted task ends (execute).
StreamsEnd == \A t \in Tasks : stage[t] = "admitted" ~> stage[t] = "ended"

=============================================================================
