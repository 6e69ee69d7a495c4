--------------------------- MODULE StudioJobs ---------------------------
(***************************************************************************)
(* The run registry of kbshff-studio (crates/kbshff-studio/src/jobs.rs)    *)
(* and the event stream of a run (run_events in api.rs).                   *)
(*                                                                         *)
(* Each run is a child process `kbshff run` watched by a worker task.  The *)
(* registry has a lock of its own, each run another one; start, get and    *)
(* cancel hold the registry's throughout and are one step each.  An event  *)
(* is pushed to the run's history under the run's lock and broadcast after *)
(* the lock is released: two steps, as are the snapshot and the            *)
(* subscription of a browser that opens the stream.                        *)
(***************************************************************************)
EXTENDS Naturals, Sequences, FiniteSets

CONSTANTS
    MaxRuns,      \* bound: runs started
    MaxEvents,    \* bound: progress lines a child writes
    EventBuffer,  \* EVENT_BUFFER, the length of the history
    Capacity,     \* BROADCAST_CAPACITY
    Viewers       \* browsers, each opens the stream of one run

ASSUME StudioAssumption ==
    /\ MaxRuns \in Nat /\ MaxEvents \in Nat
    /\ EventBuffer \in Nat \ {0} /\ Capacity \in Nat \ {0}

Runs == 1..MaxRuns
None == 0

\* Progress events are numbered; the marker that ends the stream comes last.
Done == MaxEvents + 1
Events == 1..Done

VARIABLES
    started,    \* runs started so far; run ids are handed out in order
    active,     \* JobManagerInner.active, a run or None
    last,       \* JobManagerInner.last, a run or None
    child,      \* the process of each run
    worker,     \* where drive_run and the task around it are
    sender,     \* the oneshot that cancels the run: armed, sent or dropped
    status,     \* JobState.status, "none" before the run exists
    asked,      \* history: a cancel of the run was acknowledged
    written,    \* progress lines the child wrote to its stderr
    read,       \* how many of them the stderr task has parsed
    history,    \* JobState.history
    pending,    \* the event in history and not yet broadcast, or None
    viewing,    \* the run a viewer has a handle of, or None
    stream,     \* how far run_events got: handle, snapshot or live
    backlog,    \* the snapshot, as far as it is still to be sent
    queue,      \* the broadcast receiver of the viewer
    shown       \* the last event the viewer was sent, or None

registry == <<started, active, last>>
process == <<child, sender, asked, written>>
job == <<worker, status, read, history, pending>>
views == <<viewing, stream, backlog, queue, shown>>
studioVars == <<registry, process, job, views>>

StudioTypeOK ==
    /\ started \in 0..MaxRuns /\ active \in 0..started /\ last \in 0..started
    /\ child \in [Runs -> {"none", "alive", "interrupted", "gone"}]
    /\ worker \in [Runs -> {"none", "waiting", "signalled", "reaped", "cancelled",
                            "settled", "announced", "parked"}]
    /\ sender \in [Runs -> {"armed", "sent", "dropped"}]
    /\ status \in [Runs -> {"none", "running", "completed", "failed", "cancelled"}]
    /\ asked \in [Runs -> BOOLEAN]
    /\ written \in [Runs -> 0..MaxEvents] /\ read \in [Runs -> 0..MaxEvents]
    /\ \A r \in Runs : history[r] \in Seq(Events) /\ Len(history[r]) <= EventBuffer
    /\ pending \in [Runs -> Events \cup {None}]
    /\ viewing \in [Viewers -> 0..started]
    /\ stream \in [Viewers -> {"closed", "handle", "snapshot", "live"}]
    /\ \A v \in Viewers : backlog[v] \in Seq(Events) /\ queue[v] \in Seq(Events)
    /\ shown \in [Viewers -> Events \cup {None}]

StudioInit ==
    /\ started = 0 /\ active = None /\ last = None
    /\ child = [r \in Runs |-> "none"] /\ worker = [r \in Runs |-> "none"]
    /\ sender = [r \in Runs |-> "armed"] /\ status = [r \in Runs |-> "none"]
    /\ asked = [r \in Runs |-> FALSE]
    /\ written = [r \in Runs |-> 0] /\ read = [r \in Runs |-> 0]
    /\ history = [r \in Runs |-> <<>>] /\ pending = [r \in Runs |-> None]
    /\ viewing = [v \in Viewers |-> None] /\ stream = [v \in Viewers |-> "closed"]
    /\ backlog = [v \in Viewers |-> <<>>] /\ queue = [v \in Viewers |-> <<>>]
    /\ shown = [v \in Viewers |-> None]

-----------------------------------------------------------------------------
(* The registry.                                                           *)

\* A finished run may still be in the slot: only its status counts.
Busy == active # None /\ status[active] = "running"

\* A new run takes the slot; a finished run still there is overwritten and
\* its cancel sender is dropped with it.
Start ==
    /\ ~Busy /\ started < MaxRuns
    /\ started' = started + 1
    /\ active' = started'
    /\ child' = [child EXCEPT ![started'] = "alive"]
    /\ worker' = [worker EXCEPT ![started'] = "waiting"]
    /\ status' = [status EXCEPT ![started'] = "running"]
    /\ sender' = IF active # None /\ sender[active] = "armed"
                 THEN [sender EXCEPT ![active] = "dropped"] ELSE sender
    /\ UNCHANGED <<last, asked, written, read, history, pending, views>>

\* cancel: an acknowledged request for the run in the slot.
CancelRun ==
    /\ active # None
    /\ asked' = [asked EXCEPT ![active] = TRUE]
    /\ sender' = [sender EXCEPT ![active] = "sent"]
    /\ UNCHANGED <<registry, child, written, job, views>>

\* Faulty variant: the slot is cleared whoever holds it.
ParkBlindly(r) ==
    /\ worker[r] = "announced" /\ pending[r] = None
    /\ worker' = [worker EXCEPT ![r] = "parked"]
    /\ last' = r /\ active' = None
    /\ UNCHANGED <<started, process, status, read, history, pending, views>>

\* The worker's last step: the slot becomes the last run, unless a newer run
\* has taken it.
Park(r) ==
    /\ worker[r] = "announced" /\ pending[r] = None
    /\ worker' = [worker EXCEPT ![r] = "parked"]
    /\ IF active = r THEN last' = r /\ active' = None ELSE UNCHANGED <<active, last>>
    /\ UNCHANGED <<started, process, status, read, history, pending, views>>

-----------------------------------------------------------------------------
(* The child and the worker that waits for it.                             *)

ChildWrites(r) ==
    /\ child[r] \in {"alive", "interrupted"} /\ written[r] < MaxEvents
    /\ written' = [written EXCEPT ![r] = @ + 1]
    /\ UNCHANGED <<registry, child, sender, asked, job, views>>

ChildExits(r) ==
    /\ child[r] \in {"alive", "interrupted"}
    /\ child' = [child EXCEPT ![r] = "gone"]
    /\ UNCHANGED <<registry, sender, asked, written, job, views>>

\* Child::wait wins the select.
ChildReaped(r) ==
    /\ worker[r] = "waiting" /\ child[r] = "gone"
    /\ worker' = [worker EXCEPT ![r] = "reaped"]
    /\ UNCHANGED <<registry, process, status, read, history, pending, views>>

\* Faulty variant: the cancelled run is not signalled.
CancelSeenUnsignalled(r) ==
    /\ worker[r] = "waiting" /\ sender[r] \in {"sent", "dropped"}
    /\ worker' = [worker EXCEPT ![r] = "signalled"]
    /\ UNCHANGED <<registry, process, status, read, history, pending, views>>

\* The oneshot wins, sent or dropped: SIGINT or Ctrl+Break, and if that
\* fails a kill.
CancelSeen(r) ==
    /\ worker[r] = "waiting" /\ sender[r] \in {"sent", "dropped"}
    /\ worker' = [worker EXCEPT ![r] = "signalled"]
    /\ child' = IF child[r] = "alive" THEN [child EXCEPT ![r] = "interrupted"] ELSE child
    /\ UNCHANGED <<registry, sender, asked, written, status, read, history, pending, views>>

ReapedAfterCancel(r) ==
    /\ worker[r] = "signalled" /\ child[r] = "gone"
    /\ worker' = [worker EXCEPT ![r] = "cancelled"]
    /\ UNCHANGED <<registry, process, status, read, history, pending, views>>

\* finish, once both pipes are at their end: first the status ...
Settle(r) ==
    /\ worker[r] \in {"reaped", "cancelled"}
    /\ read[r] = written[r] /\ pending[r] = None
    /\ \E result \in IF worker[r] = "cancelled" THEN {"cancelled"}
                      ELSE {"completed", "failed"} :
         status' = [status EXCEPT ![r] = result]
    /\ worker' = [worker EXCEPT ![r] = "settled"]
    /\ UNCHANGED <<registry, process, read, history, pending, views>>

-----------------------------------------------------------------------------
(* The events of a run.                                                    *)

\* A full history forgets its oldest event.
Remembered(past, item) ==
    IF Len(past) >= EventBuffer THEN Append(Tail(past), item) ELSE Append(past, item)

\* push_event, under the lock of the run.
Push(r, item) ==
    /\ history' = [history EXCEPT ![r] = Remembered(@, item)]
    /\ pending' = [pending EXCEPT ![r] = item]

\* The stderr task parses the next line.
EventRead(r) ==
    /\ read[r] < written[r] /\ pending[r] = None
    /\ read' = [read EXCEPT ![r] = @ + 1]
    /\ Push(r, read'[r])
    /\ UNCHANGED <<registry, process, worker, status, views>>

\* ... then the marker.
Announce(r) ==
    /\ worker[r] = "settled"
    /\ Push(r, Done)
    /\ worker' = [worker EXCEPT ![r] = "announced"]
    /\ UNCHANGED <<registry, process, status, read, views>>

\* A receiver that lags loses its oldest events, silently (filter_map).
Delivered(waiting, item) ==
    IF Len(waiting) >= Capacity THEN Append(Tail(waiting), item)
    ELSE Append(waiting, item)

\* Faulty variant: the viewer subscribes before it takes the snapshot.
BroadcastEarly(r) ==
    /\ pending[r] # None
    /\ queue' = [v \in Viewers |->
                    IF viewing[v] = r THEN Delivered(queue[v], pending[r]) ELSE queue[v]]
    /\ pending' = [pending EXCEPT ![r] = None]
    /\ UNCHANGED <<registry, process, worker, status, read, history, viewing, stream,
                   backlog, shown>>

\* push_event, after the lock: whoever is subscribed now gets the event.
Broadcast(r) ==
    /\ pending[r] # None
    /\ queue' = [v \in Viewers |->
                    IF viewing[v] = r /\ stream[v] = "live"
                    THEN Delivered(queue[v], pending[r]) ELSE queue[v]]
    /\ pending' = [pending EXCEPT ![r] = None]
    /\ UNCHANGED <<registry, process, worker, status, read, history, viewing, stream,
                   backlog, shown>>

-----------------------------------------------------------------------------
(* A browser opens the stream: JobManager::get, then run_events.           *)

OpenStream(v, r) ==
    /\ stream[v] = "closed" /\ r \in {active, last} \ {None}
    /\ viewing' = [viewing EXCEPT ![v] = r]
    /\ stream' = [stream EXCEPT ![v] = "handle"]
    /\ UNCHANGED <<registry, process, job, backlog, queue, shown>>

TakeSnapshot(v) ==
    /\ stream[v] = "handle"
    /\ backlog' = [backlog EXCEPT ![v] = history[viewing[v]]]
    /\ stream' = [stream EXCEPT ![v] = "snapshot"]
    /\ UNCHANGED <<registry, process, job, viewing, queue, shown>>

Subscribe(v) ==
    /\ stream[v] = "snapshot"
    /\ stream' = [stream EXCEPT ![v] = "live"]
    /\ UNCHANGED <<registry, process, job, viewing, backlog, queue, shown>>

\* The snapshot first, then what the receiver has.
Show(v) ==
    /\ stream[v] = "live"
    /\ \/ /\ backlog[v] # <<>>
          /\ shown' = [shown EXCEPT ![v] = Head(backlog[v])]
          /\ backlog' = [backlog EXCEPT ![v] = Tail(@)]
          /\ UNCHANGED queue
       \/ /\ backlog[v] = <<>> /\ queue[v] # <<>>
          /\ shown' = [shown EXCEPT ![v] = Head(queue[v])]
          /\ queue' = [queue EXCEPT ![v] = Tail(@)]
          /\ UNCHANGED backlog
    /\ UNCHANGED <<registry, process, job, viewing, stream>>

-----------------------------------------------------------------------------

WorkerStep(r) ==
    \/ ChildReaped(r) \/ CancelSeen(r) \/ ReapedAfterCancel(r) \/ Settle(r)
    \/ EventRead(r) \/ Announce(r) \/ Broadcast(r) \/ Park(r)

StudioNext ==
    \/ Start \/ CancelRun
    \/ \E r \in Runs : WorkerStep(r) \/ ChildWrites(r) \/ ChildExits(r)
    \/ \E v \in Viewers :
         \/ \E r \in Runs : OpenStream(v, r)
         \/ TakeSnapshot(v) \/ Subscribe(v) \/ Show(v)

\* The tasks of the studio are scheduled, and a child that was interrupted
\* exits: kbshff cancels its run on SIGINT, and AgentRun shows that a
\* cancelled run ends.  A child left alone may run for ever.
StudioFairness ==
    /\ \A r \in Runs : WF_studioVars(WorkerStep(r))
    /\ \A r \in Runs : WF_studioVars(child[r] = "interrupted" /\ ChildExits(r))

StudioSpec == StudioInit /\ [][StudioNext]_studioVars /\ StudioFairness

-----------------------------------------------------------------------------
(* Properties.                                                             *)

\* One test run at a time (docs/UI.md): a run is started only when the child
\* of every earlier run is gone, cancelled runs included.
OneChild == Cardinality({r \in Runs : child[r] \in {"alive", "interrupted"}}) <= 1

\* A run that is still running holds the slot, so it can be looked up and
\* cancelled: no worker of an older run takes it away.
RunningIsActive == \A r \in Runs : status[r] = "running" => active = r

\* The newest run can be looked up, running or finished: a run is forgotten
\* only for a newer one.
NewestIsKnown == started # 0 => started \in {active, last}

\* A run is reported as cancelled only if somebody asked for it, although the
\* worker takes a dropped sender for a request.
CancelledWasAsked == \A r \in Runs : status[r] = "cancelled" => asked[r]

\* Who has seen the marker gets a final status from GET.
DoneMeansSettled ==
    \A v \in Viewers : shown[v] = Done => status[viewing[v]] # "running"

\* The events of a run are shown in their order: a lagging or late viewer may
\* miss events or see one twice, but never one after a later one.
EventsInOrder == [][\A v \in Viewers : shown'[v] >= shown[v]]_studioVars

\* A viewer who opens the stream of a finished run finds the marker in the
\* history, however many events the run had.
LateViewerFindsDone ==
    \A r \in Runs : worker[r] \in {"announced", "parked"} =>
        \E i \in 1..Len(history[r]) : history[r][i] = Done

\* What jobs.rs keeps of its runs: one child, one running run, and that run or
\* the newest finished one within reach of get and cancel; no verdict nobody
\* asked for; a marker that can be relied on (push_event, drive_run).
RegistryInv ==
    /\ StudioTypeOK /\ OneChild /\ RunningIsActive /\ NewestIsKnown
    /\ CancelledWasAsked /\ DoneMeansSettled /\ LateViewerFindsDone

\* A cancelled run leaves the running state.
CancelSettles == \A r \in Runs : asked[r] ~> status[r] # "running"

=============================================================================
