--------------------------- MODULE AuditSink ---------------------------
(***************************************************************************)
(* A JSONL audit sink (src/logging/sink.rs): FileJsonlSink behind the      *)
(* TrackingEventSink that raises audit_write_failed.                       *)
(*                                                                         *)
(* write_event puts a row into a channel of 64; a writer task appends the  *)
(* rows to the file.  tokio::fs::File, modelled from its use here, takes a *)
(* row, answers Ok and writes it in the background; an I/O error comes out *)
(* of the next write, whose row is not taken, or of the flush.             *)
(*                                                                         *)
(* Records are written by concurrent callers; a caller may be cancelled    *)
(* while it waits for room in the channel.                                 *)
(***************************************************************************)
EXTENDS Naturals, Sequences, FiniteSets, SequencesExt

CONSTANTS
    Records,   \* the records of one run
    ChannelRoom,  \* of the channel
    Nothing    \* no record

ASSUME ChannelAssumption == ChannelRoom \in Nat \ {0}
ASSUME NothingAssumption == Nothing \notin Records

VARIABLES
    event,      \* where write_event is with each record
    tx,         \* the sink still has its sender
    channel,      \* the channel
    writer,     \* writing, flushing or ended
    inFlight,   \* the row the file has taken and not yet written, or Nothing
    ioError,    \* a background write failed and nobody has been told
    file,       \* the readable rows of the file
    torn,       \* the file ends in a part of a row, without a line end
    flag,       \* audit_write_failed
    closer,     \* the shutdown, or the drop, of the sink
    accepted,   \* history: the rows in the order the channel took them
    lost,       \* history: the rows that are not readable in the file
    errors      \* history: how many background writes failed

sinkVars == <<event, tx, channel, flag, accepted>>
writerVars == <<writer, inFlight, ioError, file, torn, lost, errors>>
auditVars == <<sinkVars, writerVars, closer>>

SinkTypeOK ==
    /\ event \in [Records -> {"idle", "sending", "accepted", "refused", "dropped"}]
    /\ tx \in BOOLEAN /\ flag \in BOOLEAN /\ ioError \in BOOLEAN /\ torn \in BOOLEAN
    /\ channel \in Seq(Records) /\ Len(channel) <= ChannelRoom
    /\ file \in Seq(Records) /\ accepted \in Seq(Records)
    /\ writer \in {"writing", "flushing", "ended"}
    /\ inFlight \in Records \cup {Nothing}
    /\ closer \in {"none", "shutdown", "drop", "drained", "detached"}
    /\ lost \subseteq Records /\ errors \in Nat

SinkInit ==
    /\ event = [r \in Records |-> "idle"] /\ tx = TRUE /\ channel = <<>> /\ flag = FALSE
    /\ accepted = <<>> /\ writer = "writing" /\ inFlight = Nothing /\ ioError = FALSE
    /\ file = <<>> /\ torn = FALSE /\ lost = {} /\ errors = 0 /\ closer = "none"

-----------------------------------------------------------------------------
(* write_event.                                                            *)

\* The sender is cloned under the lock: a sink that is shut down refuses, and
\* TrackingEventSink takes note.
WriteBegins(r) ==
    /\ event[r] = "idle"
    /\ event' = [event EXCEPT ![r] = IF tx THEN "sending" ELSE "refused"]
    /\ flag' = (flag \/ ~tx)
    /\ UNCHANGED <<tx, channel, accepted, writerVars, closer>>

WriteAccepted(r) ==
    /\ event[r] = "sending" /\ Len(channel) < ChannelRoom
    /\ event' = [event EXCEPT ![r] = "accepted"]
    /\ channel' = Append(channel, r) /\ accepted' = Append(accepted, r)
    /\ UNCHANGED <<tx, flag, writerVars, closer>>

WriteDropped(r) ==
    /\ event[r] = "sending"
    /\ event' = [event EXCEPT ![r] = "dropped"]
    /\ UNCHANGED <<tx, channel, flag, accepted, writerVars, closer>>

-----------------------------------------------------------------------------
(* The writer task and the file.                                           *)

\* write_all of the next row: it waits for the last one and reports its error
\* instead of taking the row; the loop goes on.
RowTaken ==
    /\ writer = "writing" /\ channel # <<>> /\ inFlight = Nothing
    /\ channel' = Tail(channel)
    /\ IF ioError
       THEN lost' = lost \cup {Head(channel)} /\ ioError' = FALSE /\ UNCHANGED inFlight
       ELSE inFlight' = Head(channel) /\ UNCHANGED <<lost, ioError>>
    /\ UNCHANGED <<event, tx, flag, accepted, writer, file, torn, errors, closer>>

\* A row behind a torn one shares its line: neither is readable.
RowWritten ==
    /\ inFlight # Nothing /\ inFlight' = Nothing
    /\ IF torn THEN lost' = lost \cup {inFlight} /\ UNCHANGED file
       ELSE file' = Append(file, inFlight) /\ UNCHANGED lost
    /\ torn' = FALSE
    /\ UNCHANGED <<sinkVars, writer, ioError, errors, closer>>

\* Of a row that fails a part may be in the file (a full disk).
RowFails ==
    /\ inFlight # Nothing /\ inFlight' = Nothing
    /\ lost' = lost \cup {inFlight}
    /\ torn' \in {torn, TRUE}
    /\ ioError' = TRUE /\ errors' = errors + 1
    /\ UNCHANGED <<sinkVars, writer, file, closer>>

\* Faulty variant: the writer stops as soon as the sink has lost its sender.
ChannelEndsEarly ==
    /\ writer = "writing" /\ ~tx
    /\ writer' = "flushing"
    /\ UNCHANGED <<sinkVars, inFlight, ioError, file, torn, lost, errors, closer>>

\* recv returns None: every sender is gone, the clones of write_event too, and
\* the channel is empty.
ChannelEnds ==
    /\ writer = "writing" /\ ~tx /\ channel = <<>>
    /\ \A r \in Records : event[r] # "sending"
    /\ writer' = "flushing"
    /\ UNCHANGED <<sinkVars, inFlight, ioError, file, torn, lost, errors, closer>>

\* The flush waits for the last row; its error is logged.
Flushed ==
    /\ writer = "flushing" /\ inFlight = Nothing
    /\ writer' = "ended" /\ ioError' = FALSE
    /\ UNCHANGED <<sinkVars, inFlight, file, torn, lost, errors, closer>>

-----------------------------------------------------------------------------
(* shutdown, and the drop of a sink nobody shut down.                      *)

\* Faulty variant: the sink keeps its sender.
CloseKeepsSender(how) ==
    /\ closer = "none" /\ closer' = how
    /\ UNCHANGED <<event, tx, channel, flag, accepted, writerVars>>

Close(how) ==
    /\ closer = "none" /\ tx
    /\ tx' = FALSE /\ closer' = how
    /\ UNCHANGED <<event, channel, flag, accepted, writerVars>>

Shutdown == Close("shutdown")

\* Nobody refers to the sink any more, so nobody writes.
DropSink == (\A r \in Records : event[r] # "sending") /\ Close("drop")

Drained ==
    /\ closer \in {"shutdown", "drop"} /\ writer = "ended"
    /\ closer' = "drained"
    /\ UNCHANGED <<sinkVars, writerVars>>

\* The drop waits five seconds, the shutdown as long as it takes.
DropTimesOut ==
    /\ closer = "drop" /\ closer' = "detached"
    /\ UNCHANGED <<sinkVars, writerVars>>

-----------------------------------------------------------------------------

WriterStep == RowTaken \/ ChannelEnds \/ Flushed

SinkNext ==
    \/ \E r \in Records : WriteBegins(r) \/ WriteAccepted(r) \/ WriteDropped(r)
    \/ WriterStep \/ RowWritten \/ RowFails
    \/ Shutdown \/ DropSink \/ Drained \/ DropTimesOut

\* Tokio schedules the writer and the callers, and a background write ends,
\* one way or the other.
SinkFairness ==
    /\ WF_auditVars(WriterStep) /\ WF_auditVars(RowWritten \/ RowFails) /\ WF_auditVars(Drained)
    /\ \A r \in Records : WF_auditVars(WriteAccepted(r))

SinkSpec == SinkInit /\ [][SinkNext]_auditVars /\ SinkFairness

-----------------------------------------------------------------------------
(* Properties.                                                             *)

\* The file holds accepted rows in the order they were accepted, each at most
\* once and some perhaps missing, whatever failed in between.
FileInOrder ==
    /\ ToSet(file) \subseteq ToSet(accepted)
    /\ \A i, j \in 1..Len(file), k, l \in 1..Len(accepted) :
          i < j /\ file[i] = accepted[k] /\ file[j] = accepted[l] => k < l

\* When shutdown returns every row write_event has answered Ok for is in the
\* file or was hit by an I/O error; nothing is still on its way.
DrainedIsComplete ==
    closer = "drained" => ToSet(accepted) = ToSet(file) \cup lost

\* An I/O error costs at most three rows: the one it hit, the one whose write
\* is told of it, and the one that is appended to a torn row.
ThreeLostPerError == Cardinality(lost) <= 3 * errors

\* What the sink and its writer keep at every await.
FileInv == SinkTypeOK /\ FileInOrder /\ DrainedIsComplete /\ ThreeLostPerError

\* Shutdown returns and every write_event returns: a full channel is drained
\* and the writer outlives every sender.
ShutdownReturns == closer = "shutdown" ~> closer = "drained"

=============================================================================
