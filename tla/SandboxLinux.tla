-------------------------- MODULE SandboxLinux --------------------------
(***************************************************************************)
(* One home.run payload on Linux (crates/sandbox-linux): the probe, the    *)
(* agent that supervises (parent.rs), the helper it re-executes            *)
(* (helper.rs), pid 1 of the new namespaces (pid1.rs) and the payload.     *)
(*                                                                         *)
(* Time is the phase of a launch: 1 after the payload's deadline, 2 after  *)
(* the helper's two seconds for a killed payload, 3 after the agent's five *)
(* seconds of grace, 4 after the two seconds that end the pipe readers and *)
(* the wait for a killed helper.  A process may hang in the kernel, where  *)
(* no signal reaches it (the "D-state" of parent.rs).  The contents of the *)
(* new root, of the seccomp filter and of the output are left out; both    *)
(* pipes have the same reader, so one stands for the two.                  *)
(***************************************************************************)
EXTENDS Integers, FiniteSets

CONSTANTS
    Launches,  \* calls of LinuxSandbox::run
    MaxOut,    \* bound of the model: chunks a payload's processes write
    OutLimit,  \* max_output_chars, in chunks
    PipeRoom   \* chunks a pipe holds

ASSUME LinBounds == MaxOut \in Nat /\ OutLimit \in Nat /\ PipeRoom \in Nat \ {0}

VARIABLE box  \* what there is of each launch

linVars == <<box>>

TimedOutCode == 124  \* of the helper, and of payloads that happen to use it
HelperFailed == 78
SetupFailed == 70
FilterFailed == 71
ExecFailed == 127
Signalled == -1      \* ExitStatus::code() is None
Codes == {0, TimedOutCode, HelperFailed, SetupFailed, FilterFailed, ExecFailed, Signalled}

Boxes ==
    [parent : {"idle", "probeMap", "probeWait", "probeKill", "spawn", "wait", "killing",
               "join", "done"},
     prober : {"off", "new", "barrier", "dead"}, proberCode : {0, 1, 3, Signalled},
     helper : {"off", "parse", "map", "undo", "wait", "kill", "dead"},
     init : {"off", "barrier", "open", "root", "caps", "fork", "reap", "dead"},
     payload : {"off", "filter", "exec", "run", "dead"},
     children : BOOLEAN,                      \* allow_children
     child : {"off", "run", "dead"},          \* a process the payload started
     reader : {"off", "reading", "eof", "cut"},
     mapped : BOOLEAN,                        \* uid and gid maps are written
     confined : BOOLEAN,                      \* root, capabilities; before the fork
     filtered : BOOLEAN,                      \* seccomp; before the exec
     stuck : SUBSET {"prober", "helper", "init", "payload"},
     phase : 0..4,
     helperCode : Codes, initCode : Codes, payloadCode : Codes,
     written : 0..MaxOut, seen : 0..MaxOut, kept : 0..MaxOut, truncated : BOOLEAN,
     expired : BOOLEAN,                       \* history: the deadline killed the payload
     result : {"none", "ok", "error"}]

NoBox ==
    [parent |-> "idle", prober |-> "off", proberCode |-> 0, helper |-> "off", init |-> "off",
     payload |-> "off", children |-> FALSE, child |-> "off", reader |-> "off", mapped |-> FALSE,
     confined |-> FALSE, filtered |-> FALSE, stuck |-> {}, phase |-> 0, helperCode |-> 0,
     initCode |-> 0, payloadCode |-> 0, written |-> 0, seen |-> 0, kept |-> 0,
     truncated |-> FALSE, expired |-> FALSE, result |-> "none"]

LinInit == box = [l \in Launches |-> NoBox]

Put(l, b) == box' = [box EXCEPT ![l] = b]
Failed(b) == [b EXCEPT !.parent = "done", !.result = "error"]

-----------------------------------------------------------------------------
(* probe_primitives(): a child that unshares, waits for its maps and mounts. *)

\* Namespaces and system calls are looked at first; then the child is forked.
ProbeStarts(l) ==
    /\ box[l].parent = "idle"
    /\ \/ Put(l, Failed(box[l]))
       \/ \E hung \in SUBSET {"prober", "helper", "init", "payload"}, children \in BOOLEAN :
             Put(l, [box[l] EXCEPT !.parent = "probeMap", !.prober = "new", !.stuck = hung,
                                   !.children = children])

ProberUnshares(l) ==
    /\ box[l].prober = "new" /\ "prober" \notin box[l].stuck
    /\ \/ Put(l, [box[l] EXCEPT !.prober = "barrier"])
       \/ Put(l, [box[l] EXCEPT !.prober = "dead", !.proberCode = 1])

\* The maps can be written once the child has unshared; 500 ms are tried.
ProbeMaps(l) ==
    /\ box[l].parent = "probeMap"
    /\ \/ box[l].prober = "barrier"
          /\ Put(l, [box[l] EXCEPT !.parent = "probeWait", !.mapped = TRUE])
       \/ Put(l, [box[l] EXCEPT !.parent = "probeWait"])

\* The write end is closed after the maps, written or not.
ProberMounts(l) ==
    /\ box[l].prober = "barrier" /\ box[l].parent # "probeMap"
    /\ \E code \in {3} \cup (IF box[l].mapped THEN {0} ELSE {}) :
          Put(l, [box[l] EXCEPT !.prober = "dead", !.proberCode = code])

\* waitpid_bounded(), then the result of the maps, then the child's.
ProbeReaped(l) ==
    /\ box[l].parent \in {"probeWait", "probeKill"} /\ box[l].prober = "dead"
    /\ Put(l, IF box[l].mapped /\ box[l].proberCode = 0
              THEN [box[l] EXCEPT !.parent = "spawn", !.mapped = FALSE]
              ELSE Failed(box[l]))

ProbeTimeout(l) ==
    /\ box[l].parent = "probeWait" /\ box[l].prober # "dead"
    /\ Put(l, IF "prober" \in box[l].stuck
              THEN [box[l] EXCEPT !.parent = "probeKill"]
              ELSE [box[l] EXCEPT !.parent = "probeKill", !.prober = "dead",
                                  !.proberCode = Signalled])

ProbeHung(l) ==
    /\ box[l].parent = "probeKill" /\ box[l].prober # "dead"
    /\ Put(l, Failed(box[l]))

-----------------------------------------------------------------------------
(* parent.rs                                                               *)

\* validate(), the request file and the spawn of the helper may fail.
RunViaHelper(l) ==
    /\ box[l].parent = "spawn"
    /\ \/ Put(l, Failed(box[l]))
       \/ Put(l, [box[l] EXCEPT !.parent = "wait", !.helper = "parse", !.reader = "reading"])

\* wait_with_timeout()
ParentReaps(l) ==
    /\ box[l].parent \in {"wait", "killing"} /\ box[l].helper = "dead"
    /\ Put(l, [box[l] EXCEPT !.parent = "join"])

ParentKills(l) ==
    /\ box[l].parent = "wait" /\ box[l].helper # "dead" /\ box[l].phase >= 3
    /\ Put(l, IF "helper" \in box[l].stuck
              THEN [box[l] EXCEPT !.parent = "killing"]
              ELSE [box[l] EXCEPT !.parent = "killing", !.helper = "dead",
                                  !.helperCode = Signalled])

\* wait_after_kill(): TimeoutCleanup.
ParentGivesUp(l) ==
    /\ box[l].parent = "killing" /\ box[l].helper # "dead" /\ box[l].phase = 4
    /\ Put(l, Failed(box[l]))

\* Every process that holds the write end of the pipe has ended.
Over(b) == {b.helper, b.init, b.payload, b.child} \subseteq {"off", "dead"}

ReaderEof(l) ==
    /\ box[l].reader = "reading" /\ Over(box[l]) /\ box[l].seen = box[l].written
    /\ Put(l, [box[l] EXCEPT !.reader = "eof"])

\* Past the limit read_pipe_until() drains what comes.
ReadPipe(l) ==
    /\ box[l].reader = "reading" /\ box[l].seen < box[l].written
    /\ Put(l, IF box[l].kept < OutLimit
              THEN [box[l] EXCEPT !.seen = @ + 1, !.kept = @ + 1]
              ELSE [box[l] EXCEPT !.seen = @ + 1, !.truncated = TRUE])

\* Faulty variant: a reader waits for the end of the pipe, however long.
ReaderWaits(l) ==
    /\ box[l].reader = "reading" /\ box[l].phase = 4 /\ Over(box[l])
    /\ Put(l, [box[l] EXCEPT !.reader = "cut", !.truncated = TRUE])

ReaderDeadline(l) ==
    /\ box[l].reader = "reading" /\ box[l].phase = 4
    /\ Put(l, [box[l] EXCEPT !.reader = "cut", !.truncated = TRUE])

\* The reader threads are joined: the result.
Join(l) ==
    /\ box[l].parent = "join" /\ box[l].reader # "reading"
    /\ Put(l, [box[l] EXCEPT !.parent = "done", !.result = "ok"])

TimedOut(b) == b.helperCode = TimedOutCode

-----------------------------------------------------------------------------
(* helper.rs                                                               *)

HelperExits(b, code) == [b EXCEPT !.helper = "dead", !.helperCode = code]

\* The kernel kills a pid namespace with its pid 1, unless a process hangs.
Setup == {"open", "root", "caps", "fork"}
Hung(b) == ("init" \in b.stuck /\ b.init \in Setup) \/ ("payload" \in b.stuck /\ b.payload = "run")
Dead(p) == IF p = "off" THEN p ELSE "dead"
Killed(b) ==
    IF Hung(b) \/ b.init = "dead" THEN b
    ELSE [b EXCEPT !.init = "dead", !.payload = Dead(@), !.child = Dead(@),
                   !.initCode = Signalled]

\* try_run_helper(), run_helper(): the request is read, pid 1 is cloned.
HelperClones(l) ==
    /\ box[l].helper = "parse"
    /\ \/ Put(l, HelperExits(box[l], HelperFailed))
       \/ Put(l, [box[l] EXCEPT !.helper = "map", !.init = "barrier"])

\* write_id_maps(); when it fails pid 1 is killed before the barrier opens.
HelperMaps(l) ==
    /\ box[l].helper = "map" /\ "helper" \notin box[l].stuck
    /\ \/ Put(l, [box[l] EXCEPT !.helper = "wait", !.mapped = TRUE])
       \/ Put(l, [Killed(box[l]) EXCEPT !.helper = "undo"])

HelperUndone(l) ==
    /\ box[l].helper = "undo" /\ box[l].init = "dead"
    /\ Put(l, HelperExits(box[l], HelperFailed))

HelperReaps(l) ==
    /\ box[l].helper = "wait" /\ box[l].init = "dead"
    /\ Put(l, HelperExits(box[l], box[l].initCode))

\* Faulty variant: the code of pid 1 is used after the kill too.
HelperDeadlineCode(l) ==
    /\ box[l].helper = "wait" /\ box[l].phase >= 1
    /\ Put(l, LET b == [Killed(box[l]) EXCEPT !.expired = TRUE]
              IN  IF b.init = "dead" THEN HelperExits(b, b.initCode)
                  ELSE [b EXCEPT !.helper = "kill"])

\* wait_pidfd() at the deadline; pid 1 may have ended just before.
HelperDeadline(l) ==
    /\ box[l].helper = "wait" /\ box[l].phase >= 1
    /\ Put(l, [Killed(box[l]) EXCEPT !.helper = "kill", !.expired = TRUE])

HelperAfterKill(l) ==
    /\ box[l].helper = "kill"
    /\ \/ box[l].init = "dead" /\ Put(l, HelperExits(box[l], TimedOutCode))
       \/ /\ box[l].init # "dead" /\ box[l].phase >= 2
          /\ Put(l, HelperExits(box[l], HelperFailed))

-----------------------------------------------------------------------------
(* pid1.rs: each step of the setup may fail and ends pid 1.                *)

InitDies(l, code) ==
    Put(l, [box[l] EXCEPT !.init = "dead", !.initCode = code, !.payload = Dead(@),
                          !.child = Dead(@)])

\* The barrier opens when the helper closes its end, or ends.
BarrierOpens(l) ==
    /\ box[l].init = "barrier" /\ box[l].helper \in {"wait", "kill", "dead"}
    /\ Put(l, [box[l] EXCEPT !.init = "open"])

SetsUp(l, step) == box[l].init = step /\ "init" \notin box[l].stuck

SetupFails(l) ==
    /\ box[l].init \in Setup /\ "init" \notin box[l].stuck
    /\ InitDies(l, SetupFailed)

\* The scratch directory and the executable, while the host is still in sight.
OpensExecutable(l) == SetsUp(l, "open") /\ Put(l, [box[l] EXCEPT !.init = "root"])

\* setup_rootfs(): the paths it binds are left out.
PivotsRoot(l) == SetsUp(l, "root") /\ Put(l, [box[l] EXCEPT !.init = "caps"])

DropsCapabilities(l) ==
    /\ SetsUp(l, "caps")
    /\ Put(l, [box[l] EXCEPT !.init = "fork", !.confined = TRUE])

ForksPayload(l) ==
    /\ SetsUp(l, "fork")
    /\ Put(l, [box[l] EXCEPT !.init = "reap", !.payload = "filter"])

PayloadDies(l, code) == Put(l, [box[l] EXCEPT !.payload = "dead", !.payloadCode = code])

\* install_denylist(), after the working directory and the process limit.
InstallsFilter(l) ==
    /\ box[l].payload = "filter"
    /\ \/ PayloadDies(l, FilterFailed)
       \/ Put(l, [box[l] EXCEPT !.payload = "exec", !.filtered = TRUE])

PayloadExec(l) ==
    /\ box[l].payload = "exec"
    /\ \/ PayloadDies(l, ExecFailed)
       \/ Put(l, [box[l] EXCEPT !.payload = "run"])

PayloadRuns(b) == b.payload = "run" /\ "payload" \notin b.stuck

PayloadForks(l) ==
    /\ PayloadRuns(box[l]) /\ box[l].children /\ box[l].child = "off"
    /\ Put(l, [box[l] EXCEPT !.child = "run"])

Writes(l) ==
    /\ PayloadRuns(box[l]) \/ box[l].child = "run"
    /\ box[l].written < MaxOut
    /\ box[l].written - box[l].seen < PipeRoom \/ box[l].reader # "reading"
    /\ Put(l, [box[l] EXCEPT !.written = @ + 1,
                             !.seen = IF box[l].reader = "reading" THEN @ ELSE @ + 1])

PayloadExits(l) ==
    /\ PayloadRuns(box[l])
    /\ \E code \in {0, TimedOutCode} :
          PayloadDies(l, code)

ChildExits(l) ==
    /\ box[l].child = "run"
    /\ Put(l, [box[l] EXCEPT !.child = "dead"])

\* reap_until(): the payload's status is pid 1's, and ends what is left.
InitReaps(l) ==
    /\ box[l].init = "reap" /\ box[l].payload = "dead"
    /\ InitDies(l, box[l].payloadCode)

-----------------------------------------------------------------------------
(* Ctrl-C reaches the whole process group: the helper ends, the agent and  *)
(* pid 1 do not, and the payload's processes if they do not handle it.     *)
Interrupt(l) ==
    /\ box[l].parent = "wait" /\ box[l].helper \notin {"off", "dead"}
    /\ "helper" \notin box[l].stuck
    /\ \E caught \in BOOLEAN :
          Put(l, [HelperExits(box[l], Signalled) EXCEPT
              !.payload = IF PayloadRuns(box[l]) /\ ~caught THEN "dead" ELSE @,
              !.payloadCode = IF PayloadRuns(box[l]) /\ ~caught THEN Signalled ELSE @])

\* What hangs in the kernel stays there; every other step of the helper and of
\* the agent takes less than the windows between the deadlines.
Late(b) ==
    \/ b.phase = 1 /\ b.helper \in {"parse", "map", "wait", "undo"}
    \/ b.phase = 2 /\ b.helper # "dead"
    \/ b.phase = 3 /\ b.parent = "wait"

Tick(l) ==
    /\ box[l].parent \in {"wait", "killing", "join"} /\ box[l].phase < 4
    /\ ~Late(box[l]) \/ ("helper" \in box[l].stuck /\ box[l].helper = "map" /\ box[l].phase < 3)
    /\ Put(l, [box[l] EXCEPT !.phase = @ + 1])

-----------------------------------------------------------------------------
ProbeStep(l) ==
    \/ ProbeStarts(l) \/ ProberUnshares(l) \/ ProbeMaps(l) \/ ProberMounts(l)
    \/ ProbeReaped(l) \/ ProbeTimeout(l) \/ ProbeHung(l)

SupervisorStep(l) ==
    \/ RunViaHelper(l) \/ ParentReaps(l) \/ ParentKills(l) \/ ParentGivesUp(l)
    \/ ReaderEof(l) \/ ReadPipe(l) \/ ReaderDeadline(l) \/ Join(l)
    \/ HelperClones(l) \/ HelperMaps(l) \/ HelperUndone(l) \/ HelperReaps(l)
    \/ HelperDeadline(l) \/ HelperAfterKill(l) \/ BarrierOpens(l) \/ SetupFails(l)
    \/ OpensExecutable(l) \/ PivotsRoot(l) \/ DropsCapabilities(l) \/ ForksPayload(l)
    \/ InstallsFilter(l) \/ PayloadExec(l) \/ InitReaps(l)

PayloadStep(l) ==
    PayloadForks(l) \/ Writes(l) \/ PayloadExits(l) \/ ChildExits(l) \/ Interrupt(l)

LinNext ==
    \E l \in Launches : ProbeStep(l) \/ SupervisorStep(l) \/ PayloadStep(l) \/ Tick(l)

\* The agent, the helper and pid 1 are scheduled and time passes; the payload
\* need not do anything.
LinFairness == \A l \in Launches : WF_linVars(ProbeStep(l) \/ SupervisorStep(l) \/ Tick(l))

LinSpec == LinInit /\ [][LinNext]_linVars /\ LinFairness

-----------------------------------------------------------------------------
(* Properties.                                                             *)

LinTypeOK == box \in [Launches -> Boxes]

\* A payload runs behind the new root, without capabilities and with the
\* filter; and when run_via_helper() returns output that is not truncated, or
\* the code of a helper that was neither killed nor failed, no process of the
\* sandbox is left, and output that is not truncated is all that was written.
ResultMeansOver ==
    /\ LinTypeOK
    /\ \A l \in Launches :
          LET b == box[l] IN
          /\ b.payload = "run" => b.confined /\ b.filtered
          /\ b.result = "ok" /\ ~b.truncated => Over(b) /\ b.kept = b.written
          /\ b.result = "ok" /\ b.helperCode \notin {Signalled, HelperFailed} => Over(b)

\* A launch whose deadline killed the payload is reported as timed out, as an
\* error, or with the code of a helper that could not end it; and no other is
\* reported as timed out, but for a payload that itself exits with 124
\* (wait_pidfd, run_via_helper).
DeadlineIsReported ==
    \A l \in Launches :
        LET b == box[l] IN
        b.result = "ok" /\ b.helperCode # Signalled =>
            \/ TimedOut(b) <=> (b.expired \/ b.payloadCode = TimedOutCode)
            \/ b.expired /\ b.helperCode = HelperFailed

\* What a finished launch says is true of it.
LinuxResultsTrue == ResultMeansOver /\ DeadlineIsReported

\* LinuxSandbox::run returns, whatever hangs in the kernel.
LaunchReturns == \A l \in Launches : box[l].parent # "idle" ~> box[l].parent = "done"

=============================================================================
