------------------------- MODULE SandboxWindows -------------------------
(***************************************************************************)
(* home.run payloads on Windows (crates/sandbox-windows): the AppContainer *)
(* profile with its crash journal, the temporary grants on host paths with *)
(* their undo journal, and the process in its job.                         *)
(*                                                                         *)
(* A launch belongs to an agent process, its host.  Its package SID is the *)
(* launch itself; the DACL of a path is the set of the SIDs it was changed *)
(* for, Original being what it held before.  An inherited entry is that of *)
(* the path it comes from.  The access masks, the token checks and the     *)
(* texts of paths are left out; so are the entries for all packages that   *)
(* grant_runtime_root leaves on purpose.                                   *)
(***************************************************************************)
EXTENDS Integers, Sequences, FiniteSets

CONSTANTS
    Runs,  \* calls of WindowsSandbox::run
    Hosts  \* agent processes

VARIABLES
    run,      \* what there is of each launch
    host,     \* host[r]: the process that makes the launch; fixed
    alive,    \* hosts that run
    lock,     \* shared_acl_lock of each host: the launch that holds it, or None
    raised,   \* hosts whose token has the backup and restore privileges
    dacl,     \* SIDs on each path
    profiles, \* AppContainer profiles that exist
    journal,  \* files of the crash journal: what each profile's file holds
    broken    \* history: paths whose restore failed, or whose host was killed

winVars == <<run, host, alive, lock, raised, dacl, profiles, journal, broken>>

None == "none"

ASSUME NoneAssumption == None \notin Runs

\* A granted tree and a file in it, a runtime root, the executable, what is
\* above them and above git's junction, and the NUL device.
Places == {"tree", "file", "runtime", "exe", "ancestor", "nul"}

\* AclGrant: the DACL before the grant, or "revoke the SID".
Undo == [path : Places, snapshot : SUBSET Runs, revoke : BOOLEAN]

\* How a path is granted: with its tree; with its tree, file by file, for it
\* holds .kuibysheff/protected; one file of such a walk; as a runtime root;
\* alone; alone and at best; a device, at best.
Needs == [path : Places, kind : {"tree", "walk", "file", "root", "path", "best", "device"}]

Stages == {"idle", "profile", "record", "locking", "grant", "stage", "create", "run", "collect",
           "restore", "unlock", "unjournal", "delete", "done", "killed"}

Records ==
    [stage : Stages, todo : Seq(Needs), link : BOOLEAN,
     grants : Seq(Undo), raises : BOOLEAN,
     payload : {"off", "suspended", "run", "hung", "dead"}, child : {"off", "run"},
     late : BOOLEAN, result : {"none", "ok", "error"}]

NoRun ==
    [stage |-> "idle", todo |-> <<>>, link |-> FALSE, grants |-> <<>>, raises |-> FALSE,
     payload |-> "off", child |-> "off", late |-> FALSE, result |-> "none"]

Files == {"torn", "whole"}  \* created and empty; written with name and pid

WinTypeOK ==
    /\ \A r \in Runs : /\ run[r].stage \in Stages
                       /\ \A i \in 1..Len(run[r].grants) : run[r].grants[i] \in Undo
    /\ host \in [Runs -> Hosts] /\ alive \subseteq Hosts /\ raised \subseteq Hosts
    /\ lock \in [Hosts -> Runs \cup {None}]
    /\ dacl \in [Places -> SUBSET Runs]
    /\ profiles \subseteq Runs /\ DOMAIN journal \subseteq Runs
    /\ \A r \in DOMAIN journal : journal[r] \in Files
    /\ broken \subseteq Places

WinInit ==
    /\ run = [r \in Runs |-> NoRun]
    /\ host \in [Runs -> Hosts]
    /\ alive = Hosts /\ raised = {}
    /\ lock = [h \in Hosts |-> None]
    /\ dacl = [p \in Places |-> {}]
    /\ profiles = {} /\ journal = <<>> /\ broken = {}

Set(r, k) == run' = [run EXCEPT ![r] = k]
Moves(r, stage) == run' = [run EXCEPT ![r].stage = stage]
At(r, stage) == run[r].stage = stage

-----------------------------------------------------------------------------
(* Profile and crash journal (profile.rs, journal.rs).                     *)

Remove(f, S) == [r \in DOMAIN f \ S |-> f[r]]

\* Faulty variant: a record counts as stale whether its process runs or not.
StaleAnyway == {r \in DOMAIN journal : journal[r] = "whole"}

\* Records whose profile reclaim_stale_profiles() deletes.
Stale == {r \in DOMAIN journal : journal[r] = "whole" /\ host[r] \notin alive}

Torn == {r \in DOMAIN journal : journal[r] = "torn"}

\* reclaim_stale_profiles(): a record without a name is removed alone.
Reclaim(new) ==
    /\ profiles' = (profiles \ Stale) \cup new
    /\ journal' = Remove(journal, Stale \cup Torn)

\* run(): validate_request() may refuse; stale profiles go; then the profile.
CreateProfile(r) ==
    /\ At(r, "idle") /\ host[r] \in alive
    /\ \/ /\ Set(r, [run[r] EXCEPT !.stage = "done", !.result = "error"])
          /\ UNCHANGED <<profiles, journal>>
       \/ /\ Moves(r, "profile")
          /\ Reclaim({r})
    /\ UNCHANGED <<host, alive, lock, raised, dacl, broken>>

\* probe() of any process reclaims as well.
Probe ==
    /\ Stale \cup Torn # {}
    /\ Reclaim({})
    /\ UNCHANGED <<run, host, alive, lock, raised, dacl, broken>>

Recorded(r, content) ==
    journal' = [q \in DOMAIN journal \cup {r} |-> IF q = r THEN content ELSE journal[q]]

\* ProfileJournalEntry::create(): fs::write makes the file, then writes it.
BeginRecord(r) ==
    /\ At(r, "profile")
    /\ \/ Moves(r, "record") /\ Recorded(r, "torn")
       \/ Set(r, [run[r] EXCEPT !.stage = "delete", !.result = "error"]) /\ UNCHANGED journal
    /\ UNCHANGED <<host, alive, lock, raised, dacl, profiles, broken>>

\* What is written to a file that was removed meanwhile is lost.
RecordProfile(r) ==
    /\ At(r, "record")
    /\ \/ /\ Moves(r, "locking")
          /\ IF r \in DOMAIN journal THEN Recorded(r, "whole") ELSE UNCHANGED journal
       \/ Set(r, [run[r] EXCEPT !.stage = "delete", !.result = "error"]) /\ UNCHANGED journal
    /\ UNCHANGED <<host, alive, lock, raised, dacl, profiles, broken>>

-----------------------------------------------------------------------------
(* The grants (process.rs apply_access_grants, acl.rs AclJournal).         *)

Need(p, kind) == [path |-> p, kind |-> kind]

\* apply_access_grants(): what a request may ask for, in its order.
Plans ==
    LET trees == {<<>>, <<Need("tree", "tree")>>, <<Need("tree", "walk")>>}
        rest == <<Need("runtime", "root"), Need("exe", "path"), Need("ancestor", "best"),
                  Need("nul", "device")>>
    IN  {t \o rest : t \in trees}

\* Faulty variant: every launch is on its own.
LockNothing(r) ==
    /\ At(r, "locking")
    /\ \E plan \in Plans :
          Set(r, [run[r] EXCEPT !.stage = "grant", !.todo = plan,
                                !.raises = host[r] \notin raised])
    /\ raised' = raised \cup {host[r]}
    /\ UNCHANGED <<host, alive, lock, dacl, profiles, journal, broken>>

\* The mutex of the process, then HostPrivilegeGuard::enable().
TakeLock(r) ==
    /\ At(r, "locking") /\ lock[host[r]] = None
    /\ lock' = [lock EXCEPT ![host[r]] = r]
    /\ \E plan \in Plans :
          Set(r, [run[r] EXCEPT !.stage = "grant", !.todo = plan,
                                !.raises = host[r] \notin raised])
    /\ raised' = raised \cup {host[r]}
    /\ UNCHANGED <<host, alive, dacl, profiles, journal, broken>>

PathDone(k) == [k EXCEPT !.todo = Tail(@)]
Seen(r) == {run[r].grants[i].path : i \in 1..Len(run[r].grants)}
NeedOf(r) == Head(run[r].todo)
Granting(r, kinds) == At(r, "grant") /\ run[r].todo # <<>> /\ NeedOf(r).kind \in kinds

\* Granted before, part of the system, or in the protected store.
GrantSkipped(r) ==
    /\ Granting(r, {"tree", "walk", "file", "path", "best"})
    /\ Set(r, PathDone(run[r]))
    /\ UNCHANGED <<host, alive, lock, raised, dacl, profiles, journal, broken>>

WithSid(p, r) == [dacl EXCEPT ![p] = @ \cup {r}]

Journalled(k, p, revoke) ==
    [PathDone(k) EXCEPT
        !.grants = Append(@, [path |-> p, snapshot |-> dacl[p], revoke |-> revoke])]

\* try_grant_dacl(), with the tree below it (tree_set_current_dacl).
GrantTree(r) ==
    LET p == NeedOf(r).path IN
    /\ Granting(r, {"tree", "path"}) /\ p \notin Seen(r)
    /\ Set(r, Journalled(run[r], p, FALSE))
    /\ dacl' = WithSid(p, r)
    /\ UNCHANGED <<host, alive, lock, raised, profiles, journal, broken>>

\* propagate_children_manual(): the root, then the files in it.
GrantWalk(r) ==
    LET p == NeedOf(r).path IN
    /\ Granting(r, {"walk"}) /\ p \notin Seen(r)
    /\ Set(r, [Journalled(run[r], p, FALSE) EXCEPT !.todo = <<Need("file", "file")>> \o @])
    /\ dacl' = WithSid(p, r)
    /\ UNCHANGED <<host, alive, lock, raised, profiles, journal, broken>>

GrantRevocable(r) ==
    LET p == NeedOf(r).path IN
    /\ Granting(r, {"file"}) /\ p \notin Seen(r)
    /\ Set(r, Journalled(run[r], p, TRUE))
    /\ dacl' = WithSid(p, r)
    /\ UNCHANGED <<host, alive, lock, raised, profiles, journal, broken>>

\* Already open to all packages, opened to them for good, or a grant of the
\* launch when it holds the protected store.
GrantRuntimeRoot(r) ==
    /\ Granting(r, {"root"})
    /\ \/ Set(r, PathDone(run[r]))
       \/ Set(r, [run[r] EXCEPT !.todo = <<Need("runtime", "walk")>> \o Tail(@)])
    /\ UNCHANGED <<host, alive, lock, raised, dacl, profiles, journal, broken>>

\* try_grant_object_dacl() of an ancestor.
GrantObject(r) ==
    LET p == NeedOf(r).path IN
    /\ Granting(r, {"best"}) /\ p \notin Seen(r)
    /\ Set(r, Journalled(run[r], p, FALSE))
    /\ dacl' = WithSid(p, r)
    /\ UNCHANGED <<host, alive, lock, raised, profiles, journal, broken>>

\* try_grant_named() of NUL.
GrantDevice(r) ==
    LET p == NeedOf(r).path IN
    /\ Granting(r, {"device"})
    /\ Set(r, Journalled(run[r], p, FALSE))
    /\ dacl' = WithSid(p, r)
    /\ UNCHANGED <<host, alive, lock, raised, profiles, journal, broken>>

\* Any call of the security API may fail: the launch ends, but for what is
\* granted at best.  What was journalled before stays so.
GrantFails(r) ==
    /\ Granting(r, {"tree", "walk", "file", "root", "path", "best", "device"})
    /\ Set(r, IF NeedOf(r).kind \in {"best", "device"} THEN PathDone(run[r])
              ELSE [run[r] EXCEPT !.todo = <<>>, !.stage = "restore", !.result = "error"])
    /\ UNCHANGED <<host, alive, lock, raised, dacl, profiles, journal, broken>>

\* assert_no_loopback_exemption()
CheckLoopback(r) ==
    /\ At(r, "grant") /\ run[r].todo = <<>>
    /\ \/ Moves(r, "stage")
       \/ Set(r, [run[r] EXCEPT !.stage = "restore", !.result = "error"])
    /\ UNCHANGED <<host, alive, lock, raised, dacl, profiles, journal, broken>>

\* stage_launch(): in place, or copied into the folder of the profile.
StageLaunch(r) ==
    /\ At(r, "stage")
    /\ \/ Moves(r, "create")
       \/ Set(r, [run[r] EXCEPT !.stage = "restore", !.result = "error"])
    /\ UNCHANGED <<host, alive, lock, raised, dacl, profiles, journal, broken>>

\* git_cwd_junction(): a launch of git may do without its link.
MountLink(r) ==
    /\ At(r, "create") /\ run[r].payload = "off" /\ ~run[r].link
    /\ Set(r, [run[r] EXCEPT !.link = TRUE])
    /\ UNCHANGED <<host, alive, lock, raised, dacl, profiles, journal, broken>>

-----------------------------------------------------------------------------
(* The process (process.rs, job.rs).                                       *)

Ends(k) == [k EXCEPT !.payload = IF @ = "hung" THEN @ ELSE "dead", !.child = "off"]
\* run_sandboxed() returns: the job, the process and the junction are dropped.
Leaves(k, result) ==
    [NoRun EXCEPT !.stage = "restore", !.result = result, !.grants = k.grants,
                  !.raises = k.raises]

\* Created suspended; KillOnDrop ends it when the job or a token check fails.
CreateSuspended(r) ==
    /\ At(r, "create") /\ run[r].payload = "off"
    /\ \/ Set(r, [run[r] EXCEPT !.payload = "suspended"])
       \/ Set(r, Leaves(run[r], "error"))
    /\ UNCHANGED <<host, alive, lock, raised, dacl, profiles, journal, broken>>

Resume(r) ==
    /\ At(r, "create") /\ run[r].payload = "suspended"
    /\ \/ Set(r, [run[r] EXCEPT !.stage = "run", !.payload = "run"])
       \/ Set(r, Leaves(run[r], "error"))
    /\ UNCHANGED <<host, alive, lock, raised, dacl, profiles, journal, broken>>

\* The payload starts another process, ends, or hangs in the kernel.
PayloadMoves(r) ==
    /\ run[r].payload = "run"
    /\ \/ \E payload \in {"hung", "dead"} : Set(r, [run[r] EXCEPT !.payload = payload])
       \/ run[r].child = "off" /\ Set(r, [run[r] EXCEPT !.child = "run"])
    /\ UNCHANGED <<host, alive, lock, raised, dacl, profiles, journal, broken>>

ChildEnds(r) ==
    /\ run[r].child = "run"
    /\ run' = [run EXCEPT ![r].child = "off"]
    /\ UNCHANGED <<host, alive, lock, raised, dacl, profiles, journal, broken>>

DeadlinePasses(r) ==
    /\ At(r, "run") /\ ~run[r].late
    /\ run' = [run EXCEPT ![r].late = TRUE]
    /\ UNCHANGED <<host, alive, lock, raised, dacl, profiles, journal, broken>>

\* WaitForSingleObject: the payload has ended, or the deadline passed and the
\* job is terminated; a payload that survives that, or whose exit code reads
\* STILL_ACTIVE, is an error.
WaitEnds(r) ==
    /\ At(r, "run")
    /\ \/ /\ run[r].payload = "dead"
          /\ \/ Moves(r, "collect")
             \/ Set(r, Leaves(run[r], "error"))
       \/ /\ run[r].late /\ run[r].payload # "dead"
          /\ Set(r, IF run[r].payload = "hung" THEN Leaves(run[r], "error")
                    ELSE [Ends(run[r]) EXCEPT !.stage = "collect"])
    /\ UNCHANGED <<host, alive, lock, raised, dacl, profiles, journal, broken>>

\* recv_output(): the readers end with the last writer, or three seconds pass.
\* The job is closed when run_sandboxed() returns.
CollectOutput(r) ==
    /\ At(r, "collect")
    /\ \/ run[r].child = "off" /\ Set(r, Leaves(run[r], "ok"))
       \/ run[r].child = "run" /\ Set(r, Leaves(run[r], "error"))
    /\ UNCHANGED <<host, alive, lock, raised, dacl, profiles, journal, broken>>

-----------------------------------------------------------------------------
(* The way back, in the order of the drops.                                *)

Last(s) == s[Len(s)]
Front(s) == SubSeq(s, 1, Len(s) - 1)

\* restore_all(): best effort; it may fail where the agent owns nothing.
RestoreOne(r) ==
    LET undo == Last(run[r].grants)
        p == undo.path
    IN  /\ At(r, "restore") /\ run[r].grants # <<>>
        /\ run' = [run EXCEPT ![r].grants = Front(@)]
        /\ \/ /\ host[r] \in raised
              /\ dacl' = [dacl EXCEPT ![p] = IF undo.revoke THEN @ \ {r} ELSE undo.snapshot]
              /\ UNCHANGED broken
           \/ p = "ancestor" /\ broken' = broken \cup {p} /\ UNCHANGED dacl
        /\ UNCHANGED <<host, alive, lock, raised, profiles, journal>>

\* HostPrivilegeGuard and the mutex.
ReleaseLock(r) ==
    /\ At(r, "restore") /\ run[r].grants = <<>>
    /\ Set(r, [NoRun EXCEPT !.stage = "unjournal", !.result = run[r].result])
    /\ raised' = IF run[r].raises THEN raised \ {host[r]} ELSE raised
    /\ lock' = [lock EXCEPT ![host[r]] = IF @ = r THEN None ELSE @]
    /\ UNCHANGED <<host, alive, dacl, profiles, journal, broken>>

DropRecord(r) ==
    /\ At(r, "unjournal")
    /\ Moves(r, "delete")
    /\ journal' = Remove(journal, {r})
    /\ UNCHANGED <<host, alive, lock, raised, dacl, profiles, broken>>

DropProfile(r) ==
    /\ At(r, "delete")
    /\ Moves(r, "done")
    /\ profiles' = profiles \ {r}
    /\ UNCHANGED <<host, alive, lock, raised, dacl, journal, broken>>

\* An agent process is killed: its job objects close, everything else stays.
KillHost(h) ==
    LET mine == {r \in Runs : host[r] = h /\ run[r].stage \notin {"idle", "done"}}
        granted(r) == {run[r].grants[i].path : i \in 1..Len(run[r].grants)}
    IN  /\ h \in alive
        /\ alive' = alive \ {h} /\ raised' = raised \ {h}
        /\ lock' = [lock EXCEPT ![h] = None]
        /\ run' = [r \in Runs |-> IF r \in mine THEN [Ends(run[r]) EXCEPT !.stage = "killed"]
                                  ELSE run[r]]
        /\ broken' = broken \cup UNION {granted(r) : r \in mine}
        /\ UNCHANGED <<host, dacl, profiles, journal>>

-----------------------------------------------------------------------------
LaunchStep(r) ==
    /\ host[r] \in alive
    /\ \/ CreateProfile(r) \/ BeginRecord(r) \/ RecordProfile(r) \/ TakeLock(r)
       \/ GrantSkipped(r) \/ GrantTree(r) \/ GrantWalk(r) \/ GrantRevocable(r)
       \/ GrantRuntimeRoot(r) \/ GrantObject(r) \/ GrantDevice(r) \/ GrantFails(r) 
       \/ CheckLoopback(r) \/ StageLaunch(r) \/ MountLink(r) \/ CreateSuspended(r) \/ Resume(r)
       \/ DeadlinePasses(r) \/ WaitEnds(r) \/ CollectOutput(r)
       \/ RestoreOne(r) \/ ReleaseLock(r) \/ DropRecord(r) \/ DropProfile(r)

WinNext ==
    \/ \E r \in Runs : LaunchStep(r) \/ PayloadMoves(r) \/ ChildEnds(r)
    \/ \E h \in Hosts : KillHost(h)
    \/ Probe

\* Every step of a launch is a call that returns or has a time limit.
WinFairness == \A r \in Runs : WF_winVars(LaunchStep(r))

WinSpec == WinInit /\ [][WinNext]_winVars /\ WinFairness

-----------------------------------------------------------------------------
(* Properties.                                                             *)

Active(r) == run[r].stage \notin {"idle", "done", "killed"}

\* The launches of one process leave the host as it was: a path carries only
\* SIDs of launches that hold a grant on it, whatever step failed, but for
\* paths whose own restore failed or whose process was killed; a payload that
\* runs keeps the grants it started with; no profile, whole record, link or privilege
\* outlives its launch (AclJournal, shared_acl_lock, the drops of run()).
GrantsComeAndGo ==
    /\ WinTypeOK
    /\ \A p \in Places \ broken :
          /\ \A r \in dacl[p] : \E i \in 1..Len(run[r].grants) : run[r].grants[i].path = p
          /\ \A r \in Runs : run[r].payload = "run" =>
                \A i \in 1..Len(run[r].grants) :
                    run[r].grants[i].path = p => r \in dacl[p]
    /\ \A h \in raised : \E r \in Runs : host[r] = h /\ Active(r)
    /\ \A r \in Runs : At(r, "done") =>
          r \notin profiles /\ ~run[r].link /\ (r \in DOMAIN journal => journal[r] = "torn")

\* A profile is there for as long as its launch is, whoever reclaims meanwhile
\* (reclaim_stale_profiles, is_process_alive).
LiveProfileKept ==
    \A r \in Runs : Active(r) => r \in profiles

\* What the launches of one process keep on the host.
HostKept == GrantsComeAndGo /\ LiveProfileKept

\* mod.rs says that one launch at a time keeps a restore from racing another
\* launch's DACL: a restore takes no SID off a path but its own, and puts none
\* on it.
RestoresOwnOnly ==
    [][\A r \in Runs : RestoreOne(r) =>
          \A p \in Places : dacl'[p] \in {dacl[p], dacl[p] \ {r}}]_winVars

\* A launch whose process is not killed comes to its end.
SandboxRunReturns ==
    \A r \in Runs : Active(r) ~> (At(r, "done") \/ At(r, "killed"))

=============================================================================
