------------------------------ MODULE HomeTools ------------------------------
(***************************************************************************)
(* The home.* tools (src/src/tools/fs_home.rs) of the turns that share one *)
(* home: A2A tasks and ACP sessions of an agent run at the same time, each *)
(* with a HomeFs of its own over the same directory and the same policy.   *)
(*                                                                         *)
(* A call goes from one await to the next: between the look at a parent    *)
(* and its creation, between the check of the destination and the write,   *)
(* between the truncation and the new text of a created file, other turns  *)
(* take their steps.  An appended text is answered for when the file's     *)
(* buffer has taken it (tokio::fs::File); a blocking thread writes it      *)
(* later.  Links are there from the start: nobody puts one in the place of *)
(* a directory while a call runs.                                          *)
(***************************************************************************)
EXTENDS PathGrants

CONSTANTS
    Turns,       \* the turns that share the home
    MaxTimeout,  \* max_timeout_ms of a program
    MaxCalls     \* bound: calls of all turns

ASSUME HomeAssumption == MaxCalls \in Nat /\ MaxTimeout \in Nat \ {0}

VARIABLES
    tree,      \* the home
    readable,  \* the scope home.read is granted
    writable,  \* the scope home.write is granted
    call,      \* turn -> its call
    calls,     \* turn -> calls begun
    landing,   \* appended texts on their way to the file: [by, path, text]
    answer,    \* turn -> the last answer
    told       \* turn -> the last write it was told is done

homeVars == <<tree, readable, writable, call, calls, landing, answer, told>>

In == <<"in">>
Out == <<"out">>
Deep == <<"out", "d">>
Note == <<"in", "f">>
Draft == <<"out", "f">>
DeepDraft == <<"out", "d", "f">>
Link == <<"out", "l">>
LinkTargets == {Note, Draft, <<"gone">>, Outside \o <<"f">>, In}
Requests == {Note, Draft, DeepDraft, Link, Link \o <<"f">>, <<"..", "f">>, <<>>}

NoCall == [step |-> "none"]
Nothing == [is |-> "nothing", at |-> Outside]

HomeTypeOK ==
    /\ \A p \in DOMAIN tree : p = <<>> \/ Parent(p) \in DOMAIN tree
    /\ calls \in [Turns -> Nat]

\* A home with a text of the user's and a link; grants of directories and of one file.
HomeInit ==
    /\ \E target \in LinkTargets :
         tree = [p \in {<<>>, In, Out, Note, Link} |->
                    IF p = Note THEN FileOf(<<<<"user", 0>>>>, {})
                    ELSE IF p = Link THEN LinkTo(target) ELSE Dir]
    /\ \/ readable = Legacy /\ writable = Legacy
       \/ /\ readable \in {Strict({Out}), Strict({<<>>}), Strict({In, Deep}), Strict({Note})}
          /\ writable \in {Strict({}), Strict({Out}), Strict({Deep}), Strict({DeepDraft})}
    /\ call = [t \in Turns |-> [step |-> "off"]]
    /\ calls = [t \in Turns |-> 0]
    /\ landing = {}
    /\ answer = [t \in Turns |-> Nothing]
    /\ told = [t \in Turns |-> Nothing]

-----------------------------------------------------------------------------
\* create_dir_all: every directory on the way; a file on the way is an error.
Ways(path) == {Under(path, n) : n \in 0 .. Len(path)}
Blocked(path) == \E way \in Ways(path) : way \in DOMAIN tree /\ ~IsA(tree, Canonical(tree, way), "dir")
WithDirs(paths) ==
    [p \in DOMAIN tree \cup UNION {Ways(path) : path \in paths} |->
        IF p \in DOMAIN tree THEN tree[p] ELSE Dir]
With(path, node) == [p \in DOMAIN tree \cup {path} |-> IF p = path THEN node ELSE tree[p]]

\* ensure_grant_dirs: a grant is made a directory, whatever it is meant to name.
GrantDirs ==
    IF readable.legacy \/ writable.legacy THEN {In, Out}
    ELSE (readable.grants \cup writable.grants) \ {<<>>}

\* HomeFs::new.
OpenHome(t) ==
    /\ call[t].step = "off"
    /\ IF \E grant \in GrantDirs : Blocked(grant)
         THEN /\ call' = [call EXCEPT ![t] = [step |-> "refused"]]
              /\ UNCHANGED tree
         ELSE /\ tree' = WithDirs(GrantDirs)
              /\ call' = [call EXCEPT ![t] = NoCall]
    /\ UNCHANGED <<readable, writable, calls, landing, answer, told>>

Answer(t, result) ==
    /\ answer' = [answer EXCEPT ![t] = result]
    /\ told' = IF result.is = "written" THEN [told EXCEPT ![t] = result] ELSE told
    /\ call' = [call EXCEPT ![t] = NoCall]
Denied(reason) == [is |-> "error", why |-> reason]
Begins(t) ==
    /\ call[t].step = "none"
    /\ MapThenSumSet(LAMBDA u : calls[u], Turns) < MaxCalls
    /\ calls' = [calls EXCEPT ![t] = @ + 1]
    /\ UNCHANGED <<readable, writable, landing, tree>>

\* HomeFs::list and the first half of HomeFs::read: the checks.
List(t, path) ==
    /\ Begins(t)
    /\ LET at == Canonical(tree, path)
       IN Answer(t, IF ~Resolves(tree, readable, path) THEN Denied("path")
                    ELSE IF ~IsA(tree, at, "dir") THEN Denied("kind")
                    ELSE [is |-> "listed", at |-> at, names |-> Children(tree, at)])
Read(t, path) ==
    /\ Begins(t)
    /\ IF Resolves(tree, readable, path)
         THEN /\ call' = [call EXCEPT ![t] = [step |-> "read", at |-> Canonical(tree, path)]]
              /\ UNCHANGED <<answer, told>>
         ELSE Answer(t, Denied("path"))

\* read_char_window, in a blocking thread.
ReadText(t) ==
    /\ call[t].step = "read"
    /\ Answer(t, IF IsA(tree, call[t].at, "file")
                   THEN [is |-> "text", at |-> call[t].at, data |-> tree[call[t].at].data]
                   ELSE Denied("kind"))
    /\ UNCHANGED <<tree, readable, writable, calls, landing>>

\* HomeFs::write: the checks on the name.
BeginWrite(t, path, mode) ==
    /\ Begins(t)
    /\ IF Allows(writable, path) /\ path # <<>>
         THEN /\ call' = [call EXCEPT ![t] = [step |-> "parents", path |-> path, mode |-> mode,
                                              at |-> 0, text |-> <<t, calls[t] + 1>>]]
              /\ UNCHANGED <<answer, told>>
         ELSE Answer(t, Denied("path"))

Goes(t, step) == call' = [call EXCEPT ![t].step = step]
Unanswered == UNCHANGED <<readable, writable, calls, landing, answer, told>>
NextParent(t) == Under(call[t].path, call[t].at + 1)

\* ensure_directories: one parent, looked at and then created.
LookAtParent(t) ==
    /\ call[t].step = "parents"
    /\ call[t].at < Len(call[t].path) - 1
    /\ IF NextParent(t) \notin DOMAIN tree
         THEN Goes(t, "create_dir") /\ Unanswered
         ELSE IF IsA(tree, NextParent(t), "dir")
           THEN call' = [call EXCEPT ![t].at = @ + 1] /\ Unanswered
           ELSE Answer(t, Denied("parent")) /\ UNCHANGED <<readable, writable, calls, landing>>
    /\ UNCHANGED tree
CreateParent(t) ==
    /\ call[t].step = "create_dir"
    /\ IF NextParent(t) \in DOMAIN tree
         THEN /\ Answer(t, Denied("exists"))
              /\ UNCHANGED <<tree, readable, writable, calls, landing>>
         ELSE /\ tree' = With(NextParent(t), Dir)
              /\ call' = [call EXCEPT ![t].step = "parents", ![t].at = @ + 1]
              /\ Unanswered

\* Faulty: looks at the name only.
DestinationUnchecked(path) == ~IsA(tree, path, "dir")

\* The destination, when it is there, has to lead to a granted path that is no directory.
DestinationAllowed(path) ==
    \/ path \notin DOMAIN tree
    \/ /\ Exists(tree, path)
       /\ GrantedTarget(writable, Canonical(tree, path))
       /\ ~IsA(tree, Canonical(tree, path), "dir")

CheckDestination(t) ==
    /\ call[t].step = "parents"
    /\ call[t].at = Len(call[t].path) - 1
    /\ IF DestinationAllowed(call[t].path)
         THEN Goes(t, call[t].mode) /\ Unanswered
         ELSE Answer(t, Denied("path")) /\ UNCHANGED <<readable, writable, calls, landing>>
    /\ UNCHANGED tree

\* The open of the destination follows a link, and creates what is not there.
Destination(t) == Canonical(tree, call[t].path)
Openable(t) == /\ ~IsPrefix(Outside, Destination(t)) /\ Parent(Destination(t)) \in DOMAIN tree
               /\ ~IsA(tree, Destination(t), "dir")
WrittenBy(path) == IF path \in DOMAIN tree THEN tree[path].by ELSE {}
WithFile(t, path, data) == With(path, FileOf(data, WrittenBy(path) \cup {t}))
DataAt(path) == IF path \in DOMAIN tree THEN tree[path].data ELSE <<>>
Written(t) == [is |-> "written", at |-> Destination(t), text |-> call[t].text, mode |-> call[t].mode]

\* fs::write: truncated when opened, then written from the start.
TruncateFile(t) ==
    /\ call[t].step = "create"
    /\ IF Openable(t)
         THEN tree' = WithFile(t, Destination(t), <<>>) /\ Goes(t, "fill") /\ Unanswered
         ELSE /\ Answer(t, Denied("kind"))
              /\ UNCHANGED <<tree, readable, writable, calls, landing>>
Overwrite(data, text) == <<text>> \o SubSeq(data, 2, Len(data))
FillFile(t) ==
    /\ call[t].step = "fill"
    /\ tree' = WithFile(t, Destination(t), Overwrite(DataAt(Destination(t)), call[t].text))
    /\ Answer(t, Written(t))
    /\ UNCHANGED <<readable, writable, calls, landing>>

\* OpenOptions::append and write_all: the text is handed to a blocking thread.
AppendText(t) ==
    /\ call[t].step = "append"
    /\ IF Openable(t)
         THEN /\ tree' = WithFile(t, Destination(t), DataAt(Destination(t)))
              /\ landing' = landing \cup {[by |-> t, at |-> Destination(t), text |-> call[t].text]}
              /\ Answer(t, Written(t))
         ELSE /\ Answer(t, Denied("kind"))
              /\ UNCHANGED <<tree, landing>>
    /\ UNCHANGED <<readable, writable, calls>>

\* The blocking thread writes, or fails with nobody left to tell.
Lands(text) ==
    /\ landing' = landing \ {text}
    /\ \/ tree' = WithFile(text.by, text.at, Append(DataAt(text.at), text.text))
       \/ UNCHANGED tree
    /\ UNCHANGED <<readable, writable, call, calls, answer, told>>

\* HomeFs::run: a configured program with arguments in their bounds, and a deadline that is
\* asked for, at most the policy's, and no longer than what is left of the turn, but not zero.
Programs == IF readable.legacy THEN {} ELSE {"tool"}
Asked == {0, 1, MaxTimeout + 1}     \* timeout_ms of a call
Left == {0, 1, MaxTimeout + 1}      \* what is left of the turn's time
\* Faulty: what is left of the turn is not rounded up.
DeadlineOfTurn(asked, left) == Min({Max({1, Min({asked, MaxTimeout})}), left})
Deadline(asked, left) == Min({Max({1, Min({asked, MaxTimeout})}), Max({1, left})})

\* absolute_home_grants: the binds of the program, all of the home in legacy mode.
Binds(scope) == IF scope.legacy THEN {<<>>} ELSE scope.grants

\* SandboxRunner::run looks at the request once more.
ValidSpec(deadline) == deadline > 0
RunProgram(t, program, arguments, asked, left) ==
    /\ Begins(t)
    /\ Answer(t, IF program \notin Programs \/ arguments # "fit" THEN Denied("program")
                 ELSE IF ~ValidSpec(Deadline(asked, left)) THEN Denied("spec")
                 ELSE [is |-> "ran", deadline |-> Deadline(asked, left), left |-> left,
                       reads |-> Binds(readable), writes |-> Binds(writable)])

HomeStep(t) ==
    \/ \E program \in {"tool", "other"}, arguments \in {"fit", "many"}, asked \in Asked, left \in Left :
         RunProgram(t, program, arguments, asked, left)
    \/ OpenHome(t)
    \/ \E path \in Requests :
         \/ List(t, path)
         \/ Read(t, path)
         \/ \E mode \in {"create", "append"} : BeginWrite(t, path, mode)
    \/ ReadText(t) \/ LookAtParent(t) \/ CreateParent(t) \/ CheckDestination(t)
    \/ TruncateFile(t) \/ FillFile(t) \/ AppendText(t)
HomeNext ==
    \/ \E t \in Turns : HomeStep(t)
    \/ \E text \in landing : Lands(text)
HomeSpec == HomeInit /\ [][HomeNext]_homeVars

-----------------------------------------------------------------------------
Changed(path) == path \in DOMAIN tree' /\ (path \notin DOMAIN tree \/ tree'[path] # tree[path])

(***************************************************************************)
(* A file changes only under a write grant, whatever name or link the call *)
(* went by and whatever the other turn did between the check and the       *)
(* write; a directory appears only above or below a grant; nothing ever    *)
(* goes away.                                                              *)
(***************************************************************************)
ChangesAreGranted ==
    [][/\ DOMAIN tree \subseteq DOMAIN tree'
       /\ \A path \in DOMAIN tree' : Changed(path) =>
            \/ tree'[path].is = "file" /\ GrantedTarget(writable, path)
            \/ tree'[path].is = "dir" /\ \E grant \in GrantDirs \cup writable.grants :
                                            IsPrefix(path, grant) \/ IsPrefix(grant, path)]_homeVars

(***************************************************************************)
(* What a call gives back comes from a path under a read grant; a program  *)
(* never outlives the turn by more than the smallest deadline, and is not  *)
(* refused by the sandbox for what the tool has let through; an error      *)
(* "file exists" for a parent is one another turn has made meanwhile; and  *)
(* a text a create was answered for is in the file, unless                 *)
(* another turn has opened the same file to write.                         *)
(***************************************************************************)
AnswersAreGranted ==
    \A t \in Turns :
        /\ answer[t].is \in {"text", "listed"} => GrantedTarget(readable, answer[t].at)
        /\ answer[t].is = "ran" =>
             /\ answer[t].deadline \in 1 .. MaxTimeout
             /\ answer[t].deadline <= answer[t].left \/ answer[t].deadline = 1
             /\ \A path \in answer[t].writes : GrantedTarget(writable, path)
        /\ answer[t] # Denied("spec")
        /\ answer[t] = Denied("exists") => \E other \in Turns \ {t} : calls[other] > 0
        /\ (answer[t].is = "written" /\ answer[t].mode = "create" /\ call[t] = NoCall) =>
             \/ answer[t].text \in ToSet(DataAt(answer[t].at))
             \/ WrittenBy(answer[t].at) # {t}

\* And the home stays a tree.
HomeInv == HomeTypeOK /\ AnswersAreGranted

(***************************************************************************)
(* The test append_mode_extends_an_existing_file: a turn that was told its *)
(* text has been appended and then reads the file finds it there.          *)
(***************************************************************************)
AppendIsReadBack ==
    \A t \in Turns :
        answer[t].is = "text" /\ told[t].at = answer[t].at
            => told[t].text \in ToSet(answer[t].data)
=============================================================================
