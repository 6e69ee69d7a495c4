---------------------------- MODULE ProfileFiles ----------------------------
(***************************************************************************)
(* The files of an agent profile and the commands that change them: the    *)
(* configuration, the prompt, the skills catalog and the folders of the    *)
(* skills.  A command is a process of its own (the studio starts one for   *)
(* every request and kills it when the browser goes away); it loads the    *)
(* profile, decides, and then performs its file operations one by one.     *)
(* Nothing locks the profile, so two commands may overlap.                 *)
(*                                                                         *)
(* A text is the set of skills it declares (the prompt declares Words); a  *)
(* missing or empty file is {}.  A skill folder is the set of what is in   *)
(* it, Dir standing for the folder; a missing folder is {}.                *)
(***************************************************************************)
EXTENDS Naturals, Sequences

CONSTANTS
    Skills,        \* names of skills
    Template,      \* the skills the catalog written by `init` declares
    Words,         \* what a prompt says
    Commanders,    \* processes running a command
    MaxCommands,   \* bound: commands of a behaviour
    MaxKills       \* bound: commands that are killed

ASSUME ProfileAssumption ==
    /\ Template \in (SUBSET Skills) \ {{}}
    /\ Words \notin Skills
    /\ MaxCommands \in Nat /\ MaxKills \in Nat

VARIABLES
    config,    \* agent-config.yaml: there or not, the limits in it, whether its access resolves
    text,      \* master_prompt.md and skills.dsl
    tmp,       \* master_prompt.md.tmp and skills.dsl.tmp, names all writers share
    runtime,   \* whether .kuibysheff/runtime/skills/{id} exists
    folder,    \* the skill folders of the runtime tree and of the settings directory
    process,   \* per commander: its command and the operations left
    latest,    \* history: the command begun last, the files it found, its answer
    started, kills,
    trouble    \* history: what a profile may not survive

disk == <<config, text, tmp, runtime, folder>>
profileVars == <<config, text, tmp, runtime, folder, process, latest, started, kills, trouble>>

Files == {"prompt", "skills"}
Dir == "dir"
Body == "skill.md"
Stray == "skill.md.tmp"
Extra == "companion"
Limits == {"default", "tuned"}
NoConfig == [there |-> FALSE, limits |-> "default", resolves |-> TRUE]
Bootstrap == [there |-> TRUE, limits |-> "default", resolves |-> TRUE]

Disk == [config |-> config, text |-> text, runtime |-> runtime, folder |-> folder]

----------------------------------------------------------------------------
(* What a command loads *)

\* The runtime tree once it exists, else the folders beside the settings.
Root(d) == IF d.runtime THEN "runtime" ELSE "legacy"

Stored(d) == {s \in Skills : Dir \in d.folder[Root(d)][s]}

\* load_one: any file is a companion, a folder without skill.md is an error.
IsPackage(there) == Body \in there

LoadsConfig(d) == d.config.there /\ d.config.resolves

LoadsSettings(d) ==
    /\ \A f \in Files : d.text[f] # {}
    /\ \A s \in Stored(d) : IsPackage(d.folder[Root(d)][s])

Declared(d) == Stored(d) \subseteq d.text["skills"]

Usable(d) == LoadsConfig(d) /\ LoadsSettings(d) /\ Declared(d)

----------------------------------------------------------------------------
(* File operations *)

Op(name) == [do |-> name]
TextOp(name, f, content) == [do |-> name, file |-> f, content |-> content]
FolderOp(name, where, s) == [do |-> name, where |-> where, skill |-> s]

SaveTextInPlace(f, content) == <<TextOp("drop", f, content), TextOp("fill", f, content)>>

\* settings::atomic_write: the temporary name is the same for every writer.
SaveText(f, content) == <<TextOp("stage", f, content), TextOp("rename", f, content)>>

\* config::atomic_write and atomic_write_bytes remove the old file before the rename.
SaveConfig(c) == <<Op("drop config"), [do |-> "put config", config |-> c]>>
CopyText(f, content) == <<TextOp("drop", f, content), TextOp("fill", f, content)>>

RemoveFolder(where, s) == <<FolderOp("empty", where, s), FolderOp("remove", where, s)>>
WriteBody(s) == <<FolderOp("mkdir", "runtime", s), FolderOp("stage body", "runtime", s),
                  FolderOp("rename body", "runtime", s)>>

RemovePackageHere(s) == RemoveFolder("runtime", s)
RemovePackage(s) == RemoveFolder("runtime", s) \o RemoveFolder("legacy", s)

\* A loop over skills, and what it does for one of them.
Each(name, S) == [do |-> name, skills |-> S]
OfEach(name, s) ==
    CASE name = "remove packages" -> RemovePackage(s)
      [] name = "remove folders" -> RemoveFolder("runtime", s)
      [] name = "write bodies" -> WriteBody(s)
Loops == {"remove packages", "remove folders", "write bodies"}

----------------------------------------------------------------------------
(* Commands: what each needs and the operations it will perform *)

Idle == [cmd |-> [op |-> "none"], todo |-> <<>>]

Running == {p \in Commanders : process[p].cmd.op # "none"}

\* What some commands do to a profile though they are neither killed nor disturbed.
KnownBreaker(cmd, d) ==
    \/ cmd.op = "access" /\ ~cmd.resolves
    \/ cmd.op = "import" /\ ~(Stored(d) \subseteq cmd.declares)
    \/ cmd.op = "init" /\ ~(Stored(d) \subseteq Template)

Begin(p, cmd, allowed, plan) ==
    /\ p \notin Running /\ started < MaxCommands
    /\ started' = started + 1
    /\ process' = [process EXCEPT ![p] = IF allowed THEN [cmd |-> cmd, todo |-> plan] ELSE Idle]
    /\ latest' = [cmd |-> cmd, found |-> Disk, answer |-> IF allowed THEN "none" ELSE "error"]
    /\ trouble' = trouble \cup (IF Running # {} THEN {"overlapped"} ELSE {})
                          \cup (IF KnownBreaker(cmd, Disk) THEN {"breaker"} ELSE {})
    /\ UNCHANGED <<disk, kills>>

Profile == LoadsConfig(Disk) /\ LoadsSettings(Disk)
Catalog == Profile /\ Declared(Disk)
Has(s) == Catalog /\ s \in text["skills"]

\* limits, provider, billing, mcp and document set: read, change, validate, write.
SetLimits(p) == \E to \in Limits :
    Begin(p, [op |-> "limits"], Profile, SaveConfig([config EXCEPT !.limits = to]))

\* What save_config accepts may still name a directory that is not there.
SetAccess(p) == \E resolves \in BOOLEAN :
    Begin(p, [op |-> "access", resolves |-> resolves], Profile,
          Append(SaveConfig([config EXCEPT !.resolves = resolves]), Op("reload config")))

SetPrompt(p) == Begin(p, [op |-> "prompt"], Profile, SaveText("prompt", {Words}))

AddSkill(p) == \E s \in Skills :
    Begin(p, [op |-> "add"], Catalog /\ s \notin text["skills"],
          SaveText("skills", text["skills"] \cup {s}))

RemoveSkill(p) == \E s \in Skills :
    Begin(p, [op |-> "remove", skill |-> s], Has(s) /\ text["skills"] # {s},
          SaveText("skills", text["skills"] \ {s}) \o RemovePackage(s))

\* The catalog first, then the folders of dropped skills, then the bodies.
ReplaceSkills(p) == \E S \in (SUBSET Skills) \ {{}} : \E s \in S : \E how \in {"set", "clear"} :
    Begin(p, [op |-> "replace", skill |-> s], Catalog,
          SaveText("skills", S)
          \o <<Each("remove packages", text["skills"] \ S)>>
          \o IF how = "set" THEN WriteBody(s) ELSE <<FolderOp("clear", "runtime", s)>>)

SetBody(p) == \E s \in Skills :
    Begin(p, [op |-> "body", skill |-> s], Has(s), WriteBody(s))

ClearBody(p) == \E s \in Skills :
    Begin(p, [op |-> "clear", skill |-> s], Has(s), <<FolderOp("clear", "runtime", s)>>)

PutFile(p) == \E s \in Skills :
    Begin(p, [op |-> "file", skill |-> s], Has(s), <<FolderOp("put file", "runtime", s)>>)

RemoveFile(p) == \E s \in Skills :
    Begin(p, [op |-> "file", skill |-> s], Has(s), <<FolderOp("drop file", "runtime", s)>>)

Blank == ~config.there /\ \A f \in Files : text[f] = {}

\* A missing configuration is bootstrapped before anything else.
Import(p) == \E S \in (SUBSET Skills) \ {{}} : \E P \in {{}, S} :
             \E with, keep \in BOOLEAN : \E how \in {"plain", "force", "settings only"} :
    /\ how = "settings only" => ~with
    /\ keep => with
    /\ Begin(p, [op |-> "import", declares |-> S, stored |-> P, config |-> with,
                 keep |-> keep, live |-> config.there],
             how = "force" \/ Blank \/ (how = "settings only" /\ config.there),
             (IF config.there THEN <<>> ELSE SaveConfig(Bootstrap)) \o <<Op("install")>>)

InitProfile(p) == \E force \in BOOLEAN :
    Begin(p, [op |-> "init"], force \/ Blank,
          CopyText("prompt", {Words}) \o CopyText("skills", Template) \o SaveConfig(Bootstrap))

----------------------------------------------------------------------------
(* Performing the operations *)

Current(p) == Head(process[p].todo)
Performs(p, name) == p \in Running /\ process[p].todo # <<>> /\ Current(p).do = name
Continue(p, todo) == process' = [process EXCEPT ![p].todo = todo] /\ UNCHANGED latest
Rest(p) == Tail(process[p].todo)
End(p, answer) ==
    /\ process' = [process EXCEPT ![p] = Idle]
    /\ latest' = [latest EXCEPT !.answer = answer]
Fail(p) == End(p, "error")
Expect(p, holds) == IF holds THEN Continue(p, Rest(p)) ELSE Fail(p)

FilesKept == UNCHANGED <<config, runtime, folder>>
FoldersKept == UNCHANGED <<config, text, tmp>>

\* fs::write of the temporary file.
Stage(p) ==
    /\ Performs(p, "stage")
    /\ tmp' = [tmp EXCEPT ![Current(p).file] = Current(p).content]
    /\ Continue(p, Rest(p))
    /\ FilesKept /\ UNCHANGED <<text, started, kills, trouble>>

\* A rename that fails is taken for one that cannot replace: the file is removed first.
Rename(p) ==
    /\ Performs(p, "rename")
    /\ LET f == Current(p).file
       IN IF tmp[f] # {}
          THEN /\ text' = [text EXCEPT ![f] = tmp[f]]
               /\ tmp' = [tmp EXCEPT ![f] = {}]
               /\ Continue(p, Rest(p))
          ELSE /\ text' = [text EXCEPT ![f] = {}]
               /\ Fail(p)
               /\ UNCHANGED tmp
    /\ FilesKept /\ UNCHANGED <<started, kills, trouble>>

DropText(p) ==
    /\ Performs(p, "drop")
    /\ text' = [text EXCEPT ![Current(p).file] = {}]
    /\ Continue(p, Rest(p))
    /\ FilesKept /\ UNCHANGED <<tmp, started, kills, trouble>>

FillText(p) ==
    /\ Performs(p, "fill")
    /\ text' = [text EXCEPT ![Current(p).file] = Current(p).content]
    /\ Continue(p, Rest(p))
    /\ FilesKept /\ UNCHANGED <<tmp, started, kills, trouble>>

DropConfig(p) ==
    /\ Performs(p, "drop config")
    /\ config' = NoConfig
    /\ Continue(p, Rest(p))
    /\ UNCHANGED <<text, tmp, runtime, folder, started, kills, trouble>>

PutConfig(p) ==
    /\ Performs(p, "put config")
    /\ config' = Current(p).config
    /\ Continue(p, Rest(p))
    /\ UNCHANGED <<text, tmp, runtime, folder, started, kills, trouble>>

ReloadConfig(p) ==
    /\ Performs(p, "reload config")
    /\ Expect(p, LoadsConfig(Disk))
    /\ UNCHANGED <<disk, started, kills, trouble>>

\* create_dir_all makes the runtime tree too, which hides the folders beside the settings.
MakeFolder(p) ==
    /\ Performs(p, "mkdir")
    /\ runtime' = TRUE
    /\ folder' = [folder EXCEPT !["runtime"][Current(p).skill] = @ \cup {Dir}]
    /\ Continue(p, Rest(p))
    /\ FoldersKept /\ UNCHANGED <<started, kills, trouble>>

StageBody(p) ==
    /\ Performs(p, "stage body")
    /\ LET s == Current(p).skill
       IN /\ Expect(p, Dir \in folder["runtime"][s])
          /\ folder' = [folder EXCEPT !["runtime"][s] = IF Dir \in @ THEN @ \cup {Stray} ELSE @]
    /\ FoldersKept /\ UNCHANGED <<runtime, started, kills, trouble>>

RenameBody(p) ==
    /\ Performs(p, "rename body")
    /\ LET s == Current(p).skill
       IN /\ Expect(p, Stray \in folder["runtime"][s])
          /\ folder' = [folder EXCEPT !["runtime"][s] =
                IF Stray \in @ THEN (@ \ {Stray}) \cup {Body} ELSE @ \ {Body}]
    /\ FoldersKept /\ UNCHANGED <<runtime, started, kills, trouble>>

\* Any companion, a temporary file left behind among them, keeps the body.
ClearFolder(p) ==
    /\ Performs(p, "clear")
    /\ LET s == Current(p).skill
           target == IF Dir \in folder["runtime"][s] THEN "runtime" ELSE Root(Disk)
           there == folder[target][s]
       IN IF there = {} THEN Continue(p, Rest(p))
          ELSE IF there # {Dir, Body} THEN Fail(p)
          ELSE Continue(p, RemoveFolder(target, s)
                           \o (IF target = "legacy" THEN <<>> ELSE RemoveFolder("legacy", s))
                           \o Rest(p))
    /\ UNCHANGED <<disk, started, kills, trouble>>

\* remove_dir_all: what is in the folder goes before the folder.
EmptyFolder(p) ==
    /\ Performs(p, "empty")
    /\ folder' = [folder EXCEPT ![Current(p).where][Current(p).skill] = @ \cap {Dir}]
    /\ Continue(p, Rest(p))
    /\ FoldersKept /\ UNCHANGED <<runtime, started, kills, trouble>>

RemoveDir(p) ==
    /\ Performs(p, "remove")
    /\ LET where == Current(p).where  s == Current(p).skill
       IN /\ Expect(p, folder[where][s] \subseteq {Dir})
          /\ folder' = [folder EXCEPT ![where][s] = @ \ {Dir}]
    /\ FoldersKept /\ UNCHANGED <<runtime, started, kills, trouble>>

\* A companion goes to the runtime tree only.
PutCompanion(p) ==
    /\ Performs(p, "put file")
    /\ LET s == Current(p).skill
       IN /\ Expect(p, Body \in folder["runtime"][s])
          /\ folder' = [folder EXCEPT !["runtime"][s] = IF Body \in @ THEN @ \cup {Extra} ELSE @]
    /\ FoldersKept /\ UNCHANGED <<runtime, started, kills, trouble>>

DropCompanion(p) ==
    /\ Performs(p, "drop file")
    /\ LET s == Current(p).skill
           there == folder[Root(Disk)][s]
       IN /\ Expect(p, IsPackage(there) /\ Extra \in there)
          /\ folder' = [folder EXCEPT ![Root(Disk)][s] = IF IsPackage(there) THEN @ \ {Extra} ELSE @]
    /\ FoldersKept /\ UNCHANGED <<runtime, started, kills, trouble>>

\* The skills of a loop come in any order: that of the catalog or of the bundle.
ForEach(p) ==
    /\ \E name \in Loops : Performs(p, name)
    /\ LET S == Current(p).skills
       IN IF S = {} THEN Continue(p, Rest(p))
          ELSE \E s \in S : Continue(p, OfEach(Current(p).do, s)
                                       \o <<Each(Current(p).do, S \ {s})>> \o Rest(p))
    /\ UNCHANGED <<disk, started, kills, trouble>>

\* The limits of a live configuration survive an import unless told otherwise.
Preserved(cmd) ==
    IF cmd.keep /\ cmd.live THEN [Bootstrap EXCEPT !.limits = config.limits] ELSE Bootstrap

InstallOps(cmd) ==
    <<Each("remove folders", cmd.stored)>>
    \o CopyText("prompt", {Words}) \o CopyText("skills", cmd.declares)
    \o (IF cmd.config THEN SaveConfig(Preserved(cmd)) ELSE <<>>)
    \o <<Each("write bodies", cmd.stored), Op("verify")>>

\* The bundle was staged and found valid; the profile's configuration is read now.
Install(p) ==
    /\ Performs(p, "install")
    /\ LET cmd == process[p].cmd
       IN IF LoadsConfig(Disk) \/ (cmd.config /\ ~(cmd.keep /\ cmd.live))
          THEN Continue(p, InstallOps(cmd))
          ELSE Fail(p)
    /\ UNCHANGED <<disk, started, kills, trouble>>

\* The check of the installed profile comes after its files were replaced.
Verify(p) ==
    /\ Performs(p, "verify")
    /\ Expect(p, Usable(Disk))
    /\ UNCHANGED <<disk, started, kills, trouble>>

Answer(p) ==
    /\ p \in Running /\ process[p].todo = <<>>
    /\ End(p, "ok")
    /\ UNCHANGED <<disk, started, kills, trouble>>

\* The commands that replace the files of a profile one after the other.
Wholesale == {"import", "init"}

\* kill_on_drop of the studio's request, or an interrupt.
Kill(p) ==
    /\ p \in Running /\ kills < MaxKills
    /\ kills' = kills + 1
    /\ End(p, "killed")
    /\ trouble' = trouble \cup {"killed"}
                     \cup (IF process[p].cmd.op \in Wholesale THEN {"torn"} ELSE {})
    /\ UNCHANGED <<disk, started>>

----------------------------------------------------------------------------

\* The folders an older profile keeps beside its settings, or a moved one in the
\* runtime tree, with what a skill may have there.
ProfileInit ==
    /\ config = [Bootstrap EXCEPT !.limits = "tuned"]
    /\ text = [f \in Files |-> IF f = "prompt" THEN {Words} ELSE Skills]
    /\ tmp = [f \in Files |-> {}]
    /\ \E there \in [Skills -> {{}, {Dir, Body}, {Dir, Body, Extra}}] : \E older \in BOOLEAN :
          /\ older => there \in [Skills -> {{}, {Dir, Body}}]
          /\ runtime = ~older
          /\ folder = [w \in {"runtime", "legacy"} |->
                          IF older = (w = "legacy") THEN there ELSE [s \in Skills |-> {}]]
    /\ process = [p \in Commanders |-> Idle]
    /\ latest = [cmd |-> Idle.cmd, found |-> Disk, answer |-> "none"]
    /\ started = 0 /\ kills = 0 /\ trouble = {}

Commands(p) ==
    \/ SetLimits(p) \/ SetAccess(p) \/ SetPrompt(p)
    \/ AddSkill(p) \/ RemoveSkill(p) \/ ReplaceSkills(p)
    \/ SetBody(p) \/ ClearBody(p) \/ PutFile(p) \/ RemoveFile(p)
    \/ Import(p) \/ InitProfile(p)

Operations(p) ==
    \/ Stage(p) \/ Rename(p) \/ DropText(p) \/ FillText(p)
    \/ DropConfig(p) \/ PutConfig(p) \/ ReloadConfig(p)
    \/ MakeFolder(p) \/ StageBody(p) \/ RenameBody(p) \/ ClearFolder(p)
    \/ EmptyFolder(p) \/ RemoveDir(p) \/ PutCompanion(p) \/ DropCompanion(p)
    \/ ForEach(p) \/ Install(p) \/ Verify(p) \/ Answer(p)

ProfileNext == \E p \in Commanders : Commands(p) \/ Operations(p) \/ Kill(p)

ProfileSpec == ProfileInit /\ [][ProfileNext]_profileVars

----------------------------------------------------------------------------

\* Only a kill, commands that overlap or the commands of KnownBreaker leave a profile
\* that no longer loads; every other command leaves one that does, whatever it answers.
UsableUnlessTroubled == Running = {} /\ trouble = {} => Usable(Disk)

\* A kill does not lose what was saved before: the catalog and the prompt stay unless it
\* falls on a command that replaces the whole profile, and a body stays unless the
\* command was to remove it.
KillKeepsSaved ==
    /\ /\ trouble \cap {"overlapped", "torn"} = {}
       /\ \A p \in Running : process[p].cmd.op \notin Wholesale
       => \A f \in Files : text[f] # {}
    /\ \A s \in Skills :
          /\ "overlapped" \notin trouble
          /\ latest.cmd.op \in {"body", "file", "add", "prompt", "limits", "access"}
          /\ Body \in latest.found.folder["runtime"][s]
          => Body \in folder["runtime"][s]

\* A command for one skill leaves what the agent reads of the others, once the folders
\* are in the runtime tree.
OthersKept ==
    \A s \in Skills :
        /\ "overlapped" \notin trouble
        /\ latest.cmd.op \in {"remove", "body", "clear", "file"} /\ latest.cmd.skill # s
        /\ latest.found.runtime
        => folder[Root(Disk)][s] = latest.found.folder["runtime"][s]

\* An import that says nothing of the running values leaves the tuned limits.
TunedKept ==
    /\ "overlapped" \notin trouble
    /\ latest.cmd.op = "import" /\ latest.answer = "ok"
    /\ latest.cmd.keep /\ latest.cmd.live
    => config.limits = latest.found.config.limits

\* What a command, killed or not, leaves of what it was not asked to change.
CommandsKeep == KillKeepsSaved /\ OthersKept /\ TunedKept

\* save_config says it writes atomically: a profile that had a configuration still has
\* one when no command runs, whatever was killed.
ConfigSurvives == Running = {} => config.there
=============================================================================
