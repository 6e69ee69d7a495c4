----------------------------- MODULE LocalSearch -----------------------------
(***************************************************************************)
(* local_tools.search_docs and local_tools.read_file                       *)
(* (src/src/tools/local_tools.rs): the walk through the granted            *)
(* directories of the workspace, a stack of directories whose entries      *)
(* come in any order, up to max_results matches; and the one file          *)
(* read_file opens.  What the walk shows the model and what read_file      *)
(* opens for it are decided by two different sets of checks.               *)
(***************************************************************************)
EXTENDS PathGrants

CONSTANT MaxResults     \* max_results of the search

ASSUME SearchAssumption == MaxResults \in Nat \ {0}

VARIABLES
    files,      \* the workspace
    scope,      \* what local_tools may read
    stack,      \* directories to visit
    current,    \* the directory being read
    entries,    \* its entries still to come
    hits,       \* the matches, in their order
    search      \* "start", "walk", "done"

searchVars == <<files, scope, stack, current, entries, hits, search>>

Src == <<"src">>
Docs == <<"src", "docs">>
Git == <<".git">>
Main == <<"src", "main">>
Guide == <<"src", "docs", "guide">>
Image == <<"src", "docs", "png">>
Config == <<".git", "config">>
Alias == <<"src", "alias">>
Store == <<"store">>     \* a stand-in for .kuibysheff/protected below the workspace
Key == <<"store", "key">>

SkipDirs == {".git", "store"}
SkipExtensions == {"png"}
Skipped(path) == path[Len(path)] \in SkipExtensions
Protected(path) == IsPrefix(Store, path)

Text == FileOf(<<"match">>, {})
Silent == FileOf(<<>>, {})

\* A workspace with or without matches, a skipped directory, a skipped kind of file, the
\* store, and a link to one of them or to nothing.
SearchInit ==
    /\ \E main, guide \in {Text, Silent}, to \in {Main, Guide, Image, Config, Docs, Outside, Key, <<"gone">>} :
         files = [path \in {<<>>, Src, Docs, Git, Store, Main, Guide, Image, Config, Key, Alias} |->
                    IF path = Alias THEN LinkTo(to) ELSE IF path = Main THEN main
                    ELSE IF path = Guide THEN guide
                    ELSE IF path \in {Image, Config, Key} THEN Text ELSE Dir]
    /\ scope \in {Legacy, Strict({<<>>}), Strict({Src}), Strict({Docs}), Strict({Git, Docs}),
                  Strict({Docs, Src}), Strict({Main}), Strict({})}
    /\ stack = <<>> /\ current = <<>> /\ entries = {} /\ hits = <<>>
    /\ search = "start"

-----------------------------------------------------------------------------
IsGrantedDir(path) ==
    /\ Exists(files, path)
    /\ ~IsPrefix(Outside, Canonical(files, path))
    /\ Allows(scope, Canonical(files, path))
IsGrantedFile(path) ==
    /\ Exists(files, path)
    /\ ~Protected(Canonical(files, path))
    /\ GrantedTarget(scope, Canonical(files, path))

\* resolve_existing_file: what read_file opens.
Opens(path) ==
    /\ Allows(scope, path)
    /\ IsGrantedFile(path)
    /\ IsA(files, Canonical(files, path), "file")

\* initial_search_dirs: the granted directories, in the order of the policy.
GrantedDirs == {grant \in scope.grants : IsA(files, Canonical(files, grant), "dir")}
StartSearch ==
    /\ search = "start"
    /\ search' = "walk"
    /\ IF scope.legacy THEN stack' = <<<<>>>> ELSE stack' \in SetToSeqs(GrantedDirs)
    /\ UNCHANGED <<files, scope, current, entries, hits>>

Full == Len(hits) >= MaxResults

\* A directory is taken from the stack when the last one has no entries left.
PopDir ==
    /\ search = "walk"
    /\ entries = {}
    /\ IF stack = <<>> \/ Full
         THEN search' = "done" /\ UNCHANGED <<stack, current, entries>>
         ELSE /\ stack' = Front(stack)
              /\ current' = Last(stack)
              /\ entries' = IF IsGrantedDir(Last(stack)) THEN Children(files, Last(stack)) ELSE {}
              /\ UNCHANGED search
    /\ UNCHANGED <<files, scope, hits>>

\* match_file and match_symlink_file: the first line that matches.
Matches(path) == files[path].data # <<>>
\* Faulty: a link is shown by what it is called, not by where it leads.
FoundByName(path) ==
    LET to == Canonical(files, path)
    IN IF Allows(scope, path) /\ IsA(files, to, "file") /\ ~Skipped(path) /\ Matches(to) THEN <<to>> ELSE <<>>
Found(path) ==
    LET to == Canonical(files, path)
    IN IF IsA(files, path, "link")
         THEN IF IsGrantedFile(path) /\ IsA(files, to, "file") /\ ~Skipped(to) /\ Matches(to) THEN <<to>> ELSE <<>>
         ELSE IF ~Skipped(path) /\ IsGrantedFile(path) /\ Matches(path) THEN <<path>> ELSE <<>>
\* An entry of the directory: a link, a directory, or a file.
VisitEntry ==
    /\ search = "walk"
    /\ entries # {}
    /\ IF Full
         THEN entries' = {} /\ UNCHANGED <<stack, hits>>
         ELSE \E entry \in entries :
                /\ entries' = entries \ {entry}
                /\ IF IsA(files, entry, "dir")
                     THEN /\ stack' = IF Last(entry) \notin SkipDirs /\ IsGrantedDir(entry)
                                        THEN Append(stack, entry) ELSE stack
                          /\ UNCHANGED hits
                     ELSE /\ hits' = hits \o Found(entry)
                          /\ UNCHANGED stack
    /\ UNCHANGED <<files, scope, current, search>>

SearchNext == StartSearch \/ PopDir \/ VisitEntry
SearchSpec == SearchInit /\ [][SearchNext]_searchVars

-----------------------------------------------------------------------------
\* Where the walk goes: below a granted directory, not through a skipped one.
Walked(path) ==
    \E top \in (IF scope.legacy THEN {<<>>} ELSE scope.grants) :
        /\ IsPrefix(top, path) /\ IsA(files, top, "dir")
        /\ \A n \in Len(top) + 1 .. Len(path) - 1 : path[n] \notin SkipDirs

(***************************************************************************)
(* Every match the search shows is a file local_tools.read_file opens for  *)
(* the model, whatever the grants and the links; there are never more than *)
(* max_results; and a search that ends below its limit has left out no     *)
(* file with a match that lies where it walks.  A file that two grants, or *)
(* a link and its name, lead to is shown more than once.                   *)
(***************************************************************************)
HitsAreReadable ==
    /\ Len(hits) <= MaxResults
    /\ \A i \in 1 .. Len(hits) : Opens(hits[i])
    /\ (search = "done" /\ ~Full) =>
         \A path \in DOMAIN files :
             (IsA(files, path, "file") /\ Walked(path) /\ Opens(path) /\ ~Skipped(path) /\ Matches(path))
                 => path \in ToSet(hits)
=============================================================================
