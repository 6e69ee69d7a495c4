----------------------------- MODULE PathGrants -----------------------------
(***************************************************************************)
(* Paths, grants and links, as the file tools of an agent resolve them:    *)
(* src/src/access/paths.rs and the checks home.* and local_tools.* share.  *)
(*                                                                         *)
(* A path is a sequence of names relative to the tool's root; Outside is   *)
(* any canonical path that is not below it (the protected store is one).   *)
(* A tree maps each existing path to a node: a directory, a file with what *)
(* was written to it and by whom, or a symbolic link.  A link leads to a   *)
(* path without links in it, which may not exist.                          *)
(***************************************************************************)
EXTENDS Integers, Sequences, FiniteSets, FiniteSetsExt, SequencesExt

Outside == <<"outside">>
Dir == [is |-> "dir"]
FileOf(data, by) == [is |-> "file", data |-> data, by |-> by]
LinkTo(path) == [is |-> "link", to |-> path]

Under(path, n) == SubSeq(path, 1, n)
Parent(path) == Front(path)
IsA(tree, path, kind) == path \in DOMAIN tree /\ tree[path].is = kind

\* relative_components: a relative path without "..".
WellFormedPath(path) == \A i \in 1 .. Len(path) : path[i] # ".."

\* PathGrantScope: the whole root in legacy mode, else what one of the grants covers.
Legacy == [legacy |-> TRUE, grants |-> {}]
Strict(grants) == [legacy |-> FALSE, grants |-> grants]
GrantCovers(grant, path) == IsPrefix(grant, path)
Allows(scope, path) ==
    /\ WellFormedPath(path)
    /\ scope.legacy \/ \E grant \in scope.grants : GrantCovers(grant, path)

\* canonicalize: the links of a path followed; where it leads may not exist.
LinksOn(tree, path) == {n \in 1 .. Len(path) : IsA(tree, Under(path, n), "link")}
Canonical(tree, path) ==
    IF LinksOn(tree, path) = {} THEN path
    ELSE LET n == Min(LinksOn(tree, path))
         IN tree[Under(path, n)].to \o SubSeq(path, n + 1, Len(path))
Exists(tree, path) == Canonical(tree, path) \in DOMAIN tree

\* ensure_within_root and ensure_grant_for_canonical, on the canonical path.
GrantedTarget(scope, canonical) ==
    /\ ~IsPrefix(Outside, canonical)
    /\ Allows(scope, canonical)

\* resolve_existing: a granted path that exists and leads to a granted one.
Resolves(tree, scope, path) ==
    /\ Allows(scope, path)
    /\ Exists(tree, path)
    /\ GrantedTarget(scope, Canonical(tree, path))

Children(tree, path) == {child \in DOMAIN tree : child # <<>> /\ Parent(child) = path}
=============================================================================
