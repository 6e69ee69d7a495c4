--------------------------- MODULE DialogueProofs ---------------------------
(***************************************************************************)
(* Proofs about what passes between the model and its agent.               *)
(*                                                                         *)
(* HomeTools, for any turns that share a home: what a call has checked     *)
(* stays true while the other turns take their steps, because the home     *)
(* only grows (Grows): a directory and a link stay what they are, a file   *)
(* stays a file and its writers only get more, and nobody makes a link.    *)
(* So the path a call has been let through leads where it led at the check *)
(* (SameWay), which is why the invariant can say of every call that waits  *)
(* between its check and its write that it will write under a grant        *)
(* (CallShape).                                                            *)
(*                                                                         *)
(* LocalSearch, for any number of hits: whatever is to be shown is a hit,  *)
(* or the walk has it before it, below a directory of the stack or among   *)
(* the entries of the directory it has opened (Before).                    *)
(*                                                                         *)
(* ReadWindow, for files, windows and reads of any size: every offset of a *)
(* reader is a place where a character ends (Edge), with as many before it *)
(* as the offset says (Count), and what a call holds is always the piece   *)
(* of the file between two such places (Window).                           *)
(*                                                                         *)
(* Conversation, for any budget and any number of runs: the window behind  *)
(* its slot, the history and the transcript are each the end of what was   *)
(* said (TailFrom), and pruning keeps them so (PrunedFacts).               *)
(***************************************************************************)
EXTENDS Dialogue, FiniteSetTheorems, WellFoundedInduction, TLAPS

Names == {"in", "out", "d", "f", "l", "gone", "outside", ".."}
TreePaths == Seq(Names)

AtWrite == {"create", "append", "fill"}
WritingSteps == {"parents", "create_dir"} \cup AtWrite
CallStates ==
    [step : {"off", "refused", "none"}]
    \cup [step : {"read"}, at : TreePaths]
    \cup [step : WritingSteps, path : Requests, mode : {"create", "append"}, at : 0..2,
          text : Turns \X Nat]

\* A node of the home: there is one link, which leads where it led at the start.
Node(p, node) ==
    \/ node = Dir
    \/ /\ node.is = "file" /\ node = FileOf(node.data, node.by)
       /\ node.by \subseteq Turns /\ node.data \in Seq((Turns \cup {"user"}) \X Nat)
    \/ p = Link /\ \E target \in LinkTargets : node = LinkTo(target)

TreeShape ==
    /\ tree = [p \in DOMAIN tree |-> tree[p]]
    /\ DOMAIN tree \subseteq TreePaths
    /\ <<>> \in DOMAIN tree /\ tree[<<>>] = Dir
    /\ \A p \in DOMAIN tree : Node(p, tree[p])
    /\ \A p \in DOMAIN tree : p = <<>> \/ Parent(p) \in DOMAIN tree

\* The two scopes of an agent are both legacy or both made of grants below the home.
ScopeShape ==
    /\ readable.legacy <=> writable.legacy
    /\ readable.legacy \in BOOLEAN
    /\ \A side \in {readable, writable} : \A grant \in side.grants :
          grant \in TreePaths /\ GrantedTarget(Strict({grant}), grant)

\* The directories of the grants are there once a turn has opened the home.
Opened == \A grant \in GrantDirs : Ways(grant) \subseteq DOMAIN tree

Open(t) == call[t].step \notin {"off", "refused"}

\* What a call has been let through for.
CallShape(t) ==
    /\ call[t].step = "read" => GrantedTarget(readable, call[t].at)
    /\ Open(t) => Opened
    /\ ~Open(t) => answer[t] = Nothing
    /\ call[t].step \in WritingSteps =>
          /\ Allows(writable, call[t].path) /\ call[t].path # <<>> /\ calls[t] > 0
          /\ call[t].at \in 0 .. Len(call[t].path) - 1
          /\ \A n \in 0 .. call[t].at : IsA(tree, Under(call[t].path, n), "dir")
    /\ call[t].step = "create_dir" =>
          /\ call[t].at < Len(call[t].path) - 1
          /\ NextParent(t) \in DOMAIN tree => \E other \in Turns \ {t} : calls[other] > 0
    /\ call[t].step \in AtWrite =>
          /\ call[t].at = Len(call[t].path) - 1
          /\ GrantedTarget(writable, Destination(t)) /\ ~IsA(tree, Destination(t), "link")
    /\ call[t].step \in {"create", "append"} => call[t].mode = call[t].step
    /\ call[t].step = "fill" => call[t].mode = "create" /\ IsA(tree, Destination(t), "file")

\* An appended text is on its way to a granted file its turn has opened.
LandingShape ==
    \A words \in landing :
        /\ words.by \in Turns /\ IsA(tree, words.at, "file") /\ words.by \in tree[words.at].by
        /\ words.text \in Turns \X Nat /\ GrantedTarget(writable, words.at)

\* What a turn was answered.
AnswerShape(t) ==
    /\ answer[t].is \in {"text", "listed"} => GrantedTarget(readable, answer[t].at)
    /\ answer[t].is = "ran" =>
         /\ answer[t].deadline \in 1 .. MaxTimeout
         /\ answer[t].deadline <= answer[t].left \/ answer[t].deadline = 1
         /\ \A path \in answer[t].writes : GrantedTarget(writable, path)
    /\ answer[t] # Denied("spec")
    /\ answer[t] = Denied("exists") => \E other \in Turns \ {t} : calls[other] > 0
    /\ answer[t].is = "written" => IsA(tree, answer[t].at, "file")
    /\ (answer[t].is = "written" /\ answer[t].mode = "create" /\ call[t] = NoCall) =>
         \/ answer[t].text \in ToSet(DataAt(answer[t].at))
         \/ WrittenBy(answer[t].at) # {t}

HomeIndInv ==
    /\ TreeShape /\ ScopeShape /\ LandingShape
    /\ call \in [Turns -> CallStates]
    /\ calls \in [Turns -> Nat]
    /\ DOMAIN answer = Turns /\ answer = [t \in Turns |-> answer[t]]
    /\ \A t \in Turns : CallShape(t) /\ AnswerShape(t)

-----------------------------------------------------------------------------
(* TreePaths and links                                                         *)

LEMMA UnderOf ==
    ASSUME NEW path \in TreePaths, NEW n \in 0..Len(path)
    PROVE  /\ Under(path, n) \in TreePaths /\ Len(Under(path, n)) = n
           /\ \A i \in 1..n : Under(path, n)[i] = path[i]
BY DEF Under, TreePaths

LEMMA ParentOf ==
    ASSUME NEW path \in TreePaths, NEW n \in 1..Len(path)
    PROVE  Parent(Under(path, n)) = Under(path, n - 1)
<1>1. Under(path, n) \in Seq(Names) /\ Len(Under(path, n)) = n
  BY UnderOf DEF TreePaths
<1> QED
  BY <1>1 DEF Parent, Front, Under, TreePaths

LEMMA WholePath == ASSUME NEW path \in TreePaths PROVE Under(path, Len(path)) = path
BY DEF Under, TreePaths

\* Two prefixes of one path: one of them is a prefix of the other.
LEMMA PrefixesMeet ==
    ASSUME NEW path \in TreePaths, NEW n \in 0..Len(path), NEW grant \in TreePaths, IsPrefix(grant, path)
    PROVE  IsPrefix(Under(path, n), grant) \/ IsPrefix(grant, Under(path, n))
<1>1. Len(grant) \in Nat /\ Len(grant) <= Len(path) /\ \A i \in 1..Len(grant) : grant[i] = path[i]
  BY DEF IsPrefix, TreePaths
<1>2. Under(path, n) \in TreePaths /\ Len(Under(path, n)) = n /\ \A i \in 1..n : Under(path, n)[i] = path[i]
  BY UnderOf
<1>3. CASE n <= Len(grant)
  <2>1. SubSeq(Under(path, n), 1, n) = SubSeq(grant, 1, n)
    BY <1>1, <1>2, <1>3 DEF TreePaths
  <2> QED
    BY <1>2, <1>3, <2>1 DEF IsPrefix
<1>4. CASE Len(grant) < n
  <2>1. SubSeq(grant, 1, Len(grant)) = SubSeq(Under(path, n), 1, Len(grant))
    BY <1>1, <1>2, <1>4 DEF TreePaths
  <2> QED
    BY <1>1, <1>2, <1>4, <2>1 DEF IsPrefix
<1> QED
  BY <1>1, <1>3, <1>4

LEMMA UnderIsPrefix ==
    ASSUME NEW path \in TreePaths, NEW n \in 0..Len(path)
    PROVE  IsPrefix(Under(path, n), path)
<1>1. Under(path, n) \in TreePaths /\ Len(Under(path, n)) = n /\ \A i \in 1..n : Under(path, n)[i] = path[i]
  BY UnderOf
<1>2. SubSeq(Under(path, n), 1, n) = SubSeq(path, 1, n)
  BY <1>1 DEF TreePaths
<1> QED
  BY <1>1, <1>2 DEF IsPrefix, TreePaths

LEMMA SelfPrefix == ASSUME NEW path \in TreePaths PROVE IsPrefix(path, path)
BY DEF IsPrefix, TreePaths

\* The one link of the home is two names deep.
LEMMA OneLink ==
    ASSUME TreeShape, NEW path \in TreePaths
    PROVE  /\ LinksOn(tree, path) \in {{}, {2}}
           /\ 2 \in LinksOn(tree, path) <=> Len(path) >= 2 /\ Under(path, 2) = Link /\ IsA(tree, Link, "link")
           /\ \A n \in LinksOn(tree, path) : \E target \in LinkTargets : tree[Under(path, n)] = LinkTo(target)
<1>1. \A p \in DOMAIN tree : tree[p].is = "link" =>
          p = Link /\ \E target \in LinkTargets : tree[p] = LinkTo(target)
  BY DEF TreeShape, Node, Dir, FileOf
<1>2. \A n \in 1..Len(path) : Under(path, n) = Link => n = 2
  <2>1. Len(Link) = 2
    BY DEF Link
  <2>2. \A n \in 1..Len(path) : Len(Under(path, n)) = n
    <3>1. 1..Len(path) \subseteq 0..Len(path)
      BY DEF TreePaths
    <3> QED
      BY <3>1, UnderOf
  <2> QED
    BY <2>1, <2>2
<1> QED
  BY <1>1, <1>2 DEF LinksOn, IsA, TreePaths
\* Where a path leads that has no link on it, and where one leads that has.
LEMMA Leads ==
    ASSUME TreeShape, NEW path \in TreePaths
    PROVE  /\ LinksOn(tree, path) = {} => Canonical(tree, path) = path
           /\ LinksOn(tree, path) = {2} =>
                 \E target \in LinkTargets : /\ tree[Link] = LinkTo(target) /\ Under(path, 2) = Link
                                            /\ Canonical(tree, path) = target \o SubSeq(path, 3, Len(path))
<1>1. ASSUME LinksOn(tree, path) = {2}
      PROVE  \E target \in LinkTargets : /\ tree[Link] = LinkTo(target) /\ Under(path, 2) = Link
                                         /\ Canonical(tree, path) = target \o SubSeq(path, 3, Len(path))
  <2>1. Min({2}) = 2
    BY DEF Min
  <2>2. Under(path, 2) = Link
    BY <1>1, OneLink
  <2>3. PICK target \in LinkTargets : tree[Link] = LinkTo(target)
    BY <1>1, <2>2, OneLink
  <2>4. tree[Under(path, 2)].to = target
    BY <2>2, <2>3 DEF LinkTo
  <2>5. Canonical(tree, path) = target \o SubSeq(path, 2 + 1, Len(path))
    BY <1>1, <2>1, <2>4 DEF Canonical
  <2> QED
    BY <2>2, <2>3, <2>5
<1> QED
  BY <1>1 DEF Canonical

LEMMA TargetPaths == LinkTargets \subseteq TreePaths /\ Requests \subseteq TreePaths
<1>1. Outside \in TreePaths /\ <<"f">> \in TreePaths /\ Link \in TreePaths
  BY DEF Outside, Link, TreePaths, Names
<1>2. Outside \o <<"f">> \in TreePaths /\ Link \o <<"f">> \in TreePaths
  BY <1>1 DEF TreePaths
<1>3. {Note, Draft, DeepDraft, In, <<>>, <<"gone">>, <<"..", "f">>} \subseteq TreePaths
  BY DEF Note, Draft, DeepDraft, In, TreePaths, Names
<1> QED
  BY <1>1, <1>2, <1>3 DEF LinkTargets, Requests

LEMMA CanonicalPath ==
    ASSUME TreeShape, NEW path \in TreePaths PROVE Canonical(tree, path) \in TreePaths
<1>1. ASSUME NEW target \in TreePaths PROVE target \o SubSeq(path, 3, Len(path)) \in TreePaths
  <2>1. SubSeq(path, 3, Len(path)) \in Seq(Names)
    BY DEF TreePaths
  <2> QED
    BY <2>1 DEF TreePaths
<1> QED
  BY <1>1, OneLink, Leads, TargetPaths

-----------------------------------------------------------------------------
(* The home only grows                                                     *)

Grows ==
    /\ \A p \in DOMAIN tree :
          /\ p \in DOMAIN tree'
          /\ tree[p].is # "file" => tree'[p] = tree[p]
          /\ tree[p].is = "file" => tree'[p].is = "file" /\ tree[p].by \subseteq tree'[p].by
    /\ \A p \in DOMAIN tree' \ DOMAIN tree : tree'[p].is # "link"

\* What is there stays what it is, and no link appears.
LEMMA KindsStay ==
    ASSUME Grows
    PROVE  /\ \A p, kind : IsA(tree, p, kind) => IsA(tree', p, kind)
           /\ \A p : IsA(tree', p, "link") => IsA(tree, p, "link") /\ tree'[p] = tree[p]
<1>1. ASSUME NEW p, NEW kind, IsA(tree, p, kind) PROVE IsA(tree', p, kind)
  BY <1>1 DEF Grows, IsA
<1>2. ASSUME NEW p, IsA(tree', p, "link") PROVE IsA(tree, p, "link") /\ tree'[p] = tree[p]
  BY <1>2 DEF Grows, IsA
<1> QED
  BY <1>1, <1>2

\* A path leads where it led.
LEMMA SameWay ==
    ASSUME TreeShape, Grows, NEW path \in TreePaths
    PROVE  Canonical(tree', path) = Canonical(tree, path)
<1>1. \A n : IsA(tree', Under(path, n), "link") <=> IsA(tree, Under(path, n), "link")
  BY KindsStay
<1>2. LinksOn(tree', path) = LinksOn(tree, path)
  BY <1>1 DEF LinksOn
<1>3. \A n \in LinksOn(tree, path) : tree'[Under(path, n)] = tree[Under(path, n)]
  BY <1>1, KindsStay DEF LinksOn
<1>4. CASE LinksOn(tree, path) = {}
  BY <1>2, <1>4 DEF Canonical
<1>5. CASE LinksOn(tree, path) # {}
  <2>1. Min(LinksOn(tree, path)) \in LinksOn(tree, path)
    <3>1. LinksOn(tree, path) = {2}
      BY <1>5, OneLink
    <3>2. Min({2}) = 2
      BY DEF Min
    <3> QED
      BY <3>1, <3>2
  <2> QED
    BY <1>2, <1>3, <1>5, <2>1 DEF Canonical
<1> QED
  BY <1>4, <1>5
\* A new directory, or a file that is new or written: the home keeps its shape and grows.
LEMMA NodePut ==
    ASSUME TreeShape, NEW p \in TreePaths, NEW node, node = Dir \/ node.is = "file", Node(p, node),
           p # <<>>, Parent(p) \in DOMAIN tree, tree' = With(p, node),
           p \in DOMAIN tree => tree[p].is = "file" /\ node.is = "file" /\ tree[p].by \subseteq node.by
    PROVE  /\ TreeShape' /\ Grows
           /\ DOMAIN tree' = DOMAIN tree \cup {p} /\ tree'[p] = node
           /\ \A q \in DOMAIN tree \ {p} : tree'[q] = tree[q]
<1>1. /\ DOMAIN tree' = DOMAIN tree \cup {p} /\ tree'[p] = node
      /\ \A q \in DOMAIN tree \ {p} : tree'[q] = tree[q]
  BY DEF With
<1>2. Dir.is = "dir"
  BY DEF Dir
<1>3. Grows
  BY <1>1, <1>2 DEF Grows
<1>4. TreeShape'
  <2>1. tree' = [q \in DOMAIN tree' |-> tree'[q]]
    BY DEF With
  <2>2. \A q \in DOMAIN tree' : Node(q, tree'[q])
    BY <1>1 DEF TreeShape
  <2>3. \A q \in DOMAIN tree' : q = <<>> \/ Parent(q) \in DOMAIN tree'
    BY <1>1 DEF TreeShape
  <2>4. DOMAIN tree' \subseteq TreePaths /\ <<>> \in DOMAIN tree' /\ tree'[<<>>] = Dir
    BY <1>1 DEF TreeShape
  <2>5. \A q, n : Node(q, n)' = Node(q, n)
    BY DEF Node
  <2> QED
    BY <2>1, <2>2, <2>3, <2>4, Zenon DEF TreeShape, Node
<1> QED
  BY <1>1, <1>3, <1>4

\* What a turn's write does to the home.
Data == Seq((Turns \cup {"user"}) \X Nat)

LEMMA FileWritten ==
    ASSUME TreeShape, NEW t \in Turns, NEW dest \in TreePaths, NEW data \in Data,
           dest \in DOMAIN tree \/ (dest # <<>> /\ Parent(dest) \in DOMAIN tree),
           ~IsA(tree, dest, "dir"), ~IsA(tree, dest, "link"), tree' = WithFile(t, dest, data)
    PROVE  /\ TreeShape' /\ Grows
           /\ DOMAIN tree' = DOMAIN tree \cup {dest}
           /\ tree'[dest] = FileOf(data, WrittenBy(dest) \cup {t})
           /\ \A q \in DOMAIN tree \ {dest} : tree'[q] = tree[q]
<1> DEFINE node == FileOf(data, WrittenBy(dest) \cup {t})
<1>1. dest \in DOMAIN tree => tree[dest].is = "file" /\ tree[dest].by \subseteq Turns
  BY DEF TreeShape, Node, IsA, Dir, LinkTo
<1>2. node.is = "file" /\ node.by = WrittenBy(dest) \cup {t} /\ node.data = data
  BY DEF FileOf
<1>3. WrittenBy(dest) \subseteq Turns /\ (dest \in DOMAIN tree => WrittenBy(dest) = tree[dest].by)
  BY <1>1 DEF WrittenBy
<1>4. Node(dest, node)
  BY <1>2, <1>3 DEF Node, Data
<1>5. dest # <<>> /\ Parent(dest) \in DOMAIN tree
  BY <1>1 DEF TreeShape, Dir
<1>6. tree' = With(dest, node)
  BY DEF WithFile
<1> HIDE DEF node
<1>7. dest \in DOMAIN tree => tree[dest].is = "file" /\ node.is = "file" /\ tree[dest].by \subseteq node.by
  BY <1>1, <1>2, <1>3
<1> QED
  BY <1>2, <1>4, <1>5, <1>6, <1>7, NodePut DEF node

-----------------------------------------------------------------------------
(* The turns that do not move                                              *)

\* What a step leaves of the home for the turns that are not its own: nothing, or
\* directories, or files it has its name on.
LeftBy(u) ==
    \A p \in DOMAIN tree' :
        \/ p \in DOMAIN tree /\ tree'[p] = tree[p]
        \/ p \notin DOMAIN tree /\ tree'[p].is = "dir"
        \/ tree'[p].is = "file" /\ u \in tree'[p].by

\* What a turn has been let through for stays true.
LEMMA CallStays ==
    ASSUME HomeIndInv, NEW t \in Turns, Grows,
           DOMAIN tree' = DOMAIN tree \/ ~Opened \/ \E u \in Turns \ {t} : calls[u] > 0,
           UNCHANGED <<readable, writable>>,
           call'[t] = call[t], answer'[t] = answer[t],
           \A v \in Turns : calls[v] <= calls'[v], calls' \in [Turns -> Nat]
    PROVE  CallShape(t)'
<1>1. CallShape(t) /\ TreeShape /\ call[t] \in CallStates
  BY DEF HomeIndInv
<1>2. \A v \in Turns : calls[v] > 0 => calls'[v] > 0
  BY DEF HomeIndInv
<1>3. Opened => Opened'
  BY DEF Opened, Grows, GrantDirs
<1>4. call[t].step \in WritingSteps => call[t].path \in Requests
  BY <1>1 DEF CallStates, WritingSteps, AtWrite
<1>5. call[t].step \in WritingSteps => Destination(t)' = Destination(t)
  BY <1>1, <1>4, SameWay, TargetPaths DEF Destination
<1>6. ASSUME call[t].step = "create_dir", (NextParent(t) \in DOMAIN tree)'
      PROVE  \E other \in Turns \ {t} : calls'[other] > 0
  <2>1. NextParent(t)' = NextParent(t)
    BY DEF NextParent
  <2>2. Opened
    BY <1>1, <1>6 DEF CallShape, Open
  <2>3. CASE NextParent(t) \in DOMAIN tree
    BY <1>1, <1>2, <1>6, <2>3 DEF CallShape
  <2>4. CASE NextParent(t) \notin DOMAIN tree
    BY <1>2, <1>6, <2>1, <2>2, <2>4
  <2> QED
    BY <2>3, <2>4
<1>7. call[t].step \in WritingSteps =>
        \A n \in 0 .. call[t].at : IsA(tree', Under(call[t].path, n), "dir")
  BY <1>1, KindsStay DEF CallShape
<1>8. call[t].step \in AtWrite =>
        GrantedTarget(writable, Destination(t)) /\ ~IsA(tree', Destination(t), "link")
  BY <1>1, KindsStay DEF CallShape
<1>9. call[t].step = "fill" => IsA(tree', Destination(t), "file")
  BY <1>1, KindsStay DEF CallShape
<1>10. AtWrite \subseteq WritingSteps /\ "fill" \in AtWrite
  BY DEF AtWrite, WritingSteps
<1>11. UNCHANGED <<readable, writable>>
  OBVIOUS
<1> QED
  BY <1>1, <1>2, <1>3, <1>5, <1>6, <1>7, <1>8, <1>9, <1>10, <1>11 DEF CallShape, Open

\* What a turn has checked, and what it was told, stays true.
LEMMA Bystander ==
    ASSUME HomeIndInv, NEW t \in Turns, NEW u \in Turns \ {t}, Grows, LeftBy(u),
           DOMAIN tree' = DOMAIN tree \/ calls[u] > 0 \/ ~Opened,
           UNCHANGED <<readable, writable>>,
           call'[t] = call[t], answer'[t] = answer[t], calls'[t] = calls[t],
           calls' \in [Turns -> Nat], \A v \in Turns : calls[v] <= calls'[v]
    PROVE  CallShape(t)' /\ AnswerShape(t)'
<1>1. AnswerShape(t)
  BY DEF HomeIndInv
<1>2. \A v \in Turns : calls[v] > 0 => calls'[v] > 0
  BY DEF HomeIndInv
<1>3. CallShape(t)'
  BY CallStays
<1>4. AnswerShape(t)'
  <2>1. answer[t].is = "written" => IsA(tree', answer[t].at, "file")
    BY <1>1, KindsStay DEF AnswerShape
  <2>2. ASSUME answer[t].is = "written", answer[t].mode = "create", call[t] = NoCall
        PROVE  (\/ answer[t].text \in ToSet(DataAt(answer[t].at))
                \/ WrittenBy(answer[t].at) # {t})'
    <3>1. IsA(tree', answer[t].at, "file") /\ IsA(tree, answer[t].at, "file")
      BY <1>1, <2>1, <2>2 DEF AnswerShape
    <3>2. CASE tree'[answer[t].at] = tree[answer[t].at]
      <4>1. DataAt(answer[t].at)' = DataAt(answer[t].at) /\ WrittenBy(answer[t].at)' = WrittenBy(answer[t].at)
        BY <3>1, <3>2 DEF DataAt, WrittenBy, IsA
      <4> QED
        BY <1>1, <2>2, <4>1 DEF AnswerShape
    <3>3. CASE u \in tree'[answer[t].at].by
      BY <3>1, <3>3 DEF WrittenBy, IsA
    <3> QED
      BY <3>1, <3>2, <3>3 DEF LeftBy, IsA
  <2>3. answer[t] = Denied("exists") => \E other \in Turns \ {t} : calls'[other] > 0
    BY <1>1, <1>2 DEF AnswerShape
  <2> QED
    BY <1>1, <2>1, <2>2, <2>3 DEF AnswerShape
<1> QED
  BY <1>3, <1>4
\* A step of one turn that keeps its own shape keeps the invariant.
LEMMA HomeTurn ==
    ASSUME HomeIndInv, NEW t \in Turns, TreeShape', Grows, LeftBy(t), LandingShape',
           DOMAIN tree' = DOMAIN tree \/ calls[t] > 0 \/ ~Opened,
           UNCHANGED <<readable, writable>>,
           call' \in [Turns -> CallStates], calls' \in [Turns -> Nat],
           calls[t] <= calls'[t],
           \A u \in Turns \ {t} : call'[u] = call[u] /\ answer'[u] = answer[u] /\ calls'[u] = calls[u],
           DOMAIN answer' = Turns, answer' = [v \in Turns |-> answer'[v]],
           CallShape(t)', AnswerShape(t)'
    PROVE  HomeIndInv'
<1>1. \A v \in Turns : calls[v] \in Nat /\ calls[v] <= calls'[v]
  BY DEF HomeIndInv
<1>2. ASSUME NEW u \in Turns \ {t} PROVE CallShape(u)' /\ AnswerShape(u)'
  BY <1>1, <1>2, Bystander
<1>3. ScopeShape'
  BY DEF HomeIndInv, ScopeShape, GrantedTarget, Allows, Strict, GrantCovers
<1> QED
  BY <1>2, <1>3 DEF HomeIndInv

LEMMA LandingStays ==
    ASSUME LandingShape, Grows, UNCHANGED writable, landing' \subseteq landing
    PROVE  LandingShape'
<1>1. \A words \in landing' : IsA(tree, words.at, "file") /\ words.by \in tree[words.at].by
  BY DEF LandingShape
<1>2. \A words \in landing' : IsA(tree', words.at, "file") /\ words.by \in tree'[words.at].by
  BY <1>1, KindsStay DEF Grows, IsA
<1> QED
  BY <1>2 DEF LandingShape, GrantedTarget, Allows

\* A step that leaves the home alone.
LEMMA HomeRests ==
    ASSUME HomeIndInv, UNCHANGED <<tree, landing, writable>>, NEW t \in Turns
    PROVE  TreeShape' /\ Grows /\ LeftBy(t) /\ LandingShape' /\ DOMAIN tree' = DOMAIN tree
<1>1. TreeShape'
  BY DEF HomeIndInv, TreeShape, Node
<1>2. Grows /\ LeftBy(t)
  BY DEF HomeIndInv, TreeShape, Node, Grows, LeftBy
<1> QED
  BY <1>1, <1>2, LandingStays DEF HomeIndInv

\* The answers that say nothing of a write.
Truthful(t, result) ==
    /\ result.is # "written" /\ result # Denied("spec")
    /\ result.is \in {"text", "listed"} => GrantedTarget(readable, result.at)
    /\ result.is = "ran" =>
         /\ result.deadline \in 1 .. MaxTimeout
         /\ result.deadline <= result.left \/ result.deadline = 1
         /\ \A path \in result.writes : GrantedTarget(writable, path)
    /\ result = Denied("exists") => \E other \in Turns \ {t} : calls[other] > 0

LEMMA Answers ==
    ASSUME HomeIndInv, NEW t \in Turns, Open(t), NEW result, Truthful(t, result), Answer(t, result),
           UNCHANGED <<tree, landing, readable, writable>>,
           calls' = calls \/ calls' = [calls EXCEPT ![t] = @ + 1]
    PROVE  HomeIndInv'
<1>1. /\ call' = [call EXCEPT ![t] = NoCall] /\ call \in [Turns -> CallStates]
      /\ answer' = [answer EXCEPT ![t] = result] /\ DOMAIN answer = Turns
  BY DEF Answer, HomeIndInv
<1>2. NoCall \in CallStates /\ NoCall.step = "none"
  BY DEF NoCall, CallStates
<1>3. /\ call' \in [Turns -> CallStates] /\ call'[t] = NoCall
      /\ \A u \in Turns \ {t} : call'[u] = call[u]
  BY <1>1, <1>2
<1>4. /\ answer'[t] = result /\ DOMAIN answer' = Turns /\ answer' = [v \in Turns |-> answer'[v]]
      /\ \A u \in Turns \ {t} : answer'[u] = answer[u]
  BY <1>1
<1>5. /\ calls' \in [Turns -> Nat]
      /\ \A u \in Turns \ {t} : calls'[u] = calls[u]
      /\ calls[t] <= calls'[t]
  <2>1. calls \in [Turns -> Nat] /\ \A n \in Nat : n <= n + 1 /\ n <= n
    BY DEF HomeIndInv
  <2> QED
    BY <2>1
<1>6. CallShape(t)'
  <2>1. Opened'
    BY DEF HomeIndInv, CallShape, Opened, GrantDirs
  <2> QED
    BY <1>2, <1>3, <2>1 DEF CallShape, WritingSteps, AtWrite, Open
<1>7. AnswerShape(t)'
  BY <1>4, <1>5 DEF Truthful, AnswerShape, GrantedTarget, Allows
<1> QED
  BY <1>3, <1>4, <1>5, <1>6, <1>7, HomeRests, HomeTurn

\* A turn's call goes on to its next step, the home left alone.
LEMMA CallGoesOn ==
    ASSUME HomeIndInv, NEW t \in Turns, Open(t), NEW next \in CallStates,
           call' = [call EXCEPT ![t] = next], next # NoCall, CallShape(t)',
           UNCHANGED <<tree, landing, readable, writable, answer>>,
           calls' = calls \/ calls' = [calls EXCEPT ![t] = @ + 1]
    PROVE  HomeIndInv'
<1>1. call \in [Turns -> CallStates] /\ DOMAIN answer = Turns /\ answer = [v \in Turns |-> answer[v]]
  BY DEF HomeIndInv
<1>2. /\ call' \in [Turns -> CallStates] /\ call'[t] = next
      /\ \A u \in Turns \ {t} : call'[u] = call[u]
  BY <1>1
<1>3. /\ calls' \in [Turns -> Nat]
      /\ \A u \in Turns \ {t} : calls'[u] = calls[u]
      /\ calls[t] <= calls'[t]
  <2>1. calls \in [Turns -> Nat] /\ \A n \in Nat : n <= n + 1 /\ n <= n
    BY DEF HomeIndInv
  <2> QED
    BY <2>1
<1>4. AnswerShape(t)'
  <2>1. AnswerShape(t)
    BY DEF HomeIndInv
  <2> QED
    BY <1>2, <1>3, <2>1 DEF AnswerShape, GrantedTarget, Allows
<1> QED
  BY <1>1, <1>2, <1>3, <1>4, HomeRests, HomeTurn
-----------------------------------------------------------------------------
(* The calls that change nothing                                           *)

LEMMA ReadStep ==
    ASSUME HomeIndInv, NEW t \in Turns, NEW path \in Requests, List(t, path) \/ Read(t, path)
    PROVE  HomeIndInv'
<1>1. /\ call[t].step = "none" /\ Open(t) /\ calls' = [calls EXCEPT ![t] = @ + 1]
      /\ UNCHANGED <<readable, writable, landing, tree>>
  BY DEF List, Read, Begins, Open
<1>2. TreeShape /\ path \in TreePaths /\ CallShape(t)
  BY TargetPaths DEF HomeIndInv
<1>3. CASE List(t, path)
  <2> DEFINE found == [is |-> "listed", at |-> Canonical(tree, path),
                        names |-> Children(tree, Canonical(tree, path))]
  <2>1. Answer(t, Denied("path")) \/ Answer(t, Denied("kind"))
           \/ (Answer(t, found) /\ GrantedTarget(readable, Canonical(tree, path)))
    BY <1>3 DEF List, Resolves
  <2>2. Truthful(t, Denied("path")) /\ Truthful(t, Denied("kind"))
    BY DEF Truthful, Denied
  <2>3. GrantedTarget(readable, Canonical(tree, path)) => Truthful(t, found)
    BY DEF Truthful, Denied
  <2> HIDE DEF found
  <2> QED
    BY <1>1, <2>1, <2>2, <2>3, Answers
<1>4. CASE Read(t, path) /\ Resolves(tree, readable, path)
  <2> DEFINE next == [step |-> "read", at |-> Canonical(tree, path)]
  <2>1. call' = [call EXCEPT ![t] = next] /\ UNCHANGED answer
    BY <1>4 DEF Read
  <2>2. next \in CallStates /\ next # NoCall
    BY <1>2, CanonicalPath DEF CallStates, NoCall
  <2>3. call'[t] = next
    BY <2>1 DEF HomeIndInv
  <2>4. GrantedTarget(readable, next.at)
    BY <1>4 DEF Resolves
  <2>5. Opened'
    BY <1>1, <1>2 DEF CallShape, Opened, GrantDirs
  <2>6. CallShape(t)'
    BY <1>1, <2>3, <2>4, <2>5 DEF CallShape, GrantedTarget, Allows, Open, WritingSteps, AtWrite
  <2> HIDE DEF next
  <2> QED
    BY <1>1, <2>1, <2>2, <2>6, CallGoesOn
<1>5. CASE Read(t, path) /\ ~Resolves(tree, readable, path)
  <2>1. Answer(t, Denied("path"))
    BY <1>5 DEF Read
  <2>2. Truthful(t, Denied("path"))
    BY DEF Truthful, Denied
  <2> QED
    BY <1>1, <2>1, <2>2, Answers
<1> QED
  BY <1>3, <1>4, <1>5

LEMMA ReadTextStep == ASSUME HomeIndInv, NEW t \in Turns, ReadText(t) PROVE HomeIndInv'
<1>1. /\ call[t].step = "read" /\ Open(t)
      /\ UNCHANGED <<tree, readable, writable, calls, landing>>
  BY DEF ReadText, Open
<1>2. GrantedTarget(readable, call[t].at)
  BY <1>1 DEF HomeIndInv, CallShape
<1> DEFINE found == [is |-> "text", at |-> call[t].at, data |-> tree[call[t].at].data]
<1>3. Answer(t, found) \/ Answer(t, Denied("kind"))
  BY DEF ReadText
<1>4. Truthful(t, found) /\ Truthful(t, Denied("kind"))
  BY <1>2 DEF Truthful, Denied
<1> HIDE DEF found
<1> QED
  BY <1>1, <1>3, <1>4, Answers

\* The deadline of a program is asked for, at most the policy's, and never zero.
LEMMA DeadlineOf ==
    ASSUME NEW asked \in Nat, NEW left \in Nat
    PROVE  /\ Deadline(asked, left) \in 1..MaxTimeout
           /\ Deadline(asked, left) <= left \/ Deadline(asked, left) = 1
<1>1. \A a, b \in Nat : /\ Min({a, b}) \in Nat /\ Min({a, b}) <= a /\ Min({a, b}) <= b
                       /\ Min({a, b}) \in {a, b}
  <2> SUFFICES ASSUME NEW a \in Nat, NEW b \in Nat
               PROVE  \E x \in {a, b} : \A y \in {a, b} : x <= y
    BY DEF Min
  <2> QED
    OBVIOUS
<1>2. \A a, b \in Nat : /\ Max({a, b}) \in Nat /\ a <= Max({a, b}) /\ b <= Max({a, b})
                       /\ Max({a, b}) \in {a, b}
  <2> SUFFICES ASSUME NEW a \in Nat, NEW b \in Nat
               PROVE  \E x \in {a, b} : \A y \in {a, b} : x >= y
    BY DEF Max
  <2> QED
    OBVIOUS
<1> DEFINE most == Min({asked, MaxTimeout})
           wanted == Max({1, most})
           rest == Max({1, left})
<1>3. most \in Nat /\ most <= MaxTimeout
  BY <1>1, HomeAssumption
<1> HIDE DEF most
<1>4. wanted \in 1..MaxTimeout
  BY <1>2, <1>3, HomeAssumption
<1>5. rest \in Nat /\ 1 <= rest /\ rest \in {1, left}
  BY <1>2
<1> HIDE DEF wanted, rest
<1>6. Min({wanted, rest}) \in {wanted, rest} /\ Min({wanted, rest}) <= wanted /\ Min({wanted, rest}) <= rest
  BY <1>1, <1>4, <1>5
<1>7. Deadline(asked, left) = Min({wanted, rest})
  BY DEF Deadline, wanted, rest, most
<1> DEFINE least == Min({wanted, rest})
<1>8. least \in {wanted, rest} /\ least <= wanted /\ least <= rest
  BY <1>6
<1> HIDE DEF least
<1>9. least \in 1..MaxTimeout
  BY <1>4, <1>5, <1>8, HomeAssumption
<1>10. least <= left \/ least = 1
  BY <1>4, <1>5, <1>8, <1>9
<1> QED
  BY <1>7, <1>9, <1>10 DEF least

LEMMA RunProgramStep ==
    ASSUME HomeIndInv, NEW t \in Turns, NEW program, NEW arguments, NEW asked \in Asked, NEW left \in Left,
           RunProgram(t, program, arguments, asked, left)
    PROVE  HomeIndInv'
<1>1. /\ call[t].step = "none" /\ Open(t) /\ calls' = [calls EXCEPT ![t] = @ + 1]
      /\ UNCHANGED <<readable, writable, landing, tree>>
  BY DEF RunProgram, Begins, Open
<1> DEFINE ran == [is |-> "ran", deadline |-> Deadline(asked, left), left |-> left,
                   reads |-> Binds(readable), writes |-> Binds(writable)]
<1>2. asked \in Nat /\ left \in Nat
  BY HomeAssumption DEF Asked, Left
<1>3. Deadline(asked, left) \in 1..MaxTimeout /\ (Deadline(asked, left) <= left \/ Deadline(asked, left) = 1)
  BY <1>2, DeadlineOf
<1>4. ValidSpec(Deadline(asked, left))
  BY <1>3 DEF ValidSpec
<1>5. Answer(t, Denied("program")) \/ (Answer(t, ran) /\ program \in Programs)
  BY <1>4 DEF RunProgram
<1>6. Truthful(t, Denied("program"))
  BY DEF Truthful, Denied
<1>7. ASSUME program \in Programs PROVE Truthful(t, ran)
  <2>1. ~writable.legacy /\ ScopeShape
    BY <1>7 DEF Programs, HomeIndInv, ScopeShape
  <2>2. \A path \in Binds(writable) :
          path \in TreePaths /\ path \in writable.grants /\ GrantedTarget(Strict({path}), path)
    BY <2>1 DEF Binds, ScopeShape
  <2>3. \A path \in Binds(writable) : GrantedTarget(writable, path)
    BY <2>2, SelfPrefix DEF GrantedTarget, Allows, Strict, GrantCovers
  <2> QED
    BY <1>3, <2>3 DEF Truthful, Denied
<1> HIDE DEF ran
<1> QED
  BY <1>1, <1>5, <1>6, <1>7, Answers

-----------------------------------------------------------------------------
(* The calls that write                                                    *)

\* What a step may do to the home.
GrantedStep ==
    /\ DOMAIN tree \subseteq DOMAIN tree'
    /\ \A path \in DOMAIN tree' : Changed(path) =>
         \/ tree'[path].is = "file" /\ GrantedTarget(writable, path)
         \/ tree'[path].is = "dir" /\ \E grant \in GrantDirs \cup writable.grants :
                                         IsPrefix(path, grant) \/ IsPrefix(grant, path)

LEMMA GrantPaths == ASSUME ScopeShape PROVE GrantDirs \cup writable.grants \subseteq TreePaths
<1>1. In \in TreePaths /\ Out \in TreePaths
  BY DEF In, Out, TreePaths, Names
<1> QED
  BY <1>1 DEF GrantDirs, ScopeShape

LEMMA OpenHomeStep ==
    ASSUME HomeIndInv, NEW t \in Turns, OpenHome(t)
    PROVE  HomeIndInv' /\ GrantedStep
<1>1. /\ call[t].step = "off" /\ answer[t] = Nothing
      /\ call \in [Turns -> CallStates] /\ calls \in [Turns -> Nat]
      /\ DOMAIN answer = Turns /\ answer = [v \in Turns |-> answer[v]]
      /\ TreeShape /\ ScopeShape /\ LandingShape
      /\ UNCHANGED <<readable, writable, calls, landing, answer>>
  BY DEF OpenHome, HomeIndInv, CallShape, Open
<1>2. AnswerShape(t)'
  BY <1>1 DEF AnswerShape, Nothing, Denied
<1>3. CASE \E grant \in GrantDirs : Blocked(grant)
  <2> DEFINE next == [step |-> "refused"]
  <2>1. call' = [call EXCEPT ![t] = next] /\ UNCHANGED tree
    BY <1>3 DEF OpenHome
  <2>2. next \in CallStates
    BY DEF CallStates
  <2>3. /\ call' \in [Turns -> CallStates] /\ call'[t] = next
        /\ \A u \in Turns \ {t} : call'[u] = call[u]
    BY <1>1, <2>1, <2>2
  <2>4. CallShape(t)'
    BY <1>1, <2>3 DEF CallShape, Open, WritingSteps, AtWrite
  <2>5. \A v \in Turns : calls[v] <= calls'[v]
    BY <1>1
  <2>6. GrantedStep
    BY <2>1 DEF GrantedStep, Changed
  <2> QED
    BY <1>1, <1>2, <2>1, <2>3, <2>4, <2>5, <2>6, HomeRests, HomeTurn
<1>4. CASE ~\E grant \in GrantDirs : Blocked(grant)
  <2> DEFINE new == UNION {Ways(path) : path \in GrantDirs}
  <2>1. call' = [call EXCEPT ![t] = NoCall] /\ tree' = WithDirs(GrantDirs)
    BY <1>4 DEF OpenHome
  <2>2. /\ DOMAIN tree' = DOMAIN tree \cup new
        /\ \A p \in DOMAIN tree : tree'[p] = tree[p]
        /\ \A p \in DOMAIN tree' \ DOMAIN tree : tree'[p] = Dir
    BY <2>1 DEF WithDirs
  <2>3. tree' = [p \in DOMAIN tree' |-> tree'[p]]
    BY <2>1 DEF WithDirs
  <2>4. \A p \in new : \E grant \in GrantDirs : \E n \in 0..Len(grant) :
            grant \in TreePaths /\ p = Under(grant, n)
    BY <1>1, GrantPaths DEF Ways
  <2> HIDE DEF new
  <2>5. \A p \in new : p \in TreePaths
    BY <2>4, UnderOf
  <2>6. \A p \in new : p = <<>> \/ Parent(p) \in new
    <3> SUFFICES ASSUME NEW p \in new PROVE p = <<>> \/ Parent(p) \in new
      OBVIOUS
    <3>1. PICK grant \in GrantDirs : \E n \in 0..Len(grant) : grant \in TreePaths /\ p = Under(grant, n)
      BY <2>4
    <3>2. PICK n \in 0..Len(grant) : grant \in TreePaths /\ p = Under(grant, n)
      BY <3>1
    <3>3. CASE n = 0
      BY <3>2, <3>3 DEF Under, TreePaths
    <3>4. CASE n > 0
      <4>1. n \in 1..Len(grant) /\ n - 1 \in 0..Len(grant)
        BY <3>2, <3>4 DEF TreePaths
      <4>2. Parent(p) = Under(grant, n - 1)
        BY <3>2, <4>1, ParentOf
      <4> QED
        BY <4>1, <4>2 DEF new, Ways
    <3> QED
      BY <3>2, <3>3, <3>4 DEF TreePaths
  <2>7. TreeShape'
    <3>1. \A p \in DOMAIN tree' : Node(p, tree'[p])
      BY <1>1, <2>2 DEF TreeShape, Node
    <3>2. \A p \in DOMAIN tree' : p = <<>> \/ Parent(p) \in DOMAIN tree'
      BY <1>1, <2>2, <2>6 DEF TreeShape
    <3>3. DOMAIN tree' \subseteq TreePaths /\ <<>> \in DOMAIN tree' /\ tree'[<<>>] = Dir
      BY <1>1, <2>2, <2>5 DEF TreeShape
    <3> QED
      BY <2>3, <3>1, <3>2, <3>3, Zenon DEF TreeShape, Node
  <2>8. Grows /\ LeftBy(t)
    BY <2>2 DEF Grows, LeftBy, Dir
  <2>9. Opened => DOMAIN tree' = DOMAIN tree
    BY <2>2 DEF Opened, new
  <2>10. Opened'
    BY <1>1, <2>2 DEF Opened, new, GrantDirs
  <2>11. LandingShape'
    BY <1>1, <2>8, LandingStays
  <2>12. /\ call' \in [Turns -> CallStates] /\ call'[t] = NoCall
         /\ \A u \in Turns \ {t} : call'[u] = call[u]
    <3>1. NoCall \in CallStates
      BY DEF NoCall, CallStates
    <3> QED
      BY <1>1, <2>1, <3>1
  <2>13. CallShape(t)'
    BY <2>10, <2>12 DEF CallShape, WritingSteps, AtWrite, Open, NoCall
  <2>14. GrantedStep
    <3>1. ASSUME NEW p \in new PROVE \E grant \in GrantDirs : IsPrefix(p, grant)
      BY <2>4, <3>1, UnderIsPrefix
    <3> QED
      BY <2>2, <3>1 DEF GrantedStep, Changed, Dir
  <2>15. calls[t] <= calls'[t]
    BY <1>1
  <2> QED
    BY <1>1, <1>2, <2>7, <2>8, <2>9, <2>11, <2>12, <2>13, <2>14, <2>15, HomeTurn
<1> QED
  BY <1>3, <1>4

LEMMA BeginWriteStep ==
    ASSUME HomeIndInv, NEW t \in Turns, NEW path \in Requests, NEW mode \in {"create", "append"},
           BeginWrite(t, path, mode)
    PROVE  HomeIndInv'
<1>1. /\ call[t].step = "none" /\ Open(t) /\ calls' = [calls EXCEPT ![t] = @ + 1]
      /\ UNCHANGED <<readable, writable, landing, tree>>
  BY DEF BeginWrite, Begins, Open
<1>2. TreeShape /\ path \in TreePaths /\ CallShape(t) /\ calls \in [Turns -> Nat]
  BY TargetPaths DEF HomeIndInv
<1>3. CASE Allows(writable, path) /\ path # <<>>
  <2> DEFINE next == [step |-> "parents", path |-> path, mode |-> mode, at |-> 0, text |-> <<t, calls[t] + 1>>]
  <2>1. call' = [call EXCEPT ![t] = next] /\ UNCHANGED answer
    BY <1>3 DEF BeginWrite
  <2>2. next \in CallStates /\ next # NoCall
    BY <1>2 DEF CallStates, NoCall, WritingSteps
  <2>3. call'[t] = next /\ calls'[t] > 0
    BY <1>1, <1>2, <2>1 DEF HomeIndInv
  <2>4. Opened'
    BY <1>1, <1>2 DEF CallShape, Opened, GrantDirs
  <2>5. Len(path) \in Nat /\ Len(path) > 0
    BY <1>2, <1>3 DEF TreePaths
  <2>6. \A n \in 0..0 : IsA(tree, Under(path, n), "dir")
    <3>1. Under(path, 0) = <<>>
      BY DEF Under
    <3>2. IsA(tree, <<>>, "dir")
      BY <1>2 DEF TreeShape, IsA, Dir
    <3> QED
      BY <3>1, <3>2
  <2>7. CallShape(t)'
    BY <1>1, <1>3, <2>3, <2>4, <2>5, <2>6 DEF CallShape, Allows, Open, WritingSteps, AtWrite
  <2> HIDE DEF next
  <2> QED
    BY <1>1, <2>1, <2>2, <2>7, CallGoesOn
<1>4. CASE ~(Allows(writable, path) /\ path # <<>>)
  <2>1. Answer(t, Denied("path"))
    BY <1>4 DEF BeginWrite
  <2>2. Truthful(t, Denied("path"))
    BY DEF Truthful, Denied
  <2> QED
    BY <1>1, <2>1, <2>2, Answers
<1> QED
  BY <1>3, <1>4

\* A call that writes: its fields, and what it has been let through for.
LEMMA Writing ==
    ASSUME HomeIndInv, NEW t \in Turns, call[t].step \in WritingSteps
    PROVE  /\ TreeShape /\ CallShape(t) /\ Open(t) /\ Opened /\ calls[t] > 0
           /\ call[t].path \in Requests /\ call[t].path \in TreePaths /\ call[t].path # <<>>
           /\ call[t].mode \in {"create", "append"} /\ call[t].text \in Turns \X Nat
           /\ call[t].at \in 0..2 /\ call[t] # NoCall
           /\ call[t] \in [step : WritingSteps, path : Requests, mode : {"create", "append"},
                           at : 0..2, text : Turns \X Nat]
<1>1. call[t] \in CallStates /\ TreeShape /\ CallShape(t)
  BY DEF HomeIndInv
<1>2. Open(t) /\ call[t].step # "none"
  BY DEF Open, WritingSteps, AtWrite
<1>3. call[t] \in [step : WritingSteps, path : Requests, mode : {"create", "append"},
                    at : 0..2, text : Turns \X Nat]
  BY <1>1 DEF CallStates, WritingSteps, AtWrite
<1> QED
  BY <1>1, <1>2, <1>3, TargetPaths DEF CallShape, NoCall

\* The paths that are asked for are three names at most, and none is outside.
LEMMA RequestShape ==
    \A path \in Requests : Len(path) <= 3 /\ ~IsPrefix(Outside, path)
<1>1. Len(Link \o <<"f">>) = 3 /\ (Link \o <<"f">>)[1] = "out"
  <2>1. Link \in Seq(Names) /\ <<"f">> \in Seq(Names) /\ Len(Link) = 2 /\ Len(<<"f">>) = 1 /\ Link[1] = "out"
    BY DEF Link, Names
  <2>2. \A s, u \in Seq(Names) : /\ Len(s \o u) = Len(s) + Len(u)
                                 /\ \A i \in 1..Len(s) : (s \o u)[i] = s[i]
    OBVIOUS
  <2>3. Len(Link \o <<"f">>) = Len(Link) + Len(<<"f">>)
    BY <2>1, <2>2
  <2>4. 1 \in 1..Len(Link)
    BY <2>1
  <2>5. (Link \o <<"f">>)[1] = Link[1]
    BY <2>1, <2>2, <2>4
  <2> QED
    BY <2>1, <2>3, <2>5
<1>2. \A path \in Requests : Len(path) <= 3
  <2>1. Len(Note) = 2 /\ Len(Draft) = 2 /\ Len(DeepDraft) = 3 /\ Len(Link) = 2
    BY DEF Note, Draft, DeepDraft, Link
  <2>2. Len(<<"..", "f">>) = 2 /\ Len(<<>>) = 0
    OBVIOUS
  <2>3. 0 <= 3 /\ 2 <= 3 /\ 3 <= 3
    OBVIOUS
  <2> QED
    BY <1>1, <2>1, <2>2, <2>3, Zenon DEF Requests
<1>3. \A path \in Requests : Len(path) > 0 => path[1] # "outside"
  <2>1. Note[1] = "in" /\ Draft[1] = "out" /\ DeepDraft[1] = "out" /\ Link[1] = "out"
    BY DEF Note, Draft, DeepDraft, Link
  <2>2. <<"..", "f">>[1] = ".." /\ Len(<<>>) = 0
    OBVIOUS
  <2> QED
    BY <1>1, <2>1, <2>2 DEF Requests
<1>4. Len(Outside) = 1 /\ SubSeq(Outside, 1, 1)[1] = "outside"
  BY DEF Outside
<1>5. ASSUME NEW path \in Requests, IsPrefix(Outside, path) PROVE FALSE
  <2>1. path \in Seq(Names)
    BY TargetPaths DEF TreePaths
  <2>2. Len(path) >= 1 /\ SubSeq(Outside, 1, 1) = SubSeq(path, 1, 1)
    BY <1>4, <1>5, <2>1 DEF IsPrefix
  <2>3. SubSeq(path, 1, 1)[1] = path[1]
    BY <2>1, <2>2
  <2> QED
    BY <1>3, <1>4, <2>1, <2>2, <2>3
<1> QED
  BY <1>2, <1>5

\* A link leads to no link.
LEMMA TargetsAreNoLinks == \A target \in LinkTargets : target # Link
<1>1. (Outside \o <<"f">>)[1] = "outside"
  <2>1. Outside \in Seq(Names) /\ <<"f">> \in Seq(Names) /\ Len(Outside) = 1 /\ Outside[1] = "outside"
    BY DEF Outside, Names
  <2> QED
    BY <2>1
<1> QED
  BY <1>1 DEF LinkTargets, Note, Draft, In, Link

LEMMA LookAtParentStep == ASSUME HomeIndInv, NEW t \in Turns, LookAtParent(t) PROVE HomeIndInv'
<1>1. /\ call[t].step = "parents" /\ call[t].at < Len(call[t].path) - 1
      /\ UNCHANGED <<tree, calls, landing, readable, writable>>
  BY DEF LookAtParent, Unanswered
<1>2. call[t].step \in WritingSteps
  BY <1>1 DEF WritingSteps
<1>3. TreeShape /\ CallShape(t) /\ Open(t) /\ Opened' /\ Len(call[t].path) <= 3 /\ Len(call[t].path) \in Nat
  BY <1>1, <1>2, Writing, RequestShape DEF Opened, GrantDirs, TreePaths
<1>4. call \in [Turns -> CallStates]
  BY DEF HomeIndInv
<1>5. CASE NextParent(t) \notin DOMAIN tree
  <2> DEFINE next == [call[t] EXCEPT !.step = "create_dir"]
  <2>1. call' = [call EXCEPT ![t] = next] /\ UNCHANGED answer
    BY <1>1, <1>5 DEF LookAtParent, Goes, Unanswered
  <2>2. next \in CallStates /\ next # NoCall
    BY <1>2, Writing DEF CallStates, WritingSteps, NoCall
  <2>3. /\ next.step = "create_dir" /\ next.path = call[t].path /\ next.at = call[t].at
        /\ next.mode = call[t].mode
    BY <1>2, Writing
  <2> HIDE DEF next
  <2>4. call'[t] = next
    BY <1>4, <2>1
  <2>5. NextParent(t)' = NextParent(t)
    BY <2>3, <2>4 DEF NextParent
  <2>6. CallShape(t)'
    BY <1>1, <1>2, <1>3, <1>5, <2>3, <2>4, <2>5 DEF CallShape, Allows, Open, WritingSteps, AtWrite
  <2> QED
    BY <1>1, <1>3, <2>1, <2>2, <2>6, CallGoesOn
<1>6. CASE IsA(tree, NextParent(t), "dir")
  <2> DEFINE next == [call[t] EXCEPT !.at = @ + 1]
  <2>1. call' = [call EXCEPT ![t] = next] /\ UNCHANGED answer
    BY <1>1, <1>6 DEF LookAtParent, Unanswered, IsA
  <2>2. call[t].at + 1 \in 0..2
    BY <1>1, <1>2, <1>3, Writing
  <2>3. next \in CallStates /\ next # NoCall
    BY <1>2, <2>2, Writing DEF CallStates, NoCall
  <2>4. /\ next.step = "parents" /\ next.path = call[t].path /\ next.at = call[t].at + 1
        /\ next.mode = call[t].mode
    BY <1>1, <1>2, Writing
  <2> HIDE DEF next
  <2>5. call'[t] = next
    BY <1>4, <2>1
  <2>6. \A n \in 0 .. call[t].at + 1 : IsA(tree, Under(call[t].path, n), "dir")
    <3>1. \A n \in 0 .. call[t].at : IsA(tree, Under(call[t].path, n), "dir")
      BY <1>2, <1>3 DEF CallShape
    <3>2. \A n \in 0 .. call[t].at + 1 : n \in 0 .. call[t].at \/ n = call[t].at + 1
      <4>1. call[t].at \in Nat
        BY <1>2, Writing
      <4> QED
        BY <4>1
    <3> QED
      BY <1>6, <3>1, <3>2 DEF NextParent
  <2>7. next.at \in 0 .. Len(next.path) - 1
    <3>1. \A a, len \in Nat : a < len - 1 => a + 1 \in 0 .. len - 1
      OBVIOUS
    <3>2. call[t].at \in Nat
      BY <1>2, Writing
    <3> QED
      BY <1>1, <1>3, <2>4, <3>1, <3>2
  <2>8. CallShape(t)'
    BY <1>1, <1>2, <1>3, <2>4, <2>5, <2>6, <2>7 DEF CallShape, Allows, Open, WritingSteps, AtWrite
  <2> QED
    BY <1>1, <1>3, <2>1, <2>3, <2>8, CallGoesOn
<1>7. CASE NextParent(t) \in DOMAIN tree /\ ~IsA(tree, NextParent(t), "dir")
  <2>1. Answer(t, Denied("parent"))
    BY <1>7 DEF LookAtParent
  <2>2. Truthful(t, Denied("parent"))
    BY DEF Truthful, Denied
  <2> QED
    BY <1>1, <1>3, <2>1, <2>2, Answers
<1> QED
  BY <1>5, <1>6, <1>7

\* What is let through to be written leads to a granted path that is no link.
LEMMA CheckedDestination ==
    ASSUME HomeIndInv, NEW t \in Turns, call[t].step = "parents",
           call[t].at = Len(call[t].path) - 1, DestinationAllowed(call[t].path)
    PROVE  GrantedTarget(writable, Destination(t)) /\ ~IsA(tree, Destination(t), "link")
<1> DEFINE path == call[t].path
<1>1. call[t].step \in WritingSteps
  BY DEF WritingSteps
<1>2. /\ TreeShape /\ CallShape(t) /\ path \in Requests /\ path \in TreePaths /\ Len(path) \in Nat
      /\ Allows(writable, path) /\ \A n \in 0 .. Len(path) - 1 : IsA(tree, Under(path, n), "dir")
  <2>1. TreeShape /\ CallShape(t) /\ path \in Requests /\ path \in TreePaths
    BY <1>1, Writing
  <2>2. Len(path) \in Nat
    BY <2>1 DEF TreePaths
  <2>3. Allows(writable, path) /\ \A n \in 0 .. call[t].at : IsA(tree, Under(path, n), "dir")
    BY <1>1, <2>1 DEF CallShape
  <2> QED
    BY <2>1, <2>2, <2>3
<1>3. LinksOn(tree, path) = {2} => path = Link /\ Len(path) = 2 /\ IsA(tree, Link, "link")
  <2> SUFFICES ASSUME LinksOn(tree, path) = {2} PROVE path = Link /\ Len(path) = 2 /\ IsA(tree, Link, "link")
    OBVIOUS
  <2>1. Len(path) >= 2 /\ Under(path, 2) = Link /\ IsA(tree, Link, "link")
    BY <1>2, OneLink
  <2>2. ~IsA(tree, Link, "dir")
    BY <2>1 DEF IsA
  <2>3. ~(2 <= Len(path) - 1)
    BY <1>2, <2>1, <2>2
  <2>4. Len(path) = 2
    <3>1. \A len \in Nat : len >= 2 /\ ~(2 <= len - 1) => len = 2
      OBVIOUS
    <3> QED
      BY <1>2, <2>1, <2>3, <3>1
  <2> QED
    BY <1>2, <2>1, <2>4, WholePath
<1>4. CASE LinksOn(tree, path) = {}
  <2>1. Destination(t) = path
    BY <1>2, <1>4, Leads DEF Destination
  <2>2. GrantedTarget(writable, path)
    BY <1>2, RequestShape DEF GrantedTarget
  <2>3. ~IsA(tree, path, "link")
    <3> SUFFICES ASSUME IsA(tree, path, "link") PROVE FALSE
      OBVIOUS
    <3>1. path = Link
      BY <1>2 DEF TreeShape, Node, IsA, Dir, FileOf
    <3>2. Len(path) = 2 /\ Under(path, 2) = Link
      BY <1>2, <3>1, WholePath DEF Link
    <3> QED
      BY <1>2, <1>4, <3>1, <3>2, OneLink, SMTT(30)
  <2> QED
    BY <2>1, <2>2, <2>3
<1>5. CASE LinksOn(tree, path) = {2}
  <2>1. path = Link /\ Len(path) = 2 /\ path \in DOMAIN tree
    BY <1>3, <1>5 DEF IsA
  <2>2. GrantedTarget(writable, Destination(t))
    BY <2>1 DEF DestinationAllowed, Destination
  <2>3. PICK target \in LinkTargets : Canonical(tree, path) = target \o SubSeq(path, 3, Len(path))
    BY <1>2, <1>5, Leads
  <2>4. Destination(t) = target
    <3>1. SubSeq(path, 3, Len(path)) = <<>>
      BY <1>2, <2>1 DEF TreePaths
    <3>2. target \o <<>> = target
      BY <2>3, TargetPaths DEF TreePaths
    <3> QED
      BY <2>3, <3>1, <3>2 DEF Destination
  <2>5. ~IsA(tree, target, "link")
    BY <1>2, <2>3, TargetsAreNoLinks DEF TreeShape, Node, IsA, Dir, FileOf
  <2> QED
    BY <2>2, <2>4, <2>5
<1> QED
  BY <1>2, <1>4, <1>5, OneLink

LEMMA CheckDestinationStep == ASSUME HomeIndInv, NEW t \in Turns, CheckDestination(t) PROVE HomeIndInv'
<1>1. /\ call[t].step = "parents" /\ call[t].at = Len(call[t].path) - 1
      /\ UNCHANGED <<tree, calls, landing, readable, writable>>
  BY DEF CheckDestination, Unanswered
<1>2. call[t].step \in WritingSteps
  BY <1>1 DEF WritingSteps
<1>3. TreeShape /\ CallShape(t) /\ Open(t) /\ Opened'
  BY <1>1, <1>2, Writing DEF Opened, GrantDirs
<1>4. call \in [Turns -> CallStates]
  BY DEF HomeIndInv
<1>5. CASE DestinationAllowed(call[t].path)
  <2> DEFINE next == [call[t] EXCEPT !.step = call[t].mode]
  <2>1. call' = [call EXCEPT ![t] = next] /\ UNCHANGED answer
    BY <1>1, <1>5 DEF CheckDestination, Goes, Unanswered
  <2>2. next \in CallStates /\ next # NoCall
    BY <1>2, Writing DEF CallStates, WritingSteps, AtWrite, NoCall
  <2>3. /\ next.step = call[t].mode /\ next.path = call[t].path /\ next.at = call[t].at
        /\ next.mode = call[t].mode /\ call[t].mode \in {"create", "append"}
    BY <1>2, Writing
  <2> HIDE DEF next
  <2>4. call'[t] = next
    BY <1>4, <2>1
  <2>5. Destination(t)' = Destination(t)
    BY <1>1, <2>3, <2>4 DEF Destination
  <2>6. GrantedTarget(writable, Destination(t)) /\ ~IsA(tree, Destination(t), "link")
    BY <1>1, <1>5, CheckedDestination
  <2>7. CallShape(t)'
    BY <1>1, <1>2, <1>3, <2>3, <2>4, <2>5, <2>6 DEF CallShape, Allows, GrantedTarget, Open, WritingSteps, AtWrite
  <2> QED
    BY <1>1, <1>3, <2>1, <2>2, <2>7, CallGoesOn
<1>6. CASE ~DestinationAllowed(call[t].path)
  <2>1. Answer(t, Denied("path"))
    BY <1>6 DEF CheckDestination
  <2>2. Truthful(t, Denied("path"))
    BY DEF Truthful, Denied
  <2> QED
    BY <1>1, <1>3, <2>1, <2>2, Answers
<1> QED
  BY <1>5, <1>6

\* Above or below what is asked for there is a grant.
LEMMA GrantAbove ==
    ASSUME ScopeShape, NEW path \in Requests, Allows(writable, path), path # <<>>
    PROVE  \E grant \in GrantDirs \cup writable.grants : grant \in TreePaths /\ IsPrefix(grant, path)
<1>1. path \in Seq(Names) /\ Len(path) \in Nat /\ Len(path) >= 1 /\ path \in TreePaths
  BY TargetPaths DEF TreePaths
<1>2. CASE ~writable.legacy
  BY <1>2, GrantPaths DEF Allows, GrantCovers
<1>3. CASE writable.legacy
  <2>1. path[1] # ".."
    BY <1>1 DEF Allows, WellFormedPath
  <2>2. (Link \o <<"f">>)[1] = "out"
    <3>1. \A s, u \in Seq(Names) : \A i \in 1..Len(s) : (s \o u)[i] = s[i]
      OBVIOUS
    <3>2. Link \in Seq(Names) /\ <<"f">> \in Seq(Names) /\ 1 \in 1..Len(Link) /\ Link[1] = "out"
      BY DEF Link, Names
    <3> QED
      BY <3>1, <3>2
  <2>3. path[1] = "in" \/ path[1] = "out"
    <3>1. Note[1] = "in" /\ Draft[1] = "out" /\ DeepDraft[1] = "out" /\ Link[1] = "out" /\ <<"..", "f">>[1] = ".."
      BY DEF Note, Draft, DeepDraft, Link
    <3> QED
      BY <2>1, <2>2, <3>1 DEF Requests
  <2>4. /\ In \in TreePaths /\ Len(In) = 1 /\ In[1] = "in"
        /\ Out \in TreePaths /\ Len(Out) = 1 /\ Out[1] = "out"
    BY DEF In, Out, TreePaths, Names
  <2>5. ASSUME NEW grant \in TreePaths, Len(grant) = 1, grant[1] = path[1] PROVE IsPrefix(grant, path)
    <3>1. SubSeq(grant, 1, 1) = SubSeq(path, 1, 1)
      BY <1>1, <2>5 DEF TreePaths
    <3> QED
      BY <1>1, <2>5, <3>1 DEF IsPrefix
  <2>6. IsPrefix(In, path) \/ IsPrefix(Out, path)
    BY <2>3, <2>4, <2>5
  <2>7. In \in GrantDirs /\ Out \in GrantDirs
    BY <1>3 DEF GrantDirs
  <2> QED
    BY <2>4, <2>6, <2>7
<1> QED
  BY <1>2, <1>3

\* A step that puts one node does to the home what its grants allow.
LEMMA GrantedPut ==
    ASSUME NEW p, DOMAIN tree' = DOMAIN tree \cup {p}, \A q \in DOMAIN tree \ {p} : tree'[q] = tree[q],
           \/ tree'[p].is = "file" /\ GrantedTarget(writable, p)
           \/ tree'[p].is = "dir" /\ \E grant \in GrantDirs \cup writable.grants :
                                        IsPrefix(p, grant) \/ IsPrefix(grant, p)
    PROVE  GrantedStep
BY DEF GrantedStep, Changed

\* A turn that goes on with its call keeps what it was told.
LEMMA AnswerStays ==
    ASSUME NEW t \in Turns, AnswerShape(t), Grows, call'[t] # NoCall,
           UNCHANGED <<answer, calls, readable, writable>>
    PROVE  AnswerShape(t)'
<1>1. answer[t].is = "written" => IsA(tree', answer[t].at, "file")
  BY KindsStay DEF AnswerShape
<1> QED
  BY <1>1 DEF AnswerShape, GrantedTarget, Allows

LEMMA CreateParentStep ==
    ASSUME HomeIndInv, NEW t \in Turns, CreateParent(t)
    PROVE  HomeIndInv' /\ GrantedStep
<1>1. call[t].step = "create_dir" /\ UNCHANGED <<calls, landing, readable, writable>>
  BY DEF CreateParent, Unanswered
<1>2. call[t].step \in WritingSteps
  BY <1>1 DEF WritingSteps
<1>3. CASE NextParent(t) \in DOMAIN tree
  <2>1. Answer(t, Denied("exists")) /\ UNCHANGED tree
    BY <1>3 DEF CreateParent
  <2>2. Truthful(t, Denied("exists"))
    BY <1>1, <1>2, <1>3, Writing DEF CallShape, Truthful, Denied
  <2>3. HomeIndInv'
    BY <1>1, <1>2, <2>1, <2>2, Writing, Answers
  <2> QED
    BY <2>1, <2>3 DEF GrantedStep, Changed
<1>4. CASE NextParent(t) \notin DOMAIN tree
  <2> DEFINE path == call[t].path
             p == NextParent(t)
             next == [call[t] EXCEPT !.step = "parents", !.at = @ + 1]
  <2>1. call' = [call EXCEPT ![t] = next] /\ tree' = With(p, Dir) /\ UNCHANGED answer
    BY <1>4 DEF CreateParent, Unanswered
  <2>2. /\ TreeShape /\ CallShape(t) /\ Opened /\ calls[t] > 0
        /\ path \in Requests /\ path \in TreePaths /\ path # <<>> /\ Allows(writable, path)
    BY <1>2, Writing DEF CallShape
  <2>3. /\ ScopeShape /\ LandingShape /\ AnswerShape(t) /\ call \in [Turns -> CallStates]
        /\ calls \in [Turns -> Nat] /\ DOMAIN answer = Turns /\ answer = [v \in Turns |-> answer[v]]
    BY DEF HomeIndInv
  <2>4. /\ call[t].at \in Nat /\ call[t].at + 1 \in 0..2 /\ call[t].at + 1 \in 1..Len(path)
        /\ call[t].at + 1 \in 0..Len(path) - 1 /\ call[t].at \in 0..Len(path)
        /\ call[t].at + 1 \in 0..Len(path)
    <3>1. \A a, len \in Nat : a < len - 1 /\ len <= 3 =>
             /\ a + 1 \in 0..2 /\ a + 1 \in 1..len /\ a + 1 \in 0..len - 1 /\ a \in 0..len /\ a + 1 \in 0..len
      OBVIOUS
    <3>2. call[t].at \in Nat /\ Len(path) \in Nat /\ Len(path) <= 3 /\ call[t].at < Len(path) - 1
      <4>1. call[t].at < Len(path) - 1
        BY <1>1, <2>2 DEF CallShape
      <4> QED
        BY <1>2, <2>2, <4>1, Writing, RequestShape DEF TreePaths
    <3> QED
      BY <3>1, <3>2
  <2>5. p = Under(path, call[t].at + 1) /\ p \in TreePaths /\ p # <<>>
    <3>1. p = Under(path, call[t].at + 1)
      BY DEF NextParent
    <3>2. p \in TreePaths /\ Len(p) = call[t].at + 1
      BY <2>2, <2>4, <3>1, UnderOf
    <3> QED
      BY <2>4, <3>1, <3>2
  <2>6. Parent(p) \in DOMAIN tree
    <3>1. Parent(p) = Under(path, call[t].at)
      <4>1. (call[t].at + 1) - 1 = call[t].at
        BY <2>4
      <4> QED
        BY <2>2, <2>4, <2>5, <4>1, ParentOf
    <3>2. IsA(tree, Under(path, call[t].at), "dir")
      <4>1. call[t].at \in 0..call[t].at
        BY <2>4
      <4> QED
        BY <1>2, <2>2, <4>1 DEF CallShape
    <3> QED
      BY <3>1, <3>2 DEF IsA
  <2> HIDE DEF p
  <2>7. /\ TreeShape' /\ Grows /\ DOMAIN tree' = DOMAIN tree \cup {p} /\ tree'[p] = Dir
        /\ \A q \in DOMAIN tree \ {p} : tree'[q] = tree[q]
    <3>1. Node(p, Dir)
      BY DEF Node
    <3>2. p \notin DOMAIN tree
      BY <1>4 DEF p
    <3> QED
      BY <2>1, <2>2, <2>5, <2>6, <3>1, <3>2, NodePut
  <2>8. LeftBy(t) /\ Opened' /\ IsA(tree', p, "dir")
    <3>1. LeftBy(t)
      BY <1>4, <2>7 DEF LeftBy, Dir, p
    <3>2. Opened'
      BY <1>1, <2>2, <2>7 DEF Opened, GrantDirs
    <3>3. IsA(tree', p, "dir")
      BY <2>7 DEF IsA, Dir
    <3> QED
      BY <3>1, <3>2, <3>3
  <2>9. LandingShape'
    BY <1>1, <2>3, <2>7, LandingStays
  <2>10. /\ next \in CallStates /\ next # NoCall /\ next.step = "parents" /\ next.path = path
         /\ next.at = call[t].at + 1
    <3>1. call[t] \in [step : WritingSteps, path : Requests, mode : {"create", "append"},
                       at : 0..2, text : Turns \X Nat]
      BY <1>2, Writing
    <3> QED
      BY <2>4, <3>1 DEF CallStates, WritingSteps, NoCall
  <2> HIDE DEF next
  <2>11. /\ call' \in [Turns -> CallStates] /\ call'[t] = next
         /\ \A u \in Turns \ {t} : call'[u] = call[u]
    BY <2>1, <2>3, <2>10
  <2>12. \A n \in 0 .. call[t].at + 1 : IsA(tree', Under(path, n), "dir")
    <3>1. \A n \in 0 .. call[t].at : IsA(tree', Under(path, n), "dir")
      BY <1>2, <2>2, <2>7, KindsStay DEF CallShape
    <3>2. \A n \in 0 .. call[t].at + 1 : n \in 0 .. call[t].at \/ n = call[t].at + 1
      BY <2>4
    <3> QED
      BY <2>5, <2>8, <3>1, <3>2
  <2>13. CallShape(t)'
    BY <1>1, <2>2, <2>4, <2>8, <2>10, <2>11, <2>12 DEF CallShape, Allows, Open, WritingSteps, AtWrite
  <2>14. AnswerShape(t)'
    BY <1>1, <2>1, <2>3, <2>7, <2>10, <2>11, AnswerStays
  <2>15. HomeIndInv'
    <3>1. calls[t] <= calls'[t]
      BY <1>1, <2>3
    <3> QED
      BY <1>1, <2>1, <2>2, <2>3, <2>7, <2>8, <2>9, <2>11, <2>13, <2>14, <3>1, HomeTurn
  <2>16. GrantedStep
    <3>1. PICK grant \in GrantDirs \cup writable.grants : grant \in TreePaths /\ IsPrefix(grant, path)
      BY <2>2, <2>3, GrantAbove
    <3>2. IsPrefix(p, grant) \/ IsPrefix(grant, p)
      BY <2>2, <2>4, <2>5, <3>1, PrefixesMeet
    <3>3. tree'[p].is = "dir"
      BY <2>7 DEF Dir
    <3> QED
      BY <2>7, <3>1, <3>2, <3>3, GrantedPut
  <2> QED
    BY <2>15, <2>16
<1> QED
  BY <1>3, <1>4

\* The texts of a file, before and after one is written.
LEMMA TextsOf ==
    ASSUME TreeShape, NEW path, ~IsA(tree, path, "dir"), ~IsA(tree, path, "link"), NEW words \in Turns \X Nat
    PROVE  /\ DataAt(path) \in Data /\ <<>> \in Data
           /\ Overwrite(DataAt(path), words) \in Data /\ words \in ToSet(Overwrite(DataAt(path), words))
           /\ Append(DataAt(path), words) \in Data
           /\ ToSet(DataAt(path)) \subseteq ToSet(Append(DataAt(path), words))
<1>1. DataAt(path) \in Data /\ <<>> \in Data
  <2>1. path \in DOMAIN tree => tree[path].is = "file" /\ tree[path].data \in Data
    BY DEF TreeShape, Node, IsA, Dir, LinkTo, Data
  <2>2. <<>> \in Data
    BY DEF Data
  <2> QED
    BY <2>1, <2>2 DEF DataAt
<1> DEFINE Texts == (Turns \cup {"user"}) \X Nat
           data == DataAt(path)
<1>2. data \in Seq(Texts) /\ words \in Texts
  BY <1>1 DEF Data
<1> HIDE DEF Texts, data
<1>3. /\ Append(data, words) \in Seq(Texts) /\ Len(Append(data, words)) = Len(data) + 1
      /\ \A i \in 1..Len(data) : Append(data, words)[i] = data[i]
  BY <1>2
<1>4. ToSet(data) \subseteq ToSet(Append(data, words))
  BY <1>2, <1>3 DEF ToSet
<1>5. /\ SubSeq(data, 2, Len(data)) \in Seq(Texts) /\ <<words>> \in Seq(Texts)
      /\ Len(<<words>>) = 1 /\ <<words>>[1] = words
  BY <1>2
<1>6. /\ Overwrite(data, words) \in Seq(Texts) /\ 1 \in DOMAIN Overwrite(data, words)
      /\ Overwrite(data, words)[1] = words
  <2>1. \A s, u \in Seq(Texts) : /\ s \o u \in Seq(Texts) /\ 1..Len(s) \subseteq DOMAIN (s \o u)
                                 /\ \A i \in 1..Len(s) : (s \o u)[i] = s[i]
    OBVIOUS
  <2>2. 1 \in 1..Len(<<words>>)
    BY <1>5
  <2> QED
    BY <1>5, <2>1, <2>2 DEF Overwrite
<1>7. words \in ToSet(Overwrite(data, words))
  BY <1>6 DEF ToSet
<1> QED
  BY <1>1, <1>3, <1>4, <1>6, <1>7 DEF Data, Texts, data

\* What a turn that writes opens: no directory, with a parent that is there.
LEMMA OpenedFile ==
    ASSUME HomeIndInv, NEW t \in Turns, call[t].step \in AtWrite,
           Openable(t) \/ call[t].step = "fill"
    PROVE  /\ Destination(t) \in TreePaths
           /\ ~IsA(tree, Destination(t), "dir") /\ ~IsA(tree, Destination(t), "link")
           /\ Destination(t) \in DOMAIN tree \/ (Destination(t) # <<>> /\ Parent(Destination(t)) \in DOMAIN tree)
           /\ GrantedTarget(writable, Destination(t))
<1>1. call[t].step \in WritingSteps /\ AtWrite \subseteq WritingSteps
  BY DEF WritingSteps
<1>2. TreeShape /\ CallShape(t) /\ call[t].path \in TreePaths
  BY <1>1, Writing
<1>3. Destination(t) \in TreePaths
  BY <1>2, CanonicalPath DEF Destination
<1>4. GrantedTarget(writable, Destination(t)) /\ ~IsA(tree, Destination(t), "link")
  BY <1>2 DEF CallShape
<1>5. CASE Openable(t)
  <2>1. IsA(tree, <<>>, "dir")
    BY <1>2 DEF TreeShape, IsA, Dir
  <2> QED
    BY <1>3, <1>4, <1>5, <2>1 DEF Openable
<1>6. CASE call[t].step = "fill"
  BY <1>2, <1>3, <1>4, <1>6 DEF CallShape, IsA
<1> QED
  BY <1>5, <1>6

\* What a write of a turn does to the home.
LEMMA TurnWrites ==
    ASSUME HomeIndInv, NEW t \in Turns, call[t].step \in AtWrite,
           Openable(t) \/ call[t].step = "fill", NEW data \in Data,
           tree' = WithFile(t, Destination(t), data), UNCHANGED <<readable, writable, calls>>
    PROVE  /\ TreeShape' /\ Grows /\ LeftBy(t) /\ GrantedStep /\ Opened'
           /\ IsA(tree', Destination(t), "file") /\ t \in tree'[Destination(t)].by
           /\ tree'[Destination(t)].data = data
<1> DEFINE dest == Destination(t)
<1>1. /\ dest \in TreePaths /\ ~IsA(tree, dest, "dir") /\ ~IsA(tree, dest, "link")
      /\ dest \in DOMAIN tree \/ (dest # <<>> /\ Parent(dest) \in DOMAIN tree)
      /\ GrantedTarget(writable, dest)
  BY OpenedFile
<1>2. TreeShape /\ Opened
  BY Writing DEF WritingSteps
<1> HIDE DEF dest
<1>3. /\ TreeShape' /\ Grows
      /\ DOMAIN tree' = DOMAIN tree \cup {dest}
      /\ tree'[dest] = FileOf(data, WrittenBy(dest) \cup {t})
      /\ \A q \in DOMAIN tree \ {dest} : tree'[q] = tree[q]
  <2>1. tree' = WithFile(t, dest, data)
    BY DEF dest
  <2> QED
    BY <1>1, <1>2, <2>1, FileWritten
<1>4. tree'[dest].is = "file" /\ t \in tree'[dest].by /\ tree'[dest].data = data
  BY <1>3 DEF FileOf
<1>5. LeftBy(t)
  BY <1>3, <1>4 DEF LeftBy
<1>6. GrantedStep
  BY <1>1, <1>3, <1>4, GrantedPut
<1>7. Opened'
  BY <1>2, <1>3 DEF Opened, GrantDirs
<1> QED
  BY <1>3, <1>4, <1>5, <1>6, <1>7 DEF dest, IsA

LEMMA TruncateFileStep ==
    ASSUME HomeIndInv, NEW t \in Turns, TruncateFile(t)
    PROVE  HomeIndInv' /\ GrantedStep
<1>1. call[t].step = "create" /\ UNCHANGED <<calls, landing, readable, writable>>
  BY DEF TruncateFile, Unanswered
<1>2. call[t].step \in AtWrite /\ call[t].step \in WritingSteps
  BY <1>1 DEF AtWrite, WritingSteps
<1>3. /\ TreeShape /\ CallShape(t) /\ Open(t) /\ calls[t] > 0
      /\ call[t].path \in TreePaths /\ call[t].path \in Requests
  BY <1>2, Writing
<1>4. CASE Openable(t)
  <2> DEFINE next == [call[t] EXCEPT !.step = "fill"]
  <2>1. call' = [call EXCEPT ![t] = next] /\ UNCHANGED answer /\ tree' = WithFile(t, Destination(t), <<>>)
    BY <1>4 DEF TruncateFile, Goes, Unanswered
  <2>2. <<>> \in Data
    BY DEF Data
  <2>3. /\ TreeShape' /\ Grows /\ LeftBy(t) /\ GrantedStep /\ Opened'
        /\ IsA(tree', Destination(t), "file")
    BY <1>1, <1>2, <1>4, <2>1, <2>2, TurnWrites
  <2>4. /\ ScopeShape /\ LandingShape /\ AnswerShape(t) /\ call \in [Turns -> CallStates]
        /\ calls \in [Turns -> Nat] /\ DOMAIN answer = Turns /\ answer = [v \in Turns |-> answer[v]]
    BY DEF HomeIndInv
  <2>5. /\ next \in CallStates /\ next # NoCall /\ next.step = "fill" /\ next.path = call[t].path
        /\ next.at = call[t].at /\ next.mode = call[t].mode
    <3>1. call[t] \in [step : WritingSteps, path : Requests, mode : {"create", "append"},
                       at : 0..2, text : Turns \X Nat]
      BY <1>2, Writing
    <3> QED
      BY <3>1 DEF CallStates, WritingSteps, AtWrite, NoCall
  <2> HIDE DEF next
  <2>6. /\ call' \in [Turns -> CallStates] /\ call'[t] = next
        /\ \A u \in Turns \ {t} : call'[u] = call[u]
    BY <2>1, <2>4, <2>5
  <2>7. Destination(t)' = Destination(t)
    BY <1>3, <2>3, <2>5, <2>6, SameWay DEF Destination
  <2>8. ~IsA(tree', Destination(t), "link")
    BY <2>3 DEF IsA
  <2>9. /\ Allows(writable, call[t].path) /\ call[t].path # <<>> /\ call[t].at = Len(call[t].path) - 1
        /\ call[t].at \in 0 .. Len(call[t].path) - 1 /\ call[t].mode = "create"
        /\ GrantedTarget(writable, Destination(t))
    BY <1>1, <1>2, <1>3 DEF CallShape
  <2>10. \A n \in 0 .. call[t].at : IsA(tree', Under(call[t].path, n), "dir")
    BY <1>2, <1>3, <2>3, KindsStay DEF CallShape
  <2>11. CallShape(t)'
    BY <1>1, <1>3, <2>3, <2>5, <2>6, <2>7, <2>8, <2>9, <2>10
      DEF CallShape, Allows, GrantedTarget, Open, WritingSteps, AtWrite
  <2>12. AnswerShape(t)'
    BY <1>1, <2>1, <2>3, <2>4, <2>5, <2>6, AnswerStays
  <2>13. LandingShape'
    BY <1>1, <2>3, <2>4, LandingStays
  <2>14. calls[t] <= calls'[t]
    BY <1>1, <2>4
  <2> QED
    BY <1>1, <1>3, <2>1, <2>3, <2>4, <2>6, <2>11, <2>12, <2>13, <2>14, HomeTurn
<1>5. CASE ~Openable(t)
  <2>1. Answer(t, Denied("kind")) /\ UNCHANGED tree
    BY <1>5 DEF TruncateFile
  <2>2. Truthful(t, Denied("kind"))
    BY DEF Truthful, Denied
  <2>3. HomeIndInv'
    BY <1>1, <1>3, <2>1, <2>2, Answers
  <2> QED
    BY <2>1, <2>3 DEF GrantedStep, Changed
<1> QED
  BY <1>4, <1>5

\* A turn is answered for what it has written.
LEMMA WriteAnswered ==
    ASSUME HomeIndInv, NEW t \in Turns, call[t].step \in AtWrite, Answer(t, Written(t)),
           TreeShape', Grows, LeftBy(t), GrantedStep, Opened', LandingShape',
           IsA(tree', Destination(t), "file"), UNCHANGED <<readable, writable, calls>>,
           call[t].mode = "create" => call[t].text \in ToSet(tree'[Destination(t)].data)
    PROVE  HomeIndInv'
<1>1. call[t].step \in WritingSteps
  BY DEF WritingSteps
<1>2. calls[t] > 0
  BY <1>1, Writing
<1>3. /\ call \in [Turns -> CallStates] /\ calls \in [Turns -> Nat]
      /\ DOMAIN answer = Turns /\ answer = [v \in Turns |-> answer[v]]
  BY DEF HomeIndInv
<1>4. NoCall \in CallStates /\ NoCall.step = "none"
  BY DEF NoCall, CallStates
<1>5. /\ call' \in [Turns -> CallStates] /\ call'[t] = NoCall
      /\ \A u \in Turns \ {t} : call'[u] = call[u]
  BY <1>3, <1>4 DEF Answer
<1>6. /\ answer'[t] = Written(t) /\ DOMAIN answer' = Turns /\ answer' = [v \in Turns |-> answer'[v]]
      /\ \A u \in Turns \ {t} : answer'[u] = answer[u]
  BY <1>3 DEF Answer
<1>7. CallShape(t)'
  BY <1>4, <1>5 DEF CallShape, WritingSteps, AtWrite, Open
<1>8. AnswerShape(t)'
  <2>1. /\ answer'[t].is = "written" /\ answer'[t].at = Destination(t) /\ answer'[t].text = call[t].text
        /\ answer'[t].mode = call[t].mode
    BY <1>6 DEF Written
  <2>2. answer'[t] # Denied("spec") /\ answer'[t] # Denied("exists")
    BY <2>1 DEF Denied
  <2>3. DataAt(answer[t].at)' = tree'[Destination(t)].data
    BY <2>1 DEF DataAt, IsA
  <2> QED
    BY <2>1, <2>2, <2>3 DEF AnswerShape
<1>9. calls[t] <= calls'[t]
  BY <1>3
<1> QED
  BY <1>2, <1>3, <1>5, <1>6, <1>7, <1>8, <1>9, HomeTurn

LEMMA FillFileStep ==
    ASSUME HomeIndInv, NEW t \in Turns, FillFile(t)
    PROVE  HomeIndInv' /\ GrantedStep
<1> DEFINE data == Overwrite(DataAt(Destination(t)), call[t].text)
<1>1. /\ call[t].step = "fill" /\ UNCHANGED <<calls, landing, readable, writable>>
      /\ tree' = WithFile(t, Destination(t), data) /\ Answer(t, Written(t))
  BY DEF FillFile
<1>2. call[t].step \in AtWrite /\ call[t].step \in WritingSteps
  BY <1>1 DEF AtWrite, WritingSteps
<1>3. TreeShape /\ call[t].text \in Turns \X Nat
  BY <1>2, Writing
<1>4. data \in Data /\ call[t].text \in ToSet(data)
  BY <1>1, <1>2, <1>3, OpenedFile, TextsOf
<1> HIDE DEF data
<1>5. /\ TreeShape' /\ Grows /\ LeftBy(t) /\ GrantedStep /\ Opened'
      /\ IsA(tree', Destination(t), "file") /\ tree'[Destination(t)].data = data
  BY <1>1, <1>2, <1>4, TurnWrites
<1>6. LandingShape'
  BY <1>1, <1>5, LandingStays DEF HomeIndInv
<1> QED
  BY <1>1, <1>2, <1>4, <1>5, <1>6, WriteAnswered

LEMMA AppendTextStep ==
    ASSUME HomeIndInv, NEW t \in Turns, AppendText(t)
    PROVE  HomeIndInv' /\ GrantedStep
<1>1. call[t].step = "append" /\ UNCHANGED <<calls, readable, writable>>
  BY DEF AppendText
<1>2. call[t].step \in AtWrite /\ call[t].step \in WritingSteps
  BY <1>1 DEF AtWrite, WritingSteps
<1>3. TreeShape /\ CallShape(t) /\ Open(t) /\ call[t].text \in Turns \X Nat
  BY <1>2, Writing
<1>4. CASE Openable(t)
  <2> DEFINE dest == Destination(t)
             words == [by |-> t, at |-> dest, text |-> call[t].text]
  <2>1. /\ tree' = WithFile(t, dest, DataAt(dest)) /\ landing' = landing \cup {words}
        /\ Answer(t, Written(t))
    BY <1>4 DEF AppendText
  <2>2. DataAt(dest) \in Data /\ GrantedTarget(writable, dest)
    BY <1>2, <1>3, <1>4, OpenedFile, TextsOf
  <2> HIDE DEF words
  <2>3. /\ TreeShape' /\ Grows /\ LeftBy(t) /\ GrantedStep /\ Opened'
        /\ IsA(tree', dest, "file") /\ t \in tree'[dest].by
    BY <1>1, <1>2, <1>4, <2>1, <2>2, TurnWrites
  <2> HIDE DEF dest
  <2>4. words.by = t /\ words.at = dest /\ words.text = call[t].text
    BY DEF words
  <2>5. LandingShape'
    <3>1. ASSUME NEW other \in landing
          PROVE  /\ other.by \in Turns /\ IsA(tree', other.at, "file") /\ other.by \in tree'[other.at].by
                 /\ other.text \in Turns \X Nat /\ GrantedTarget(writable, other.at)
      <4>1. /\ other.by \in Turns /\ IsA(tree, other.at, "file") /\ other.by \in tree[other.at].by
            /\ other.text \in Turns \X Nat /\ GrantedTarget(writable, other.at)
        BY DEF HomeIndInv, LandingShape
      <4> QED
        BY <2>3, <4>1, KindsStay DEF Grows, IsA
    <3>2. \A other \in landing' : other \in landing \/ other = words
      BY <2>1
    <3>3. \A p : GrantedTarget(writable', p) = GrantedTarget(writable, p)
      BY <1>1
    <3> QED
      BY <1>3, <2>2, <2>3, <2>4, <3>1, <3>2, <3>3 DEF LandingShape
  <2>6. call[t].mode = "append"
    BY <1>1, <1>3 DEF CallShape
  <2>7. HomeIndInv'
    BY <1>1, <1>2, <2>1, <2>3, <2>5, <2>6, WriteAnswered DEF dest
  <2> QED
    BY <2>3, <2>7
<1>5. CASE ~Openable(t)
  <2>1. Answer(t, Denied("kind")) /\ UNCHANGED <<tree, landing>>
    BY <1>5 DEF AppendText
  <2>2. Truthful(t, Denied("kind"))
    BY DEF Truthful, Denied
  <2>3. HomeIndInv'
    BY <1>1, <1>3, <2>1, <2>2, Answers
  <2> QED
    BY <2>1, <2>3 DEF GrantedStep, Changed
<1> QED
  BY <1>4, <1>5

\* An appended text reaches its file, whose texts and writers stay, or it does not.
LEMMA LandsStep ==
    ASSUME HomeIndInv, NEW words \in landing, Lands(words)
    PROVE  HomeIndInv' /\ GrantedStep
<1> DEFINE dest == words.at
           data == Append(DataAt(dest), words.text)
<1>1. /\ landing' \subseteq landing /\ UNCHANGED <<readable, writable, call, calls, answer>>
      /\ tree' = WithFile(words.by, dest, data) \/ UNCHANGED tree
  BY DEF Lands
<1>2. /\ words.by \in Turns /\ IsA(tree, dest, "file") /\ words.by \in tree[dest].by
      /\ words.text \in Turns \X Nat /\ GrantedTarget(writable, dest)
  BY DEF HomeIndInv, LandingShape
<1>3. /\ TreeShape /\ ScopeShape /\ LandingShape /\ call \in [Turns -> CallStates]
      /\ calls \in [Turns -> Nat] /\ DOMAIN answer = Turns /\ answer = [v \in Turns |-> answer[v]]
  BY DEF HomeIndInv
<1>4. /\ dest \in DOMAIN tree /\ dest \in TreePaths /\ ~IsA(tree, dest, "dir") /\ ~IsA(tree, dest, "link")
      /\ DataAt(dest) = tree[dest].data /\ WrittenBy(dest) = tree[dest].by
  BY <1>2, <1>3 DEF IsA, TreeShape, DataAt, WrittenBy
<1>5. data \in Data /\ ToSet(DataAt(dest)) \subseteq ToSet(data)
  BY <1>2, <1>3, <1>4, TextsOf
<1> HIDE DEF dest, data
\* Every file keeps its texts and its writers.
<1>6. /\ TreeShape' /\ Grows /\ DOMAIN tree' = DOMAIN tree /\ GrantedStep
      /\ \A p \in DOMAIN tree : \/ tree'[p] = tree[p]
                              \/ /\ tree'[p].by = tree[p].by
                                 /\ ToSet(tree[p].data) \subseteq ToSet(tree'[p].data)
  <2>1. CASE UNCHANGED tree
    <3>1. TreeShape'
      BY <1>3, <2>1 DEF TreeShape, Node
    <3>2. Grows
      BY <2>1 DEF Grows
    <3> QED
      BY <2>1, <3>1, <3>2 DEF GrantedStep, Changed
  <2>2. CASE tree' = WithFile(words.by, dest, data)
    <3>1. /\ TreeShape' /\ Grows /\ DOMAIN tree' = DOMAIN tree \cup {dest}
          /\ tree'[dest] = FileOf(data, WrittenBy(dest) \cup {words.by})
          /\ \A q \in DOMAIN tree \ {dest} : tree'[q] = tree[q]
      BY <1>2, <1>3, <1>4, <1>5, <2>2, FileWritten, ZenonT(30)
    <3>2. /\ tree'[dest].is = "file" /\ tree'[dest].by = WrittenBy(dest) \cup {words.by}
          /\ tree'[dest].data = data
      BY <3>1 DEF FileOf
    <3>3. WrittenBy(dest) \cup {words.by} = WrittenBy(dest)
      BY <1>2, <1>4
    <3>4. GrantedStep
      BY <1>2, <3>1, <3>2, GrantedPut
    <3> QED
      BY <1>4, <1>5, <3>1, <3>2, <3>3, <3>4
  <2> QED
    BY <1>1, <2>1, <2>2
<1>7. \A v \in Turns : calls[v] <= calls'[v]
  BY <1>1, <1>3
<1>8. calls' \in [Turns -> Nat]
  BY <1>1, <1>3
<1>9. ASSUME NEW t \in Turns PROVE CallShape(t)' /\ AnswerShape(t)'
  <2>1. AnswerShape(t)
    BY DEF HomeIndInv
  <2>2. CallShape(t)'
    BY <1>1, <1>6, <1>7, <1>8, CallStays
  <2>3. answer[t].is = "written" => IsA(tree', answer[t].at, "file")
    BY <1>6, <2>1, KindsStay DEF AnswerShape
  <2>4. answer[t].is = "written" =>
          /\ WrittenBy(answer[t].at)' = WrittenBy(answer[t].at)
          /\ ToSet(DataAt(answer[t].at)) \subseteq ToSet(DataAt(answer[t].at)')
    BY <1>1, <1>6, <2>1 DEF AnswerShape, WrittenBy, DataAt, IsA
  <2>5. \A side, p : GrantedTarget(side, p)' = GrantedTarget(side, p)
    OBVIOUS
  <2>6. AnswerShape(t)'
    BY <1>1, <2>1, <2>3, <2>4 DEF AnswerShape, GrantedTarget, Allows
  <2> QED
    BY <2>2, <2>6
<1>10. LandingShape' /\ ScopeShape'
  BY <1>1, <1>3, <1>6, LandingStays DEF ScopeShape, GrantedTarget, Allows, Strict, GrantCovers
<1> QED
  BY <1>1, <1>3, <1>6, <1>9, <1>10 DEF HomeIndInv

LEMMA HomeStart == ASSUME HomeInit PROVE HomeIndInv
<1>1. PICK target \in LinkTargets :
        tree = [p \in {<<>>, In, Out, Note, Link} |->
                  IF p = Note THEN FileOf(<<<<"user", 0>>>>, {})
                  ELSE IF p = Link THEN LinkTo(target) ELSE Dir]
  BY DEF HomeInit
<1>2. {<<>>, In, Out, Deep, Note, Draft, DeepDraft, Link} \subseteq TreePaths
  BY DEF In, Out, Deep, Note, Draft, DeepDraft, Link, TreePaths, Names
<1>3. <<>> # Note /\ <<>> # Link /\ Note # Link /\ Link # Note
  BY DEF Note, Link
<1>4. TreeShape
  <2>1. tree = [p \in DOMAIN tree |-> tree[p]]
    BY <1>1
  <2>2. \A p \in DOMAIN tree : Node(p, tree[p])
    <3>1. <<<<"user", 0>>>> \in Seq((Turns \cup {"user"}) \X Nat)
      OBVIOUS
    <3>2. Node(Note, FileOf(<<<<"user", 0>>>>, {}))
      BY <3>1 DEF Node, FileOf
    <3>3. Node(Link, LinkTo(target)) /\ \A p : Node(p, Dir)
      BY DEF Node
    <3> QED
      BY <1>1, <3>2, <3>3
  <2>3. DOMAIN tree \subseteq TreePaths /\ <<>> \in DOMAIN tree /\ tree[<<>>] = Dir
    BY <1>1, <1>2, <1>3
  <2>4. Parent(In) = <<>> /\ Parent(Out) = <<>> /\ Parent(Note) = In /\ Parent(Link) = Out
    <3>1. \A s, u \in Seq(Names) : Len(s) = Len(u) /\ (\A i \in 1..Len(s) : s[i] = u[i]) => s = u
      OBVIOUS
    <3>2. \A s \in Seq(Names) : Len(s) >= 1 => /\ Parent(s) \in Seq(Names) /\ Len(Parent(s)) = Len(s) - 1
                                              /\ \A i \in 1..Len(s) - 1 : Parent(s)[i] = s[i]
      BY SMTT(30) DEF Parent, Front
    <3>3. /\ Len(<<>>) = 0 /\ Len(In) = 1 /\ Len(Out) = 1 /\ Len(Note) = 2 /\ Len(Link) = 2
          /\ In[1] = "in" /\ Out[1] = "out" /\ Note[1] = "in" /\ Link[1] = "out"
      BY DEF In, Out, Note, Link
    <3>4. {<<>>, In, Out, Note, Link} \subseteq Seq(Names)
      BY <1>2 DEF TreePaths
    <3>5. Parent(In) = <<>> /\ Parent(Out) = <<>>
      BY <3>1, <3>2, <3>3, <3>4
    <3>6. Parent(Note) = In
      <4>1. 1 \in 1..Len(Note) - 1 /\ Len(Note) - 1 = 1 /\ \A i \in 1..1 : i = 1
        BY <3>3
      <4>2. Note \in Seq(Names) /\ Len(Note) >= 1
        BY <3>3, <3>4
      <4>3. /\ Parent(Note) \in Seq(Names) /\ Len(Parent(Note)) = Len(Note) - 1
            /\ \A i \in 1..Len(Note) - 1 : Parent(Note)[i] = Note[i]
        BY <3>2, <4>2
      <4> QED
        BY <3>1, <3>3, <3>4, <4>1, <4>3
    <3>7. Parent(Link) = Out
      <4>1. 1 \in 1..Len(Link) - 1 /\ Len(Link) - 1 = 1 /\ \A i \in 1..1 : i = 1
        BY <3>3
      <4>2. Link \in Seq(Names) /\ Len(Link) >= 1
        BY <3>3, <3>4
      <4>3. /\ Parent(Link) \in Seq(Names) /\ Len(Parent(Link)) = Len(Link) - 1
            /\ \A i \in 1..Len(Link) - 1 : Parent(Link)[i] = Link[i]
        BY <3>2, <4>2
      <4> QED
        BY <3>1, <3>3, <3>4, <4>1, <4>3
    <3> QED
      BY <3>5, <3>6, <3>7
  <2>5. \A p \in DOMAIN tree : p = <<>> \/ Parent(p) \in DOMAIN tree
    BY <1>1, <2>4
  <2> QED
    BY <2>1, <2>2, <2>3, <2>5 DEF TreeShape
<1>5. ScopeShape
  <2>1. \A grant \in {<<>>, In, Out, Deep, Note, DeepDraft} :
           grant \in TreePaths /\ GrantedTarget(Strict({grant}), grant)
    <3> SUFFICES ASSUME NEW grant \in {<<>>, In, Out, Deep, Note, DeepDraft}
                 PROVE  grant \in TreePaths /\ GrantedTarget(Strict({grant}), grant)
      OBVIOUS
    <3>1. grant \in TreePaths
      BY <1>2
    <3>2. \A i \in 1..Len(grant) : grant[i] # ".." /\ grant[i] # "outside"
      BY DEF In, Out, Deep, Note, DeepDraft
    <3>3. ~IsPrefix(Outside, grant)
      <4> SUFFICES ASSUME IsPrefix(Outside, grant) PROVE FALSE
        OBVIOUS
      <4>1. Len(Outside) = 1 /\ SubSeq(Outside, 1, 1)[1] = "outside"
        BY DEF Outside
      <4>2. Len(grant) \in Nat /\ Len(grant) >= 1 /\ SubSeq(Outside, 1, 1) = SubSeq(grant, 1, 1)
        BY <3>1, <4>1 DEF IsPrefix, TreePaths
      <4>3. SubSeq(grant, 1, 1)[1] = grant[1]
        BY <3>1, <4>2 DEF TreePaths
      <4> QED
        BY <3>2, <4>1, <4>2, <4>3
    <3>4. GrantedTarget(Strict({grant}), grant)
      BY <3>1, <3>2, <3>3, SelfPrefix DEF GrantedTarget, Allows, Strict, WellFormedPath, GrantCovers
    <3> QED
      BY <3>1, <3>4
  <2> QED
    <3>1. \/ readable = Legacy /\ writable = Legacy
          \/ /\ readable \in {Strict({Out}), Strict({<<>>}), Strict({In, Deep}), Strict({Note})}
             /\ writable \in {Strict({}), Strict({Out}), Strict({Deep}), Strict({DeepDraft})}
      BY DEF HomeInit
    <3>2. Legacy.legacy = TRUE /\ Legacy.grants = {} /\ \A grants : Strict(grants).legacy = FALSE
      BY DEF Legacy, Strict
    <3>3. \A grants : Strict(grants).grants = grants
      BY DEF Strict
    <3>4. readable.legacy <=> writable.legacy
      BY <3>1, <3>2, Zenon
    <3>5. readable.legacy \in BOOLEAN
      BY <3>1, <3>2, Zenon
    <3>6. readable.grants \subseteq {<<>>, In, Out, Deep, Note, DeepDraft}
      BY <3>1, <3>2, <3>3
    <3>7. writable.grants \subseteq {<<>>, In, Out, Deep, Note, DeepDraft}
      BY <3>1, <3>2, <3>3
    <3> QED
      BY <2>1, <3>4, <3>5, <3>6, <3>7, Zenon DEF ScopeShape
<1>6. call \in [Turns -> CallStates] /\ \A t \in Turns : call[t].step = "off"
  BY DEF HomeInit, CallStates
<1>7. calls \in [Turns -> Nat] /\ landing = {}
  BY DEF HomeInit
<1>8. /\ DOMAIN answer = Turns /\ answer = [t \in Turns |-> answer[t]]
      /\ \A t \in Turns : answer[t] = Nothing
  BY DEF HomeInit
<1>9. ASSUME NEW t \in Turns PROVE CallShape(t) /\ AnswerShape(t)
  <2>1. CallShape(t)
    BY <1>6, <1>8 DEF CallShape, Open, WritingSteps, AtWrite
  <2>2. AnswerShape(t)
    BY <1>8 DEF AnswerShape, Nothing, Denied
  <2> QED
    BY <2>1, <2>2
<1> QED
  BY <1>4, <1>5, <1>6, <1>7, <1>8, <1>9 DEF HomeIndInv, LandingShape

LEMMA HomeStepKeeps ==
    ASSUME HomeIndInv, [HomeNext]_homeVars
    PROVE  HomeIndInv' /\ [GrantedStep]_homeVars
<1>1. CASE UNCHANGED homeVars
  BY <1>1 DEF homeVars, HomeIndInv, TreeShape, Node, ScopeShape, LandingShape, CallShape, AnswerShape,
              Open, Opened, GrantDirs, NextParent, Destination, DataAt, WrittenBy
<1>2. ASSUME NEW t \in Turns, HomeStep(t) PROVE HomeIndInv' /\ GrantedStep
  <2>1. ASSUME UNCHANGED tree PROVE GrantedStep
    BY <2>1 DEF GrantedStep, Changed
  <2>2. ASSUME NEW program, NEW arguments, NEW asked \in Asked, NEW left \in Left,
               RunProgram(t, program, arguments, asked, left)
        PROVE  HomeIndInv' /\ UNCHANGED tree
    BY <2>2, RunProgramStep DEF RunProgram, Begins
  <2>3. ASSUME NEW path \in Requests, List(t, path) \/ Read(t, path)
        PROVE  HomeIndInv' /\ UNCHANGED tree
    BY <2>3, ReadStep DEF List, Read, Begins
  <2>4. ASSUME NEW path \in Requests, NEW mode \in {"create", "append"}, BeginWrite(t, path, mode)
        PROVE  HomeIndInv' /\ UNCHANGED tree
    BY <2>4, BeginWriteStep DEF BeginWrite, Begins
  <2>5. CASE ReadText(t)
    BY <2>1, <2>5, ReadTextStep DEF ReadText
  <2>6. CASE LookAtParent(t)
    BY <2>1, <2>6, LookAtParentStep DEF LookAtParent
  <2>7. CASE CheckDestination(t)
    BY <2>1, <2>7, CheckDestinationStep DEF CheckDestination
  <2> QED
    BY <1>2, <2>1, <2>2, <2>3, <2>4, <2>5, <2>6, <2>7, OpenHomeStep, CreateParentStep,
       TruncateFileStep, FillFileStep, AppendTextStep DEF HomeStep
<1> QED
  BY <1>1, <1>2, LandsStep DEF HomeNext

(***************************************************************************)
(* The home keeps the shape on which every answer and every write rests.   *)
(***************************************************************************)
THEOREM HomeInvariant == HomeSpec => []HomeIndInv
BY HomeStart, HomeStepKeeps, PTL DEF HomeSpec

LEMMA ShapesAnswer == ASSUME HomeIndInv PROVE HomeInv
BY DEF HomeIndInv, TreeShape, AnswerShape, HomeInv, HomeTypeOK, AnswersAreGranted

(***************************************************************************)
(* However many turns share a home and however long they go on: the home   *)
(* stays a tree, what a call gives back comes from under a read grant, a   *)
(* program's deadline is never more than the policy's nor zero, and a text *)
(* a create was answered for is in the file unless another turn has opened *)
(* it (fs_home.rs, HomeFs).                                                *)
(***************************************************************************)
THEOREM HomeAnswers == HomeSpec => []HomeInv
BY HomeInvariant, ShapesAnswer, PTL

(***************************************************************************)
(* And no step of any turn changes a file outside the write grants, makes  *)
(* a directory away from them, or takes anything from the home away,       *)
(* whatever the other turns did between its check and its write.           *)
(***************************************************************************)
THEOREM HomeChangesGranted == HomeSpec => ChangesAreGranted
<1>1. HomeIndInv /\ [HomeNext]_homeVars => [GrantedStep]_homeVars
  BY HomeStepKeeps
<1> QED
  BY <1>1, HomeInvariant, PTL DEF HomeSpec, ChangesAreGranted, GrantedStep

-----------------------------------------------------------------------------
(* The search of the workspace                                             *)

Parts == {"src", "docs", "main", "guide", "png", ".git", "config", "alias", "store", "key", "gone", "outside"}
PartPaths == Seq(Parts)

\* Every directory on the way to something is a directory, and links lead past no link.
WorkspaceShape ==
    /\ DOMAIN files \subseteq PartPaths
    /\ \A p \in DOMAIN files :
          /\ files[p].is \in {"dir", "file", "link"}
          /\ files[p].is = "link" => p # <<>> /\ files[p].to \in PartPaths /\ LinksOn(files, files[p].to) = {}
          /\ \A n \in 0 .. Len(p) - 1 : IsA(files, Under(p, n), "dir")

Tops == IF scope.legacy THEN {<<>>} ELSE scope.grants

SearchScope ==
    /\ scope.legacy \in BOOLEAN
    /\ scope.legacy => scope = Legacy
    /\ scope.grants \subseteq PartPaths /\ IsFiniteSet(scope.grants)

ReachedFrom(top, path, n) ==
    /\ IsPrefix(top, path) /\ IsA(files, top, "dir") /\ Len(top) <= n
    /\ \A i \in Len(top) + 1 .. Len(path) - 1 : path[i] \notin SkipDirs

\* A file the search is to show.
Wanted(path) ==
    /\ IsA(files, path, "file") /\ Walked(path) /\ Opens(path) /\ ~Skipped(path) /\ Matches(path)

\* The walk has it before it: a directory on the way there is on the stack, or something on
\* the way is among the entries.
Before(path, n) == \E top \in Tops :
    /\ ReachedFrom(top, path, n)
    /\ \/ n < Len(path) /\ Under(path, n) \in ToSet(stack)
       \/ Len(top) < n /\ Under(path, n) \in entries

WalkShape ==
    /\ stack \in Seq(PartPaths) /\ entries \subseteq DOMAIN files
    /\ hits \in Seq(PartPaths) /\ Len(hits) <= MaxResults
    /\ search \in {"start", "walk", "done"}
    /\ search = "done" => entries = {} /\ (stack = <<>> \/ Full)

SearchIndInv ==
    /\ WorkspaceShape /\ SearchScope /\ WalkShape
    /\ \A i \in 1 .. Len(hits) : Opens(hits[i])
    /\ search # "start" => \A path \in DOMAIN files : Wanted(path) =>
          Full \/ path \in ToSet(hits) \/ \E n \in 0 .. Len(path) : Before(path, n)

-----------------------------------------------------------------------------
LEMMA StepsOf ==
    ASSUME NEW path \in PartPaths, NEW n \in 0..Len(path)
    PROVE  /\ Under(path, n) \in PartPaths /\ Len(Under(path, n)) = n
           /\ \A i \in 1..n : Under(path, n)[i] = path[i]
BY DEF Under, PartPaths

LEMMA StepsBack ==
    ASSUME NEW path \in PartPaths, NEW n \in 0..Len(path), NEW m \in 0..n
    PROVE  Under(Under(path, n), m) = Under(path, m)
BY DEF Under, PartPaths

LEMMA WholeWay == ASSUME NEW path \in PartPaths PROVE Under(path, Len(path)) = path
BY DEF Under, PartPaths

LEMMA StepUp ==
    ASSUME NEW path \in PartPaths, NEW n \in 1..Len(path)
    PROVE  Parent(Under(path, n)) = Under(path, n - 1)
<1>1. Under(path, n) \in Seq(Parts) /\ Len(Under(path, n)) = n
  BY StepsOf DEF PartPaths
<1> QED
  BY <1>1 DEF Parent, Front, Under, PartPaths

LEMMA PrefixIs ==
    ASSUME NEW path \in PartPaths, NEW top \in PartPaths
    PROVE  IsPrefix(top, path) <=> Len(top) <= Len(path) /\ top = Under(path, Len(top))
BY DEF IsPrefix, Under, PartPaths

\* What is there and is no link is its own canonical path; a link leads where it says.
LEMMA Plain ==
    ASSUME WorkspaceShape, NEW path \in DOMAIN files
    PROVE  /\ files[path].is # "link" => LinksOn(files, path) = {} /\ Canonical(files, path) = path
           /\ files[path].is = "link" => Canonical(files, path) = files[path].to
<1>1. path \in PartPaths /\ Len(path) \in Nat
  BY DEF WorkspaceShape, PartPaths
<1>2. \A n \in 1..Len(path) - 1 : files[Under(path, n)].is = "dir"
  BY <1>1 DEF WorkspaceShape, IsA
<1>3. LinksOn(files, path) \subseteq {Len(path)}
  BY <1>1, <1>2 DEF LinksOn, IsA
<1>4. Under(path, Len(path)) = path
  BY <1>1, WholeWay
<1>5. ASSUME files[path].is # "link" PROVE LinksOn(files, path) = {}
  BY <1>3, <1>4, <1>5 DEF LinksOn, IsA
<1>6. ASSUME files[path].is = "link" PROVE Canonical(files, path) = files[path].to
  <2>1. CASE LinksOn(files, path) = {}
    <3>1. Len(path) = 0
      BY <1>1, <1>4, <1>6, <2>1 DEF LinksOn, IsA
    <3> QED
      BY <1>1, <1>6, <3>1 DEF WorkspaceShape, PartPaths
  <2>2. CASE LinksOn(files, path) = {Len(path)}
    <3>1. Min({Len(path)}) = Len(path)
      BY <1>1 DEF Min
    <3>2. SubSeq(path, Len(path) + 1, Len(path)) = <<>>
      BY <1>1 DEF PartPaths
    <3>3. files[path].to \in Seq(Parts)
      BY <1>6 DEF WorkspaceShape, PartPaths
    <3>4. files[path].to \o <<>> = files[path].to
      BY <3>3
    <3> QED
      BY <1>4, <2>2, <3>1, <3>2, <3>4 DEF Canonical
  <2> QED
    BY <1>3, <2>1, <2>2
<1> QED
  BY <1>5, <1>6 DEF Canonical

-----------------------------------------------------------------------------
(* What is found can be read                                               *)

\* Where a link leads is its own canonical path.
LEMMA TargetPlain ==
    ASSUME WorkspaceShape, NEW path \in DOMAIN files, files[path].is = "link"
    PROVE  Canonical(files, files[path].to) = files[path].to
BY DEF WorkspaceShape, Canonical

LEMMA FoundIsOpen ==
    ASSUME WorkspaceShape, NEW path \in DOMAIN files, ~IsA(files, path, "dir")
    PROVE  \/ Found(path) = <<>>
           \/ \E at \in PartPaths : Found(path) = <<at>> /\ Opens(at)
<1>1. CASE files[path].is = "link"
  <2> DEFINE to == files[path].to
  <2>1. Canonical(files, path) = to /\ Canonical(files, to) = to /\ to \in PartPaths
    BY <1>1, Plain, TargetPlain DEF WorkspaceShape
  <2>2. ASSUME IsGrantedFile(path), IsA(files, to, "file") PROVE Opens(to)
    BY <2>1, <2>2 DEF Opens, IsGrantedFile, GrantedTarget, Exists
  <2> QED
    BY <1>1, <2>1, <2>2 DEF Found, IsA
<1>2. CASE files[path].is # "link"
  <2>1. Canonical(files, path) = path /\ path \in PartPaths /\ files[path].is = "file"
    BY <1>2, Plain DEF WorkspaceShape, IsA
  <2>2. ASSUME IsGrantedFile(path) PROVE Opens(path)
    BY <2>1, <2>2 DEF Opens, IsGrantedFile, GrantedTarget, IsA
  <2> QED
    BY <1>2, <2>1, <2>2 DEF Found, IsA
<1> QED
  BY <1>1, <1>2

LEMMA WantedIsFound ==
    ASSUME WorkspaceShape, NEW path \in DOMAIN files, Wanted(path)
    PROVE  Found(path) = <<path>>
<1>1. files[path].is = "file"
  BY DEF Wanted, IsA
<1> QED
  BY <1>1 DEF Wanted, Opens, Found, IsA

\* On the way to a wanted file every directory is granted.
LEMMA WayIsGranted ==
    ASSUME WorkspaceShape, SearchScope, NEW path \in DOMAIN files, Wanted(path),
           NEW top \in Tops, NEW n \in 0 .. Len(path) - 1, ReachedFrom(top, path, n)
    PROVE  /\ IsGrantedDir(Under(path, n)) /\ IsA(files, Under(path, n), "dir")
           /\ Under(path, n) \in PartPaths
<1>1. path \in PartPaths /\ top \in PartPaths
  <2>1. <<>> \in PartPaths
    BY DEF PartPaths
  <2> QED
    BY <2>1 DEF WorkspaceShape, SearchScope, Tops
<1>2. /\ Under(path, n) \in PartPaths /\ Len(Under(path, n)) = n
      /\ \A i \in 1..n : Under(path, n)[i] = path[i]
  BY <1>1, StepsOf DEF PartPaths
<1>3. IsA(files, Under(path, n), "dir")
  BY DEF WorkspaceShape
<1>4. Canonical(files, Under(path, n)) = Under(path, n)
  BY <1>3, Plain DEF IsA
<1>5. Canonical(files, path) = path
  BY Plain DEF Wanted, IsA
<1>6. Allows(scope, path) /\ ~IsPrefix(Outside, path)
  BY <1>5 DEF Wanted, Opens, IsGrantedFile, GrantedTarget
<1>7. WellFormedPath(Under(path, n))
  BY <1>1, <1>2, <1>6 DEF Allows, WellFormedPath, PartPaths
<1>8. IsPrefix(top, Under(path, n))
  <2>1. Len(top) \in 0..n /\ top = Under(path, Len(top))
    BY <1>1, PrefixIs DEF ReachedFrom, PartPaths
  <2>2. Under(Under(path, n), Len(top)) = top
    BY <1>1, <2>1, StepsBack DEF PartPaths
  <2> QED
    BY <1>1, <1>2, <2>1, <2>2, PrefixIs
<1>9. ~IsPrefix(Outside, Under(path, n))
  <2>1. Outside \in PartPaths
    BY DEF Outside, PartPaths, Parts
  <2>2. SUFFICES ASSUME IsPrefix(Outside, Under(path, n)) PROVE FALSE
    OBVIOUS
  <2>3. Len(Outside) \in 0..n /\ Outside = Under(Under(path, n), Len(Outside))
    BY <1>2, <2>1, <2>2, PrefixIs DEF PartPaths
  <2>4. Outside = Under(path, Len(Outside))
    BY <1>1, <2>3, StepsBack DEF PartPaths
  <2> QED
    BY <1>1, <1>6, <2>1, <2>3, <2>4, PrefixIs DEF PartPaths
<1>10. Allows(scope, Under(path, n))
  BY <1>7, <1>8 DEF Allows, GrantCovers, Tops
<1> QED
  BY <1>2, <1>3, <1>4, <1>9, <1>10 DEF IsGrantedDir, Exists, IsA

\* A path is among the children of the directory above it.
LEMMA ChildOf ==
    ASSUME WorkspaceShape, NEW path \in DOMAIN files, NEW n \in 0 .. Len(path) - 1
    PROVE  Under(path, n + 1) \in Children(files, Under(path, n))
<1>1. path \in PartPaths
  BY DEF WorkspaceShape
<1>2. Under(path, n + 1) \in DOMAIN files
  BY <1>1, WholeWay DEF WorkspaceShape, IsA, PartPaths
<1>3. n + 1 \in 1..Len(path)
  BY <1>1 DEF PartPaths
<1>4. Parent(Under(path, n + 1)) = Under(path, n)
  BY <1>1, <1>3, StepUp
<1>5. Under(path, n + 1) # <<>>
  BY <1>1, <1>3, StepsOf DEF PartPaths
<1> QED
  BY <1>2, <1>4, <1>5 DEF Children

-----------------------------------------------------------------------------
(* The steps of the search                                                 *)

\* The parts of the invariant that speak of what does not change.
LEMMA WorkspaceStays ==
    ASSUME SearchIndInv, UNCHANGED <<files, scope>>
    PROVE  /\ WorkspaceShape' /\ SearchScope'
           /\ \A path : (Opens(path) <=> Opens(path)') /\ (Wanted(path) <=> Wanted(path)')
           /\ Tops' = Tops
           /\ \A top, path, n : ReachedFrom(top, path, n) <=> ReachedFrom(top, path, n)'
<1>1. WorkspaceShape' /\ SearchScope'
  BY DEF SearchIndInv, WorkspaceShape, SearchScope
<1>2. \A path : Opens(path) <=> Opens(path)'
  BY DEF Opens, IsGrantedFile
<1>3. \A path : (Walked(path) <=> Walked(path)') /\ (Matches(path) <=> Matches(path)')
  BY DEF Walked, Matches
<1>4. \A path : Wanted(path) <=> Wanted(path)'
  BY <1>2, <1>3 DEF Wanted
<1>5. Tops' = Tops /\ \A top, path, n : ReachedFrom(top, path, n) <=> ReachedFrom(top, path, n)'
  BY DEF Tops, ReachedFrom
<1> QED
  BY <1>1, <1>2, <1>4, <1>5

\* Every granted directory is on the stack at the start.
LEMMA AllOrdered ==
    ASSUME NEW S, IsFiniteSet(S), NEW order \in SetToSeqs(S)
    PROVE  order \in Seq(S) /\ ToSet(order) = S
<1> DEFINE D == 1..Cardinality(S)
<1>1. Cardinality(S) \in Nat
  BY FS_CardinalityType
<1>2. order \in [D -> S] /\ \A i, j \in D : i # j => order[i] # order[j]
  BY DEF SetToSeqs
<1>3. order \in Injection(D, S)
  BY <1>2 DEF Injection, IsInjective
<1>4. Cardinality(D) = Cardinality(S)
  BY <1>1, FS_Interval
<1>5. order \in Surjection(D, S)
  BY <1>3, <1>4, FS_Injection
<1> QED
  BY <1>1, <1>2, <1>5 DEF Surjection, ToSet

LEMMA StartStep == ASSUME SearchIndInv, StartSearch PROVE SearchIndInv'
<1>1. /\ WorkspaceShape /\ SearchScope /\ WalkShape /\ \A i \in 1 .. Len(hits) : Opens(hits[i])
      /\ UNCHANGED <<files, scope, current, entries, hits>> /\ search' = "walk"
  BY DEF SearchIndInv, StartSearch
<1>2. <<>> \in PartPaths
  BY DEF PartPaths
<1>3. ~scope.legacy => stack' \in Seq(GrantedDirs) /\ ToSet(stack') = GrantedDirs
  <2>1. GrantedDirs \subseteq scope.grants
    BY DEF GrantedDirs
  <2>2. IsFiniteSet(GrantedDirs)
    BY <1>1, <2>1, FS_Subset DEF SearchScope
  <2> QED
    BY <2>2, AllOrdered DEF StartSearch
<1>4. scope.legacy => stack' = <<<<>>>>
  BY DEF StartSearch
<1>5. stack' \in Seq(PartPaths)
  <2>1. <<<<>>>> \in Seq(PartPaths)
    BY <1>2
  <2>2. GrantedDirs \subseteq PartPaths
    BY <1>1 DEF SearchScope, GrantedDirs
  <2>3. Seq(GrantedDirs) \subseteq Seq(PartPaths)
    BY <2>2
  <2> QED
    BY <1>1, <1>3, <1>4, <2>1, <2>3 DEF SearchScope
<1>6. \A top \in Tops : IsA(files, top, "dir") => top \in ToSet(stack')
  <2> SUFFICES ASSUME NEW top \in Tops, IsA(files, top, "dir") PROVE top \in ToSet(stack')
    OBVIOUS
  <2>1. CASE scope.legacy
    BY <1>4, <2>1 DEF Tops, ToSet
  <2>2. CASE ~scope.legacy
    <3>1. Canonical(files, top) = top
      BY <1>1, Plain DEF IsA
    <3> QED
      BY <1>3, <2>2, <3>1 DEF Tops, GrantedDirs
  <2> QED
    BY <1>1, <2>1, <2>2 DEF SearchScope
<1>7. ASSUME NEW path \in DOMAIN files, Wanted(path) PROVE \E n \in 0 .. Len(path) : Before(path, n)'
  <2>1. path \in PartPaths /\ Tops \subseteq PartPaths
    BY <1>1, <1>2 DEF WorkspaceShape, SearchScope, Tops
  <2>2. PICK top \in Tops : IsPrefix(top, path) /\ IsA(files, top, "dir")
                            /\ \A i \in Len(top) + 1 .. Len(path) - 1 : path[i] \notin SkipDirs
    BY <1>7 DEF Wanted, Walked, Tops
  <2>3. Len(top) \in 0..Len(path) /\ top = Under(path, Len(top))
    BY <2>1, <2>2, PrefixIs DEF PartPaths
  <2>4. ReachedFrom(top, path, Len(top))
    BY <2>1, <2>2 DEF ReachedFrom, PartPaths
  <2>5. Len(top) # Len(path)
    BY <1>7, <2>1, <2>2, <2>3, WholeWay DEF Wanted, IsA
  <2>6. Before(path, Len(top))'
    BY <1>1, <1>6, <2>1, <2>2, <2>3, <2>4, <2>5, WorkspaceStays DEF Before, PartPaths
  <2> QED
    BY <2>3, <2>6
<1>8. WalkShape'
  BY <1>1, <1>5 DEF WalkShape
<1> QED
  BY <1>1, <1>7, <1>8, WorkspaceStays DEF SearchIndInv

LEMMA AllButLast ==
    ASSUME NEW S, NEW s \in Seq(S), s # <<>>
    PROVE  Front(s) \in Seq(S) /\ ToSet(s) = ToSet(Front(s)) \cup {Last(s)}
<1>1. Len(s) \in Nat \ {0}
  OBVIOUS
<1>2. /\ Front(s) \in Seq(S) /\ Len(Front(s)) = Len(s) - 1
      /\ \A i \in 1 .. Len(s) - 1 : Front(s)[i] = s[i]
  <2>1. PICK k \in Nat : Len(s) = k + 1
    BY <1>1
  <2>2. Front(s) = SubSeq(s, 1, k)
    BY <2>1 DEF Front
  <2> QED
    BY <2>1, <2>2
<1> QED
  BY <1>1, <1>2 DEF Last, ToSet

LEMMA PopStep == ASSUME SearchIndInv, PopDir PROVE SearchIndInv'
<1>1. /\ WorkspaceShape /\ SearchScope /\ WalkShape /\ \A i \in 1 .. Len(hits) : Opens(hits[i])
      /\ UNCHANGED <<files, scope, hits>> /\ search = "walk" /\ entries = {}
      /\ \A path \in DOMAIN files : Wanted(path) =>
          Full \/ path \in ToSet(hits) \/ \E n \in 0 .. Len(path) : Before(path, n)
      /\ (Full <=> Full') /\ ToSet(hits') = ToSet(hits)
  BY DEF SearchIndInv, PopDir, Full
<1>2. CASE stack = <<>> \/ Full
  <2>1. search' = "done" /\ UNCHANGED <<stack, entries>>
    BY <1>2 DEF PopDir
  <2>2. WalkShape'
    BY <1>1, <1>2, <2>1 DEF WalkShape
  <2>3. \A path, n : Before(path, n) <=> Before(path, n)'
    BY <1>1, <2>1, WorkspaceStays DEF Before
  <2> QED
    BY <1>1, <2>2, <2>3, WorkspaceStays DEF SearchIndInv
<1>3. CASE stack # <<>> /\ ~Full
  <2> DEFINE top == Last(stack)
  <2>1. /\ stack' = Front(stack) /\ search' = search
        /\ entries' = IF IsGrantedDir(top) THEN Children(files, top) ELSE {}
    BY <1>3 DEF PopDir
  <2>2. stack' \in Seq(PartPaths) /\ ToSet(stack) = ToSet(stack') \cup {top}
    <3>1. stack \in Seq(PartPaths)
      BY <1>1 DEF WalkShape
    <3> QED
      BY <1>3, <2>1, <3>1, AllButLast
  <2>3. entries' \subseteq DOMAIN files
    BY <2>1 DEF Children
  <2>4. WalkShape'
    BY <1>1, <2>1, <2>2, <2>3 DEF WalkShape
  <2>5. ASSUME NEW path \in DOMAIN files, Wanted(path), NEW n \in 0 .. Len(path), Before(path, n)
        PROVE  \E m \in 0 .. Len(path) : Before(path, m)'
    <3>1. path \in PartPaths /\ Len(path) \in Nat
      BY <1>1 DEF WorkspaceShape, PartPaths
    <3>2. PICK from \in Tops : ReachedFrom(from, path, n) /\ n < Len(path) /\ Under(path, n) \in ToSet(stack)
      BY <1>1, <2>5 DEF Before
    <3>3. n < Len(path) /\ Under(path, n) \in ToSet(stack)
      BY <3>2
    <3>4. CASE Under(path, n) \in ToSet(stack')
      BY <3>2, <3>3, <3>4, <1>1, WorkspaceStays DEF Before
    <3>5. CASE Under(path, n) = top
      <4>1. n \in 0 .. Len(path) - 1
        BY <3>1, <3>3
      <4>2. IsGrantedDir(top)
        BY <1>1, <2>5, <3>2, <3>5, <4>1, WayIsGranted
      <4>3. Under(path, n + 1) \in entries'
        BY <1>1, <2>1, <3>5, <4>1, <4>2, ChildOf
      <4>4. ReachedFrom(from, path, n + 1) /\ Len(from) < n + 1
        <5>1. Len(from) \in Nat
          BY <1>1, <3>1 DEF SearchScope, Tops, PartPaths
        <5> QED
          BY <3>2, <5>1 DEF ReachedFrom
      <4>5. n + 1 \in 0 .. Len(path)
        BY <4>1
      <4> QED
        BY <1>1, <4>3, <4>4, <4>5, WorkspaceStays DEF Before
    <3> QED
      BY <2>2, <3>3, <3>4, <3>5
  <2> QED
    BY <1>1, <2>1, <2>4, <2>5, WorkspaceStays DEF SearchIndInv
<1> QED
  BY <1>2, <1>3

LEMMA WithOneMore ==
    ASSUME NEW S, NEW s \in Seq(S), NEW x \in S
    PROVE  Append(s, x) \in Seq(S) /\ ToSet(Append(s, x)) = ToSet(s) \cup {x}
<1>1. /\ Append(s, x) \in Seq(S) /\ Len(s) \in Nat /\ Len(Append(s, x)) = Len(s) + 1
      /\ Append(s, x)[Len(s) + 1] = x /\ \A i \in 1 .. Len(s) : Append(s, x)[i] = s[i]
  OBVIOUS
<1> QED
  BY <1>1 DEF ToSet

LEMMA VisitStep == ASSUME SearchIndInv, VisitEntry PROVE SearchIndInv'
<1>1. /\ WorkspaceShape /\ SearchScope /\ WalkShape /\ \A i \in 1 .. Len(hits) : Opens(hits[i])
      /\ UNCHANGED <<files, scope, search>> /\ search = "walk" /\ entries # {}
      /\ \A path \in DOMAIN files : Wanted(path) =>
          Full \/ path \in ToSet(hits) \/ \E n \in 0 .. Len(path) : Before(path, n)
  BY DEF SearchIndInv, VisitEntry
<1>2. CASE Full
  <2>1. entries' = {} /\ UNCHANGED <<stack, hits>>
    BY <1>2 DEF VisitEntry
  <2>2. WalkShape' /\ Full'
    BY <1>1, <1>2, <2>1 DEF WalkShape, Full
  <2> QED
    BY <1>1, <2>1, <2>2, WorkspaceStays DEF SearchIndInv
<1>3. ASSUME NEW entry \in entries, entries' = entries \ {entry}, ~Full, IsA(files, entry, "dir"),
             stack' = IF Last(entry) \notin SkipDirs /\ IsGrantedDir(entry) THEN Append(stack, entry) ELSE stack,
             UNCHANGED hits
      PROVE  SearchIndInv'
  <2>1. entry \in DOMAIN files /\ entry \in PartPaths /\ stack \in Seq(PartPaths)
    BY <1>1 DEF WalkShape, WorkspaceShape
  <2>2. /\ stack' \in Seq(PartPaths) /\ ToSet(stack) \subseteq ToSet(stack')
        /\ Last(entry) \notin SkipDirs /\ IsGrantedDir(entry) => entry \in ToSet(stack')
    BY <1>3, <2>1, WithOneMore
  <2>3. WalkShape'
    BY <1>1, <1>3, <2>2 DEF WalkShape
  <2>4. ASSUME NEW path \in DOMAIN files, Wanted(path), NEW n \in 0 .. Len(path), Before(path, n)
        PROVE  Before(path, n)'
    <3>1. path \in PartPaths /\ Len(path) \in Nat
      BY <1>1 DEF WorkspaceShape, PartPaths
    <3>2. PICK from \in Tops :
            /\ ReachedFrom(from, path, n)
            /\ \/ n < Len(path) /\ Under(path, n) \in ToSet(stack)
               \/ Len(from) < n /\ Under(path, n) \in entries
      BY <2>4 DEF Before
    <3>3. CASE Under(path, n) # entry \/ (n < Len(path) /\ Under(path, n) \in ToSet(stack))
      BY <1>1, <1>3, <2>2, <3>2, <3>3, WorkspaceStays DEF Before
    <3>4. CASE Under(path, n) = entry /\ Len(from) < n
      <4>1. n < Len(path) /\ n \in 0 .. Len(path) - 1
        BY <1>3, <3>1, <3>4, WholeWay, <2>4 DEF Wanted, IsA
      <4>2. IsGrantedDir(entry)
        BY <1>1, <2>4, <3>1, <3>2, <3>4, <4>1, WayIsGranted
      <4>3. Last(entry) \notin SkipDirs
        <5>1. Len(entry) = n /\ (n > 0 => entry[n] = path[n])
          BY <3>1, <3>4, StepsOf
        <5>2. Len(from) \in Nat
          <6>1. <<>> \in PartPaths
            BY DEF PartPaths
          <6> QED
            BY <1>1, <6>1 DEF SearchScope, Tops, PartPaths
        <5> QED
          BY <3>1, <3>2, <3>4, <4>1, <5>1, <5>2 DEF ReachedFrom, Last
      <4> QED
        BY <1>1, <2>2, <3>2, <3>4, <4>1, <4>2, <4>3, WorkspaceStays DEF Before
    <3> QED
      BY <3>2, <3>3, <3>4
  <2> QED
    BY <1>1, <1>3, <2>3, <2>4, WorkspaceStays DEF SearchIndInv, Full
<1>4. ASSUME NEW entry \in entries, entries' = entries \ {entry}, ~Full, ~IsA(files, entry, "dir"),
             hits' = hits \o Found(entry), UNCHANGED stack
      PROVE  SearchIndInv'
  <2>1. entry \in DOMAIN files /\ hits \in Seq(PartPaths) /\ MaxResults \in Nat
    BY <1>1, SearchAssumption DEF WalkShape
  <2>2. /\ hits' \in Seq(PartPaths) /\ Len(hits') <= Len(hits) + 1 /\ Len(hits) <= Len(hits')
        /\ \A i \in 1 .. Len(hits') : Opens(hits'[i])
        /\ ToSet(hits) \subseteq ToSet(hits')
        /\ \A at : Found(entry) = <<at>> => at \in ToSet(hits')
    <3>1. CASE Found(entry) = <<>>
      <4>1. hits' = hits
        BY <1>4, <2>1, <3>1
      <4> QED
        BY <1>1, <2>1, <3>1, <4>1
    <3>2. ASSUME NEW at \in PartPaths, Found(entry) = <<at>>, Opens(at)
          PROVE  /\ hits' \in Seq(PartPaths) /\ Len(hits') <= Len(hits) + 1 /\ Len(hits) <= Len(hits')
                 /\ \A i \in 1 .. Len(hits') : Opens(hits'[i])
                 /\ ToSet(hits) \subseteq ToSet(hits')
                 /\ \A b : Found(entry) = <<b>> => b \in ToSet(hits')
      <4>1. hits' = Append(hits, at)
        BY <1>4, <2>1, <3>2
      <4>2. \A b : Found(entry) = <<b>> => b = at
        BY <3>2
      <4> QED
        BY <1>1, <2>1, <3>2, <4>1, <4>2, WithOneMore
    <3> QED
      BY <1>1, <1>4, <2>1, <3>1, <3>2, FoundIsOpen
  <2>3. WalkShape'
    BY <1>1, <1>4, <2>1, <2>2 DEF WalkShape, Full
  <2>4. ASSUME NEW path \in DOMAIN files, Wanted(path), NEW n \in 0 .. Len(path), Before(path, n),
               path \notin ToSet(hits')
        PROVE  Before(path, n)'
    <3>1. path \in PartPaths /\ Len(path) \in Nat
      BY <1>1 DEF WorkspaceShape, PartPaths
    <3>2. Under(path, n) # entry
      <4>1. SUFFICES ASSUME Under(path, n) = entry PROVE FALSE
        OBVIOUS
      <4>2. n = Len(path)
        BY <1>1, <1>4, <3>1, <4>1 DEF WorkspaceShape
      <4>3. entry = path
        BY <3>1, <4>1, <4>2, WholeWay
      <4> QED
        BY <1>1, <2>2, <2>4, <4>3, WantedIsFound
    <3> QED
      BY <1>1, <1>4, <2>4, <3>2, WorkspaceStays DEF Before
  <2>5. \A i \in 1 .. Len(hits') : Opens(hits[i])'
    BY <1>1, <2>2 DEF Opens, IsGrantedFile
  <2>6. Full => Full'
    BY <1>4
  <2> QED
    BY <1>1, <2>2, <2>3, <2>4, <2>5, <2>6, WorkspaceStays DEF SearchIndInv
<1> QED
  BY <1>2, <1>3, <1>4 DEF VisitEntry

-----------------------------------------------------------------------------
(* The workspace of the model                                              *)

LEMMA SamePath ==
    ASSUME NEW s \in PartPaths, NEW u \in PartPaths, Len(s) = Len(u), \A i \in 1 .. Len(s) : s[i] = u[i]
    PROVE  s = u
BY DEF PartPaths

LEMMA Short ==
    /\ \A path \in PartPaths : Under(path, 0) = <<>>
    /\ \A a, b \in Parts : Under(<<a, b>>, 1) = <<a>>
    /\ \A a, b, c \in Parts : Under(<<a, b, c>>, 1) = <<a>> /\ Under(<<a, b, c>>, 2) = <<a, b>>
<1>1. \A path \in PartPaths : Under(path, 0) = <<>>
  BY DEF Under, PartPaths
<1>2. ASSUME NEW a \in Parts, NEW b \in Parts PROVE Under(<<a, b>>, 1) = <<a>>
  <2> DEFINE s == <<a, b>>
  <2>1. s \in PartPaths /\ Len(s) = 2 /\ s[1] = a
    BY DEF PartPaths
  <2>2. <<a>> \in PartPaths /\ Len(<<a>>) = 1 /\ <<a>>[1] = a
    BY DEF PartPaths
  <2>3. 1 \in 0..Len(s) /\ 1 \in 1..1
    BY <2>1
  <2> HIDE DEF s
  <2>4. Under(s, 1) \in PartPaths /\ Len(Under(s, 1)) = 1 /\ Under(s, 1)[1] = a
    BY <2>1, <2>3, StepsOf
  <2>5. Under(s, 1) = <<a>>
    BY <2>2, <2>4, SamePath
  <2> QED BY <2>5 DEF s
<1>3. ASSUME NEW a \in Parts, NEW b \in Parts, NEW c \in Parts
      PROVE  Under(<<a, b, c>>, 1) = <<a>> /\ Under(<<a, b, c>>, 2) = <<a, b>>
  <2> DEFINE s == <<a, b, c>>
  <2>1. s \in PartPaths /\ Len(s) = 3 /\ s[1] = a /\ s[2] = b
    BY DEF PartPaths
  <2>0. {0, 1, 2} \subseteq 0..Len(s) /\ 1 \in 1..1 /\ 1 \in 1..2 /\ 2 \in 1..2
    BY <2>1
  <2>2. <<a>> \in PartPaths /\ Len(<<a>>) = 1 /\ <<a>>[1] = a
    BY DEF PartPaths
  <2>3. <<a, b>> \in PartPaths /\ Len(<<a, b>>) = 2 /\ <<a, b>>[1] = a /\ <<a, b>>[2] = b
    BY DEF PartPaths
  <2> HIDE DEF s
  <2>4. Under(s, 1) \in PartPaths /\ Len(Under(s, 1)) = 1 /\ Under(s, 1)[1] = a
    BY <2>0, <2>1, StepsOf
  <2>5. Under(s, 2) \in PartPaths /\ Len(Under(s, 2)) = 2 /\ Under(s, 2)[1] = a /\ Under(s, 2)[2] = b
    BY <2>0, <2>1, StepsOf
  <2>6. Under(s, 1) = <<a>>
    BY <2>2, <2>4, SamePath
  <2>7. Under(s, 2) = <<a, b>>
    BY <2>3, <2>5, SamePath
  <2> QED BY <2>6, <2>7 DEF s
<1> QED BY <1>1, <1>2, <1>3

LEMMA SomePaths ==
    /\ {<<>>, Src, Docs, Git, Main, Guide, Image, Config, Alias, Store, Outside} \subseteq PartPaths
    /\ Key \in PartPaths /\ <<"gone">> \in PartPaths
<1>1. \A a \in Parts : <<a>> \in PartPaths
  BY DEF PartPaths
<1>2. \A a, b \in Parts : <<a, b>> \in PartPaths
  BY DEF PartPaths
<1>3. \A a, b, c \in Parts : <<a, b, c>> \in PartPaths
  BY DEF PartPaths
<1>4. {"src", "docs", "main", "guide", "png", ".git", "config", "alias", "store", "key", "gone", "outside"} \subseteq Parts
  BY DEF Parts
<1>5. <<>> \in PartPaths
  BY DEF PartPaths
<1>6. {Src, Git, Store, Outside, <<"gone">>} \subseteq PartPaths
  BY <1>1, <1>4 DEF Src, Git, Store, Outside
<1>7. {Docs, Main, Config, Alias, Key} \subseteq PartPaths
  BY <1>2, <1>4 DEF Docs, Main, Config, Alias, Key
<1>8. {Guide, Image} \subseteq PartPaths
  BY <1>3, <1>4 DEF Guide, Image
<1> QED
  BY <1>5, <1>6, <1>7, <1>8

LEMMA SearchStart == ASSUME SearchInit PROVE SearchIndInv
<1> DEFINE Targets == {Main, Guide, Image, Config, Docs, Outside, Key, <<"gone">>}
           Dirs == {<<>>, Src, Docs, Git, Store}
           Plains == {Main, Guide, Image, Config, Key}
<1>1. /\ DOMAIN files = Dirs \cup Plains \cup {Alias}
      /\ \A p \in Dirs : files[p] = Dir
      /\ \A p \in Plains : files[p] \in {Text, Silent}
      /\ \E to \in Targets : files[Alias] = LinkTo(to)
  <2>1. PICK main \in {Text, Silent}, guide \in {Text, Silent}, to \in Targets :
          files = [path \in {<<>>, Src, Docs, Git, Store, Main, Guide, Image, Config, Key, Alias} |->
                    IF path = Alias THEN LinkTo(to) ELSE IF path = Main THEN main
                    ELSE IF path = Guide THEN guide
                    ELSE IF path \in {Image, Config, Key} THEN Text ELSE Dir]
    BY DEF SearchInit
  <2>2. Alias \notin Dirs \cup Plains /\ Dirs \cap Plains = {}
    BY DEF Src, Docs, Git, Main, Guide, Image, Config, Alias, Store, Key
  <2> QED
    BY <2>1, <2>2
<1>2. Dir.is = "dir" /\ Text.is = "file" /\ Silent.is = "file" /\ \A to : LinkTo(to).is = "link" /\ LinkTo(to).to = to
  BY DEF Dir, Text, Silent, FileOf, LinkTo
<1>3. DOMAIN files \subseteq PartPaths /\ Targets \subseteq PartPaths
  BY <1>1, SomePaths
<1>4. \A p \in DOMAIN files : files[p].is \in {"dir", "file", "link"} /\ (files[p].is = "link" => p = Alias)
  BY <1>1, <1>2
<1>5. ASSUME NEW p \in DOMAIN files, NEW n \in 0 .. Len(p) - 1 PROVE Under(p, n) \in Dirs
  <2>1. CASE p \in {Src, Git, Store}
    <3>1. Len(p) = 1
      BY <2>1 DEF Src, Git, Store
    <3>2. n = 0
      BY <3>1
    <3> QED
      BY <1>3, <3>2, Short
  <2>2. CASE p \in {Docs, Main, Alias, Config, Key}
    <3>1. Len(p) = 2
      BY <2>2 DEF Docs, Main, Alias, Config, Key
    <3>2. n = 0 \/ n = 1
      BY <3>1
    <3>3. PICK a \in {"src", ".git", "store"}, b \in Parts : p = <<a, b>>
      BY <2>2 DEF Docs, Main, Alias, Config, Key, Parts
    <3>4. a \in Parts
      BY DEF Parts
    <3>5. Under(p, 1) = <<a>> /\ Under(p, 0) = <<>>
      BY <1>3, <3>3, <3>4, Short
    <3>6. <<a>> \in Dirs
      BY DEF Src, Git, Store
    <3> QED
      BY <3>2, <3>5, <3>6
  <2>3. CASE p \in {Guide, Image}
    <3>1. Len(p) = 3
      BY <2>3 DEF Guide, Image
    <3>2. n = 0 \/ n = 1 \/ n = 2
      BY <3>1
    <3>3. PICK c \in Parts : p = <<"src", "docs", c>>
      BY <2>3 DEF Guide, Image, Parts
    <3>4. "src" \in Parts /\ "docs" \in Parts
      BY DEF Parts
    <3>5. Under(p, 1) = <<"src">> /\ Under(p, 2) = <<"src", "docs">> /\ Under(p, 0) = <<>>
      BY <1>3, <3>3, <3>4, Short
    <3> QED
      BY <3>2, <3>5 DEF Src, Docs
  <2>4. CASE p = <<>>
    BY <2>4
  <2> QED
    BY <1>1, <2>1, <2>2, <2>3, <2>4
<1>6. ASSUME NEW to \in Targets PROVE LinksOn(files, to) = {}
  <2> SUFFICES ASSUME NEW n \in 1 .. Len(to), Under(to, n) = Alias PROVE FALSE
    BY <1>4 DEF LinksOn, IsA
  <2>1. Len(Alias) = 2 /\ Alias[2] = "alias"
    BY DEF Alias
  <2>2. to \in PartPaths /\ Len(to) \in Nat
    <3>1. to \in PartPaths
      BY <1>3
    <3> QED
      BY <3>1 DEF PartPaths
  <2>3. n \in 0 .. Len(to)
    BY <2>2
  <2>4. n = 2 /\ Len(to) >= 2
    <3>1. Len(Under(to, n)) = n
      BY <2>2, <2>3, StepsOf
    <3>2. n = Len(Alias)
      BY <3>1, Zenon
    <3>3. n = 2
      BY <2>1, <3>2, Zenon
    <3> QED
      BY <2>2, <2>3, <3>3
  <2>5. to[2] = "alias"
    <3>1. 2 \in 0 .. Len(to) /\ 2 \in 1 .. 2 /\ Under(to, 2) = Alias
      BY <2>2, <2>3, <2>4
    <3>2. \A i \in 1 .. 2 : Under(to, 2)[i] = to[i]
      BY <2>2, <3>1, StepsOf
    <3> QED
      BY <2>1, <3>1, <3>2
  <2>6. to \in {Docs, Main, Guide, Image, Config, Key}
    <3>0. Len(Outside) = 1 /\ Len(<<"gone">>) = 1
      BY DEF Outside
    <3>1. \A k \in Nat : k >= 2 => k # 1
      OBVIOUS
    <3>2. Len(to) # 1
      BY <2>2, <2>4, <3>1, Zenon
    <3>3. to # Outside /\ to # <<"gone">>
      BY <3>0, <3>2, Zenon
    <3> QED
      BY <3>3
  <2> QED
    BY <2>5, <2>6 DEF Docs, Main, Guide, Image, Config, Key
<1>7. WorkspaceShape
  <2>1. \A p \in DOMAIN files : \A n \in 0 .. Len(p) - 1 : IsA(files, Under(p, n), "dir")
    BY <1>1, <1>2, <1>5 DEF IsA
  <2>2. Alias # <<>>
    BY DEF Alias
  <2>3. \A p \in DOMAIN files : files[p].is = "link" => p # <<>> /\ files[p].to \in PartPaths /\ LinksOn(files, files[p].to) = {}
    BY <1>1, <1>2, <1>3, <1>4, <1>6, <2>2
  <2> QED
    BY <1>3, <1>4, <2>1, <2>3 DEF WorkspaceShape
<1>8. SearchScope
  <2>1. \A S : Strict(S).legacy = FALSE /\ Strict(S).grants = S
    BY DEF Strict
  <2>2. Legacy.legacy = TRUE /\ Legacy.grants = {}
    BY DEF Legacy
  <2>3. scope = Legacy \/ \E S \in SUBSET {<<>>, Src, Docs, Git, Main} : scope = Strict(S)
    BY DEF SearchInit
  <2>4. IsFiniteSet({<<>>, Src, Docs, Git, Main})
    <3>1. \A S, x : IsFiniteSet(S) => IsFiniteSet(S \cup {x})
      BY FS_AddElement
    <3>2. IsFiniteSet((((({} \cup {Src}) \cup {Docs}) \cup {Git}) \cup {Main}) \cup {<<>>})
      BY <3>1, FS_EmptySet, Zenon
    <3>3. ((((({} \cup {Src}) \cup {Docs}) \cup {Git}) \cup {Main}) \cup {<<>>}) = {<<>>, Src, Docs, Git, Main}
      OBVIOUS
    <3> QED
      BY <3>2, <3>3
  <2>5. \A S \in SUBSET {<<>>, Src, Docs, Git, Main} : S \subseteq PartPaths /\ IsFiniteSet(S)
    BY <2>4, FS_Subset, SomePaths
  <2> QED
    BY <2>1, <2>2, <2>3, <2>5, FS_EmptySet DEF SearchScope
<1>9. stack = <<>> /\ entries = {} /\ hits = <<>> /\ search = "start"
  BY DEF SearchInit
<1>10. WalkShape
  BY <1>9, SearchAssumption DEF WalkShape
<1> QED
  BY <1>7, <1>8, <1>9, <1>10 DEF SearchIndInv

LEMMA SearchStep == ASSUME SearchIndInv, [SearchNext]_searchVars PROVE SearchIndInv'
<1>1. CASE UNCHANGED searchVars
  <2>1. UNCHANGED <<files, scope, stack, entries, hits, search>>
    BY <1>1 DEF searchVars
  <2>2. WalkShape'
    BY <2>1 DEF SearchIndInv, WalkShape, Full
  <2>3. \A path, n : Before(path, n) <=> Before(path, n)'
    BY <2>1, WorkspaceStays DEF Before
  <2> QED
    BY <2>1, <2>2, <2>3, WorkspaceStays DEF SearchIndInv, Full
<1> QED
  BY <1>1, StartStep, PopStep, VisitStep DEF SearchNext

LEMMA SearchShows == ASSUME SearchIndInv PROVE HitsAreReadable
<1>1. WalkShape /\ WorkspaceShape /\ \A i \in 1 .. Len(hits) : Opens(hits[i])
  BY DEF SearchIndInv
<1>2. ASSUME search = "done", ~Full, NEW path \in DOMAIN files, Wanted(path)
      PROVE  path \in ToSet(hits)
  <2>1. stack = <<>> /\ entries = {} /\ search # "start"
    BY <1>1, <1>2 DEF WalkShape
  <2>2. \A n : ~Before(path, n)
    BY <2>1 DEF Before, ToSet
  <2> QED
    BY <1>2, <2>1, <2>2 DEF SearchIndInv
<1> QED
  BY <1>1, <1>2 DEF WalkShape, HitsAreReadable, Wanted

-----------------------------------------------------------------------------
(* Reading a file by windows                                               *)

Texts == Seq(Byte)

\* The bytes of s from p to q.
Piece(s, p, q) == SubSeq(s, p + 1, q)

\* A character ends at n, and everything before it is whole.
Follows(s, i) == (s[i] = "t") <=> (i > 1 /\ s[i - 1] = "h")
Edge(s, n) == (\A i \in 1 .. n : Follows(s, i)) /\ (n > 0 => s[n] # "h")

Count(s, n) == Chars(Piece(s, 0, n))

-----------------------------------------------------------------------------
LEMMA PieceOf ==
    ASSUME NEW s \in Texts, NEW q \in 0 .. Len(s), NEW p \in 0 .. q
    PROVE  /\ Piece(s, p, q) \in Texts /\ Len(Piece(s, p, q)) = q - p
           /\ \A i \in 1 .. q - p : Piece(s, p, q)[i] = s[p + i]
BY DEF Piece, Texts

LEMMA FirstOf ==
    ASSUME NEW s \in Texts, NEW n \in 0 .. Len(s)
    PROVE  /\ Piece(s, 0, n) \in Texts /\ Len(Piece(s, 0, n)) = n
           /\ \A i \in 1 .. n : Piece(s, 0, n)[i] = s[i]
BY DEF Piece, Texts

LEMMA SameText ==
    ASSUME NEW s \in Texts, NEW u \in Texts, Len(s) = Len(u), \A i \in 1 .. Len(s) : s[i] = u[i]
    PROVE  s = u
BY DEF Texts

LEMMA PieceEnds ==
    ASSUME NEW s \in Texts
    PROVE  /\ \A n \in 0 .. Len(s) : Upto(s, n) = Piece(s, 0, n) /\ After(s, n) = Piece(s, n, Len(s))
           /\ Piece(s, 0, Len(s)) = s
           /\ \A n \in 0 .. Len(s) : Piece(s, n, n) = <<>>
<1>1. \A n \in 0 .. Len(s) : Upto(s, n) = Piece(s, 0, n) /\ After(s, n) = Piece(s, n, Len(s))
  BY DEF Upto, After, Piece
<1>2. Piece(s, 0, Len(s)) = s
  BY DEF Piece, Texts
<1>3. \A n \in 0 .. Len(s) : Piece(s, n, n) = <<>>
  BY DEF Piece, Texts
<1> QED
  BY <1>1, <1>2, <1>3

LEMMA Joined ==
    ASSUME NEW x \in Texts, NEW y \in Texts
    PROVE  /\ x \o y \in Texts /\ Len(x \o y) = Len(x) + Len(y)
           /\ \A i \in 1 .. Len(x) : (x \o y)[i] = x[i]
           /\ \A i \in 1 .. Len(y) : (x \o y)[Len(x) + i] = y[i]
BY DEF Texts

LEMMA Glue ==
    ASSUME NEW s \in Texts, NEW r \in 0 .. Len(s), NEW q \in 0 .. r, NEW p \in 0 .. q
    PROVE  Piece(s, p, q) \o Piece(s, q, r) = Piece(s, p, r)
<1>1. q \in 0 .. Len(s) /\ p \in 0 .. r /\ r \in Nat /\ q \in Nat /\ p \in Nat /\ p <= q /\ q <= r
  BY DEF Texts
<1> DEFINE x == Piece(s, p, q)
           y == Piece(s, q, r)
           z == Piece(s, p, r)
<1>2. x \in Texts /\ Len(x) = q - p /\ \A i \in 1 .. q - p : x[i] = s[p + i]
  BY <1>1, PieceOf
<1>3. y \in Texts /\ Len(y) = r - q /\ \A i \in 1 .. r - q : y[i] = s[q + i]
  BY <1>1, PieceOf
<1>4. z \in Texts /\ Len(z) = r - p /\ \A i \in 1 .. r - p : z[i] = s[p + i]
  BY <1>1, PieceOf
<1> HIDE DEF x, y, z
<1>a. /\ x \o y \in Texts /\ Len(x \o y) = Len(x) + Len(y)
      /\ \A i \in 1 .. Len(x) : (x \o y)[i] = x[i]
      /\ \A i \in 1 .. Len(y) : (x \o y)[Len(x) + i] = y[i]
  BY <1>2, <1>3, Joined
<1>5. x \o y \in Texts /\ Len(x \o y) = r - p
  BY <1>1, <1>2, <1>3, <1>a
<1>6. ASSUME NEW i \in 1 .. r - p PROVE (x \o y)[i] = s[p + i]
  <2>1. CASE i <= q - p
    BY <1>1, <1>2, <1>a, <2>1
  <2>2. CASE i > q - p
    <3>1. i - (q - p) \in 1 .. r - q
      BY <1>1, <2>2
    <3>2. (x \o y)[i] = y[i - (q - p)]
      <4>1. (q - p) + (i - (q - p)) = i
        BY <1>1
      <4> QED
        BY <1>1, <1>2, <1>3, <1>a, <3>1, <4>1
    <3>3. y[i - (q - p)] = s[q + (i - (q - p))]
      BY <1>3, <3>1
    <3>4. q + (i - (q - p)) = p + i
      BY <1>1
    <3> QED
      BY <3>2, <3>3, <3>4
  <2>3. i <= q - p \/ i > q - p
    BY <1>1
  <2> QED
    BY <2>1, <2>2, <2>3, Zenon
<1>7. x \o y = z
  BY <1>4, <1>5, <1>6, SameText
<1> QED
  BY <1>7 DEF x, y, z

LEMMA PieceOfPiece ==
    ASSUME NEW s \in Texts, NEW q \in 0 .. Len(s), NEW p \in 0 .. q,
           NEW j \in 0 .. q - p, NEW i \in 0 .. j
    PROVE  Piece(Piece(s, p, q), i, j) = Piece(s, p + i, p + j)
<1> DEFINE x == Piece(s, p, q)
           y == Piece(x, i, j)
           z == Piece(s, p + i, p + j)
<1>1. /\ p \in Nat /\ q \in Nat /\ i \in Nat /\ j \in Nat /\ p <= q /\ i <= j /\ j <= q - p
      /\ p + j \in 0 .. Len(s) /\ p + i \in 0 .. p + j /\ (p + j) - (p + i) = j - i
  BY DEF Texts
<1>2. x \in Texts /\ Len(x) = q - p /\ \A k \in 1 .. q - p : x[k] = s[p + k]
  BY PieceOf
<1>3. y \in Texts /\ Len(y) = j - i /\ \A k \in 1 .. j - i : y[k] = x[i + k]
  <2>1. j \in 0 .. Len(x)
    BY <1>1, <1>2
  <2> QED
    BY <1>2, <2>1, PieceOf
<1>4. z \in Texts /\ Len(z) = j - i /\ \A k \in 1 .. j - i : z[k] = s[p + i + k]
  BY <1>1, PieceOf
<1> HIDE DEF x, y, z
<1>5. ASSUME NEW k \in 1 .. j - i PROVE y[k] = z[k]
  <2>1. i + k \in 1 .. q - p
    BY <1>1
  <2>2. p + (i + k) = p + i + k
    BY <1>1
  <2> QED
    BY <1>2, <1>3, <1>4, <2>1, <2>2
<1>6. y = z
  BY <1>3, <1>4, <1>5, SameText
<1> QED
  BY <1>6 DEF x, y, z

LEMMA Induct ==
    ASSUME NEW S, 0 \in S, \A n \in Nat : n \in S => n + 1 \in S
    PROVE  Nat \subseteq S
<1> DEFINE Less == {ss \in Nat \X Nat : ss[1] < ss[2]}
           T == Nat \ S
<1>1. IsWellFoundedOn(Less, Nat)
  BY NatLessThanWellFounded DEF OpToRel
<1>2. SUFFICES ASSUME NEW x0 \in T PROVE FALSE
  OBVIOUS
<1>3. \E x \in T : \A y \in T : ~(<<y, x>> \in Less)
  <2>1. T \subseteq Nat OBVIOUS
  <2> HIDE DEF Less, T
  <2> QED
    BY <1>1, <1>2, <2>1, WFMin, Zenon
<1>4. PICK x \in T : \A y \in T : ~(<<y, x>> \in Less)
  BY <1>3
<1>5. x # 0 /\ x - 1 \in Nat /\ x-1 \notin S
  OBVIOUS
<1>6. x-1 \in T /\ <<x-1,x>> \in Less
  BY <1>5
<1> QED BY <1>4, <1>6

\* The greatest of some numbers.
LEMMA MaxIs ==
    ASSUME NEW S \in SUBSET Nat, S # {}, NEW bound \in Nat, \A x \in S : x <= bound
    PROVE  Max(S) \in S /\ \A x \in S : x <= Max(S)
<1>1. SUFFICES \E m \in S : \A y \in S : y <= m
  BY DEF Max
<1> SUFFICES ASSUME ~\E m \in S : \A y \in S : y <= m PROVE FALSE
  OBVIOUS
<1> DEFINE M == {k \in Nat : \E x \in S : x >= k}
<1>2. 0 \in M
  <2>1. PICK x \in S : TRUE
    OBVIOUS
  <2>2. x \in Nat
    BY <2>1
  <2>3. x >= 0
    BY <2>2
  <2> QED
    BY <2>1, <2>3
<1>3. \A n \in Nat : n \in M => n + 1 \in M
  OBVIOUS
<1> HIDE DEF M
<1>4. bound + 1 \in M
  BY <1>2, <1>3, Induct
<1> QED
  BY <1>4 DEF M

-----------------------------------------------------------------------------
(* Characters                                                              *)

Starts(s) == {i \in 1 .. Len(s) : s[i] # "t"}

LEMMA CharsOf ==
    ASSUME NEW s \in Texts PROVE IsFiniteSet(Starts(s)) /\ Chars(s) \in Nat /\ Chars(s) = Cardinality(Starts(s))
<1>1. Starts(s) \subseteq 1 .. Len(s) /\ Len(s) \in Int
  BY DEF Starts, Texts
<1>2. IsFiniteSet(Starts(s))
  <2>1. IsFiniteSet(1 .. Len(s))
    BY <1>1, FS_Interval
  <2> QED
    BY <1>1, <2>1, FS_Subset
<1> QED
  BY <1>2, FS_CardinalityType DEF Chars, Starts

LEMMA OneMore ==
    ASSUME NEW s \in Texts, NEW n \in 1 .. Len(s)
    PROVE  Count(s, n) = Count(s, n - 1) + (IF s[n] = "t" THEN 0 ELSE 1)
<1> DEFINE x == Piece(s, 0, n)
           y == Piece(s, 0, n - 1)
<1>1. n \in 0 .. Len(s) /\ n - 1 \in 0 .. Len(s) /\ 0 \in 0 .. n /\ 0 \in 0 .. n - 1 /\ n \in Nat
  BY DEF Texts
<1>2. x \in Texts /\ Len(x) = n /\ \A i \in 1 .. n : x[i] = s[i]
  BY <1>1, FirstOf
<1>3. y \in Texts /\ Len(y) = n - 1 /\ \A i \in 1 .. n - 1 : y[i] = s[i]
  BY <1>1, FirstOf
<1> HIDE DEF x, y
<1>4. s[n] = "t" => Starts(x) = Starts(y)
  BY <1>1, <1>2, <1>3 DEF Starts
<1>5. s[n] # "t" => Starts(x) = Starts(y) \cup {n} /\ n \notin Starts(y)
  BY <1>1, <1>2, <1>3 DEF Starts
<1>6. Chars(x) = Chars(y) + (IF s[n] = "t" THEN 0 ELSE 1)
  BY <1>2, <1>3, <1>4, <1>5, CharsOf, FS_AddElement
<1> QED
  BY <1>6 DEF Count, x, y

LEMMA NoneYet == ASSUME NEW s \in Texts PROVE Count(s, 0) = 0
<1>1. 0 \in 0 .. Len(s)
  BY DEF Texts
<1>2. Piece(s, 0, 0) = <<>>
  BY <1>1, PieceEnds
<1>3. Chars(<<>>) = 0
  <2>1. {i \in 1 .. Len(<<>>) : <<>>[i] # "t"} = {}
    OBVIOUS
  <2> QED
    BY <2>1, FS_EmptySet DEF Chars
<1> QED
  BY <1>2, <1>3 DEF Count

LEMMA CountOf == ASSUME NEW s \in Texts, NEW n \in 0 .. Len(s) PROVE Count(s, n) \in Nat
<1>1. 0 \in 0 .. n
  BY DEF Texts
<1> QED
  BY <1>1, PieceOf, CharsOf DEF Count

\* The characters of a piece are those up to its end less those up to its start.
LEMMA CharsOfPiece ==
    ASSUME NEW s \in Texts, NEW q \in 0 .. Len(s), NEW p \in 0 .. q
    PROVE  Chars(Piece(s, p, q)) = Count(s, q) - Count(s, p)
<1>0. q \in Nat /\ p \in Nat /\ Len(s) \in Nat
  BY DEF Texts
<1> DEFINE S == {k \in Nat : p + k <= Len(s) => Chars(Piece(s, p, p + k)) = Count(s, p + k) - Count(s, p)}
<1>1. 0 \in S
  <2>1. p \in 0 .. Len(s) /\ p + 0 = p
    BY <1>0
  <2>2. Piece(s, p, p) = <<>> /\ Piece(s, 0, 0) = <<>>
    BY <1>0, <2>1, PieceEnds
  <2>3. Count(s, 0) = 0 /\ Count(s, p) \in Nat
    BY <2>1, NoneYet, CountOf
  <2> QED
    BY <2>1, <2>2, <2>3 DEF Count
<1>2. ASSUME NEW k \in Nat, k \in S PROVE k + 1 \in S
  <2> SUFFICES ASSUME p + (k + 1) <= Len(s)
               PROVE  Chars(Piece(s, p, p + (k + 1))) = Count(s, p + (k + 1)) - Count(s, p)
    OBVIOUS
  <2> DEFINE m == p + k
             x == Piece(s, p, m + 1)
  <2>1. m \in Nat /\ m + 1 \in 1 .. Len(s) /\ m \in 0 .. Len(s) /\ p \in 0 .. m + 1 /\ p + (k + 1) = m + 1 /\ m + 1 - p = k + 1
    BY <1>0
  <2>2. Chars(Piece(s, p, m)) = Count(s, m) - Count(s, p)
    BY <1>2, <2>1
  <2>3. Count(s, m + 1) = Count(s, m) + (IF s[m + 1] = "t" THEN 0 ELSE 1)
    <3>1. m + 1 - 1 = m
      BY <2>1
    <3> QED
      BY <2>1, <3>1, OneMore
  <2>4. x \in Texts /\ Len(x) = k + 1 /\ \A i \in 1 .. k + 1 : x[i] = s[p + i]
    <3>1. m + 1 \in 0 .. Len(s)
      BY <2>1
    <3> QED
      <4> HIDE DEF m
      <4>1. x \in Texts /\ Len(x) = (m + 1) - p /\ \A i \in 1 .. (m + 1) - p : x[i] = s[p + i]
        BY <2>1, <3>1, PieceOf
      <4> QED
        BY <2>1, <4>1
  <2>5. k + 1 \in 1 .. Len(x) /\ k + 1 - 1 = k /\ p + (k + 1) = m + 1
    BY <2>4
  <2>6. Count(x, k + 1) = Count(x, k) + (IF x[k + 1] = "t" THEN 0 ELSE 1)
    BY <2>4, <2>5, OneMore
  <2>7. Piece(x, 0, k) = Piece(s, p, m) /\ Piece(x, 0, k + 1) = x
    <3>1. m + 1 \in 0 .. Len(s) /\ k \in 0 .. m + 1 - p /\ 0 \in 0 .. k /\ p + 0 = p
      BY <2>1, <1>0
    <3>2. Piece(x, 0, k) = Piece(s, p + 0, p + k)
      BY <2>1, <3>1, PieceOfPiece
    <3>3. Piece(x, 0, Len(x)) = x
      BY <2>4, PieceEnds
    <3> QED
      BY <2>4, <3>1, <3>2, <3>3
  <2>8. Count(s, m) \in Nat /\ Count(s, p) \in Nat /\ x[k + 1] = s[m + 1]
    <3>1. p \in 0 .. Len(s)
      BY <1>0
    <3> QED
      BY <2>1, <2>4, <2>5, <3>1, CountOf
  <2>9. Chars(x) = Count(s, m + 1) - Count(s, p)
    BY <2>2, <2>3, <2>6, <2>7, <2>8 DEF Count
  <2> QED
    BY <2>1, <2>9
<1> HIDE DEF S
<1>3. q - p \in S
  BY <1>0, <1>1, <1>2, Induct
<1>4. p + (q - p) = q
  BY <1>0
<1> QED
  BY <1>0, <1>3, <1>4 DEF S

-----------------------------------------------------------------------------
(* Where characters end                                                    *)

LEMMA StartIsEdge == ASSUME NEW s PROVE Edge(s, 0)
BY DEF Edge

LEMMA WholeText == ASSUME NEW s \in Texts PROVE WellFormed(s) <=> Edge(s, Len(s))
BY DEF WellFormed, Edge, Follows, Last, Texts

LEMMA EdgeOfFirst ==
    ASSUME NEW s \in Texts, NEW n \in 0 .. Len(s), NEW m \in 0 .. n
    PROVE  Edge(Piece(s, 0, n), m) <=> Edge(s, m)
<1>1. \A i \in 1 .. n : Piece(s, 0, n)[i] = s[i]
  BY FirstOf
<1>2. \A i \in 1 .. m : i \in 1 .. n /\ (i > 1 => i - 1 \in 1 .. n)
  BY DEF Texts
<1>3. \A i \in 1 .. m : Follows(Piece(s, 0, n), i) <=> Follows(s, i)
  BY <1>1, <1>2 DEF Follows
<1>4. m > 0 => m \in 1 .. n
  BY DEF Texts
<1> QED
  BY <1>1, <1>3, <1>4 DEF Edge

LEMMA EdgeOfPiece ==
    ASSUME NEW s \in Texts, NEW q \in 0 .. Len(s), NEW p \in 0 .. q, Edge(s, p), NEW k \in 0 .. q - p
    PROVE  Edge(Piece(s, p, q), k) <=> Edge(s, p + k)
<1> DEFINE x == Piece(s, p, q)
<1>0. p \in Nat /\ q \in Nat /\ k \in Nat
  BY DEF Texts
<1>1. \A i \in 1 .. q - p : x[i] = s[p + i]
  BY PieceOf
<1> HIDE DEF x
<1>2. ASSUME NEW i \in 1 .. k PROVE Follows(x, i) <=> Follows(s, p + i)
  <2>1. x[i] = s[p + i]
    BY <1>0, <1>1
  <2>2. CASE i = 1
    <3>1. ~(p + 1 > 1 /\ s[p + 1 - 1] = "h")
      <4>1. p + 1 - 1 = p
        BY <1>0
      <4> QED
        BY <1>0, <4>1 DEF Edge
    <3> QED
      BY <2>1, <2>2, <3>1 DEF Follows
  <2>3. CASE i > 1
    <3>1. i - 1 \in 1 .. q - p /\ p + (i - 1) = p + i - 1 /\ p + i > 1
      BY <1>0, <2>3
    <3>2. x[i - 1] = s[p + i - 1]
      BY <1>1, <3>1
    <3> QED
      BY <2>1, <2>3, <3>1, <3>2 DEF Follows
  <2> QED
    BY <2>2, <2>3
<1>3. (\A i \in 1 .. p + k : Follows(s, i)) <=> \A i \in 1 .. k : Follows(s, p + i)
  <2>1. \A i \in 1 .. p : Follows(s, i)
    BY DEF Edge
  <2>2. ASSUME \A i \in 1 .. p + k : Follows(s, i) PROVE \A i \in 1 .. k : Follows(s, p + i)
    BY <1>0, <2>2
  <2>3. ASSUME \A i \in 1 .. k : Follows(s, p + i), NEW i \in 1 .. p + k PROVE Follows(s, i)
    <3>1. CASE i <= p
      BY <1>0, <2>1, <3>1
    <3>2. CASE i > p
      <4>1. i - p \in 1 .. k /\ p + (i - p) = i
        BY <1>0, <3>2
      <4>2. Follows(s, p + (i - p))
        BY <2>3, <4>1
      <4> QED
        BY <4>1, <4>2
    <3> QED
      BY <1>0, <3>1, <3>2
  <2> QED
    BY <2>2, <2>3
<1>4. (k > 0 => x[k] # "h") /\ (k = 0 => (p > 0 => s[p] # "h")) <=> (p + k > 0 => s[p + k] # "h")
  <2>1. p > 0 => s[p] # "h"
    BY DEF Edge
  <2>2. CASE k = 0
    BY <1>0, <2>1, <2>2
  <2>3. CASE k > 0
    BY <1>0, <1>1, <2>3
  <2> QED
    BY <1>0, <2>2, <2>3
<1>5. p > 0 => s[p] # "h"
  BY DEF Edge
<1> QED
  BY <1>2, <1>3, <1>4, <1>5 DEF Edge, x

LEMMA CountGrows ==
    ASSUME NEW s \in Texts, NEW q \in 0 .. Len(s), NEW p \in 0 .. q
    PROVE  /\ Count(s, p) \in Nat /\ Count(s, q) \in Nat /\ Count(s, p) <= Count(s, q)
           /\ Edge(s, p) /\ Edge(s, q) /\ p < q => Count(s, p) < Count(s, q)
<1>0. p \in Nat /\ q \in Nat /\ Len(s) \in Nat /\ p \in 0 .. Len(s)
  BY DEF Texts
<1>1. Count(s, p) \in Nat /\ Count(s, q) \in Nat
  BY <1>0, CountOf
<1>2. ASSUME NEW a \in 0 .. q PROVE Count(s, a) <= Count(s, q) /\ Count(s, a) \in Nat
  <2>1. Chars(Piece(s, a, q)) \in Nat
    BY PieceOf, CharsOf
  <2>2. Chars(Piece(s, a, q)) = Count(s, q) - Count(s, a)
    BY CharsOfPiece
  <2>3. a \in 0 .. Len(s)
    BY <1>0
  <2>4. Count(s, a) \in Nat
    BY <2>3, CountOf
  <2> QED
    BY <1>1, <2>1, <2>2, <2>4
<1>3. ASSUME Edge(s, p), Edge(s, q), p < q PROVE Count(s, p) < Count(s, q)
  <2>1. p + 1 \in 1 .. Len(s) /\ p + 1 \in 0 .. q /\ p + 1 - 1 = p
    BY <1>0, <1>3
  <2>2. s[p + 1] # "t"
    <3>1. p > 0 => s[p] # "h"
      BY <1>3 DEF Edge
    <3>2. Follows(s, p + 1)
      BY <1>0, <1>3 DEF Edge
    <3> QED
      BY <1>0, <2>1, <3>1, <3>2 DEF Follows
  <2>3. Count(s, p + 1) = Count(s, p) + 1
    BY <2>1, <2>2, OneMore
  <2> QED
    BY <1>1, <1>2, <2>1, <2>3
<1> QED
  BY <1>1, <1>2, <1>3

LEMMA EdgesMeet ==
    ASSUME NEW s \in Texts, NEW p \in 0 .. Len(s), NEW q \in 0 .. Len(s), Edge(s, p), Edge(s, q)
    PROVE  /\ Count(s, p) \in Nat /\ Count(s, q) \in Nat
           /\ Count(s, p) <= Count(s, q) <=> p <= q
           /\ Count(s, p) = Count(s, q) => p = q
<1>1. p \in Nat /\ q \in Nat
  BY DEF Texts
<1>2. CASE p <= q
  <2>1. p \in 0 .. q
    BY <1>1, <1>2
  <2> QED
    BY <1>1, <1>2, <2>1, CountGrows
<1>3. CASE q <= p
  <2>1. q \in 0 .. p
    BY <1>1, <1>3
  <2> QED
    BY <1>1, <1>3, <2>1, CountGrows
<1> QED
  BY <1>1, <1>2, <1>3

LEMMA ValidIs ==
    ASSUME NEW s \in Texts
    PROVE  /\ ValidUpTo(s) \in 0 .. Len(s) /\ Edge(s, ValidUpTo(s))
           /\ \A n \in 0 .. Len(s) : Edge(s, n) => n <= ValidUpTo(s)
           /\ Decoded(s) = Piece(s, 0, ValidUpTo(s))
<1> DEFINE S == {n \in 0 .. Len(s) : WellFormed(Upto(s, n))}
<1>1. \A n \in 0 .. Len(s) : WellFormed(Upto(s, n)) <=> Edge(s, n)
  <2> TAKE n \in 0 .. Len(s)
  <2>1. Upto(s, n) = Piece(s, 0, n) /\ Piece(s, 0, n) \in Texts /\ Len(Piece(s, 0, n)) = n /\ n \in 0 .. n
    BY PieceEnds, FirstOf DEF Texts
  <2> QED
    BY <2>1, WholeText, EdgeOfFirst
<1>2. S \in SUBSET Nat /\ Len(s) \in Nat /\ \A x \in S : x <= Len(s)
  BY DEF Texts
<1>3. 0 \in S
  BY <1>1, <1>2, StartIsEdge
<1>4. Max(S) \in S /\ \A x \in S : x <= Max(S)
  <2> HIDE DEF S
  <2> QED
    BY <1>2, <1>3, MaxIs
<1>5. ValidUpTo(s) = Max(S)
  BY DEF ValidUpTo
<1>6. Decoded(s) = Piece(s, 0, ValidUpTo(s))
  BY <1>4, <1>5, PieceEnds DEF Decoded
<1> QED
  BY <1>1, <1>4, <1>5, <1>6

\* What is left of a text that is not invalid.
LEMMA NotInvalid ==
    ASSUME NEW s \in Texts
    PROVE  ~Invalid(s) <=> Piece(s, ValidUpTo(s), Len(s)) \in {<<>>, <<"h">>}
<1> DEFINE v == ValidUpTo(s)
           x == Piece(s, v, Len(s))
<1>1. v \in 0 .. Len(s) /\ Len(s) \in 0 .. Len(s) /\ Len(s) \in Nat
  BY ValidIs DEF Texts
<1>2. x \in Texts /\ Len(x) = Len(s) - v /\ \A i \in 1 .. Len(s) - v : x[i] = s[v + i]
  BY <1>1, PieceOf
<1>3. ~Invalid(s) <=> v = Len(s) \/ (v = Len(s) - 1 /\ s[Len(s)] = "h")
  BY <1>1 DEF Invalid, Incomplete, Last
<1> HIDE DEF v, x
<1>4. x = <<>> <=> v = Len(s)
  BY <1>1, <1>2 DEF Texts
<1>5. x = <<"h">> <=> v = Len(s) - 1 /\ s[Len(s)] = "h"
  <2>1. <<"h">> \in Texts /\ Len(<<"h">>) = 1 /\ <<"h">>[1] = "h"
    BY DEF Texts, Byte
  <2>2. ASSUME v = Len(s) - 1, s[Len(s)] = "h" PROVE x = <<"h">>
    <3>1. Len(x) = 1 /\ x[1] = "h"
      BY <1>1, <1>2, <2>2
    <3> QED
      <4>1. \A i \in 1 .. Len(x) : x[i] = <<"h">>[i]
        BY <2>1, <3>1
      <4> QED
        BY <1>2, <2>1, <3>1, <4>1, SameText
  <2>3. ASSUME x = <<"h">> PROVE v = Len(s) - 1 /\ s[Len(s)] = "h"
    BY <1>1, <1>2, <2>1, <2>3
  <2> QED
    BY <2>2, <2>3
<1> QED
  BY <1>3, <1>4, <1>5 DEF v, x

\* Nothing that follows makes an invalid text valid.
LEMMA StaysInvalid ==
    ASSUME NEW c \in Texts, NEW e \in 0 .. Len(c), Invalid(Piece(c, 0, e))
    PROVE  /\ Invalid(c)
           /\ \A n \in 0 .. Len(c) : Edge(c, n) => n <= ValidUpTo(Piece(c, 0, e))
<1> DEFINE s == Piece(c, 0, e)
           v == ValidUpTo(s)
<1>0. e \in Nat /\ Len(c) \in Nat
  BY DEF Texts
<1>1. s \in Texts /\ Len(s) = e /\ e \in Nat /\ Len(c) \in Nat /\ \A i \in 1 .. e : s[i] = c[i]
  BY <1>0, FirstOf
<1>2. \A n \in 0 .. e : Edge(s, n) <=> Edge(c, n)
  BY EdgeOfFirst
<1>3. v \in 0 .. e /\ Edge(s, v) /\ \A n \in 0 .. e : Edge(s, n) => n <= v
  BY <1>1, ValidIs
<1>4. v < e /\ ~(v = e - 1 /\ s[e] = "h")
  BY <1>1 DEF Invalid, Incomplete, Last
<1> HIDE DEF s, v
<1>5. ASSUME NEW n \in 0 .. Len(c), Edge(c, n), n > v PROVE FALSE
  <2>1. n > e
    BY <1>1, <1>2, <1>3, <1>5
  <2>2. \A i \in 1 .. e : Follows(c, i)
    BY <1>1, <1>5, <2>1 DEF Edge
  <2>3. e > 0 /\ c[e] = "h"
    <3>1. e \in 0 .. e /\ e > 0
      BY <1>1, <1>3, <1>4
    <3>2. ~Edge(c, e)
      BY <1>2, <1>3, <1>4, <3>1
    <3> QED
      BY <2>2, <3>1, <3>2 DEF Edge
  <2>4. Edge(c, e - 1)
    <3>1. Follows(c, e)
      BY <1>1, <2>2, <2>3
    <3>2. e - 1 > 0 => c[e - 1] # "h"
      BY <1>1, <2>3, <3>1 DEF Follows
    <3>3. \A i \in 1 .. e - 1 : Follows(c, i)
      BY <1>1, <2>2
    <3> QED
      BY <3>2, <3>3 DEF Edge
  <2>5. e - 1 <= v
    BY <1>1, <1>2, <1>3, <2>3, <2>4
  <2> QED
    BY <1>1, <1>3, <1>4, <2>3, <2>5
<1>6. \A n \in 0 .. Len(c) : Edge(c, n) => n <= v
  BY <1>1, <1>3, <1>5
<1>7. Invalid(c)
  <2> DEFINE w == ValidUpTo(c)
  <2>1. w \in 0 .. Len(c) /\ Edge(c, w)
    BY ValidIs
  <2>2. w <= v
    BY <1>6, <2>1
  <2>3. v \in 0 .. Len(c) /\ Edge(c, v)
    BY <1>1, <1>2, <1>3
  <2>4. v <= w
    BY <2>3, ValidIs
  <2> HIDE DEF w
  <2>5. w = v
    BY <1>1, <1>3, <2>1, <2>2, <2>4
  <2>6. w < Len(c)
    BY <1>1, <1>3, <1>4, <2>5
  <2>7. ~(w = Len(c) - 1 /\ c[Len(c)] = "h")
    <3>1. SUFFICES ASSUME w = Len(c) - 1, c[Len(c)] = "h" PROVE FALSE
      OBVIOUS
    <3>2. e = Len(c)
      BY <1>1, <1>3, <1>4, <2>5, <3>1
    <3> QED
      BY <1>1, <1>3, <1>4, <2>5, <3>1, <3>2
  <2> QED
    BY <2>6, <2>7 DEF Invalid, Incomplete, Last, w
<1> QED
  BY <1>6, <1>7 DEF s, v

\* The first n characters of whole ones.
LEMMA SplitIs ==
    ASSUME NEW s \in Texts, Edge(s, Len(s)), NEW n \in Nat
    PROVE  /\ SplitChars(s, n) \in 0 .. Len(s) /\ Edge(s, SplitChars(s, n)) /\ Count(s, SplitChars(s, n)) <= n
           /\ SplitChars(s, n) = Len(s) \/ Count(s, SplitChars(s, n)) = n
<1> DEFINE S == {i \in 0 .. Len(s) : WellFormed(Upto(s, i)) /\ Chars(Upto(s, i)) <= n}
           r == Max(S)
<1>1. \A i \in 0 .. Len(s) : (WellFormed(Upto(s, i)) <=> Edge(s, i)) /\ Chars(Upto(s, i)) = Count(s, i)
  <2> TAKE i \in 0 .. Len(s)
  <2>1. Upto(s, i) = Piece(s, 0, i) /\ Piece(s, 0, i) \in Texts /\ Len(Piece(s, 0, i)) = i /\ i \in 0 .. i
    BY PieceEnds, FirstOf DEF Texts
  <2> QED
    BY <2>1, WholeText, EdgeOfFirst DEF Count
<1>2. S \in SUBSET Nat /\ Len(s) \in Nat /\ \A x \in S : x <= Len(s)
  BY DEF Texts
<1>3. 0 \in S
  BY <1>1, <1>2, StartIsEdge, NoneYet
<1>4. r \in S /\ \A x \in S : x <= r
  <2> HIDE DEF S
  <2> QED
    BY <1>2, <1>3, MaxIs
<1>5. r \in 0 .. Len(s) /\ Edge(s, r) /\ Count(s, r) <= n /\ Count(s, r) \in Nat /\ r \in Nat
  BY <1>1, <1>2, <1>4, CountOf
<1>6. \A i \in 0 .. Len(s) : Edge(s, i) /\ Count(s, i) <= n => i <= r
  BY <1>1, <1>4
<1>7. SplitChars(s, n) = r
  BY DEF SplitChars
<1> HIDE DEF S, r
<1>8. ASSUME r # Len(s), Count(s, r) # n PROVE FALSE
  <2>1. r + 1 \in 1 .. Len(s) /\ r + 1 - 1 = r /\ Count(s, r) + 1 <= n
    BY <1>2, <1>5, <1>8
  <2>2. \A i \in 1 .. Len(s) : Follows(s, i)
    BY DEF Edge
  <2>3. Count(s, r + 1) <= n
    BY <1>5, <2>1, OneMore
  <2>4. s[r + 1] = "h"
    <3>1. CASE s[r + 1] # "h"
      <4>1. \A i \in 1 .. r + 1 : Follows(s, i)
        BY <1>2, <1>5, <2>1, <2>2
      <4>2. Edge(s, r + 1)
        BY <3>1, <4>1 DEF Edge
      <4> QED
        BY <1>2, <1>5, <1>6, <2>1, <2>3, <4>2
    <3> QED
      BY <3>1
  <2>5. r + 1 # Len(s)
    BY <1>2, <1>5, <2>1, <2>4 DEF Edge
  <2>6. r + 2 \in 1 .. Len(s) /\ r + 2 - 1 = r + 1
    BY <1>2, <1>5, <2>1, <2>5
  <2>7. s[r + 2] = "t"
    BY <1>5, <2>2, <2>4, <2>6 DEF Follows
  <2>8. Count(s, r + 2) <= n
    <3>1. Count(s, r + 2) = Count(s, r + 1) + 0
      <4> DEFINE m == r + 2
      <4>1. m \in 1 .. Len(s) /\ m - 1 = r + 1 /\ s[m] = "t"
        BY <1>5, <2>6, <2>7
      <4> HIDE DEF m
      <4>2. Count(s, m) = Count(s, m - 1) + (IF s[m] = "t" THEN 0 ELSE 1)
        BY <4>1, OneMore
      <4>3. Count(s, m) = Count(s, r + 1) + 0
        BY <4>1, <4>2
      <4> QED
        BY <4>3 DEF m
    <3>2. Count(s, r + 1) \in Nat
      BY <1>5, <2>1, OneMore
    <3> QED
      BY <2>3, <3>1, <3>2
  <2>9. Edge(s, r + 2)
    <3>1. \A i \in 1 .. r + 2 : Follows(s, i)
      BY <1>2, <1>5, <2>2, <2>6
    <3> QED
      BY <2>7, <3>1 DEF Edge
  <2> QED
    BY <1>2, <1>5, <1>6, <2>6, <2>8, <2>9
<1> QED
  BY <1>5, <1>7, <1>8

-----------------------------------------------------------------------------
(* Bytes of the file, read from the end of a character on                  *)

LEMMA ValidFrom ==
    ASSUME NEW c \in Texts, NEW e \in 0 .. Len(c), NEW v \in 0 .. e, Edge(c, v)
    PROVE  /\ v + ValidUpTo(Piece(c, v, e)) \in v .. e
           /\ Edge(c, v + ValidUpTo(Piece(c, v, e)))
           /\ \A n \in 0 .. e : Edge(c, n) => n <= v + ValidUpTo(Piece(c, v, e))
           /\ Decoded(Piece(c, v, e)) = Piece(c, v, v + ValidUpTo(Piece(c, v, e)))
           /\ After(Piece(c, v, e), ValidUpTo(Piece(c, v, e))) = Piece(c, v + ValidUpTo(Piece(c, v, e)), e)
           /\ ~Invalid(Piece(c, v, e)) <=> Piece(c, v + ValidUpTo(Piece(c, v, e)), e) \in {<<>>, <<"h">>}
<1> DEFINE x == Piece(c, v, e)
           k == ValidUpTo(x)
<1>0. v \in Nat /\ e \in Nat /\ v <= e
  BY DEF Texts
<1>1. x \in Texts /\ Len(x) = e - v /\ v \in Nat /\ e \in Nat /\ v <= e
  BY <1>0, PieceOf
<1>2. k \in 0 .. e - v /\ Edge(x, k) /\ (\A n \in 0 .. e - v : Edge(x, n) => n <= k) /\ Decoded(x) = Piece(x, 0, k)
  BY <1>1, ValidIs
<1>3. \A n \in 0 .. e - v : Edge(x, n) <=> Edge(c, v + n)
  BY EdgeOfPiece
<1>4. After(x, k) = Piece(x, k, e - v)
  BY <1>1, <1>2, PieceEnds
<1>5. ~Invalid(x) <=> Piece(x, k, e - v) \in {<<>>, <<"h">>}
  BY <1>1, NotInvalid
<1>6. Piece(x, 0, k) = Piece(c, v, v + k)
  <2>1. 0 \in 0 .. k /\ v + 0 = v
    BY <1>1, <1>2
  <2> QED
    BY <1>2, <2>1, PieceOfPiece
<1>7. Piece(x, k, e - v) = Piece(c, v + k, e)
  <2>1. e - v \in 0 .. e - v /\ k \in 0 .. e - v /\ v + (e - v) = e
    BY <1>1, <1>2
  <2> QED
    BY <2>1, PieceOfPiece
<1> HIDE DEF x, k
<1>8. v + k \in v .. e /\ Edge(c, v + k)
  BY <1>1, <1>2, <1>3
<1>9. ASSUME NEW n \in 0 .. e, Edge(c, n) PROVE n <= v + k
  <2>1. CASE n < v
    BY <1>1, <1>2, <2>1
  <2>2. CASE n >= v
    <3>1. n - v \in 0 .. e - v /\ v + (n - v) = n
      BY <1>1, <2>2
    <3>2. Edge(x, n - v)
      BY <1>3, <1>9, <3>1
    <3>3. n - v <= k
      BY <1>2, <3>1, <3>2
    <3> QED
      BY <1>1, <1>2, <3>3
  <2> QED
    BY <1>1, <2>1, <2>2
<1> QED
  BY <1>2, <1>4, <1>5, <1>6, <1>7, <1>8, <1>9 DEF x, k

\* The same, of everything read.
LEMMA ValidFromStart ==
    ASSUME NEW c \in Texts, NEW e \in 0 .. Len(c), NEW v \in 0 .. e, Edge(c, v)
    PROVE  /\ ValidUpTo(Piece(c, 0, e)) = v + ValidUpTo(Piece(c, v, e))
           /\ Invalid(Piece(c, 0, e)) <=> Invalid(Piece(c, v, e))
<1> DEFINE k == v + ValidUpTo(Piece(c, v, e))
           m == 0 + ValidUpTo(Piece(c, 0, e))
<1>0. 0 \in 0 .. e /\ Edge(c, 0) /\ e \in Nat /\ v \in Nat
  BY StartIsEdge DEF Texts
<1>1. k \in v .. e /\ Edge(c, k) /\ (\A n \in 0 .. e : Edge(c, n) => n <= k)
      /\ (~Invalid(Piece(c, v, e)) <=> Piece(c, k, e) \in {<<>>, <<"h">>})
  BY ValidFrom
<1>2. m \in 0 .. e /\ Edge(c, m) /\ (\A n \in 0 .. e : Edge(c, n) => n <= m)
      /\ (~Invalid(Piece(c, 0, e)) <=> Piece(c, m, e) \in {<<>>, <<"h">>})
  BY <1>0, ValidFrom
<1>3. m = ValidUpTo(Piece(c, 0, e))
  <2>1. Piece(c, 0, e) \in Texts
    BY FirstOf
  <2>2. ValidUpTo(Piece(c, 0, e)) \in 0 .. Len(Piece(c, 0, e)) /\ Len(Piece(c, 0, e)) \in Nat
    BY <2>1, ValidIs DEF Texts
  <2> QED
    BY <2>2
<1> HIDE DEF k, m
<1>4. k = m
  BY <1>0, <1>1, <1>2
<1> QED
  BY <1>1, <1>2, <1>3, <1>4 DEF k

\* The first n of the characters between the ends of two.
LEMMA SplitFrom ==
    ASSUME NEW c \in Texts, NEW w \in 0 .. Len(c), NEW v \in 0 .. w, Edge(c, v), Edge(c, w), NEW n \in Nat
    PROVE  /\ v + SplitChars(Piece(c, v, w), n) \in v .. w
           /\ Edge(c, v + SplitChars(Piece(c, v, w), n))
           /\ Count(c, v + SplitChars(Piece(c, v, w), n)) <= Count(c, v) + n
           /\ \/ v + SplitChars(Piece(c, v, w), n) = w
              \/ Count(c, v + SplitChars(Piece(c, v, w), n)) = Count(c, v) + n
           /\ Upto(Piece(c, v, w), SplitChars(Piece(c, v, w), n)) = Piece(c, v, v + SplitChars(Piece(c, v, w), n))
           /\ After(Piece(c, v, w), SplitChars(Piece(c, v, w), n)) = Piece(c, v + SplitChars(Piece(c, v, w), n), w)
<1> DEFINE x == Piece(c, v, w)
           r == SplitChars(x, n)
<1>0. v \in Nat /\ w \in Nat /\ v <= w /\ w - v \in 0 .. w - v /\ v + (w - v) = w /\ Len(c) \in Nat
  BY DEF Texts
<1>1. x \in Texts /\ Len(x) = w - v /\ v \in Nat /\ w \in Nat /\ v <= w /\ w - v \in 0 .. w - v /\ v + (w - v) = w
      /\ Len(c) \in Nat
  BY <1>0, PieceOf
<1>2. \A i \in 0 .. w - v : Edge(x, i) <=> Edge(c, v + i)
  BY EdgeOfPiece
<1>3. Edge(x, Len(x))
  BY <1>1, <1>2
<1>4. r \in 0 .. w - v /\ Edge(x, r) /\ Count(x, r) <= n /\ (r = w - v \/ Count(x, r) = n)
  BY <1>1, <1>3, SplitIs
<1>5. Upto(x, r) = Piece(x, 0, r) /\ After(x, r) = Piece(x, r, w - v)
  BY <1>1, <1>4, PieceEnds
<1>6. Piece(x, 0, r) = Piece(c, v, v + r)
  <2>1. 0 \in 0 .. r /\ v + 0 = v
    BY <1>1, <1>4
  <2> QED
    BY <1>4, <2>1, PieceOfPiece
<1>7. Piece(x, r, w - v) = Piece(c, v + r, w)
  BY <1>1, <1>4, PieceOfPiece
<1> HIDE DEF x, r
<1>8. Count(x, r) = Count(c, v + r) - Count(c, v)
  <2>1. v + r \in 0 .. Len(c) /\ v \in 0 .. v + r
    BY <1>1, <1>4
  <2> QED
    BY <1>6, <2>1, CharsOfPiece DEF Count
<1>9. Count(c, v + r) \in Nat /\ Count(c, v) \in Nat
  <2>1. v + r \in 0 .. Len(c) /\ v \in 0 .. Len(c)
    BY <1>1, <1>4
  <2> QED
    BY <2>1, CountOf
<1>10. v + r \in v .. w /\ Edge(c, v + r) /\ (v + r = w <=> r = w - v)
  BY <1>1, <1>2, <1>4
<1> QED
  BY <1>4, <1>5, <1>6, <1>7, <1>8, <1>9, <1>10 DEF x, r

LEMMA PrefixOf ==
    ASSUME NEW s \in Texts, NEW r \in 0 .. Len(s), NEW q \in 0 .. r, NEW p \in 0 .. q
    PROVE  IsPrefix(Piece(s, p, q), Piece(s, p, r))
<1> DEFINE x == Piece(s, p, q)
           z == Piece(s, p, r)
<1>3. p \in Nat /\ q \in Nat /\ r \in Nat /\ p <= q /\ q <= r /\ q \in 0 .. Len(s) /\ p \in 0 .. r
  BY DEF Texts
<1>1. x \in Texts /\ Len(x) = q - p /\ \A i \in 1 .. q - p : x[i] = s[p + i]
  BY <1>3, PieceOf
<1>2. z \in Texts /\ Len(z) = r - p /\ \A i \in 1 .. r - p : z[i] = s[p + i]
  BY <1>3, PieceOf
<1> HIDE DEF x, z
<1>4. Piece(z, 0, q - p) = x
  <2>1. q - p \in 0 .. Len(z) /\ 0 \in 0 .. q - p
    BY <1>2, <1>3
  <2>2. /\ Piece(z, 0, q - p) \in Texts /\ Len(Piece(z, 0, q - p)) = q - p
        /\ \A i \in 1 .. q - p : Piece(z, 0, q - p)[i] = z[i]
    BY <1>2, <2>1, FirstOf
  <2>3. \A i \in 1 .. q - p : z[i] = s[p + i]
    BY <1>2, <1>3
  <2> QED
    BY <1>1, <2>2, <2>3, SameText
<1> QED
  BY <1>1, <1>2, <1>3, <1>4 DEF IsPrefix, Piece, x, z

\* What is appended leaves what was there as it was.
LEMMA WithMore ==
    ASSUME NEW c \in Texts, NEW d \in Texts
    PROVE  /\ c \o d \in Texts /\ Len(c \o d) = Len(c) + Len(d) /\ Piece(c \o d, 0, Len(c)) = c
           /\ \A q \in 0 .. Len(c) : /\ Edge(c \o d, q) <=> Edge(c, q)
                                     /\ Count(c \o d, q) = Count(c, q)
                                     /\ \A p \in 0 .. q : Piece(c \o d, p, q) = Piece(c, p, q)
<1> DEFINE f == c \o d
<1>1. f \in Texts /\ Len(f) = Len(c) + Len(d) /\ \A i \in 1 .. Len(c) : f[i] = c[i]
  BY Joined
<1>2. Len(c) \in Nat /\ Len(d) \in Nat
  BY DEF Texts
<1> HIDE DEF f
<1>3. Len(c) \in 0 .. Len(f) /\ 0 \in 0 .. Len(c) /\ Len(c) - 0 = Len(c)
  BY <1>1, <1>2
<1>4. Piece(f, 0, Len(c)) = c
  <2>1. /\ Piece(f, 0, Len(c)) \in Texts /\ Len(Piece(f, 0, Len(c))) = Len(c)
        /\ \A i \in 1 .. Len(c) : Piece(f, 0, Len(c))[i] = f[i]
    BY <1>1, <1>3, FirstOf
  <2> QED
    BY <1>1, <2>1, SameText
<1>5. \A q \in 0 .. Len(c) : Edge(f, q) <=> Edge(c, q)
  BY <1>1, <1>3, <1>4, EdgeOfFirst
<1>6. ASSUME NEW q \in 0 .. Len(c), NEW p \in 0 .. q PROVE Piece(f, p, q) = Piece(c, p, q)
  <2>1. q \in 0 .. Len(c) - 0 /\ 0 + q = q /\ 0 + p = p
    BY <1>2
  <2>2. Piece(Piece(f, 0, Len(c)), p, q) = Piece(f, 0 + p, 0 + q)
    BY <1>1, <1>3, <2>1, PieceOfPiece
  <2> QED
    BY <1>4, <2>1, <2>2
<1>7. \A q \in 0 .. Len(c) : Count(f, q) = Count(c, q)
  <2> TAKE q \in 0 .. Len(c)
  <2>1. 0 \in 0 .. q
    BY <1>2
  <2> QED
    BY <1>6, <2>1 DEF Count
<1> QED
  BY <1>1, <1>4, <1>5, <1>6, <1>7 DEF f

-----------------------------------------------------------------------------
(* The state of a call                                                     *)

\* The types of the variables.
WindowTypes ==
    /\ content \in Texts /\ text \in Texts /\ got \in Texts
    /\ start \in Nat /\ offset \in Nat /\ room \in Nat \ {0} /\ skipping \in Nat
    /\ consumed \in 0 .. Len(content)
    /\ rw \in {"idle", "loop", "peek", "more", "whole", "failed"}

\* What the reader has put together goes from the character it began at to the one it goes on from.
Gathered(c, g, from, to) ==
    \/ g = <<>> /\ to = from
    \/ \E q \in 0 .. Len(c) : \E p \in 0 .. q :
          /\ Edge(c, p) /\ Edge(c, q) /\ g = Piece(c, p, q)
          /\ Count(c, p) = from /\ Count(c, q) = to

\* A window begins at b, where the characters to skip end, and goes on to e.
Window(c, t, skip, from, b, e) ==
    /\ Edge(c, b) /\ Edge(c, e)
    /\ t = Piece(c, b, e)
    /\ Count(c, b) + skip = from
    /\ skip > 0 => b = e

\* What is read up to e and not decoded, which is from v on, is the start of a character at most.
Undecoded(c, p, v, e) == p = Piece(c, v, e) /\ p \in {<<>>, <<"h">>}

ReadingShape ==
    rw \in {"loop", "peek"} =>
        \E v \in 0 .. consumed : \E b \in 0 .. v :
            /\ Undecoded(content, pending, v, consumed)
            /\ Window(content, text, skipping, offset, b, v)
            /\ rw = "loop" => Chars(text) < room
            /\ rw = "peek" => skipping = 0 /\ Chars(text) = room

MoreShape ==
    rw = "more" =>
        /\ \E e \in 0 .. consumed : \E b \in 0 .. e : Window(content, text, skipping, offset, b, e)
        /\ skipping = 0 /\ Chars(text) = room
        /\ Chars(Decoded(content)) > NextOffset \/ Invalid(content)

WindowIndInv ==
    /\ WindowTypes
    /\ Gathered(content, got, start, offset)
    /\ ReadingShape
    /\ MoreShape
    /\ rw \in {"whole", "failed"} => ReaderServed

-----------------------------------------------------------------------------
\* The characters of the bytes up to e, from character `from` on (TextFrom).
Told(c, e, from) == After(Decoded(Upto(c, e)), SplitChars(Decoded(Upto(c, e)), from))

LEMMA ToldIs ==
    ASSUME NEW c \in Texts, NEW e \in 0 .. Len(c), NEW from \in Nat
    PROVE  \E w \in 0 .. e : \E r \in 0 .. w :
              /\ Edge(c, w) /\ \A n \in 0 .. e : Edge(c, n) => n <= w
              /\ w = ValidUpTo(Piece(c, 0, e))
              /\ Edge(c, r) /\ Count(c, r) <= from /\ (r = w \/ Count(c, r) = from)
              /\ Told(c, e, from) = Piece(c, r, w)
<1> DEFINE w == 0 + ValidUpTo(Piece(c, 0, e))
           r == 0 + SplitChars(Piece(c, 0, w), from)
<1>0. 0 \in 0 .. e /\ Edge(c, 0) /\ e \in Nat /\ Len(c) \in Nat /\ Upto(c, e) = Piece(c, 0, e) /\ Count(c, 0) = 0
  BY StartIsEdge, PieceEnds, NoneYet DEF Texts
<1>1. /\ w \in 0 .. e /\ Edge(c, w) /\ (\A n \in 0 .. e : Edge(c, n) => n <= w)
      /\ Decoded(Piece(c, 0, e)) = Piece(c, 0, w)
  BY <1>0, ValidFrom
<1>2. ValidUpTo(Piece(c, 0, e)) \in Nat
  <2>1. Piece(c, 0, e) \in Texts
    BY FirstOf
  <2>2. ValidUpTo(Piece(c, 0, e)) \in 0 .. Len(Piece(c, 0, e))
    BY <2>1, ValidIs
  <2> QED
    BY <2>1, <2>2 DEF Texts
<1>3. w = ValidUpTo(Piece(c, 0, e))
  BY <1>2
<1> HIDE DEF w
<1>4. w \in 0 .. Len(c) /\ 0 \in 0 .. w
  BY <1>0, <1>1
<1>5. /\ r \in 0 .. w /\ Edge(c, r) /\ Count(c, r) <= Count(c, 0) + from /\ (r = w \/ Count(c, r) = Count(c, 0) + from)
      /\ After(Piece(c, 0, w), SplitChars(Piece(c, 0, w), from)) = Piece(c, r, w)
  <2>1. Edge(c, 0) /\ Edge(c, w) /\ w \in 0 .. Len(c) /\ 0 \in 0 .. w
    BY <1>0, <1>1, <1>4
  <2> QED
    BY <2>1, SplitFrom
<1> HIDE DEF r
<1>6. Told(c, e, from) = Piece(c, r, w)
  BY <1>0, <1>1, <1>5 DEF Told
<1>7. Count(c, r) <= from /\ (r = w \/ Count(c, r) = from)
  BY <1>0, <1>5
<1> QED
  BY <1>1, <1>3, <1>5, <1>6, <1>7

\* What is gathered and the window after it are the text read, or the first part of it.
LEMMA WindowsMakeText ==
    ASSUME NEW c \in Texts, NEW e \in 0 .. Len(c), NEW g \in Texts, NEW from \in Nat, NEW to \in Nat,
           Gathered(c, g, from, to),
           NEW q \in 0 .. e, NEW b \in 0 .. q, NEW t, NEW skip \in Nat, Window(c, t, skip, to, b, q),
           skip > 0 => \A n \in 0 .. Len(c) : Edge(c, n) => n <= q
    PROVE  /\ IsPrefix(g \o t, Told(c, e, from))
           /\ (\A n \in 0 .. e : Edge(c, n) => n <= q) => g \o t = Told(c, e, from)
<1>0. PICK w \in 0 .. e : \E r \in 0 .. w :
              /\ Edge(c, w) /\ \A n \in 0 .. e : Edge(c, n) => n <= w
              /\ w = ValidUpTo(Piece(c, 0, e))
              /\ Edge(c, r) /\ Count(c, r) <= from /\ (r = w \/ Count(c, r) = from)
              /\ Told(c, e, from) = Piece(c, r, w)
  BY ToldIs
<1>1. PICK r \in 0 .. w :
              /\ Edge(c, w) /\ \A n \in 0 .. e : Edge(c, n) => n <= w
              /\ w = ValidUpTo(Piece(c, 0, e))
              /\ Edge(c, r) /\ Count(c, r) <= from /\ (r = w \/ Count(c, r) = from)
              /\ Told(c, e, from) = Piece(c, r, w)
  BY <1>0
<1>2. /\ Edge(c, b) /\ Edge(c, q) /\ t = Piece(c, b, q) /\ Count(c, b) + skip = to /\ (skip > 0 => b = q)
  BY DEF Window
<1>3. /\ Len(c) \in Nat /\ e \in Nat /\ q \in Nat /\ b \in Nat /\ w \in Nat /\ r \in Nat
      /\ w \in 0 .. Len(c) /\ r \in 0 .. Len(c) /\ q \in 0 .. Len(c) /\ b \in 0 .. Len(c) /\ b <= q
  BY DEF Texts
<1>4. q <= w
  BY <1>1, <1>2
<1>5. t \in Texts /\ <<>> \o t = t
  BY <1>2, <1>3, PieceOf DEF Texts
\* The text begins where the reader began, as soon as that character is there.
<1>6. ASSUME NEW p \in 0 .. q, Edge(c, p), Count(c, p) = from, g \o t = Piece(c, p, q)
      PROVE  /\ IsPrefix(g \o t, Told(c, e, from))
             /\ (\A n \in 0 .. e : Edge(c, n) => n <= q) => g \o t = Told(c, e, from)
  <2>1. p \in 0 .. Len(c) /\ p \in Nat /\ p <= q /\ q \in 0 .. w
    BY <1>3, <1>4, <1>6
  <2>2. r = p
    <3>1. Count(c, w) \in Nat /\ (Count(c, w) <= Count(c, p) <=> w <= p) /\ (Count(c, w) = Count(c, p) => w = p)
      BY <1>1, <1>3, <1>6, <2>1, EdgesMeet
    <3>2. Count(c, r) = Count(c, p) => r = p
      BY <1>1, <1>3, <1>6, <2>1, EdgesMeet
    <3> QED
      BY <1>1, <1>3, <1>4, <1>6, <2>1, <3>1, <3>2
  <2>3. IsPrefix(Piece(c, p, q), Piece(c, p, w))
    BY <1>3, <2>1, PrefixOf
  <2>4. (\A n \in 0 .. e : Edge(c, n) => n <= q) => q = w
    BY <1>1, <1>3, <1>4
  <2> QED
    BY <1>1, <1>6, <2>2, <2>3, <2>4
<1>7. CASE g = <<>> /\ to = from /\ skip = 0
  <2>1. Count(c, b) = from /\ g \o t = Piece(c, b, q)
    <3>1. Count(c, b) \in Nat
      BY <1>3, CountOf
    <3> QED
      BY <1>2, <1>5, <1>7, <3>1
  <2> QED
    BY <1>2, <1>6, <2>1
<1>8. CASE g = <<>> /\ to = from /\ skip > 0
  <2>1. b = q /\ w = q
    BY <1>1, <1>2, <1>3, <1>4, <1>8
  <2>2. Count(c, q) \in Nat /\ Count(c, q) < from /\ Count(c, r) <= Count(c, q)
    <3>1. Count(c, q) \in Nat
      BY <1>3, CountOf
    <3>2. Count(c, r) <= Count(c, w)
      BY <1>3, CountGrows
    <3> QED
      BY <1>2, <1>8, <2>1, <3>1, <3>2
  <2>3. r = w
    <3>1. Count(c, r) \in Nat
      BY <1>3, CountOf
    <3> QED
      BY <1>1, <2>2, <3>1
  <2>4. g \o t = Piece(c, q, q) /\ Told(c, e, from) = Piece(c, q, q)
    BY <1>1, <1>2, <1>5, <1>8, <2>1, <2>3
  <2>5. q \in 0 .. q
    BY <1>3
  <2>6. IsPrefix(Piece(c, q, q), Piece(c, q, q))
    BY <1>3, <2>5, PrefixOf
  <2> QED
    BY <2>4, <2>6
<1>9. CASE \E q0 \in 0 .. Len(c) : \E p \in 0 .. q0 :
               /\ Edge(c, p) /\ Edge(c, q0) /\ g = Piece(c, p, q0)
               /\ Count(c, p) = from /\ Count(c, q0) = to
  <2>1. PICK q0 \in 0 .. Len(c) : \E p \in 0 .. q0 :
               /\ Edge(c, p) /\ Edge(c, q0) /\ g = Piece(c, p, q0)
               /\ Count(c, p) = from /\ Count(c, q0) = to
    BY <1>9
  <2>2. PICK p \in 0 .. q0 :
               /\ Edge(c, p) /\ Edge(c, q0) /\ g = Piece(c, p, q0)
               /\ Count(c, p) = from /\ Count(c, q0) = to
    BY <2>1
  <2>3. Count(c, b) \in Nat /\ (Count(c, q0) <= Count(c, b) <=> q0 <= b) /\ (Count(c, q0) = Count(c, b) => q0 = b)
    BY <1>2, <1>3, <2>2, EdgesMeet
  <2>4. skip = 0
    <3>1. SUFFICES ASSUME skip > 0 PROVE FALSE
      OBVIOUS
    <3>2. b = q /\ q0 <= q
      BY <1>2, <2>2, <3>1
    <3> QED
      BY <1>2, <2>2, <2>3, <3>1, <3>2
  <2>5. q0 = b
    BY <1>2, <2>2, <2>3, <2>4
  <2>6. g \o t = Piece(c, p, q) /\ p \in 0 .. q
    <3>1. p \in 0 .. b /\ b \in 0 .. q
      BY <1>3, <2>5
    <3>2. Piece(c, p, b) \o Piece(c, b, q) = Piece(c, p, q)
      BY <1>3, <3>1, Glue
    <3> QED
      BY <1>2, <1>3, <2>2, <2>5, <3>1, <3>2
  <2> QED
    BY <1>6, <2>2, <2>6
<1> QED
  BY <1>7, <1>8, <1>9 DEF Gathered

-----------------------------------------------------------------------------
(* The steps of a call                                                     *)

\* A read gives some bytes, and no more than there are.
LEMMA ReadsAreThere ==
    ASSUME WindowTypes, NEW n \in Reads
    PROVE  n \in Nat /\ consumed \in 0 .. consumed + n /\ consumed + n \in 0 .. Len(content)
<1> DEFINE k == Len(content) - consumed
<1>1. consumed \in Nat /\ Len(content) \in Nat /\ ReadSize \in Nat /\ k \in Nat /\ consumed + k = Len(content)
  BY WindowAssumption DEF WindowTypes, Texts
<1> HIDE DEF k
<1>2. Min({ReadSize, k}) \in Int /\ Min({ReadSize, k}) <= k
  <2> DEFINE S == {ReadSize, k}
  <2>1. \E x \in S : \A y \in S : x <= y
    BY <1>1
  <2>2. Min(S) \in S /\ \A y \in S : Min(S) <= y
    BY <2>1 DEF Min
  <2> QED
    BY <1>1, <2>2
<1>3. n \in 1 .. Min({ReadSize, k})
  BY DEF Reads, k
<1> QED
  BY <1>1, <1>2, <1>3

\* What is pending and what a read gives are one piece of the file.
LEMMA ReadOn ==
    ASSUME WindowTypes, NEW v \in 0 .. consumed, Undecoded(content, pending, v, consumed), NEW n \in Reads
    PROVE  pending \o SubSeq(content, consumed + 1, consumed + n) = Piece(content, v, consumed + n)
<1>1. content \in Texts /\ v \in 0 .. consumed /\ consumed \in 0 .. consumed + n /\ consumed + n \in 0 .. Len(content)
  BY ReadsAreThere DEF WindowTypes
<1>2. Piece(content, v, consumed) \o Piece(content, consumed, consumed + n) = Piece(content, v, consumed + n)
  BY <1>1, Glue
<1> QED
  BY <1>2 DEF Undecoded, Piece

\* What consume_chars does with the characters from v to w.
LEMMA Consumed ==
    ASSUME WindowTypes, NEW w \in 0 .. Len(content), NEW v \in 0 .. w, NEW b \in 0 .. v, Edge(content, w),
           Window(content, text, skipping, offset, b, v), Chars(text) < room,
           NEW step, step = Consume(Piece(content, v, w))
    PROVE  /\ step.skip \in Nat /\ step.text \in Texts /\ step.full \in BOOLEAN /\ step.more \in BOOLEAN
           /\ w = v => ~step.full
           /\ \E q \in v .. w : \E a \in 0 .. q :
                 /\ Window(content, step.text, step.skip, offset, a, q)
                 /\ step.full => step.skip = 0 /\ Chars(step.text) = room /\ (step.more <=> q # w)
                 /\ ~step.full => q = w /\ Chars(step.text) < room
<1> DEFINE c == content
           valid == Piece(c, v, w)
           s1 == SplitChars(valid, skipping)
           r1 == v + s1
           rest == After(valid, s1)
           left == skipping - Chars(Upto(valid, s1))
           free == room - Chars(text)
           s2 == SplitChars(rest, free)
           r2 == r1 + s2
           take == IF left > 0 THEN 0 ELSE s2
           new == text \o Upto(rest, take)
<1>0. /\ step.skip = left /\ step.text = new
      /\ step.full \in BOOLEAN /\ (step.full <=> (left = 0 /\ Chars(new) >= room))
      /\ step.more \in BOOLEAN /\ (step.more <=> (take < Len(rest)))
  <2>1. step = [skip |-> left, text |-> new, full |-> left = 0 /\ Chars(new) >= room, more |-> take < Len(rest)]
    BY DEF Consume
  <2> DEFINE full == left = 0 /\ Chars(new) >= room
             more == take < Len(rest)
  <2>2. full \in BOOLEAN /\ more \in BOOLEAN
    OBVIOUS
  <2>3. step = [skip |-> left, text |-> new, full |-> full, more |-> more]
    BY <2>1
  <2> HIDE DEF full, more, left, new
  <2>4. step.skip = left /\ step.text = new /\ step.full = full /\ step.more = more
    BY <2>3
  <2>5. step.full \in BOOLEAN /\ (step.full <=> full) /\ step.more \in BOOLEAN /\ (step.more <=> more)
    BY <2>2, <2>4, Zenon
  <2> QED
    BY <2>4, <2>5, Zenon DEF full, more
<1>1. /\ c \in Texts /\ Len(c) \in Nat /\ w \in Nat /\ v \in Nat /\ b \in Nat /\ b <= v /\ v <= w
      /\ skipping \in Nat /\ room \in Nat \ {0} /\ offset \in Nat
      /\ v \in 0 .. Len(c) /\ b \in 0 .. Len(c)
  BY DEF WindowTypes, Texts
<1>2. /\ Edge(c, b) /\ Edge(c, v) /\ text = Piece(c, b, v) /\ Count(c, b) + skipping = offset
      /\ skipping > 0 => b = v
  BY DEF Window
<1>3. text \in Texts /\ Chars(text) \in Nat /\ free \in Nat \ {0} /\ Chars(text) = Count(c, v) - Count(c, b)
      /\ Count(c, v) \in Nat /\ Count(c, b) \in Nat
  <2>1. Chars(text) = Count(c, v) - Count(c, b)
    BY <1>1, <1>2, CharsOfPiece
  <2>2. text \in Texts /\ Chars(text) \in Nat /\ Count(c, v) \in Nat /\ Count(c, b) \in Nat
    BY <1>1, CharsOf, CountOf DEF WindowTypes
  <2> QED
    BY <1>1, <2>1, <2>2
<1>4. /\ r1 \in v .. w /\ Edge(c, r1) /\ Count(c, r1) <= Count(c, v) + skipping
      /\ r1 = w \/ Count(c, r1) = Count(c, v) + skipping
      /\ Upto(valid, s1) = Piece(c, v, r1) /\ rest = Piece(c, r1, w)
  BY <1>1, <1>2, SplitFrom
<1> HIDE DEF r1, rest, free
<1>5. r1 \in 0 .. w /\ r1 \in 0 .. Len(c) /\ r1 \in Nat
  BY <1>1, <1>4
<1>6. /\ r2 \in r1 .. w /\ Edge(c, r2) /\ Count(c, r2) <= Count(c, r1) + free
      /\ r2 = w \/ Count(c, r2) = Count(c, r1) + free
      /\ Upto(rest, s2) = Piece(c, r1, r2)
  <2> DEFINE x == Piece(c, r1, w)
             m == r1 + SplitChars(x, free)
  <2>1. /\ m \in r1 .. w /\ Edge(c, m) /\ Count(c, m) <= Count(c, r1) + free
        /\ m = w \/ Count(c, m) = Count(c, r1) + free
        /\ Upto(x, SplitChars(x, free)) = Piece(c, r1, m)
    <3>1. free \in Nat /\ c \in Texts /\ w \in 0 .. Len(c) /\ r1 \in 0 .. w /\ Edge(c, r1) /\ Edge(c, w)
      BY <1>1, <1>3, <1>4, <1>5
    <3> HIDE DEF c
    <3> QED
      BY <3>1, SplitFrom
  <2>2. rest = x
    BY <1>4
  <2> HIDE DEF x
  <2> QED
    BY <2>1, <2>2
<1>7. Count(c, r1) \in Nat /\ left = skipping - (Count(c, r1) - Count(c, v)) /\ left \in Nat
  <2>1. Count(c, r1) \in Nat /\ Count(c, v) <= Count(c, r1)
    BY <1>1, <1>4, <1>5, CountGrows
  <2>2. Chars(Piece(c, v, r1)) = Count(c, r1) - Count(c, v)
    <3>1. v \in 0 .. r1
      BY <1>1, <1>4
    <3> QED
      BY <1>1, <1>5, <3>1, CharsOfPiece
  <2> QED
    BY <1>1, <1>3, <1>4, <2>1, <2>2
<1>8. rest \in Texts /\ Len(rest) = w - r1
  BY <1>1, <1>4, <1>5, PieceOf
<1>9. r2 \in 0 .. Len(c) /\ r2 \in Nat /\ r1 <= r2 /\ r2 <= w /\ (s2 < Len(rest) <=> r2 # w)
  <2>1. s2 = r2 - r1
    <3>1. SplitChars(rest, free) \in Int
      <4>1. Edge(rest, Len(rest))
        <5>1. w - r1 \in 0 .. w - r1 /\ r1 + (w - r1) = w
          BY <1>1, <1>4, <1>5
        <5> QED
          BY <1>1, <1>4, <1>5, <1>8, <5>1, EdgeOfPiece
      <4>2. SplitChars(rest, free) \in 0 .. Len(rest)
        BY <1>3, <1>8, <4>1, SplitIs
      <4> QED
        BY <4>2
    <3> QED
      BY <1>5, <3>1
  <2> HIDE DEF s2, r2
  <2> QED
    BY <1>1, <1>5, <1>6, <1>8, <2>1
<1> HIDE DEF s1, left, s2, r2, valid
\* Characters are left to skip: all were skipped.
<1>10. CASE left > 0
  <2>1. r1 = w /\ skipping > 0 /\ b = v /\ text = <<>>
    <3>1. skipping > 0
      <4>1. skipping = 0 => Count(c, v) <= Count(c, r1)
        BY <1>1, <1>4, <1>5, CountGrows
      <4> QED
        BY <1>1, <1>3, <1>4, <1>7, <1>10, <4>1
    <3>2. r1 = w
      BY <1>1, <1>3, <1>4, <1>7, <1>10
    <3> QED
      BY <1>1, <1>2, <3>1, <3>2, PieceEnds
  <2>2. new = <<>> /\ Chars(new) = 0 /\ new \in Texts
    <3>1. Upto(rest, 0) = <<>>
      <4>1. 0 \in 0 .. Len(rest)
        BY <1>8 DEF Texts
      <4> QED
        BY <1>8, <4>1, PieceEnds
    <3>2. new = <<>>
      BY <1>10, <2>1, <3>1
    <3>3. Chars(<<>>) = 0
      <4>1. Count(c, 0) = 0 /\ Piece(c, 0, 0) = <<>>
        BY <1>1, NoneYet, PieceEnds
      <4> QED
        BY <4>1 DEF Count
    <3>4. <<>> \in Texts
      BY DEF Texts
    <3> HIDE DEF new
    <3> QED
      BY <3>2, <3>3, <3>4
  <2>3. Window(c, new, left, offset, w, w)
    <3>1. Piece(c, w, w) = <<>>
      BY <1>1, PieceEnds
    <3>2. Count(c, w) + left = offset
      BY <1>1, <1>2, <1>3, <1>7, <2>1
    <3> QED
      BY <2>2, <3>1, <3>2 DEF Window
  <2>4. w \in v .. w /\ w \in 0 .. w
    BY <1>1
  <2>5. step.skip = left /\ step.text = new
    BY <1>0
  <2>6. step.full \in BOOLEAN /\ ~step.full
    BY <1>0, <1>7, <1>10
  <2>7. step.more \in BOOLEAN
    BY <1>0
  <2> HIDE DEF new, take, c
  <2>8. Chars(step.text) < room
    BY <1>1, <2>2, <2>5
  <2>9. Window(content, step.text, step.skip, offset, w, w)
    BY <2>3, <2>5 DEF c
  <2> QED
    BY <1>7, <2>2, <2>4, <2>5, <2>6, <2>7, <2>8, <2>9
\* None is: the window goes on from v, or begins at r1.
<1>11. CASE left = 0
  <2> DEFINE a == IF skipping = 0 THEN b ELSE r1
  <2>1. a \in 0 .. r1 /\ a \in 0 .. r2 /\ Edge(c, a) /\ Count(c, a) = offset /\ new = Piece(c, a, r2)
    <3>0. new = text \o Piece(c, r1, r2)
      BY <1>6, <1>11
    <3> HIDE DEF new
    <3>1. CASE skipping = 0
      <4>1. r1 = v
        <5>1. Count(c, r1) <= Count(c, v) <=> r1 <= v
          BY <1>1, <1>2, <1>4, <1>5, EdgesMeet
        <5> QED
          BY <1>1, <1>3, <1>4, <1>5, <1>7, <3>1, <5>1
      <4>2. Piece(c, b, v) \o Piece(c, v, r2) = Piece(c, b, r2)
        <5>1. v \in 0 .. r2 /\ b \in 0 .. v
          BY <1>1, <1>9, <4>1
        <5> QED
          BY <1>1, <1>9, <5>1, Glue
      <4> QED
        BY <1>1, <1>2, <1>3, <1>9, <3>0, <3>1, <4>1, <4>2
    <3>2. CASE skipping > 0
      <4>1. text = <<>> /\ b = v
        BY <1>1, <1>2, <3>2, PieceEnds
      <4>2. new = Piece(c, r1, r2)
        <5>1. Piece(c, r1, r2) \in Texts
          <6>1. r1 \in 0 .. r2
            BY <1>5, <1>9
          <6> QED
            BY <1>1, <1>9, <6>1, PieceOf
        <5> QED
          BY <3>0, <4>1, <5>1 DEF Texts
      <4>3. Count(c, r1) = offset
        BY <1>1, <1>2, <1>3, <1>7, <1>11, <4>1
      <4> QED
        BY <1>4, <1>5, <1>9, <3>2, <4>2, <4>3
    <3> QED
      BY <1>1, <3>1, <3>2
  <2>2. Chars(new) = Chars(text) + (Count(c, r2) - Count(c, r1)) /\ Count(c, r2) \in Nat /\ Count(c, r1) <= Count(c, r2)
        /\ new \in Texts /\ Chars(new) \in Nat
    <3>1. Chars(Piece(c, a, r2)) = Count(c, r2) - Count(c, a) /\ Piece(c, a, r2) \in Texts
      BY <1>1, <1>9, <2>1, CharsOfPiece, PieceOf
    <3>2. Count(c, r2) \in Nat /\ Count(c, r1) <= Count(c, r2)
      <4>1. r1 \in 0 .. r2
        BY <1>5, <1>9
      <4> QED
        BY <1>1, <1>9, <4>1, CountGrows
    <3>3. Chars(text) = Count(c, r1) - Count(c, a)
      <4>1. CASE skipping = 0
        BY <1>3, <1>7, <1>11, <4>1
      <4>2. CASE skipping > 0
        <5>1. b = v /\ a = r1
          BY <1>2, <4>2
        <5> HIDE DEF a, c
        <5> QED
          BY <1>3, <1>7, <5>1
      <4> QED
        BY <1>1, <4>1, <4>2
    <3>4. Chars(new) \in Nat
      BY <2>1, <3>1, CharsOf
    <3> HIDE DEF new, a
    <3>5. Count(c, a) \in Nat
      <4>1. a \in 0 .. Len(c)
        BY <1>1, <1>5, <2>1
      <4> QED
        BY <1>1, <4>1, CountOf
    <3> QED
      BY <1>3, <1>7, <2>1, <3>1, <3>2, <3>3, <3>4, <3>5
  <2>3. Window(c, new, left, offset, a, r2)
    BY <1>1, <1>2, <1>6, <1>11, <2>1 DEF Window
  <2>4. take = s2
    BY <1>11
  <2> HIDE DEF new, take, a
  <2>a. step.full \in BOOLEAN /\ (step.full <=> (left = 0 /\ Chars(new) >= room))
    BY <1>0 DEF take, new
  <2>b. step.more \in BOOLEAN /\ (step.more <=> (take < Len(rest)))
    BY <1>0 DEF take
  <2>c. step.skip = left /\ step.text = new
    BY <1>0 DEF take, new
  <2>5. /\ step.skip = 0 /\ step.text = new /\ step.full \in BOOLEAN /\ (step.full <=> Chars(new) >= room)
        /\ step.more \in BOOLEAN /\ (step.more <=> r2 # w)
    BY <1>9, <1>11, <2>4, <2>a, <2>b, <2>c
  <2>6. Chars(new) <= room /\ (Chars(new) < room => r2 = w)
    <3>1. free = room - Chars(text)
      BY DEF free
    <3>2. Count(c, r2) <= Count(c, r1) + free /\ (r2 = w \/ Count(c, r2) = Count(c, r1) + free)
      BY <1>6
    <3>3. Chars(new) = Chars(text) + (Count(c, r2) - Count(c, r1)) /\ Count(c, r2) \in Nat
      BY <2>2
    <3>4. Chars(text) \in Nat /\ Count(c, r1) \in Nat /\ room \in Nat
      BY <1>1, <1>3, <1>7
    <3> HIDE DEF c
    <3> QED
      BY <3>1, <3>2, <3>3, <3>4
  <2>7. w = v => Chars(new) < room
    <3>1. w = v => r1 = r2
      BY <1>1, <1>4, <1>9
    <3> QED
      BY <1>1, <1>3, <1>7, <2>2, <3>1
  <2>8. r2 \in v .. w
    BY <1>1, <1>4, <1>9
  <2>9. step.full => Chars(new) = room
    BY <1>1, <2>2, <2>5, <2>6
  <2>10. ~step.full => r2 = w /\ Chars(new) < room
    BY <1>1, <2>2, <2>5, <2>6
  <2>11. w = v => ~step.full
    BY <1>1, <2>2, <2>5, <2>7
  <2>12. Window(content, step.text, step.skip, offset, a, r2)
    BY <1>11, <2>3, <2>5
  <2> QED
    BY <2>1, <2>2, <2>5, <2>8, <2>9, <2>10, <2>11, <2>12
<1> QED
  BY <1>7, <1>10, <1>11

-----------------------------------------------------------------------------
\* A character that ends beyond q: the text has more than the characters up to q.
LEMMA MoreThere ==
    ASSUME NEW c \in Texts, NEW w \in 0 .. Len(c), NEW q \in 0 .. w, q # w, Edge(c, q), Edge(c, w)
    PROVE  Chars(Decoded(c)) > Count(c, q)
<1> DEFINE u == ValidUpTo(c)
<1>1. Len(c) \in Nat /\ w \in Nat /\ q \in Nat /\ q < w /\ q \in 0 .. Len(c)
  BY DEF Texts
<1>2. u \in 0 .. Len(c) /\ w <= u /\ Decoded(c) = Piece(c, 0, u)
  BY ValidIs
<1>3. Chars(Decoded(c)) = Count(c, u)
  BY <1>2 DEF Count
<1> HIDE DEF u
<1>4. w \in 0 .. u
  BY <1>1, <1>2
<1>5. Count(c, q) < Count(c, w) /\ Count(c, w) <= Count(c, u) /\ Count(c, q) \in Nat /\ Count(c, w) \in Nat /\ Count(c, u) \in Nat
  <2>1. Count(c, q) < Count(c, w) /\ Count(c, q) \in Nat
    BY <1>1, CountGrows
  <2>2. Count(c, w) <= Count(c, u) /\ Count(c, w) \in Nat /\ Count(c, u) \in Nat
    BY <1>2, <1>4, CountGrows
  <2> QED
    BY <2>1, <2>2
<1> QED
  BY <1>3, <1>5

LEMMA InvalidOn ==
    ASSUME NEW c \in Texts, NEW e \in 0 .. Len(c), NEW v \in 0 .. e, Edge(c, v), Invalid(Piece(c, v, e))
    PROVE  /\ Invalid(c) /\ ~WellFormed(c)
           /\ \A n \in 0 .. Len(c) : Edge(c, n) => n <= v + ValidUpTo(Piece(c, v, e))
<1>1. Invalid(Piece(c, 0, e)) /\ ValidUpTo(Piece(c, 0, e)) = v + ValidUpTo(Piece(c, v, e))
  BY ValidFromStart
<1>2. Invalid(c) /\ \A n \in 0 .. Len(c) : Edge(c, n) => n <= ValidUpTo(Piece(c, 0, e))
  BY <1>1, StaysInvalid
<1>3. ~WellFormed(c)
  <2>1. Len(c) \in 0 .. Len(c) /\ ValidUpTo(c) < Len(c) /\ Len(c) \in Nat /\ ValidUpTo(c) \in Nat
    BY <1>2, ValidIs DEF Invalid, Texts
  <2>2. ~Edge(c, Len(c))
    BY <2>1, ValidIs
  <2> QED
    BY <2>2, WholeText
<1> QED
  BY <1>1, <1>2, <1>3

LEMMA WindowEnd ==
    ASSUME NEW c \in Texts, NEW q \in 0 .. Len(c), NEW b \in 0 .. q, NEW from \in Nat, NEW t, Window(c, t, 0, from, b, q)
    PROVE  Count(c, b) = from /\ Count(c, q) = from + Chars(t) /\ t \in Texts /\ Chars(t) \in Nat
<1>1. q \in Nat /\ b \in 0 .. Len(c)
  BY DEF Texts
<1>2. t = Piece(c, b, q) /\ Count(c, b) \in Nat /\ Count(c, q) \in Nat
  BY <1>1, CountOf DEF Window
<1>3. Count(c, b) = from
  BY <1>2 DEF Window
<1>4. t \in Texts /\ Chars(t) \in Nat /\ Chars(t) = Count(c, q) - Count(c, b)
  BY <1>1, <1>2, PieceOf, CharsOf, CharsOfPiece
<1> QED
  BY <1>2, <1>3, <1>4

\* Nothing whole is left in what is not decoded.
LEMMA LastEdge ==
    ASSUME NEW c \in Texts, NEW e \in 0 .. Len(c), NEW v \in 0 .. e, Edge(c, v), NEW p, Undecoded(c, p, v, e)
    PROVE  /\ \A n \in 0 .. e : Edge(c, n) => n <= v
           /\ ~Invalid(Piece(c, 0, e))
           /\ p # <<>> => v # e
<1> DEFINE x == Piece(c, v, e)
           w == v + ValidUpTo(x)
<1>0. e \in Nat /\ v \in Nat /\ Len(c) \in Nat /\ v <= e /\ p = x /\ x \in {<<>>, <<"h">>}
  BY DEF Undecoded, Texts
<1>1. x \in Texts /\ Len(x) = e - v /\ \A i \in 1 .. e - v : x[i] = c[v + i]
  BY PieceOf
<1>2. /\ w \in v .. e /\ Edge(c, w) /\ (\A n \in 0 .. e : Edge(c, n) => n <= w)
      /\ (~Invalid(x) <=> Piece(c, w, e) \in {<<>>, <<"h">>})
  BY ValidFrom
<1>3. Invalid(Piece(c, 0, e)) <=> Invalid(x)
  BY ValidFromStart
<1> HIDE DEF x, w
<1>4. w = v
  <2>1. CASE x = <<>>
    BY <1>0, <1>1, <1>2, <2>1
  <2>2. CASE x = <<"h">>
    <3>1. e = v + 1 /\ c[e] = "h"
      BY <1>0, <1>1, <2>2
    <3>2. ~Edge(c, e)
      BY <1>0, <3>1 DEF Edge
    <3> QED
      BY <1>0, <1>2, <3>1, <3>2
  <2> QED
    BY <1>0, <2>1, <2>2
<1>5. Piece(c, v, e) = x
  BY DEF x
<1>6. v = e => x = <<>>
  BY <1>0, <1>5, PieceEnds
<1> QED
  BY <1>0, <1>2, <1>3, <1>4, <1>5, <1>6

-----------------------------------------------------------------------------
LEMMA WindowStart == WindowInit => WindowIndInv
<1> SUFFICES ASSUME WindowInit PROVE WindowIndInv
  OBVIOUS
<1>1. content \in Texts
  BY WindowAssumption DEF WindowInit, Texts
<1>2. WindowTypes
  BY <1>1, WindowAssumption DEF WindowInit, WindowTypes, Texts
<1> QED
  BY <1>2 DEF WindowInit, WindowIndInv, Gathered, ReadingShape, MoreShape

LEMMA OpenStep == ASSUME WindowIndInv, OpenWindow PROVE WindowIndInv'
<1>1. WindowTypes'
  BY DEF WindowIndInv, OpenWindow, WindowTypes, Texts
<1>2. Gathered(content', got', start', offset')
  BY DEF WindowIndInv, OpenWindow
<1>3. Undecoded(content', pending', 0, consumed') /\ Window(content', text', skipping', offset', 0, 0) /\ Chars(text') < room'
  <2>1. content' \in Texts /\ consumed' = 0 /\ pending' = <<>> /\ text' = <<>> /\ skipping' = offset' /\ offset' \in Nat
        /\ room' \in Nat \ {0}
    BY <1>1 DEF OpenWindow, WindowTypes
  <2>2. Piece(content', 0, 0) = <<>> /\ Edge(content', 0) /\ Count(content', 0) = 0
    <3>1. 0 \in 0 .. Len(content')
      BY <2>1 DEF Texts
    <3> QED
      BY <2>1, <3>1, PieceEnds, StartIsEdge, NoneYet
  <2>3. Chars(text') = 0
    BY <2>1, <2>2 DEF Count
  <2> QED
    BY <2>1, <2>2, <2>3 DEF Undecoded, Window
<1>4. rw' = "loop" /\ 0 \in 0 .. consumed' /\ 0 \in 0 .. 0
  BY DEF OpenWindow
<1>5. ReadingShape' /\ MoreShape'
  BY <1>3, <1>4 DEF ReadingShape, MoreShape
<1> QED
  BY <1>1, <1>2, <1>4, <1>5 DEF WindowIndInv

\* Where the window stands: what a step of the loop needs.
LEMMA Reading ==
    ASSUME WindowIndInv, rw \in {"loop", "peek"}
    PROVE  \E v \in 0 .. consumed : \E b \in 0 .. v :
            /\ Undecoded(content, pending, v, consumed)
            /\ Window(content, text, skipping, offset, b, v)
            /\ rw = "loop" => Chars(text) < room
            /\ rw = "peek" => skipping = 0 /\ Chars(text) = room
BY DEF WindowIndInv, ReadingShape

\* The window that a call of the loop or of has_more_chars ends with, at q, is a part of the text read.
LEMMA EndedWindow ==
    ASSUME NEW c \in Texts, NEW e \in 0 .. Len(c), NEW g \in Texts, NEW from \in Nat, NEW to \in Nat,
           Gathered(c, g, from, to),
           NEW q \in 0 .. e, NEW b \in 0 .. q, NEW t, NEW skip \in Nat, Window(c, t, skip, to, b, q),
           \A n \in 0 .. Len(c) : Edge(c, n) => n <= q
    PROVE  IsPrefix(g \o t, Told(c, e, from)) /\ g \o t = Told(c, e, from)
<1>1. \A n \in 0 .. e : n \in 0 .. Len(c)
  BY DEF Texts
<1> QED
  BY <1>1, WindowsMakeText

LEMMA LoopReadsStep == ASSUME WindowIndInv, NEW n \in Reads, LoopReads(n) PROVE WindowIndInv'
<1> DEFINE c == content
           e == consumed + n
<1>1. WindowTypes /\ rw = "loop" /\ Gathered(c, got, start, offset)
  BY DEF WindowIndInv, LoopReads
<1>2. PICK v \in 0 .. consumed : \E b \in 0 .. v :
            /\ Undecoded(c, pending, v, consumed)
            /\ Window(c, text, skipping, offset, b, v)
            /\ Chars(text) < room
  BY <1>1, Reading
<1>3. PICK b \in 0 .. v :
            /\ Undecoded(c, pending, v, consumed)
            /\ Window(c, text, skipping, offset, b, v)
            /\ Chars(text) < room
  BY <1>2
<1>4. n \in Nat /\ consumed \in 0 .. e /\ e \in 0 .. Len(c)
  BY <1>1, ReadsAreThere
<1>5. /\ c \in Texts /\ v \in Nat /\ b \in Nat /\ e \in Nat /\ Len(c) \in Nat /\ v \in 0 .. e
      /\ Edge(c, v)
  BY <1>1, <1>3, <1>4 DEF WindowTypes, Texts, Window
<1> DEFINE y == Piece(c, v, e)
           w == v + ValidUpTo(y)
           step == Consume(Piece(c, v, w))
<1>6. pending \o SubSeq(content, consumed + 1, consumed + n) = y
  BY <1>1, <1>3, ReadOn
<1>7. /\ w \in v .. e /\ Edge(c, w) /\ (\A m \in 0 .. e : Edge(c, m) => m <= w)
      /\ Decoded(y) = Piece(c, v, w) /\ After(y, ValidUpTo(y)) = Piece(c, w, e)
      /\ (~Invalid(y) <=> Piece(c, w, e) \in {<<>>, <<"h">>})
  BY <1>4, <1>5, ValidFrom
<1>8. /\ consumed' = e /\ pending' = Piece(c, w, e) /\ skipping' = step.skip /\ text' = step.text
      /\ rw' = IF Piece(c, v, w) # <<>> /\ step.full
                 THEN IF step.more \/ Invalid(y) THEN "more" ELSE "peek"
                 ELSE IF Invalid(y) THEN "failed" ELSE "loop"
      /\ content' = c /\ start' = start /\ offset' = offset /\ room' = room /\ got' = got
  BY <1>6, <1>7, Zenon DEF LoopReads
<1>inv. Invalid(y) => Invalid(c) /\ ~WellFormed(c) /\ \A m \in 0 .. Len(c) : Edge(c, m) => m <= w
  BY <1>4, <1>5, InvalidOn
<1>9. w \in 0 .. Len(c) /\ v \in 0 .. w /\ w \in Nat
  BY <1>4, <1>5, <1>7
<1>10. /\ step.skip \in Nat /\ step.text \in Texts /\ step.full \in BOOLEAN /\ step.more \in BOOLEAN
       /\ w = v => ~step.full
       /\ \E q \in v .. w : \E a \in 0 .. q :
             /\ Window(c, step.text, step.skip, offset, a, q)
             /\ step.full => step.skip = 0 /\ Chars(step.text) = room /\ (step.more <=> q # w)
             /\ ~step.full => q = w /\ Chars(step.text) < room
  BY <1>1, <1>3, <1>7, <1>9, Consumed
<1> HIDE DEF y, w, step, e, c
<1>11. PICK q \in v .. w : \E a \in 0 .. q :
             /\ Window(c, step.text, step.skip, offset, a, q)
             /\ step.full => step.skip = 0 /\ Chars(step.text) = room /\ (step.more <=> q # w)
             /\ ~step.full => q = w /\ Chars(step.text) < room
  BY <1>10
<1>12. PICK a \in 0 .. q :
             /\ Window(c, step.text, step.skip, offset, a, q)
             /\ step.full => step.skip = 0 /\ Chars(step.text) = room /\ (step.more <=> q # w)
             /\ ~step.full => q = w /\ Chars(step.text) < room
  BY <1>11
<1>13. rw' = IF step.full THEN IF step.more \/ Invalid(y) THEN "more" ELSE "peek"
             ELSE IF Invalid(y) THEN "failed" ELSE "loop"
  <2>1. w # v => Piece(c, v, w) # <<>>
    <3>1. Len(Piece(c, v, w)) = w - v
      BY <1>5, <1>9, PieceOf
    <3>2. w # v => w - v # 0
      BY <1>5, <1>9
    <3> QED
      BY <3>1, <3>2
  <2>2. step.full => Piece(c, v, w) # <<>>
    BY <1>10, <2>1
  <2> QED
    BY <1>8, <2>2, Zenon
<1>14. WindowTypes'
  <2>1. rw' \in {"idle", "loop", "peek", "more", "whole", "failed"}
    BY <1>13
  <2>2. /\ consumed' \in 0 .. Len(content') /\ skipping' \in Nat /\ text' \in Texts /\ content' \in Texts
        /\ got' \in Texts /\ start' \in Nat /\ offset' \in Nat /\ room' \in Nat \ {0}
    BY <1>1, <1>4, <1>5, <1>8, <1>10 DEF WindowTypes
  <2> QED
    BY <2>1, <2>2 DEF WindowTypes
<1>15. Gathered(content', got', start', offset')
  BY <1>1, <1>8
<1>16. q \in 0 .. e /\ q \in 0 .. Len(c) /\ q \in 0 .. w /\ q \in Nat /\ w \in 0 .. e /\ w \in 0 .. Len(c)
  BY <1>4, <1>5, <1>7, <1>9
<1>17. Window(content', text', skipping', offset', a, q)
  BY <1>8, <1>12
<1>18. CASE step.full /\ (step.more \/ Invalid(y))
  <2>1. rw' = "more" /\ skipping' = 0 /\ Chars(text') = room'
    BY <1>8, <1>12, <1>13, <1>18
  <2>2. Chars(Decoded(c)) > offset + Chars(text') \/ Invalid(c)
    <3>1. CASE Invalid(y)
      BY <1>inv, <3>1
    <3>2. CASE step.more
      <4>1. q # w /\ Edge(c, q)
        BY <1>12, <1>18, <3>2 DEF Window
      <4>2. Chars(Decoded(c)) > Count(c, q)
        BY <1>5, <1>7, <1>16, <4>1, MoreThere
      <4>3. Window(c, text', 0, offset, a, q) /\ offset \in Nat
        BY <1>1, <1>8, <1>17, <2>1 DEF WindowTypes
      <4>4. Count(c, q) = offset + Chars(text')
        BY <1>5, <1>12, <1>16, <4>3, WindowEnd
      <4> QED
        BY <4>2, <4>4
    <3> QED
      BY <1>18, <3>1, <3>2
  <2>3. Chars(Decoded(content')) > NextOffset' \/ Invalid(content')
    BY <1>8, <2>2 DEF NextOffset
  <2>4. q \in 0 .. consumed'
    BY <1>8, <1>16
  <2>5. MoreShape' /\ ReadingShape'
    BY <1>17, <2>1, <2>3, <2>4 DEF MoreShape, ReadingShape
  <2> QED
    BY <1>14, <1>15, <2>1, <2>5 DEF WindowIndInv
<1>19. CASE step.full /\ ~step.more /\ ~Invalid(y)
  <2>1. rw' = "peek" /\ skipping' = 0 /\ Chars(text') = room' /\ q = w
    BY <1>8, <1>12, <1>13, <1>19
  <2>2. Undecoded(content', pending', q, consumed')
    BY <1>7, <1>8, <1>19, <2>1 DEF Undecoded
  <2>3. q \in 0 .. consumed'
    BY <1>8, <1>16
  <2>4. MoreShape' /\ ReadingShape'
    BY <1>17, <2>1, <2>2, <2>3 DEF MoreShape, ReadingShape
  <2> QED
    BY <1>14, <1>15, <2>1, <2>4 DEF WindowIndInv
<1>20. CASE ~step.full /\ ~Invalid(y)
  <2>1. rw' = "loop" /\ Chars(text') < room' /\ q = w
    BY <1>8, <1>12, <1>13, <1>20
  <2>2. Undecoded(content', pending', q, consumed')
    BY <1>7, <1>8, <1>20, <2>1 DEF Undecoded
  <2>3. q \in 0 .. consumed'
    BY <1>8, <1>16
  <2>4. MoreShape' /\ ReadingShape'
    BY <1>17, <2>1, <2>2, <2>3 DEF MoreShape, ReadingShape
  <2> QED
    BY <1>14, <1>15, <2>1, <2>4 DEF WindowIndInv
<1>21. CASE ~step.full /\ Invalid(y)
  <2>1. rw' = "failed" /\ Chars(text') < room' /\ q = w
    BY <1>8, <1>12, <1>13, <1>21
  <2>2. \A m \in 0 .. Len(c) : Edge(c, m) => m <= q
    BY <1>inv, <1>21, <2>1
  <2>3. IsPrefix(got \o text', Told(c, e, start))
    <3>1. Window(c, text', step.skip, offset, a, q) /\ got \in Texts /\ start \in Nat /\ offset \in Nat
      BY <1>1, <1>8, <1>12 DEF WindowTypes
    <3> QED
      BY <1>1, <1>4, <1>5, <1>10, <1>12, <1>16, <2>2, <3>1, EndedWindow
  <2>4. FollowedIsWhole'
    BY <1>8, <2>1, <2>3 DEF FollowedIsWhole, TextFrom, Told
  <2>5. WindowHasReason'
    BY <1>8, <1>inv, <1>21, <2>1 DEF WindowHasReason
  <2>6. MoreShape' /\ ReadingShape'
    BY <2>1 DEF MoreShape, ReadingShape
  <2> QED
    BY <1>14, <1>15, <2>4, <2>5, <2>6 DEF WindowIndInv, ReaderServed
<1> QED
  BY <1>10, <1>18, <1>19, <1>20, <1>21

\* A call that ends with the file has shown all there is of it.
LEMMA EndOfFile ==
    ASSUME WindowIndInv, rw \in {"loop", "peek"}, consumed = Len(content)
    PROVE  /\ got \o text = Told(content, consumed, start) /\ IsPrefix(got \o text, Told(content, consumed, start))
           /\ ~Invalid(Upto(content, consumed))
           /\ pending # <<>> => ~WellFormed(content)
           /\ rw = "loop" => Chars(text) < room
<1>1. PICK v \in 0 .. consumed : \E b \in 0 .. v :
            /\ Undecoded(content, pending, v, consumed)
            /\ Window(content, text, skipping, offset, b, v)
            /\ rw = "loop" => Chars(text) < room
  BY Reading
<1>2. PICK b \in 0 .. v :
            /\ Undecoded(content, pending, v, consumed)
            /\ Window(content, text, skipping, offset, b, v)
            /\ rw = "loop" => Chars(text) < room
  BY <1>1
<1>3. /\ content \in Texts /\ got \in Texts /\ start \in Nat /\ offset \in Nat /\ skipping \in Nat
      /\ consumed \in 0 .. Len(content) /\ Len(content) \in Nat /\ Gathered(content, got, start, offset)
      /\ Edge(content, v)
  BY <1>2 DEF WindowIndInv, WindowTypes, Window, Texts
<1>4. /\ \A n \in 0 .. consumed : Edge(content, n) => n <= v
      /\ ~Invalid(Piece(content, 0, consumed))
      /\ pending # <<>> => v # consumed
  BY <1>2, <1>3, LastEdge
<1>5. got \o text = Told(content, consumed, start) /\ IsPrefix(got \o text, Told(content, consumed, start))
  <2>1. \A n \in 0 .. Len(content) : Edge(content, n) => n <= v
    BY <1>4
  <2> DEFINE e == consumed
  <2>2. e \in 0 .. Len(content) /\ v \in 0 .. e /\ Window(content, text, skipping, offset, b, v)
    BY <1>2, <1>3
  <2> HIDE DEF e
  <2>3. got \o text = Told(content, e, start) /\ IsPrefix(got \o text, Told(content, e, start))
    BY <1>3, <2>1, <2>2, EndedWindow
  <2> QED
    BY <2>3 DEF e
<1>6. ~Invalid(Upto(content, consumed))
  BY <1>3, <1>4, PieceEnds
<1>7. pending # <<>> => ~WellFormed(content)
  <2>1. pending # <<>> => ~Edge(content, Len(content))
    BY <1>3, <1>4
  <2> QED
    BY <1>3, <2>1, WholeText
<1> QED
  BY <1>2, <1>5, <1>6, <1>7

LEMMA LoopEndsStep == ASSUME WindowIndInv, LoopEnds PROVE WindowIndInv'
<1>1. /\ got \o text = Told(content, consumed, start) /\ IsPrefix(got \o text, Told(content, consumed, start))
      /\ ~Invalid(Upto(content, consumed))
      /\ pending # <<>> => ~WellFormed(content)
      /\ Chars(text) < room
  BY EndOfFile DEF LoopEnds
<1>2. /\ content' = content /\ start' = start /\ offset' = offset /\ room' = room /\ consumed' = consumed
      /\ skipping' = skipping /\ text' = text /\ got' = got
      /\ rw' \in {"failed", "whole"} /\ (rw' = "failed" <=> pending # <<>>)
  BY DEF LoopEnds
<1>3. WindowTypes'
  BY <1>2 DEF WindowIndInv, WindowTypes
<1>4. Gathered(content', got', start', offset')
  BY <1>2 DEF WindowIndInv
<1>5. FollowedIsWhole'
  BY <1>1, <1>2 DEF FollowedIsWhole, TextFrom, Told
<1>6. WindowHasReason'
  BY <1>1, <1>2 DEF WindowHasReason
<1>7. ReadingShape' /\ MoreShape'
  BY <1>2 DEF ReadingShape, MoreShape
<1> QED
  BY <1>3, <1>4, <1>5, <1>6, <1>7 DEF WindowIndInv, ReaderServed

LEMMA PeekEndsStep == ASSUME WindowIndInv, PeekEnds PROVE WindowIndInv'
<1>1. /\ got \o text = Told(content, consumed, start) /\ IsPrefix(got \o text, Told(content, consumed, start))
      /\ ~Invalid(Upto(content, consumed))
  BY EndOfFile DEF PeekEnds
<1>2. /\ content' = content /\ start' = start /\ offset' = offset /\ room' = room /\ consumed' = consumed
      /\ skipping' = skipping /\ text' = text /\ got' = got /\ rw' = "whole"
  BY DEF PeekEnds
<1>3. WindowTypes'
  BY <1>2 DEF WindowIndInv, WindowTypes
<1>4. Gathered(content', got', start', offset')
  BY <1>2 DEF WindowIndInv
<1>5. FollowedIsWhole'
  BY <1>1, <1>2 DEF FollowedIsWhole, TextFrom, Told
<1>6. WindowHasReason'
  BY <1>2 DEF WindowHasReason
<1>7. ReadingShape' /\ MoreShape'
  BY <1>2 DEF ReadingShape, MoreShape
<1> QED
  BY <1>3, <1>4, <1>5, <1>6, <1>7 DEF WindowIndInv, ReaderServed

LEMMA PeekStep == ASSUME WindowIndInv, NEW n \in Reads, Peek(n) PROVE WindowIndInv'
<1> DEFINE c == content
           e == consumed + n
<1>1. WindowTypes /\ rw = "peek" /\ Gathered(c, got, start, offset)
  BY DEF WindowIndInv, Peek
<1>2. PICK v \in 0 .. consumed : \E b \in 0 .. v :
            /\ Undecoded(c, pending, v, consumed)
            /\ Window(c, text, skipping, offset, b, v)
            /\ skipping = 0 /\ Chars(text) = room
  BY <1>1, Reading
<1>3. PICK b \in 0 .. v :
            /\ Undecoded(c, pending, v, consumed)
            /\ Window(c, text, skipping, offset, b, v)
            /\ skipping = 0 /\ Chars(text) = room
  BY <1>2
<1>4. n \in Nat /\ consumed \in 0 .. e /\ e \in 0 .. Len(c)
  BY <1>1, ReadsAreThere
<1>5. /\ c \in Texts /\ v \in Nat /\ b \in Nat /\ e \in Nat /\ Len(c) \in Nat /\ v \in 0 .. e /\ v \in 0 .. Len(c)
      /\ Edge(c, v) /\ offset \in Nat
  BY <1>1, <1>3, <1>4 DEF WindowTypes, Texts, Window
<1> DEFINE y == Piece(c, v, e)
           w == v + ValidUpTo(y)
<1>6. pending \o SubSeq(content, consumed + 1, consumed + n) = y
  BY <1>1, <1>3, ReadOn
<1>7. /\ w \in v .. e /\ Edge(c, w)
      /\ Decoded(y) = Piece(c, v, w)
      /\ (~Invalid(y) <=> Piece(c, w, e) \in {<<>>, <<"h">>})
  BY <1>4, <1>5, ValidFrom
<1>8. /\ consumed' = e /\ pending' = y /\ skipping' = skipping /\ text' = text
      /\ rw' = IF Decoded(y) # <<>> \/ Invalid(y) THEN "more" ELSE "peek"
      /\ content' = c /\ start' = start /\ offset' = offset /\ room' = room /\ got' = got
  BY <1>6, Zenon DEF Peek
<1>inv. Invalid(y) => Invalid(c)
  BY <1>4, <1>5, InvalidOn
<1>9. y = Piece(c, v, e)
  OBVIOUS
<1> HIDE DEF y, w, e, c
<1>10. WindowTypes'
  <2>1. rw' \in {"idle", "loop", "peek", "more", "whole", "failed"}
    BY <1>8
  <2>2. /\ consumed' \in 0 .. Len(content') /\ skipping' \in Nat /\ text' \in Texts /\ content' \in Texts
        /\ got' \in Texts /\ start' \in Nat /\ offset' \in Nat /\ room' \in Nat \ {0}
    BY <1>1, <1>4, <1>5, <1>8 DEF WindowTypes, c
  <2> QED
    BY <2>1, <2>2 DEF WindowTypes
<1>11. Gathered(content', got', start', offset')
  BY <1>1, <1>8
<1>12. Window(content', text', skipping', offset', b, v) /\ skipping' = 0 /\ Chars(text') = room' /\ v \in 0 .. consumed'
  BY <1>3, <1>5, <1>8
<1>13. CASE Decoded(y) # <<>> \/ Invalid(y)
  <2>1. rw' = "more"
    BY <1>8, <1>13
  <2>2. Chars(Decoded(c)) > offset + Chars(text) \/ Invalid(c)
    <3>1. CASE Invalid(y)
      BY <1>inv, <3>1
    <3>2. CASE Decoded(y) # <<>>
      <4>1. w # v
        BY <1>5, <1>7, <3>2, PieceEnds
      <4>2. w \in 0 .. Len(c) /\ v \in 0 .. w
        BY <1>4, <1>5, <1>7
      <4>3. Chars(Decoded(c)) > Count(c, v)
        BY <1>5, <1>7, <4>1, <4>2, MoreThere
      <4>4. Count(c, v) = offset + Chars(text)
        <5>1. Window(c, text, 0, offset, b, v)
          BY <1>3
        <5> QED
          BY <1>3, <1>5, <5>1, WindowEnd
      <4> QED
        BY <4>3, <4>4
    <3> QED
      BY <1>13, <3>1, <3>2
  <2>3. Chars(Decoded(content')) > NextOffset' \/ Invalid(content')
    BY <1>8, <2>2 DEF NextOffset
  <2>4. MoreShape' /\ ReadingShape'
    BY <1>12, <2>1, <2>3 DEF MoreShape, ReadingShape
  <2> QED
    BY <1>10, <1>11, <2>1, <2>4 DEF WindowIndInv
<1>14. CASE Decoded(y) = <<>> /\ ~Invalid(y)
  <2>1. rw' = "peek"
    BY <1>8, <1>14
  <2>2. w = v
    <3>1. v \in 0 .. w /\ w \in 0 .. Len(c)
      BY <1>4, <1>5, <1>7
    <3>2. Len(Piece(c, v, w)) = w - v
      BY <1>5, <3>1, PieceOf
    <3>3. Len(Piece(c, v, w)) = 0
      BY <1>7, <1>14
    <3> QED
      BY <1>5, <3>1, <3>2, <3>3
  <2>3. Undecoded(content', pending', v, consumed')
    BY <1>7, <1>8, <1>9, <1>14, <2>2 DEF Undecoded
  <2>4. MoreShape' /\ ReadingShape'
    BY <1>12, <2>1, <2>3 DEF MoreShape, ReadingShape
  <2> QED
    BY <1>10, <1>11, <2>1, <2>4 DEF WindowIndInv
<1> QED
  BY <1>13, <1>14

LEMMA FollowStep == ASSUME WindowIndInv, Follow PROVE WindowIndInv'
<1>1. /\ content' = content /\ start' = start /\ room' = room /\ consumed' = consumed /\ skipping' = skipping
      /\ text' = text /\ rw' = "idle" /\ got' = got \o text /\ offset' = offset + Chars(text)
  BY DEF Follow, NextOffset
<1>2. WindowTypes /\ Gathered(content, got, start, offset) /\ skipping = 0 /\ Chars(text) = room
      /\ \E e \in 0 .. consumed : \E b \in 0 .. e : Window(content, text, skipping, offset, b, e)
  BY DEF WindowIndInv, MoreShape, Follow
<1>3. PICK e \in 0 .. consumed : \E b \in 0 .. e : Window(content, text, skipping, offset, b, e)
  BY <1>2
<1>4. PICK b \in 0 .. e : Window(content, text, 0, offset, b, e)
  BY <1>2, <1>3
<1>5. /\ content \in Texts /\ got \in Texts /\ text \in Texts /\ offset \in Nat /\ start \in Nat
      /\ e \in 0 .. Len(content) /\ e \in Nat /\ b \in Nat /\ b \in 0 .. Len(content)
      /\ Edge(content, b) /\ Edge(content, e) /\ text = Piece(content, b, e)
  BY <1>2, <1>4 DEF WindowTypes, Texts, Window
<1>6. Count(content, b) = offset /\ Count(content, e) = offset + Chars(text) /\ Chars(text) \in Nat
  BY <1>4, <1>5, WindowEnd
<1>7. WindowTypes'
  BY <1>1, <1>2, <1>5, <1>6, Joined DEF WindowTypes
<1>8. CASE got = <<>> /\ offset = start
  <2>1. got' = Piece(content, b, e)
    BY <1>1, <1>5, <1>8 DEF Texts
  <2>2. Count(content, b) = start
    BY <1>6, <1>8
  <2> QED
    <3>1. Gathered(content, got', start, offset')
      BY <1>1, <1>5, <1>6, <2>1, <2>2 DEF Gathered
    <3>2. Gathered(content', got', start', offset')
      BY <1>1, <3>1
    <3> QED
      BY <1>1, <1>7, <3>2 DEF WindowIndInv, ReadingShape, MoreShape
<1>9. CASE \E q \in 0 .. Len(content) : \E p \in 0 .. q :
             /\ Edge(content, p) /\ Edge(content, q) /\ got = Piece(content, p, q)
             /\ Count(content, p) = start /\ Count(content, q) = offset
  <2>1. PICK q \in 0 .. Len(content) : \E p \in 0 .. q :
             /\ Edge(content, p) /\ Edge(content, q) /\ got = Piece(content, p, q)
             /\ Count(content, p) = start /\ Count(content, q) = offset
    BY <1>9
  <2>2. PICK p \in 0 .. q :
             /\ Edge(content, p) /\ Edge(content, q) /\ got = Piece(content, p, q)
             /\ Count(content, p) = start /\ Count(content, q) = offset
    BY <2>1
  <2>3. q = b
    BY <1>5, <1>6, <2>2, EdgesMeet
  <2>4. p \in 0 .. b /\ b \in 0 .. e /\ p \in 0 .. e
    BY <1>5, <2>3
  <2>5. got \o text = Piece(content, p, e)
    <3>1. Piece(content, p, b) \o Piece(content, b, e) = Piece(content, p, e)
      BY <1>5, <2>4, Glue
    <3> QED
      BY <1>5, <2>2, <2>3, <3>1
  <2>6. Gathered(content, got', start, offset')
    BY <1>1, <1>5, <1>6, <2>2, <2>4, <2>5 DEF Gathered
  <2>7. Gathered(content', got', start', offset')
    BY <1>1, <2>6
  <2> QED
    BY <1>1, <1>7, <2>7 DEF WindowIndInv, ReadingShape, MoreShape
<1> QED
  BY <1>2, <1>8, <1>9 DEF Gathered

\* What a window of the file was stays so when characters are appended.
LEMMA AppendKeeps ==
    ASSUME NEW c \in Texts, NEW char \in {<<"a">>, <<"h", "t">>}
    PROVE  /\ c \o char \in Texts /\ Len(c) <= Len(c \o char) /\ Len(c \o char) \in Nat
           /\ \A q \in 0 .. Len(c) : /\ Edge(c \o char, q) <=> Edge(c, q)
                                     /\ Count(c \o char, q) = Count(c, q)
                                     /\ \A p \in 0 .. q : Piece(c \o char, p, q) = Piece(c, p, q)
           /\ Invalid(c) => Invalid(c \o char)
           /\ Chars(Decoded(c \o char)) >= Chars(Decoded(c)) /\ Chars(Decoded(c)) \in Nat /\ Chars(Decoded(c \o char)) \in Nat
           /\ ~WellFormed(c) => ~WellFormed(c \o char)
<1> DEFINE d == c \o char
           u == ValidUpTo(c)
           w == ValidUpTo(d)
<1>0. char \in Texts /\ Len(char) \in Nat \ {0} /\ char[1] # "t" /\ Len(c) \in Nat
  <2>1. Len(c) \in Nat
    BY DEF Texts
  <2>2. CASE char = <<"a">>
    BY <2>1, <2>2 DEF Texts, Byte
  <2>3. CASE char = <<"h", "t">>
    BY <2>1, <2>3 DEF Texts, Byte
  <2> QED
    BY <2>2, <2>3
<1>1. /\ d \in Texts /\ Len(d) = Len(c) + Len(char) /\ Piece(d, 0, Len(c)) = c
      /\ \A q \in 0 .. Len(c) : /\ Edge(d, q) <=> Edge(c, q)
                                /\ Count(d, q) = Count(c, q)
                                /\ \A p \in 0 .. q : Piece(d, p, q) = Piece(c, p, q)
  BY <1>0, WithMore
<1>a. (\A i \in 1 .. Len(c) : d[i] = c[i]) /\ d[Len(c) + 1] = char[1]
  <2>1. 1 \in 1 .. Len(char)
    BY <1>0
  <2> QED
    BY <1>0, <2>1, Joined
<1>2. u \in 0 .. Len(c) /\ Edge(c, u) /\ Decoded(c) = Piece(c, 0, u)
  BY ValidIs
<1>3. w \in 0 .. Len(d) /\ Decoded(d) = Piece(d, 0, w) /\ \A n \in 0 .. Len(d) : Edge(d, n) => n <= w
  BY <1>1, ValidIs
<1>4. Chars(Decoded(c)) = Count(c, u) /\ Chars(Decoded(d)) = Count(d, w)
  BY <1>2, <1>3 DEF Count
<1>5. Invalid(c) => Invalid(d)
  <2>1. Len(c) \in 0 .. Len(d)
    BY <1>0, <1>1
  <2> HIDE DEF d
  <2> QED
    BY <1>1, <2>1, StaysInvalid
<1> HIDE DEF d, u, w
<1>6. Count(d, w) >= Count(c, u) /\ Count(c, u) \in Nat /\ Count(d, w) \in Nat
  <2>1. u \in 0 .. Len(d) /\ Edge(d, u) /\ Count(d, u) = Count(c, u)
    BY <1>0, <1>1, <1>2
  <2>2. u \in 0 .. w
    BY <1>2, <1>3, <2>1
  <2>3. Count(d, u) \in Nat /\ Count(d, w) \in Nat /\ Count(d, u) <= Count(d, w)
    BY <1>1, <1>3, <2>2, CountGrows
  <2> QED
    BY <2>1, <2>3
<1>7. ASSUME Edge(d, Len(d)) PROVE Edge(c, Len(c))
  <2>1. \A i \in 1 .. Len(d) : Follows(d, i)
    BY <1>7 DEF Edge
  <2>2. \A i \in 1 .. Len(c) : Follows(d, i)
    BY <1>0, <1>1, <2>1
  <2>3. Len(c) > 0 => d[Len(c)] # "h"
    <3>1. Follows(d, Len(c) + 1) /\ Len(c) + 1 - 1 = Len(c)
      BY <1>0, <1>1, <2>1
    <3> QED
      BY <1>0, <1>a, <3>1 DEF Follows
  <2>4. Edge(d, Len(c))
    BY <2>2, <2>3 DEF Edge
  <2> QED
    BY <1>0, <1>1, <2>4
<1>8. ~WellFormed(c) => ~WellFormed(d)
  BY <1>1, <1>7, WholeText
<1> QED
  BY <1>0, <1>1, <1>4, <1>5, <1>6, <1>8 DEF d

LEMMA AppendStep == ASSUME WindowIndInv, NEW char \in {<<"a">>, <<"h", "t">>}, Append1(char) PROVE WindowIndInv'
<1> DEFINE c == content
           d == c \o char
<1>1. /\ content' = d /\ start' = start /\ offset' = offset /\ room' = room /\ consumed' = consumed
      /\ pending' = pending /\ skipping' = skipping /\ text' = text /\ rw' = rw /\ got' = got
  BY DEF Append1
<1>2. WindowTypes /\ c \in Texts /\ Len(c) \in Nat /\ consumed \in 0 .. Len(c) /\ consumed \in Nat
  BY DEF WindowIndInv, WindowTypes, Texts
<1>3. /\ d \in Texts /\ Len(c) <= Len(d) /\ Len(d) \in Nat
      /\ \A q \in 0 .. Len(c) : /\ Edge(d, q) <=> Edge(c, q)
                                /\ Count(d, q) = Count(c, q)
                                /\ \A p \in 0 .. q : Piece(d, p, q) = Piece(c, p, q)
      /\ Invalid(c) => Invalid(d)
      /\ Chars(Decoded(d)) >= Chars(Decoded(c)) /\ Chars(Decoded(c)) \in Nat /\ Chars(Decoded(d)) \in Nat
      /\ ~WellFormed(c) => ~WellFormed(d)
  BY <1>2, AppendKeeps
<1> HIDE DEF d
<1>4. WindowTypes'
  BY <1>1, <1>2, <1>3 DEF WindowTypes
<1>5. Gathered(content', got', start', offset')
  <2>1. Gathered(c, got, start, offset)
    BY DEF WindowIndInv
  <2>2. ASSUME NEW q \in 0 .. Len(c), NEW p \in 0 .. q,
               Edge(c, p), Edge(c, q), got = Piece(c, p, q), Count(c, p) = start, Count(c, q) = offset
        PROVE  Gathered(d, got, start, offset)
    <3>1. q \in 0 .. Len(d) /\ p \in 0 .. Len(c)
      BY <1>2, <1>3
    <3>2. Edge(d, p) /\ Edge(d, q) /\ got = Piece(d, p, q) /\ Count(d, p) = start /\ Count(d, q) = offset
      BY <1>3, <2>2, <3>1
    <3> QED
      BY <3>1, <3>2 DEF Gathered
  <2>3. Gathered(d, got, start, offset)
    BY <2>1, <2>2 DEF Gathered
  <2> QED
    BY <1>1, <2>3
<1>6. ASSUME NEW e \in 0 .. consumed, NEW b \in 0 .. e, Window(c, text, skipping, offset, b, e)
      PROVE  Window(content', text', skipping', offset', b, e)
  <2>1. e \in 0 .. Len(c) /\ b \in 0 .. Len(c)
    BY <1>2
  <2>2. Edge(d, b) /\ Edge(d, e) /\ Count(d, b) = Count(c, b) /\ Piece(d, b, e) = Piece(c, b, e)
    BY <1>3, <1>6, <2>1 DEF Window
  <2> HIDE DEF c
  <2> QED
    BY <1>1, <1>6, <2>2 DEF Window
<1>7. ReadingShape'
  <2> SUFFICES ASSUME rw' \in {"loop", "peek"} PROVE ReadingShape'
    BY DEF ReadingShape
  <2>1. PICK v \in 0 .. consumed : \E b \in 0 .. v :
            /\ Undecoded(content, pending, v, consumed)
            /\ Window(content, text, skipping, offset, b, v)
            /\ rw = "loop" => Chars(text) < room
            /\ rw = "peek" => skipping = 0 /\ Chars(text) = room
    BY <1>1, Reading
  <2>2. PICK b \in 0 .. v :
            /\ Undecoded(content, pending, v, consumed)
            /\ Window(content, text, skipping, offset, b, v)
            /\ rw = "loop" => Chars(text) < room
            /\ rw = "peek" => skipping = 0 /\ Chars(text) = room
    BY <2>1
  <2>3. Undecoded(content', pending', v, consumed')
    <3>1. Piece(d, v, consumed) = Piece(c, v, consumed)
      BY <1>2, <1>3
    <3> QED
      BY <1>1, <2>2, <3>1 DEF Undecoded
  <2>4. Window(content', text', skipping', offset', b, v)
    BY <1>6, <2>2
  <2>5. v \in 0 .. consumed' /\ (rw' = "loop" => Chars(text') < room') /\ (rw' = "peek" => skipping' = 0 /\ Chars(text') = room')
    BY <1>1, <2>2
  <2> QED
    BY <2>3, <2>4, <2>5 DEF ReadingShape
<1>8. MoreShape'
  <2> SUFFICES ASSUME rw' = "more" PROVE MoreShape'
    BY DEF MoreShape
  <2>1. /\ \E e \in 0 .. consumed : \E b \in 0 .. e : Window(c, text, skipping, offset, b, e)
        /\ skipping = 0 /\ Chars(text) = room
        /\ Chars(Decoded(c)) > offset + Chars(text) \/ Invalid(c)
    BY <1>1 DEF WindowIndInv, MoreShape, NextOffset
  <2>2. \E e \in 0 .. consumed' : \E b \in 0 .. e : Window(content', text', skipping', offset', b, e)
    BY <1>1, <1>6, <2>1
  <2>3. offset + Chars(text) \in Nat
    BY <1>2, <2>1 DEF WindowTypes
  <2>4. Chars(Decoded(d)) > offset + Chars(text) \/ Invalid(d)
    <3> HIDE DEF c
    <3> QED
      BY <1>3, <2>1, <2>3
  <2>5. Chars(Decoded(content')) > NextOffset' \/ Invalid(content')
    BY <1>1, <2>4 DEF NextOffset
  <2> QED
    BY <1>1, <2>1, <2>2, <2>5 DEF MoreShape
<1>9. ASSUME rw' \in {"whole", "failed"} PROVE ReaderServed'
  <2>1. ReaderServed
    BY <1>1, <1>9 DEF WindowIndInv
  <2>2. Upto(d, consumed) = Upto(c, consumed)
    <3>1. Upto(d, consumed) = Piece(d, 0, consumed) /\ Upto(c, consumed) = Piece(c, 0, consumed)
      <4>1. consumed \in 0 .. Len(d)
        BY <1>2, <1>3
      <4> QED
        BY <1>2, <1>3, <4>1, PieceEnds
    <3>2. 0 \in 0 .. consumed
      BY <1>2
    <3> QED
      BY <1>2, <1>3, <3>1, <3>2
  <2>3. FollowedIsWhole'
    BY <1>1, <2>1, <2>2 DEF ReaderServed, FollowedIsWhole, TextFrom
  <2>4. WindowHasReason'
    BY <1>1, <1>3, <1>9, <2>1 DEF ReaderServed, WindowHasReason
  <2> QED
    BY <2>3, <2>4 DEF ReaderServed
<1> QED
  BY <1>4, <1>5, <1>7, <1>8, <1>9 DEF WindowIndInv

\* Every step of a call keeps the invariant.
LEMMA WindowStep == WindowIndInv /\ [WindowNext]_windowVars => WindowIndInv'
<1> SUFFICES ASSUME WindowIndInv, [WindowNext]_windowVars PROVE WindowIndInv'
  OBVIOUS
<1>1. CASE OpenWindow
  BY <1>1, OpenStep
<1>2. ASSUME NEW n \in Reads, LoopReads(n) PROVE WindowIndInv'
  BY <1>2, LoopReadsStep
<1>3. CASE LoopEnds
  BY <1>3, LoopEndsStep
<1>4. ASSUME NEW n \in Reads, Peek(n) PROVE WindowIndInv'
  BY <1>4, PeekStep
<1>5. CASE PeekEnds
  BY <1>5, PeekEndsStep
<1>6. CASE Follow
  BY <1>6, FollowStep
<1>7. ASSUME NEW char \in {<<"a">>, <<"h", "t">>}, Append1(char) PROVE WindowIndInv'
  BY <1>7, AppendStep
<1>8. CASE UNCHANGED windowVars
  BY <1>8 DEF windowVars, WindowIndInv, WindowTypes, Gathered, ReadingShape, MoreShape, Window, Undecoded,
     NextOffset, ReaderServed, FollowedIsWhole, WindowHasReason, TextFrom
<1> QED
  BY <1>1, <1>2, <1>3, <1>4, <1>5, <1>6, <1>7, <1>8, Zenon DEF WindowNext

\* A window that is truncated continues what was gathered; the others are shown in the invariant.
LEMMA WindowServes == WindowIndInv => ReaderServed
<1> SUFFICES ASSUME WindowIndInv PROVE ReaderServed
  OBVIOUS
<1>1. CASE rw = "more"
  <2>1. /\ content \in Texts /\ got \in Texts /\ start \in Nat /\ offset \in Nat /\ skipping = 0 /\ skipping \in Nat
        /\ consumed \in 0 .. Len(content) /\ Gathered(content, got, start, offset)
    BY <1>1 DEF WindowIndInv, WindowTypes, MoreShape
  <2>2. PICK e \in 0 .. consumed : \E b \in 0 .. e : Window(content, text, skipping, offset, b, e)
    BY <1>1 DEF WindowIndInv, MoreShape
  <2>3. PICK b \in 0 .. e : Window(content, text, skipping, offset, b, e)
    BY <2>2
  <2>4. IsPrefix(got \o text, Told(content, consumed, start))
    <3>1. ~(skipping > 0)
      BY <2>1
    <3> QED
      BY <2>1, <2>3, <3>1, WindowsMakeText
  <2>5. FollowedIsWhole
    BY <1>1, <2>4 DEF FollowedIsWhole, TextFrom, Told
  <2>6. WindowHasReason
    BY <1>1 DEF WindowHasReason, WindowIndInv, MoreShape
  <2> QED
    BY <2>5, <2>6 DEF ReaderServed
<1>2. CASE rw \in {"whole", "failed"}
  BY <1>2 DEF WindowIndInv
<1>3. CASE rw \in {"idle", "loop", "peek"}
  BY <1>3 DEF ReaderServed, FollowedIsWhole, WindowHasReason
<1> QED
  BY <1>1, <1>2, <1>3 DEF WindowIndInv, WindowTypes

(***************************************************************************)
(* The place a call of a reader has come to is always one where a          *)
(* character ends, and its text and what was gathered before are the       *)
(* pieces of the file between such places (read_utf8_window).              *)
(***************************************************************************)
THEOREM WindowInvariant == WindowSpec => []WindowIndInv
BY WindowStart, WindowStep, PTL DEF WindowSpec

(***************************************************************************)
(* While the walk goes on, a file the model may read and the pattern is in *)
(* is a hit or lies where the walk has still to go, unless there are       *)
(* enough hits; and a hit opens (local_tools.rs, search).                  *)
(***************************************************************************)
THEOREM SearchInvariant == SearchSpec => []SearchIndInv
BY SearchStart, SearchStep, PTL DEF SearchSpec

-----------------------------------------------------------------------------
(* What a list of messages weighs: TotalSize is the last of its partial     *)
(* sums.                                                                    *)


PartialSums(ms, f) ==
    /\ DOMAIN f = 0 .. Len(ms)
    /\ f[0] = 0
    /\ \A i \in 1 .. Len(ms) : f[i] = f[i - 1] + ms[i].size

SizesOf(ms) == \A i \in 1 .. Len(ms) : ms[i].size \in Nat

LEMMA SumsExist ==
    ASSUME NEW ms, Len(ms) \in Nat, SizesOf(ms)
    PROVE  \E f \in [0 .. Len(ms) -> Nat] :
               f = [i \in 0 .. Len(ms) |-> IF i = 0 THEN 0 ELSE f[i - 1] + ms[i].size]
<1> DEFINE N == Len(ms)
           Ok(m, f) == f = [i \in 0..m |-> IF i = 0 THEN 0 ELSE f[i-1] + ms[i].size]
           S == {m \in Nat : m <= N => \E f \in [0..m -> Nat] : Ok(m, f)}
<1>0. N \in Nat /\ \A i \in 1 .. N : ms[i].size \in Nat
  BY DEF SizesOf
<1> HIDE DEF N
<1>1. 0 \in S
  <2>1. [i \in 0..0 |-> 0] \in [0..0 -> Nat] /\ Ok(0, [i \in 0..0 |-> 0])
    OBVIOUS
  <2> QED BY <2>1
<1>2. ASSUME NEW m \in Nat, m \in S PROVE m+1 \in S
  <2> HIDE DEF Ok
  <2> SUFFICES ASSUME m+1 <= N PROVE \E f \in [0..m+1 -> Nat] : Ok(m+1,f)
    OBVIOUS
  <2>0. m <= N /\ m+1 \in 1..N
    BY <1>0
  <2>1. PICK f \in [0..m -> Nat] : Ok(m, f)
    BY <1>2, <2>0
  <2> USE DEF Ok
  <2> DEFINE g == [i \in 0..m+1 |-> IF i = m+1 THEN f[m] + ms[m+1].size ELSE f[i]]
  <2>2. ms[m+1].size \in Nat BY <1>0, <2>0
  <2>3. g \in [0..m+1 -> Nat]
    BY <2>1, <2>2
  <2>4. ASSUME NEW i \in 0..m+1 PROVE g[i] = IF i = 0 THEN 0 ELSE g[i-1] + ms[i].size
    <3>1. CASE i = m+1
      BY <3>1, <2>1
    <3>2. CASE i \in 0..m
      <4>1. f[i] = IF i = 0 THEN 0 ELSE f[i-1] + ms[i].size
        BY <3>2, <2>1
      <4>2. i = 0 \/ i - 1 \in 0..m
        BY <3>2
      <4> QED BY <3>2, <4>1, <4>2
    <3> QED BY <3>1, <3>2
  <2>5. Ok(m+1, g)
    BY <2>3, <2>4
  <2> QED BY <2>5, <2>3
<1> HIDE DEF S
<1>3. Nat \subseteq S BY <1>1, <1>2, Induct
<1>4. \E f \in [0 .. N -> Nat] : Ok(N, f)
  <2> HIDE DEF Ok, N
  <2>1. N \in S /\ N <= N
    BY <1>3, <1>0
  <2> QED
    BY <2>1, Zenon DEF S
<1> QED
  BY <1>4 DEF N

LEMMA TotalIsSum ==
    ASSUME NEW ms, Len(ms) \in Nat, SizesOf(ms)
    PROVE  \E f \in [0 .. Len(ms) -> Nat] : TotalSize(ms) = f[Len(ms)] /\ PartialSums(ms, f)
<1> DEFINE N == Len(ms)
           Eq(f) == f = [i \in 0..N |-> IF i = 0 THEN 0 ELSE f[i-1] + ms[i].size]
           h == CHOOSE f : Eq(f)
<1>1. PICK g \in [0..N -> Nat] : Eq(g)
  BY SumsExist
<1>2. TotalSize(ms) = h[N]
  BY DEF TotalSize
<1>a. N \in Nat /\ \A i \in 1 .. N : ms[i].size \in Nat
  BY DEF SizesOf
<1>3. Eq(h)
  <2> HIDE DEF Eq
  <2> QED BY <1>1
<1> HIDE DEF h, N
<1>4. DOMAIN h = 0..N /\ h[0] = 0
  BY <1>3, <1>a
<1>4b. \A i \in 1..N : h[i] = h[i-1]+ms[i].size
  BY <1>3, <1>a
<1> DEFINE S == {m \in Nat : m <= N => h[m] \in Nat}
<1>5. 0 \in S BY <1>4
<1>6. \A m \in Nat : m \in S => m+1 \in S
  <2> TAKE m \in Nat
  <2> HAVE m \in S
  <2> SUFFICES ASSUME m+1 <= N PROVE h[m+1] \in Nat OBVIOUS
  <2>0. m + 1 \in 1 .. N /\ m <= N /\ (m + 1) - 1 = m
    BY <1>a
  <2>1. h[m+1] = h[m] + ms[m+1].size /\ ms[m+1].size \in Nat BY <1>4b, <2>0, <1>a
  <2>2. h[m] \in Nat
    BY <2>0
  <2> QED BY <2>1, <2>2
<1> HIDE DEF S
<1>7. Nat \subseteq S BY <1>5, <1>6, Induct
<1>8. \A i \in 0 .. N : h[i] \in Nat
  BY <1>7, <1>a DEF S
<1>9. h \in [0..N -> Nat]
  <2>1. h = [i \in 0 .. N |-> h[i]]
    BY <1>3, <1>4
  <2> QED
    BY <1>8, <2>1
<1> QED BY <1>2, <1>4, <1>4b, <1>9 DEF PartialSums, N

SameSizes(ms, ns, k) == \A i \in 1 .. k : ms[i].size = ns[i].size

(* Two lists of partial sums that agree on the sizes agree.                 *)
LEMMA SumsAgree ==
    ASSUME NEW ms, NEW ns, NEW k \in Nat, NEW f, NEW g,
           Len(ms) \in Nat, Len(ns) \in Nat, SizesOf(ms), SizesOf(ns),
           PartialSums(ms, f), PartialSums(ns, g),
           k <= Len(ms), k <= Len(ns), SameSizes(ms, ns, k)
    PROVE  f[k] = g[k]
<1> DEFINE S == {m \in Nat : m <= k => f[m] = g[m]}
<1>1. 0 \in S
  BY DEF PartialSums
<1>2. \A m \in Nat : m \in S => m + 1 \in S
  <2> TAKE m \in Nat
  <2> HAVE m \in S
  <2> SUFFICES ASSUME m + 1 <= k PROVE f[m + 1] = g[m + 1]
    OBVIOUS
  <2>0. m + 1 \in 1 .. k /\ m + 1 \in 1 .. Len(ms) /\ m + 1 \in 1 .. Len(ns) /\ (m + 1) - 1 = m /\ m <= k
    OBVIOUS
  <2>1. f[m + 1] = f[m] + ms[m + 1].size /\ g[m + 1] = g[m] + ns[m + 1].size
    BY <2>0 DEF PartialSums
  <2>3. ms[m + 1].size = ns[m + 1].size
    BY <2>0 DEF SameSizes
  <2>2. f[m] = g[m]
    BY <2>0
  <2> QED
    BY <2>1, <2>2, <2>3
<1> HIDE DEF S
<1>3. Nat \subseteq S
  BY <1>1, <1>2, Induct
<1> QED
  BY <1>3 DEF S

LEMMA TotalIsNat ==
    ASSUME NEW ms, Len(ms) \in Nat, SizesOf(ms)
    PROVE  TotalSize(ms) \in Nat
BY TotalIsSum

(* Lists of the same sizes weigh the same.                                  *)
LEMMA TotalOfSame ==
    ASSUME NEW ms, NEW ns, Len(ms) \in Nat, Len(ns) = Len(ms), SizesOf(ms),
           \A i \in 1 .. Len(ms) : ms[i].size = ns[i].size
    PROVE  TotalSize(ns) = TotalSize(ms)
<1>1. SizesOf(ns)
  BY DEF SizesOf
<1>2. PICK f \in [0 .. Len(ms) -> Nat] : TotalSize(ms) = f[Len(ms)] /\ PartialSums(ms, f)
  BY TotalIsSum
<1>3. PICK g \in [0 .. Len(ns) -> Nat] : TotalSize(ns) = g[Len(ns)] /\ PartialSums(ns, g)
  BY TotalIsSum, <1>1
<1>4. f[Len(ms)] = g[Len(ms)]
  <2> DEFINE k == Len(ms)
  <2>1. k \in Nat /\ Len(ns) \in Nat /\ k <= Len(ms) /\ k <= Len(ns)
    OBVIOUS
  <2>2. SizesOf(ms) /\ SizesOf(ns) /\ PartialSums(ms, f) /\ PartialSums(ns, g)
    BY <1>1, <1>2, <1>3
  <2>3. SameSizes(ms, ns, k)
    BY DEF SameSizes
  <2> HIDE DEF k
  <2>4. f[k] = g[k]
    BY <2>1, <2>2, <2>3, SumsAgree
  <2> QED
    BY <2>4 DEF k
<1> QED
  BY <1>2, <1>3, <1>4

(* One message more weighs its size more.                                   *)
LEMMA TotalOfMore ==
    ASSUME NEW ms, NEW ns, Len(ms) \in Nat, Len(ns) = Len(ms) + 1, SizesOf(ns),
           \A i \in 1 .. Len(ms) : ms[i].size = ns[i].size
    PROVE  TotalSize(ns) = TotalSize(ms) + ns[Len(ns)].size
<1>1. SizesOf(ms)
  BY DEF SizesOf
<1>2. PICK f \in [0 .. Len(ms) -> Nat] : TotalSize(ms) = f[Len(ms)] /\ PartialSums(ms, f)
  BY TotalIsSum, <1>1
<1>3. PICK g \in [0 .. Len(ns) -> Nat] : TotalSize(ns) = g[Len(ns)] /\ PartialSums(ns, g)
  BY TotalIsSum
<1>4. f[Len(ms)] = g[Len(ms)]
  <2> DEFINE k == Len(ms)
  <2>1. k \in Nat /\ Len(ns) \in Nat /\ k <= Len(ms) /\ k <= Len(ns)
    OBVIOUS
  <2>2. SizesOf(ms) /\ SizesOf(ns) /\ PartialSums(ms, f) /\ PartialSums(ns, g)
    BY <1>1, <1>2, <1>3
  <2>3. SameSizes(ms, ns, k)
    BY DEF SameSizes
  <2> HIDE DEF k
  <2>4. f[k] = g[k]
    BY <2>1, <2>2, <2>3, SumsAgree
  <2> QED
    BY <2>4 DEF k
<1>5. g[Len(ns)] = g[Len(ms)] + ns[Len(ns)].size
  <2>1. Len(ns) \in 1 .. Len(ns) /\ Len(ns) - 1 = Len(ms)
    OBVIOUS
  <2> QED
    BY <1>3, <2>1 DEF PartialSums
<1> QED
  BY <1>2, <1>3, <1>4, <1>5

LEMMA SameAdded ==
    ASSUME NEW a \in Nat, NEW b \in Nat, NEW c \in Nat, NEW d \in Nat, NEW x \in Nat, a + b = c + d
    PROVE  (a + x) + b = (c + x) + d
OBVIOUS

(* Another message in one place makes the difference of the sizes.          *)
LEMMA TotalOfChanged ==
    ASSUME NEW ms, NEW ns, NEW k \in Nat, Len(ms) \in Nat, Len(ns) = Len(ms),
           SizesOf(ms), SizesOf(ns), 1 <= k, k <= Len(ms),
           \A i \in 1 .. Len(ms) : i # k => ms[i].size = ns[i].size
    PROVE  TotalSize(ns) + ms[k].size = TotalSize(ms) + ns[k].size
<1> DEFINE N == Len(ms)
<1>0. N \in Nat /\ Len(ns) = N /\ k <= N
  OBVIOUS
<1>2. PICK f \in [0 .. N -> Nat] : TotalSize(ms) = f[N] /\ PartialSums(ms, f)
  BY TotalIsSum
<1>3. PICK g \in [0 .. N -> Nat] : TotalSize(ns) = g[N] /\ PartialSums(ns, g)
  BY TotalIsSum
<1>5. f[0] = 0 /\ g[0] = 0 /\ \A i \in 1 .. N : f[i] = f[i - 1] + ms[i].size /\ g[i] = g[i - 1] + ns[i].size
  BY <1>2, <1>3 DEF PartialSums
<1>6. \A i \in 1 .. N : ms[i].size \in Nat /\ ns[i].size \in Nat /\ (i # k => ms[i].size = ns[i].size)
  BY DEF SizesOf
<1>7. \A i \in 0 .. N : f[i] \in Nat /\ g[i] \in Nat
  BY <1>2, <1>3
<1> DEFINE Ok(m) == IF m < k THEN g[m] = f[m] ELSE g[m] + ms[k].size = f[m] + ns[k].size
           S == {m \in Nat : m <= N => Ok(m)}
<1> HIDE DEF N
<1>8. 0 \in S
  BY <1>5
<1>9. \A m \in Nat : m \in S => m + 1 \in S
  <2> TAKE m \in Nat
  <2> HAVE m \in S
  <2> SUFFICES ASSUME m + 1 <= N PROVE Ok(m + 1)
    OBVIOUS
  <2>1. m \in 0 .. N /\ m + 1 \in 1 .. N /\ (m + 1) - 1 = m /\ k \in 1 .. N
    BY <1>0
  <2>2. g[m + 1] = g[m] + ns[m + 1].size /\ f[m + 1] = f[m] + ms[m + 1].size
    BY <1>5, <2>1
  <2>3. /\ ns[m + 1].size \in Nat /\ ms[m + 1].size \in Nat
        /\ m + 1 # k => ms[m + 1].size = ns[m + 1].size
        /\ ms[k].size \in Nat /\ ns[k].size \in Nat /\ g[m] \in Nat /\ f[m] \in Nat
    BY <1>6, <1>7, <2>1
  <2>4. Ok(m)
    BY <2>1
  <2>5. CASE m + 1 < k
    BY <2>2, <2>3, <2>4, <2>5
  <2>6. CASE m + 1 = k
    <3>1. m < k /\ ~(m + 1 < k)
      BY <2>6
    <3>2. g[m] = f[m]
      BY <2>4, <3>1
    <3>3. g[m + 1] + ms[k].size = f[m + 1] + ns[k].size
      BY <2>2, <2>3, <2>6, <3>2
    <3> QED
      BY <3>1, <3>3
  <2>7. CASE m + 1 > k
    <3>1. ~(m < k) /\ ~(m + 1 < k) /\ m + 1 # k
      BY <2>7
    <3>2. g[m] + ms[k].size = f[m] + ns[k].size
      BY <2>4, <3>1
    <3> DEFINE x == ns[m + 1].size
               old == ms[k].size
               new == ns[k].size
               fm == f[m]
               gm == g[m]
    <3>3. /\ x \in Nat /\ old \in Nat /\ new \in Nat /\ fm \in Nat /\ gm \in Nat
          /\ gm + old = fm + new
          /\ g[m + 1] = gm + x
          /\ f[m + 1] = fm + x
      BY <2>2, <2>3, <3>1, <3>2
    <3> HIDE DEF x, old, new, fm, gm
    <3>4. (gm + x) + old = (fm + x) + new
      BY ONLY <3>3, SameAdded
    <3>5. g[m + 1] + old = f[m + 1] + new
      BY <3>3, <3>4
    <3> QED
      BY <3>1, <3>5 DEF old, new
  <2> QED
    BY <2>5, <2>6, <2>7
<1> HIDE DEF S
<1>10. N \in S
  BY <1>8, <1>9, <1>0, Induct
<1>11. g[N] + ms[k].size = f[N] + ns[k].size
  BY <1>0, <1>10 DEF S
<1> QED
  BY <1>2, <1>3, <1>11
-----------------------------------------------------------------------------
(* Pruning *)

Messages ==
    [role : {"system", "user", "assistant"},
     origin : {"system", "goal", "pinned", "rejected", "error", "directive", "result"},
     n : Nat, size : Nat]

(* What a pruning of ms makes of it: the first prefix messages stay, the    *)
(* rest is the end of ms, cut at most.                                      *)
KeepsTheEnd(ms, prefix, out) ==
    /\ out \in Seq(Messages)
    /\ prefix <= Len(out) /\ Len(out) <= Len(ms)
    /\ \A i \in 1 .. prefix : out[i] = ms[i]
    /\ \A i \in prefix + 1 .. Len(out) : IsCutOf(out[i], ms[Len(ms) - Len(out) + i])

(* One message stands for another: the same but for its length.             *)
LEMMA CutFacts ==
    ASSUME NEW m \in Messages, NEW s \in Messages
    PROVE  IsCutOf(m, s) <=> m.role = s.role /\ m.origin = s.origin /\ m.n = s.n /\ m.size <= s.size
BY DEF IsCutOf, Messages

LEMMA MessagesSized ==
    ASSUME NEW ms \in Seq(Messages)
    PROVE  Len(ms) \in Nat /\ SizesOf(ms)
<1>1. Len(ms) \in Nat /\ \A i \in 1 .. Len(ms) : ms[i] \in Messages
  OBVIOUS
<1> QED
  BY <1>1 DEF SizesOf, Messages

LEMMA WithoutFacts ==
    ASSUME NEW ms \in Seq(Messages), NEW p \in Nat, NEW k \in Nat, p + k <= Len(ms)
    PROVE  LET out == WithoutOldest(ms, p, k) IN
           /\ out \in Seq(Messages) /\ Len(out) = Len(ms) - k
           /\ \A i \in 1 .. p : out[i] = ms[i]
           /\ \A i \in p + 1 .. Len(out) : out[i] = ms[i + k]
<1> DEFINE q == p + k + 1
           N == Len(ms)
           head == SubSeq(ms, 1, p)
           rest == SubSeq(ms, q, N)
<1>0. N \in Nat /\ q \in Nat /\ 1 <= q /\ p <= N /\ q <= N + 1
  OBVIOUS
<1>1. head \in Seq(Messages) /\ Len(head) = p /\ \A i \in 1 .. p : head[i] = ms[i]
  BY <1>0
<1>2. rest \in Seq(Messages) /\ Len(rest) = N + 1 - q /\ \A i \in 1 .. N + 1 - q : rest[i] = ms[q - 1 + i]
  <2>1. rest \in Seq(Messages)
    BY <1>0
  <2> HIDE DEF q
  <2>2. Len(rest) = N + 1 - q
    BY <1>0
  <2>3. \A i \in 1 .. N + 1 - q : rest[i] = ms[q - 1 + i]
    BY <1>0
  <2> QED
    BY <2>1, <2>2, <2>3
<1>3. WithoutOldest(ms, p, k) = head \o rest
  BY DEF WithoutOldest
<1>4. N + 1 - q = N - p - k
  BY <1>0
<1> HIDE DEF head, rest
<1> DEFINE out == head \o rest
<1>5. out \in Seq(Messages) /\ Len(out) = N - k
  <2>1. out \in Seq(Messages) /\ Len(out) = Len(head) + Len(rest)
    <3>1. head \in Seq(Messages) /\ rest \in Seq(Messages)
      BY <1>1, <1>2
    <3> HIDE DEF q, N
    <3> QED
      BY <3>1
  <2> HIDE DEF out, q, N
  <2>2. Len(head) + Len(rest) = N - k
    BY <1>0, <1>1, <1>2, <1>4
  <2> QED
    BY <2>1, <2>2
<1>6. \A i \in 1 .. p : out[i] = ms[i]
  BY <1>0, <1>1, <1>2
<1>7. ASSUME NEW i \in p + 1 .. N - k PROVE out[i] = ms[i + k]
  <2>1. out[i] = rest[i - p]
    BY <1>0, <1>1, <1>2, <1>4
  <2>2. rest[i - p] = ms[q - 1 + (i - p)]
    <3>1. i - p \in 1 .. N + 1 - q
      BY <1>0, <1>4
    <3> HIDE DEF q
    <3> QED
      BY <1>2, <3>1
  <2>3. q - 1 + (i - p) = i + k
    BY <1>0
  <2> QED
    BY <2>1, <2>2, <2>3
<1> QED
  BY <1>3, <1>5, <1>6, <1>7

LEMMA CountFacts ==
    ASSUME NEW ms \in Seq(Messages), NEW p \in Nat, p <= Len(ms)
    PROVE  LET out == PrunedByCount(ms, p) IN
           /\ KeepsTheEnd(ms, p, out)
           /\ Len(out) <= p + MaxTail
           /\ Len(out) = p => Len(ms) = p
<1> DEFINE N == Len(ms)
           k == N - p - MaxTail
<1>0. N \in Nat /\ MaxTail \in Nat /\ MaxTail > 0 /\ \A i \in 1 .. N : ms[i] \in Messages
  BY ConversationAssumption
<1>c. \A m \in Messages : IsCutOf(m, m)
  BY CutFacts DEF Messages
<1>1. CASE N <= p + MaxTail
  <2>1. PrunedByCount(ms, p) = ms
    BY <1>1 DEF PrunedByCount
  <2>2. \A i \in p + 1 .. N : IsCutOf(ms[i], ms[N - N + i])
    BY <1>0, <1>c
  <2> QED
    BY <1>0, <1>1, <2>1, <2>2 DEF KeepsTheEnd
<1>2. CASE ~(N <= p + MaxTail)
  <2> DEFINE out == WithoutOldest(ms, p, k)
  <2>1. PrunedByCount(ms, p) = out
    BY <1>2 DEF PrunedByCount
  <2>2. k \in Nat /\ p + k <= N /\ N - k = p + MaxTail
    BY <1>0, <1>2
  <2>3. /\ out \in Seq(Messages) /\ Len(out) = N - k
        /\ \A i \in 1 .. p : out[i] = ms[i]
        /\ \A i \in p + 1 .. Len(out) : out[i] = ms[i + k]
    <3> HIDE DEF k
    <3> QED
      BY <2>2, WithoutFacts
  <2> HIDE DEF out
  <2>4. ASSUME NEW i \in p + 1 .. Len(out) PROVE IsCutOf(out[i], ms[N - Len(out) + i])
    <3>1. out[i] = ms[i + k]
      BY <2>3
    <3>2. N - Len(out) + i = i + k /\ i + k \in 1 .. N
      BY <1>0, <2>2, <2>3
    <3> QED
      BY <1>0, <1>c, <3>1, <3>2
  <2> QED
    BY <1>0, <1>2, <2>1, <2>2, <2>3, <2>4 DEF KeepsTheEnd
<1> QED
  BY <1>1, <1>2

LEMMA CharsFacts ==
    ASSUME NEW ms \in Seq(Messages), NEW p \in Nat, p <= Len(ms)
    PROVE  LET out == PrunedByChars(ms, p) IN
           /\ KeepsTheEnd(ms, p, out)
           /\ TotalSize(out) <= MaxChars \/ Len(out) = p
           /\ Len(out) = p => Len(ms) = p \/ TotalSize(SubSeq(ms, 1, p)) >= MaxChars
<1> DEFINE N == Len(ms)
           fits(k) == TotalSize(WithoutOldest(ms, p, k)) <= MaxChars
           head == SubSeq(ms, 1, p)
           left == MaxChars - TotalSize(head)
           out == PrunedByChars(ms, p)
<1>0. N \in Nat /\ MaxChars \in Nat /\ \A i \in 1 .. N : ms[i] \in Messages
  BY ConversationAssumption
<1>c. \A m \in Messages : IsCutOf(m, m)
  BY CutFacts DEF Messages
<1>h. head \in Seq(Messages) /\ Len(head) = p /\ \A i \in 1 .. p : head[i] = ms[i]
  BY <1>0
<1>t. TotalSize(head) \in Nat
  BY <1>h, MessagesSized, TotalIsNat
<1>1. CASE N = p
  <2>1. out = ms
    BY <1>0, <1>1 DEF PrunedByChars
  <2> HIDE DEF out
  <2>2. KeepsTheEnd(ms, p, out) /\ Len(out) = p /\ Len(ms) = p
    BY <1>0, <1>1, <2>1 DEF KeepsTheEnd
  <2> QED
    BY <2>2 DEF out
<1>2. CASE N > p /\ \E k \in 0 .. (N - p - 1) : fits(k)
  <2> DEFINE First(k) == fits(k) /\ \A j \in 0 .. (k - 1) : ~fits(j)
             k == CHOOSE k \in 0 .. (N - p - 1) : First(k)
  <2>1. out = WithoutOldest(ms, p, k)
    BY <1>0, <1>2 DEF PrunedByChars
  <2>2. \E x \in 0 .. (N - p - 1) : First(x)
    <3> DEFINE S == {x \in Nat : x \notin 0 .. (N - p - 1) \/ ~fits(x)}
               T == {x \in Nat : \A y \in 0 .. x : y \in S}
    <3> SUFFICES ASSUME \A x \in 0 .. (N - p - 1) : ~First(x) PROVE FALSE
      OBVIOUS
    <3> HIDE DEF fits
    <3>1. 0 \in T
      OBVIOUS
    <3>2. \A x \in Nat : x \in T => x + 1 \in T
      <4> TAKE x \in Nat
      <4> HAVE x \in T
      <4>1. \A y \in 0 .. x : y \in S
        OBVIOUS
      <4>2. x + 1 \in S
        BY <4>1
      <4> HIDE DEF S
      <4>3. \A y \in 0 .. x + 1 : y \in 0 .. x \/ y = x + 1
        OBVIOUS
      <4> QED
        BY <4>1, <4>2, <4>3
    <3> HIDE DEF T
    <3>3. Nat \subseteq T
      BY <3>1, <3>2, Induct
    <3>4. PICK x \in 0 .. (N - p - 1) : fits(x)
      BY <1>2
    <3>5. x \in Nat /\ x \in 0 .. x
      BY <1>0, <1>2
    <3> QED
      BY <3>3, <3>4, <3>5 DEF T
  <2>3. k \in 0 .. (N - p - 1) /\ fits(k)
    <3>1. k \in 0 .. (N - p - 1) /\ First(k)
      <4> HIDE DEF First
      <4> QED
        BY <2>2
    <3> QED
      BY <3>1
  <2> HIDE DEF k
  <2>4. k \in Nat /\ p + k <= N /\ N - k > p
    BY <1>0, <1>2, <2>3
  <2>5. /\ out \in Seq(Messages) /\ Len(out) = N - k
        /\ \A i \in 1 .. p : out[i] = ms[i]
        /\ \A i \in p + 1 .. Len(out) : out[i] = ms[i + k]
    BY <2>1, <2>4, WithoutFacts
  <2>6. TotalSize(out) <= MaxChars
    BY <2>1, <2>3
  <2> HIDE DEF out
  <2>7. ASSUME NEW i \in p + 1 .. Len(out) PROVE IsCutOf(out[i], ms[N - Len(out) + i])
    <3>1. out[i] = ms[i + k]
      BY <2>5
    <3>2. N - Len(out) + i = i + k /\ i + k \in 1 .. N
      BY <1>0, <2>4, <2>5
    <3> QED
      BY <1>0, <1>c, <3>1, <3>2
  <2>8. KeepsTheEnd(ms, p, out)
    BY <1>0, <2>4, <2>5, <2>7 DEF KeepsTheEnd
  <2>9. Len(out) # p
    BY <1>0, <2>4, <2>5
  <2>10. /\ KeepsTheEnd(ms, p, out)
         /\ TotalSize(out) <= MaxChars \/ Len(out) = p
         /\ Len(out) = p => Len(ms) = p \/ TotalSize(SubSeq(ms, 1, p)) >= MaxChars
    BY <2>6, <2>8, <2>9
  <2> QED
    BY <2>10 DEF out
<1>3. CASE N > p /\ ~(\E k \in 0 .. (N - p - 1) : fits(k)) /\ left > 0
  <2> DEFINE cut == [ms[N] EXCEPT !.size = left]
  <2>1. out = Append(head, cut)
    <3>1. out = Append(head, [Last(ms) EXCEPT !.size = left])
      BY <1>0, <1>3 DEF PrunedByChars
    <3> QED
      BY <3>1 DEF Last
  <2>2. left \in Nat /\ TotalSize(head) + left = MaxChars
    BY <1>0, <1>t, <1>3
  <2>3. left <= ms[N].size
    <3> DEFINE k == N - p - 1
               one == WithoutOldest(ms, p, k)
    <3>1. k \in Nat /\ p + k <= N /\ k \in 0 .. (N - p - 1) /\ N - k = p + 1
      BY <1>0, <1>3
    <3>2. /\ one \in Seq(Messages) /\ Len(one) = N - k
          /\ \A i \in 1 .. p : one[i] = ms[i]
          /\ \A i \in p + 1 .. Len(one) : one[i] = ms[i + k]
      <4> HIDE DEF k
      <4> QED
        BY <3>1, WithoutFacts
    <3>3. ~(TotalSize(one) <= MaxChars)
      BY <1>3, <3>1
    <3> HIDE DEF one
    <3>4. one[p + 1] = ms[N]
      BY <1>0, <3>1, <3>2
    <3>5. TotalSize(one) = TotalSize(head) + ms[N].size
      <4>1. SizesOf(one)
        BY <3>2, MessagesSized
      <4>2. Len(head) \in Nat /\ Len(one) = Len(head) + 1 /\ \A i \in 1 .. Len(head) : head[i].size = one[i].size
        BY <1>h, <3>1, <3>2
      <4> HIDE DEF head
      <4>3. TotalSize(one) = TotalSize(head) + one[Len(one)].size
        BY <4>1, <4>2, TotalOfMore
      <4> QED
        BY <4>3, <3>1, <3>2, <3>4
    <3>6. ms[N].size \in Nat
      BY <1>0, <1>3 DEF Messages
    <3> QED
      BY <1>0, <1>t, <2>2, <3>3, <3>5, <3>6
  <2>4. ms[N] \in Messages
    BY <1>0, <1>3
  <2> HIDE DEF left
  <2>5. cut \in Messages /\ IsCutOf(cut, ms[N]) /\ cut.size = left
    <3>1. cut \in Messages /\ cut.size = left /\ cut.role = ms[N].role /\ cut.origin = ms[N].origin /\ cut.n = ms[N].n
      BY <2>2, <2>4 DEF Messages
    <3> HIDE DEF cut
    <3> QED
      BY <2>3, <2>4, <3>1, CutFacts
  <2> HIDE DEF head, cut
  <2>6. /\ out \in Seq(Messages) /\ Len(out) = p + 1
        /\ \A i \in 1 .. p : out[i] = head[i]
        /\ out[p + 1] = cut
    BY <1>h, <2>1, <2>5
  <2> HIDE DEF out
  <2>7. TotalSize(out) = MaxChars
    <3>1. SizesOf(out)
      BY <2>6, MessagesSized
    <3>2. TotalSize(out) = TotalSize(head) + out[Len(out)].size
      BY <1>h, <2>6, <3>1, TotalOfMore
    <3> QED
      BY <2>2, <2>5, <2>6, <3>2
  <2>8. KeepsTheEnd(ms, p, out)
    <3>1. ASSUME NEW i \in p + 1 .. Len(out) PROVE IsCutOf(out[i], ms[N - Len(out) + i])
      <4>1. i = p + 1 /\ N - Len(out) + i = N
        BY <1>0, <2>6
      <4> QED
        BY <4>1, <2>5, <2>6
    <3> QED
      BY <1>0, <1>3, <1>h, <2>6, <3>1 DEF KeepsTheEnd
  <2> QED
    BY <1>0, <2>6, <2>7, <2>8 DEF out
<1>4. CASE N > p /\ ~(\E k \in 0 .. (N - p - 1) : fits(k)) /\ ~(left > 0)
  <2>1. out = head
    BY <1>0, <1>4 DEF PrunedByChars
  <2>2. TotalSize(head) >= MaxChars
    BY <1>0, <1>t, <1>4
  <2> HIDE DEF out, head
  <2>3. KeepsTheEnd(ms, p, out)
    BY <1>0, <1>h, <2>1 DEF KeepsTheEnd
  <2> QED
    BY <1>h, <2>1, <2>2, <2>3 DEF out, head
<1> QED
  BY <1>0, <1>1, <1>2, <1>3, <1>4

LEMMA PrunedFacts ==
    ASSUME NEW ms \in Seq(Messages), NEW p \in Nat, p <= Len(ms)
    PROVE  LET out == Pruned(ms, p) IN
           /\ KeepsTheEnd(ms, p, out)
           /\ Len(out) <= p + MaxTail
           /\ TotalSize(out) <= MaxChars \/ Len(out) = p
           /\ Len(out) = p => Len(ms) = p \/ TotalSize(SubSeq(ms, 1, p)) >= MaxChars
<1> DEFINE mid == PrunedByCount(ms, p)
           out == PrunedByChars(mid, p)
<1>1. KeepsTheEnd(ms, p, mid) /\ Len(mid) <= p + MaxTail /\ (Len(mid) = p => Len(ms) = p)
  BY CountFacts
<1>2. Pruned(ms, p) = out
  BY DEF Pruned
<1> HIDE DEF mid
<1>3. mid \in Seq(Messages) /\ p <= Len(mid) /\ Len(mid) \in Nat /\ Len(ms) \in Nat /\ Len(mid) <= Len(ms)
  BY <1>1 DEF KeepsTheEnd
<1>4. /\ KeepsTheEnd(mid, p, out)
      /\ TotalSize(out) <= MaxChars \/ Len(out) = p
      /\ Len(out) = p => Len(mid) = p \/ TotalSize(SubSeq(mid, 1, p)) >= MaxChars
  BY <1>3, CharsFacts
<1> HIDE DEF out
<1>5. out \in Seq(Messages) /\ p <= Len(out) /\ Len(out) <= Len(mid) /\ Len(out) \in Nat
  BY <1>4 DEF KeepsTheEnd
<1>6. SubSeq(mid, 1, p) = SubSeq(ms, 1, p)
  <2>1. \A i \in 1 .. p : mid[i] = ms[i]
    BY <1>1 DEF KeepsTheEnd
  <2> QED
    BY <1>3, <2>1
<1>7. KeepsTheEnd(ms, p, out)
  <2>1. ASSUME NEW i \in p + 1 .. Len(out) PROVE IsCutOf(out[i], ms[Len(ms) - Len(out) + i])
    <3> DEFINE j == Len(mid) - Len(out) + i
               k == Len(ms) - Len(out) + i
    <3>1. j \in p + 1 .. Len(mid) /\ k \in 1 .. Len(ms) /\ Len(ms) - Len(mid) + j = k /\ i \in 1 .. Len(out) /\ j \in 1 .. Len(mid)
      BY <1>3, <1>5
    <3>2. IsCutOf(out[i], mid[j])
      BY <1>4 DEF KeepsTheEnd
    <3> HIDE DEF j, k
    <3>3. IsCutOf(mid[j], ms[k])
      BY <1>1, <3>1 DEF KeepsTheEnd
    <3>4. out[i] \in Messages /\ mid[j] \in Messages /\ ms[k] \in Messages
      BY <1>3, <1>5, <3>1
    <3>5. IsCutOf(out[i], ms[k])
      <4>1. out[i].size \in Nat /\ mid[j].size \in Nat /\ ms[k].size \in Nat
        BY <3>4 DEF Messages
      <4> QED
        BY <4>1, <3>2, <3>3, <3>4, CutFacts
    <3> QED
      BY <3>5 DEF k
  <2>2. \A i \in 1 .. p : out[i] = ms[i]
    BY <1>1, <1>4 DEF KeepsTheEnd
  <2> QED
    BY <1>3, <1>5, <2>1, <2>2 DEF KeepsTheEnd
<1>8. Len(out) <= p + MaxTail
  BY <1>1, <1>3, <1>5, ConversationAssumption
<1>9. Len(out) = p => Len(ms) = p \/ TotalSize(SubSeq(ms, 1, p)) >= MaxChars
  BY <1>1, <1>4, <1>6
<1> QED
  BY <1>2, <1>4, <1>7, <1>8, <1>9
-----------------------------------------------------------------------------
(* The end of what was said                                                 *)

SaidMessages == {m \in Messages : m.origin \notin {"system", "pinned"}}

(* After its first from messages, ms holds the end of all that was said     *)
(* after the first thing.                                                   *)
TailFrom(ms, from, all) ==
    /\ from <= Len(ms) /\ Len(ms) - from <= Len(all) - 1
    /\ \A i \in from + 1 .. Len(ms) : IsCutOf(ms[i], all[Len(all) - Len(ms) + i])

LEMMA TailAppended ==
    ASSUME NEW ms \in Seq(Messages), NEW all \in Seq(Messages), NEW m \in Messages,
           NEW from \in Nat, TailFrom(ms, from, all)
    PROVE  TailFrom(Append(ms, m), from, Append(all, m))
<1> DEFINE N == Len(ms)
           A == Len(all)
           ns == Append(ms, m)
           then == Append(all, m)
<1>1. /\ N \in Nat /\ A \in Nat /\ from <= N /\ N - from <= A - 1
      /\ \A i \in from + 1 .. N : IsCutOf(ms[i], all[A - N + i])
  BY DEF TailFrom
<1>2. Len(ns) = N + 1 /\ (\A i \in 1 .. N : ns[i] = ms[i]) /\ ns[N + 1] = m
  OBVIOUS
<1>3. Len(then) = A + 1 /\ (\A i \in 1 .. A : then[i] = all[i]) /\ then[A + 1] = m
  OBVIOUS
<1>c. IsCutOf(m, m)
  BY CutFacts DEF Messages
<1> HIDE DEF N, A, ns, then
<1>4. ASSUME NEW i \in from + 1 .. N + 1 PROVE IsCutOf(ns[i], then[(A + 1) - (N + 1) + i])
  <2>1. CASE i = N + 1
    <3>1. (A + 1) - (N + 1) + i = A + 1
      BY <2>1, <1>1
    <3> QED
      BY <2>1, <3>1, <1>2, <1>3, <1>c
  <2>2. CASE i # N + 1
    <3>1. /\ i \in from + 1 .. N /\ i \in 1 .. N /\ (A + 1) - (N + 1) + i = A - N + i
          /\ A - N + i \in 1 .. A
      BY <2>2, <1>1
    <3> QED
      BY <3>1, <1>1, <1>2, <1>3
  <2> QED
    BY <2>1, <2>2
<1>5. from <= N + 1 /\ (N + 1) - from <= (A + 1) - 1
  BY <1>1
<1>6. TailFrom(ns, from, then)
  BY <1>2, <1>3, <1>4, <1>5 DEF TailFrom
<1> QED
  BY <1>6 DEF ns, then

LEMMA TailPruned ==
    ASSUME NEW ms \in Seq(Messages), NEW all \in Seq(Messages), NEW out,
           NEW from \in Nat, TailFrom(ms, from, all), KeepsTheEnd(ms, from, out)
    PROVE  TailFrom(out, from, all)
<1> DEFINE N == Len(ms)
           A == Len(all)
           M == Len(out)
<1>1. /\ N \in Nat /\ A \in Nat /\ from <= N /\ N - from <= A - 1
      /\ \A i \in from + 1 .. N : IsCutOf(ms[i], all[A - N + i])
  BY DEF TailFrom
<1>2. /\ out \in Seq(Messages) /\ M \in Nat /\ from <= M /\ M <= N
      /\ \A i \in from + 1 .. M : IsCutOf(out[i], ms[N - M + i])
  BY DEF KeepsTheEnd
<1>3. /\ \A i \in 1 .. N : ms[i] \in Messages
      /\ \A i \in 1 .. A : all[i] \in Messages
      /\ \A i \in 1 .. M : out[i] \in Messages
  BY <1>2
<1> HIDE DEF N, A, M
<1>4. ASSUME NEW i \in from + 1 .. M PROVE IsCutOf(out[i], all[A - M + i])
  <2> DEFINE j == N - M + i
             k == A - M + i
  <2>1. j \in from + 1 .. N /\ j \in 1 .. N /\ k \in 1 .. A /\ i \in 1 .. M /\ A - N + j = k
    BY <1>1, <1>2
  <2>2. IsCutOf(out[i], ms[j])
    BY <1>2
  <2> HIDE DEF j, k
  <2>3. IsCutOf(ms[j], all[k])
    BY <1>1, <2>1
  <2>4. out[i] \in Messages /\ ms[j] \in Messages /\ all[k] \in Messages
    BY <1>3, <2>1
  <2>5. out[i].size \in Nat /\ ms[j].size \in Nat /\ all[k].size \in Nat
    BY <2>4 DEF Messages
  <2>6. IsCutOf(out[i], all[k])
    BY <2>2, <2>3, <2>4, <2>5, CutFacts
  <2> QED
    BY <2>6 DEF k
<1>5. M - from <= A - 1
  BY <1>1, <1>2
<1> QED
  BY <1>2, <1>4, <1>5 DEF TailFrom, M, A

LEMMA TailIsTail ==
    ASSUME NEW ms \in Seq(Messages), NEW all \in Seq(Messages), NEW from \in Nat,
           TailFrom(ms, from, all)
    PROVE  IsTailOf(SubSeq(ms, from + 1, Len(ms)), Tail(all))
<1> DEFINE N == Len(ms)
           A == Len(all)
           f == from + 1
           end == SubSeq(ms, f, N)
           rest == Tail(all)
<1>1. /\ N \in Nat /\ A \in Nat /\ from <= N /\ N - from <= A - 1 /\ f \in Nat /\ f >= 1 /\ f <= N + 1
      /\ \A i \in from + 1 .. N : IsCutOf(ms[i], all[A - N + i])
  BY DEF TailFrom
<1>2. Len(end) = N + 1 - f /\ \A i \in 1 .. N + 1 - f : end[i] = ms[f - 1 + i]
  <2> HIDE DEF f
  <2>1. Len(end) = N + 1 - f
    BY <1>1
  <2>2. \A i \in 1 .. N + 1 - f : end[i] = ms[f - 1 + i]
    BY <1>1
  <2> QED
    BY <2>1, <2>2
<1>3. Len(rest) = A - 1 /\ \A i \in 1 .. A - 1 : rest[i] = all[i + 1]
  <2>1. all # <<>>
    BY <1>1
  <2> QED
    BY <2>1, <1>1
<1>4. DOMAIN end = 1 .. N + 1 - f
  <2>1. end \in Seq(Messages)
    BY <1>1
  <2> HIDE DEF end
  <2> QED
    BY <1>2, <2>1
<1>5. N + 1 - f = N - from
  BY <1>1
<1> HIDE DEF end, rest, N, A
<1>6. ASSUME NEW i \in 1 .. N - from PROVE IsCutOf(end[i], rest[(A - 1) - (N - from) + i])
  <2> DEFINE k == (A - 1) - (N - from) + i
             j == from + i
  <2>1. k \in 1 .. A - 1 /\ j \in from + 1 .. N /\ A - N + j = k + 1 /\ f - 1 + i = j
    BY <1>1
  <2>2. end[i] = ms[j]
    BY <1>2, <1>5, <2>1
  <2> HIDE DEF k, j
  <2>3. rest[k] = all[k + 1]
    BY <1>3, <2>1
  <2>4. IsCutOf(ms[j], all[k + 1])
    BY <1>1, <2>1
  <2>5. IsCutOf(end[i], rest[k])
    BY <2>2, <2>3, <2>4
  <2> QED
    BY <2>5 DEF k
<1>7. IsTailOf(end, rest)
  BY <1>1, <1>2, <1>3, <1>4, <1>5, <1>6 DEF IsTailOf
<1> QED
  BY <1>7 DEF end, rest, N
-----------------------------------------------------------------------------
(* The inductive invariant                                                  *)

(* Whether the window has the slot of the pinned files: it gets it with the *)
(* first request.                                                           *)
Slot == IF turn.pinned /\ ~(turn.stage = "top" /\ turn.first) THEN 1 ELSE 0

(* A list begins with a system prompt and what was said first.              *)
HeadSound(ms, all) ==
    Len(all) >= 1 /\ Len(ms) >= Prefix /\ ms[1].origin = "system" /\ ms[2] = all[1]

(* A history stands for all that was said.                                  *)
RecordSound(ms, all) ==
    /\ HeadSound(ms, all) /\ ms[1].role = "system" /\ ms[1].size = 1
    /\ TailFrom(ms, Prefix, all)
    /\ Len(ms) > Prefix \/ Len(all) = 1 \/ TotalSize(ms) >= MaxChars

(* A window stands for all that was said in the n-th run.                   *)
WindowStands(ms, slot, all, n) ==
    /\ HeadSound(ms, all) /\ ms[1].n = n
    /\ slot = 1 => Len(ms) >= Prefix + 1 /\ ms[Prefix + 1].origin = "pinned"
    /\ TailFrom(ms, Prefix + slot, all)

KeepsBudget(ms, slot) ==
    /\ Len(ms) <= Prefix + MaxTail + slot
    /\ \/ TotalSize(ms) - (IF slot = 1 THEN ms[3].size ELSE 0) <= MaxChars
       \/ TotalSize(SubSeq(ms, 1, Prefix)) > MaxChars

ConversationTypes ==
    /\ messages \in Seq(Messages) /\ history \in Seq(Messages) /\ transcript.messages \in Seq(Messages)
    /\ said \in Seq(SaidMessages) /\ kept \in Seq(SaidMessages)
    /\ memo \in Nat /\ spoken \in Nat /\ runs \in Nat
    /\ DOMAIN turn = {"stage", "calls", "done", "pinned", "first"}
    /\ turn.stage \in {"none", "top", "asked", "calls", "writing"}
    /\ turn.stage = "calls" => ~turn.first

HistoryStands == turn.stage # "none" => RecordSound(history, said)
TranscriptStands == transcript.state = "whole" => RecordSound(transcript.messages, kept)
WindowIndSound == turn.stage \in {"top", "asked", "calls"} => WindowStands(messages, Slot, said, runs)
BudgetIndKept == (turn.stage \in {"top", "asked"} /\ ~turn.first) => KeepsBudget(messages, Slot)

ConversationIndInv ==
    ConversationTypes /\ HistoryStands /\ TranscriptStands /\ WindowIndSound /\ BudgetIndKept

LEMMA SaidAreMessages ==
    ASSUME NEW all \in Seq(SaidMessages)
    PROVE  all \in Seq(Messages)
<1>1. SaidMessages \subseteq Messages
  BY DEF SaidMessages
<1> HIDE DEF SaidMessages
<1> QED
  BY <1>1

LEMMA SaidAppended ==
    ASSUME NEW all \in Seq(SaidMessages), NEW m \in SaidMessages
    PROVE  /\ Append(all, m) \in Seq(SaidMessages) /\ Len(Append(all, m)) = Len(all) + 1
           /\ Len(all) \in Nat
           /\ Len(all) >= 1 => Append(all, m)[1] = all[1]
<1> HIDE DEF SaidMessages
<1> QED
  OBVIOUS

LEMMA MessageFacts ==
    ASSUME NEW role \in {"system", "user", "assistant"},
           NEW origin \in {"system", "goal", "pinned", "rejected", "error", "directive", "result"},
           NEW n \in Nat, NEW size \in Nat
    PROVE  /\ Message(role, origin, n, size) \in Messages
           /\ origin \notin {"system", "pinned"} => Message(role, origin, n, size) \in SaidMessages
BY DEF Message, Messages, SaidMessages

LEMMA HeadFacts ==
    ASSUME NEW ms \in Seq(Messages), NEW p \in Nat, p <= Len(ms)
    PROVE  LET head == SubSeq(ms, 1, p) IN
           head \in Seq(Messages) /\ Len(head) = p /\ \A i \in 1 .. p : head[i] = ms[i]
OBVIOUS

LEMMA RestFacts ==
    ASSUME NEW ms \in Seq(Messages), NEW q \in Nat, 1 <= q, q <= Len(ms) + 1
    PROVE  LET rest == SubSeq(ms, q, Len(ms)) IN
           /\ rest \in Seq(Messages) /\ Len(rest) = Len(ms) + 1 - q
           /\ \A i \in 1 .. Len(ms) + 1 - q : rest[i] = ms[q - 1 + i]
OBVIOUS

LEMMA JoinFacts ==
    ASSUME NEW ms \in Seq(Messages), NEW ns \in Seq(Messages)
    PROVE  /\ ms \o ns \in Seq(Messages) /\ Len(ms \o ns) = Len(ms) + Len(ns)
           /\ \A i \in 1 .. Len(ms) : (ms \o ns)[i] = ms[i]
           /\ \A i \in Len(ms) + 1 .. Len(ms) + Len(ns) : (ms \o ns)[i] = ns[i - Len(ms)]
OBVIOUS

LEMMA AppendFacts ==
    ASSUME NEW ms \in Seq(Messages), NEW m \in Messages
    PROVE  /\ Append(ms, m) \in Seq(Messages) /\ Len(Append(ms, m)) = Len(ms) + 1
           /\ \A i \in 1 .. Len(ms) : Append(ms, m)[i] = ms[i]
           /\ Append(ms, m)[Len(ms) + 1] = m
OBVIOUS

LEMMA SameLists ==
    ASSUME NEW ms \in Seq(Messages), NEW ns \in Seq(Messages), Len(ms) = Len(ns),
           \A i \in 1 .. Len(ms) : ms[i] = ns[i]
    PROVE  ms = ns
OBVIOUS

(* The history after a push stands for all that was said.                   *)
LEMMA RecordPushed ==
    ASSUME NEW ms \in Seq(Messages), NEW all \in Seq(SaidMessages), NEW m \in SaidMessages,
           RecordSound(ms, all)
    PROVE  /\ Recorded(ms, m) \in Seq(Messages)
           /\ RecordSound(Recorded(ms, m), Append(all, m))
<1> DEFINE ns == Append(ms, m)
           out == Pruned(ns, Prefix)
           then == Append(all, m)
<1>0. Recorded(ms, m) = out /\ Prefix = 2 /\ Prefix \in Nat
  BY DEF Recorded, Prefix
<1>1. m \in Messages /\ all \in Seq(Messages)
  BY SaidAreMessages DEF SaidMessages
<1>2. /\ Len(all) >= 1 /\ Len(ms) >= 2 /\ ms[1].origin = "system" /\ ms[2] = all[1]
      /\ ms[1].role = "system" /\ ms[1].size = 1 /\ TailFrom(ms, Prefix, all)
  BY <1>0 DEF RecordSound, HeadSound
<1>3. ns \in Seq(Messages) /\ Len(ns) = Len(ms) + 1 /\ ns[1] = ms[1] /\ ns[2] = ms[2] /\ Len(ms) \in Nat
  BY <1>1, <1>2
<1>4. TailFrom(ns, Prefix, then)
  BY <1>0, <1>1, <1>2, TailAppended
<1>5. then \in Seq(SaidMessages) /\ Len(then) = Len(all) + 1 /\ then[1] = all[1]
  BY <1>2, SaidAppended
<1>6. then \in Seq(Messages)
  BY <1>5, SaidAreMessages
<1> HIDE DEF ns, then
<1>7. /\ KeepsTheEnd(ns, Prefix, out)
      /\ Len(out) = Prefix => Len(ns) = Prefix \/ TotalSize(SubSeq(ns, 1, Prefix)) >= MaxChars
  <2>1. ns \in Seq(Messages) /\ Prefix \in Nat /\ Prefix <= Len(ns)
    BY <1>0, <1>2, <1>3
  <2> QED
    BY <2>1, PrunedFacts
<1> HIDE DEF out
<1>8. /\ out \in Seq(Messages) /\ Len(out) >= 2 /\ out[1] = ns[1] /\ out[2] = ns[2] /\ Len(out) \in Nat
      /\ \A i \in 1 .. 2 : out[i] = ns[i]
  BY <1>0, <1>7 DEF KeepsTheEnd
<1>9. TailFrom(out, Prefix, then)
  BY <1>0, <1>3, <1>4, <1>6, <1>7, TailPruned
<1>10. Len(out) > Prefix \/ TotalSize(out) >= MaxChars
  <2>0. Len(out) = 2 \/ Len(out) > Prefix
    <3>1. Len(out) \in Nat /\ Len(out) >= 2
      BY <1>8
    <3>2. \A n \in Nat : n >= 2 => n = 2 \/ n > 2
      OBVIOUS
    <3>3. Len(out) = 2 \/ Len(out) > 2
      BY <3>1, <3>2, Zenon
    <3> QED
      BY <1>0, <3>3, Zenon
  <2> SUFFICES ASSUME Len(out) = 2 PROVE TotalSize(out) >= MaxChars
    BY <2>0
  <2>1. TotalSize(SubSeq(ns, 1, Prefix)) >= MaxChars
    BY <1>0, <1>2, <1>3, <1>7
  <2> DEFINE head == SubSeq(ns, 1, 2)
  <2>2. head \in Seq(Messages) /\ Len(head) = 2 /\ \A i \in 1 .. 2 : head[i] = ns[i]
    <3>1. 2 \in Nat /\ 2 <= Len(ns)
      BY <1>2, <1>3
    <3> QED
      BY <1>3, <3>1, HeadFacts
  <2> HIDE DEF head
  <2>3. head = out
    BY <1>8, <2>2, SameLists
  <2> QED
    <3>1. TotalSize(SubSeq(ns, 1, Prefix)) = TotalSize(out)
      BY <1>0, <2>3 DEF head
    <3> QED
      BY <2>1, <3>1
<1>11. RecordSound(out, then)
  BY <1>0, <1>2, <1>3, <1>5, <1>8, <1>9, <1>10 DEF RecordSound, HeadSound
<1> QED
  BY <1>0, <1>8, <1>11 DEF then

(* So does the window, ...                                                  *)
LEMMA WindowAppended ==
    ASSUME NEW ms \in Seq(Messages), NEW all \in Seq(SaidMessages), NEW m \in SaidMessages,
           NEW slot \in {0, 1}, NEW n, WindowStands(ms, slot, all, n)
    PROVE  /\ Append(ms, m) \in Seq(Messages)
           /\ WindowStands(Append(ms, m), slot, Append(all, m), n)
<1> DEFINE ns == Append(ms, m)
           then == Append(all, m)
<1>0. Prefix = 2 /\ Prefix + slot \in Nat
  BY DEF Prefix
<1>1. m \in Messages /\ all \in Seq(Messages)
  BY SaidAreMessages DEF SaidMessages
<1>2. /\ Len(all) >= 1 /\ Len(ms) >= 2 /\ ms[1].origin = "system" /\ ms[2] = all[1]
      /\ ms[1].n = n /\ TailFrom(ms, Prefix + slot, all)
      /\ slot = 1 => Len(ms) >= 3 /\ ms[3].origin = "pinned"
  BY <1>0 DEF WindowStands, HeadSound
<1>3. /\ ns \in Seq(Messages) /\ Len(ns) = Len(ms) + 1 /\ ns[1] = ms[1] /\ ns[2] = ms[2] /\ Len(ms) \in Nat
      /\ Len(ms) >= 3 => ns[3] = ms[3]
  BY <1>1, <1>2
<1>4. TailFrom(ns, Prefix + slot, then)
  BY <1>0, <1>1, <1>2, TailAppended
<1>5. then \in Seq(SaidMessages) /\ Len(then) = Len(all) + 1 /\ then[1] = all[1] /\ Len(all) \in Nat
  BY <1>2, SaidAppended
<1> HIDE DEF ns, then
<1>6. WindowStands(ns, slot, then, n)
  BY <1>0, <1>2, <1>3, <1>4, <1>5 DEF WindowStands, HeadSound
<1> QED
  BY <1>3, <1>6 DEF ns, then

(* ... also pruned, and then it keeps to the budget.                        *)
LEMMA WindowPruned ==
    ASSUME NEW ms \in Seq(Messages), NEW all \in Seq(SaidMessages),
           NEW slot \in {0, 1}, NEW n, WindowStands(ms, slot, all, n)
    PROVE  LET out == Pruned(ms, Prefix + slot) IN
           /\ out \in Seq(Messages)
           /\ WindowStands(out, slot, all, n)
           /\ KeepsBudget(out, slot)
<1> DEFINE p == Prefix + slot
           out == Pruned(ms, p)
<1>0. Prefix = 2 /\ p \in Nat /\ p = 2 + slot
  BY DEF Prefix
<1>1. all \in Seq(Messages) /\ Len(all) \in Nat
  BY SaidAreMessages
<1>2. /\ Len(all) >= 1 /\ Len(ms) >= 2 /\ ms[1].origin = "system" /\ ms[2] = all[1]
      /\ ms[1].n = n /\ TailFrom(ms, p, all)
      /\ slot = 1 => Len(ms) >= 3 /\ ms[3].origin = "pinned"
  BY <1>0 DEF WindowStands, HeadSound
<1>3. p <= Len(ms) /\ Len(ms) \in Nat
  BY <1>0, <1>2
<1> HIDE DEF p
<1>4. /\ KeepsTheEnd(ms, p, out)
      /\ Len(out) <= p + MaxTail
      /\ TotalSize(out) <= MaxChars \/ Len(out) = p
  BY <1>0, <1>3, PrunedFacts
<1> HIDE DEF out
<1>5. /\ out \in Seq(Messages) /\ Len(out) >= p /\ Len(out) \in Nat
      /\ \A i \in 1 .. p : out[i] = ms[i]
  BY <1>0, <1>4 DEF KeepsTheEnd
<1>6. out[1] = ms[1] /\ out[2] = ms[2] /\ (slot = 1 => out[3] = ms[3])
  BY <1>0, <1>5
<1>7. TailFrom(out, p, all)
  BY <1>0, <1>1, <1>2, <1>4, TailPruned
<1>8. WindowStands(out, slot, all, n)
  BY <1>0, <1>2, <1>5, <1>6, <1>7 DEF WindowStands, HeadSound, p
<1>s. SizesOf(out) /\ TotalSize(out) \in Nat /\ \A i \in 1 .. Len(out) : out[i].size \in Nat
  BY <1>5, MessagesSized, TotalIsNat DEF SizesOf
<1>9. \/ TotalSize(out) - (IF slot = 1 THEN out[3].size ELSE 0) <= MaxChars
      \/ TotalSize(SubSeq(out, 1, Prefix)) > MaxChars
  <2> DEFINE head == SubSeq(out, 1, 2)
  <2>1. CASE TotalSize(out) <= MaxChars
    <3>1. CASE slot = 1
      <4>1. out[3].size \in Nat
        BY <1>s, <1>0, <1>5, <3>1
      <4> QED
        BY <2>1, <3>1, <4>1, <1>s, ConversationAssumption
    <3>2. CASE slot = 0
      BY <2>1, <3>2, <1>s
    <3> QED
      BY <3>1, <3>2
  <2>2. CASE Len(out) = p /\ slot = 0
    <3>1. Len(out) = 2
      BY <2>2, <1>0
    <3>2. head \in Seq(Messages) /\ Len(head) = 2 /\ \A i \in 1 .. 2 : head[i] = out[i]
      <4>1. 2 \in Nat /\ 2 <= Len(out) /\ out \in Seq(Messages)
        BY <3>1, <1>5
      <4> QED
        BY <4>1, HeadFacts
    <3> HIDE DEF head
    <3>3. head = out
      BY <1>5, <3>1, <3>2, SameLists
    <3>4. TotalSize(SubSeq(out, 1, Prefix)) = TotalSize(out)
      BY <1>0, <3>3 DEF head
    <3>5. TotalSize(out) <= MaxChars \/ TotalSize(out) > MaxChars
      BY <1>s, ConversationAssumption
    <3> QED
      BY <2>2, <3>4, <3>5, <1>s
  <2>3. CASE Len(out) = p /\ slot = 1
    <3>1. Len(out) = 3
      BY <2>3, <1>0
    <3>2. head \in Seq(Messages) /\ Len(head) = 2 /\ \A i \in 1 .. 2 : head[i] = out[i]
      <4>1. 2 \in Nat /\ 2 <= Len(out) /\ out \in Seq(Messages)
        BY <3>1, <1>5
      <4>2. \A l \in Nat : l <= Len(out) =>
               /\ SubSeq(out, 1, l) \in Seq(Messages) /\ Len(SubSeq(out, 1, l)) = l
               /\ \A i \in 1 .. l : SubSeq(out, 1, l)[i] = out[i]
        BY <4>1, HeadFacts, Zenon
      <4>3. /\ SubSeq(out, 1, 2) \in Seq(Messages) /\ Len(SubSeq(out, 1, 2)) = 2
            /\ \A i \in 1 .. 2 : SubSeq(out, 1, 2)[i] = out[i]
        BY <4>1, <4>2
      <4> QED
        BY <4>3
    <3> HIDE DEF head
    <3>3. TotalSize(out) = TotalSize(head) + out[3].size
      <4>1. Len(out) = Len(head) + 1 /\ Len(head) \in Nat /\ \A i \in 1 .. Len(head) : head[i].size = out[i].size
        BY <3>1, <3>2
      <4>2. TotalSize(out) = TotalSize(head) + out[Len(out)].size
        BY <4>1, <1>s, TotalOfMore
      <4> QED
        BY <4>2, <3>1
    <3>4. TotalSize(head) \in Nat /\ out[3].size \in Nat
      BY <3>1, <3>2, <1>s, MessagesSized, TotalIsNat
    <3>5. TotalSize(out) - out[3].size = TotalSize(head)
      BY <3>3, <3>4
    <3>6. TotalSize(head) <= MaxChars \/ TotalSize(head) > MaxChars
      BY <3>4, ConversationAssumption
    <3>7. TotalSize(SubSeq(out, 1, Prefix)) = TotalSize(head)
      BY <1>0 DEF head
    <3> QED
      BY <2>3, <3>5, <3>6, <3>7
  <2> QED
    BY <2>1, <2>2, <2>3, <1>4
<1>10. KeepsBudget(out, slot)
  BY <1>0, <1>4, <1>9, ConversationAssumption DEF KeepsBudget
<1> QED
  BY <1>5, <1>8, <1>10 DEF out, p
-----------------------------------------------------------------------------
(* The start of a run                                                       *)

PathLists == {<<>>, <<"plain", "linked">>, <<"long">>, <<"away">>, <<"binary">>}

LEMMA GoalIsNat ==
    ASSUME NEW paths \in PathLists
    PROVE  GoalSize(1, paths) \in Nat \ {0}
<1> DEFINE PathNames == {"plain", "linked", "long", "away", "binary"}
           parts == Sections(paths)
<1>1. paths \in Seq(PathNames)
  <2>1. <<>> \in Seq(PathNames) /\ <<"long">> \in Seq(PathNames) /\ <<"away">> \in Seq(PathNames) /\ <<"binary">> \in Seq(PathNames)
    OBVIOUS
  <2>2. <<"plain", "linked">> \in Seq(PathNames)
    OBVIOUS
  <2> HIDE DEF PathNames
  <2> QED
    BY <2>1, <2>2 DEF PathLists
<1>2. DOMAIN paths = 1 .. Len(paths) /\ Len(paths) \in Nat /\ \A i \in DOMAIN paths : paths[i] \in PathNames
  BY <1>1
<1>3. \A name \in PathNames : Paths[name].size \in Nat
  BY ConversationAssumption DEF Paths
<1> HIDE DEF PathNames
<1>4. DOMAIN parts = 1 .. Len(paths)
  BY <1>2 DEF Sections
<1>5. \A i \in 1 .. Len(paths) : parts[i].size \in Nat
  <2> TAKE i \in 1 .. Len(paths)
  <2>1. Paths[paths[i]].size \in Nat /\ FileLimit \in Nat
    BY <1>2, <1>3, ConversationAssumption
  <2>2. parts[i].size =
            IF \E j \in 1 .. i - 1 : Paths[paths[j]].file = Paths[paths[i]].file THEN 0
            ELSE IF Paths[paths[i]].size > FileLimit THEN FileLimit ELSE Paths[paths[i]].size
    BY <1>2 DEF Sections
  <2> QED
    BY <2>1, <2>2
<1>6. Len(parts) = Len(paths)
  <2>1. parts \in [1 .. Len(paths) -> {parts[i] : i \in 1 .. Len(paths)}]
    <3>1. parts = [i \in 1 .. Len(paths) |-> parts[i]]
      BY <1>2, <1>4 DEF Sections
    <3> HIDE DEF parts
    <3> QED
      BY <3>1
  <2> HIDE DEF parts
  <2> QED
    BY <1>2, <2>1
<1>7. TotalSize(parts) \in Nat
  <2>1. Len(parts) \in Nat /\ SizesOf(parts)
    BY <1>2, <1>5, <1>6 DEF SizesOf
  <2> HIDE DEF parts
  <2> QED
    BY <2>1, TotalIsNat
<1>8. GoalSize(1, paths) = 1 + TotalSize(parts)
  BY DEF GoalSize
<1> HIDE DEF parts
<1> QED
  BY <1>7, <1>8

LEMMA RecordIsWindow ==
    ASSUME NEW ms, NEW all, NEW n, RecordSound(ms, all), ms[1].n = n
    PROVE  WindowStands(ms, 0, all, n)
<1>1. Prefix + 0 = Prefix
  BY DEF Prefix
<1> QED
  BY <1>1 DEF RecordSound, WindowStands

(* apply_current_system_prompt: the resumed list keeps what it stands for.  *)
LEMMA RecordRenewed ==
    ASSUME NEW ms \in Seq(Messages), NEW all \in Seq(SaidMessages), NEW system \in Messages,
           system.role = "system", system.origin = "system", system.size = 1,
           RecordSound(ms, all)
    PROVE  LET base == [ms EXCEPT ![1] = system] IN
           base \in Seq(Messages) /\ base[1] = system /\ RecordSound(base, all)
<1> DEFINE base == [ms EXCEPT ![1] = system]
           N == Len(ms)
<1>0. Prefix = 2
  BY DEF Prefix
<1>1. /\ Len(all) >= 1 /\ N >= 2 /\ ms[1].origin = "system" /\ ms[2] = all[1] /\ N \in Nat
      /\ ms[1].role = "system" /\ ms[1].size = 1 /\ TailFrom(ms, 2, all)
      /\ Len(ms) > Prefix \/ Len(all) = 1 \/ TotalSize(ms) >= MaxChars
  BY <1>0 DEF RecordSound, HeadSound
<1>2. base \in Seq(Messages) /\ Len(base) = N
  BY <1>1
<1>3. base[1] = system /\ base[2] = ms[2] /\ \A i \in 1 .. N : i # 1 => base[i] = ms[i]
  BY <1>1
<1> HIDE DEF base
<1>4. TotalSize(base) = TotalSize(ms)
  <2>1. \A i \in 1 .. N : ms[i].size = base[i].size
    BY <1>1, <1>3
  <2>2. SizesOf(ms) /\ Len(ms) \in Nat
    BY MessagesSized
  <2> QED
    BY <1>2, <2>1, <2>2, TotalOfSame
<1>5. TailFrom(base, 2, all)
  <2>1. /\ 2 <= N /\ N - 2 <= Len(all) - 1
        /\ \A i \in 2 + 1 .. N : IsCutOf(ms[i], all[Len(all) - N + i])
    BY <1>1 DEF TailFrom
  <2>2. \A i \in 2 + 1 .. N : base[i] = ms[i]
    BY <1>3
  <2> QED
    BY <1>2, <2>1, <2>2 DEF TailFrom
<1>6. RecordSound(base, all)
  BY <1>0, <1>1, <1>2, <1>3, <1>4, <1>5 DEF RecordSound, HeadSound
<1> QED
  BY <1>2, <1>3, <1>6 DEF base

LEMMA RecordAppended ==
    ASSUME NEW ms \in Seq(Messages), NEW all \in Seq(SaidMessages), NEW m \in SaidMessages,
           RecordSound(ms, all)
    PROVE  /\ Append(ms, m) \in Seq(Messages) /\ Append(ms, m)[1] = ms[1]
           /\ RecordSound(Append(ms, m), Append(all, m))
<1> DEFINE ns == Append(ms, m)
           then == Append(all, m)
<1>0. Prefix = 2 /\ Prefix \in Nat
  BY DEF Prefix
<1>1. m \in Messages /\ all \in Seq(Messages)
  BY SaidAreMessages DEF SaidMessages
<1>2. /\ Len(all) >= 1 /\ Len(ms) >= 2 /\ ms[1].origin = "system" /\ ms[2] = all[1]
      /\ ms[1].role = "system" /\ ms[1].size = 1 /\ TailFrom(ms, Prefix, all)
  BY <1>0 DEF RecordSound, HeadSound
<1>3. ns \in Seq(Messages) /\ Len(ns) = Len(ms) + 1 /\ ns[1] = ms[1] /\ ns[2] = ms[2] /\ Len(ms) \in Nat
  BY <1>1, <1>2
<1>4. TailFrom(ns, Prefix, then)
  BY <1>0, <1>1, <1>2, TailAppended
<1>5. then \in Seq(SaidMessages) /\ Len(then) = Len(all) + 1 /\ then[1] = all[1] /\ Len(all) \in Nat
  BY <1>2, SaidAppended
<1> HIDE DEF ns, then
<1>6. Len(ns) > Prefix
  <2>1. \A n \in Nat : n >= 2 => n + 1 > 2
    OBVIOUS
  <2> QED
    BY <1>0, <1>2, <1>3, <2>1
<1>7. RecordSound(ns, then)
  BY <1>0, <1>2, <1>3, <1>4, <1>5, <1>6 DEF RecordSound, HeadSound
<1> QED
  BY <1>3, <1>7 DEF ns, then

LEMMA RecordFresh ==
    ASSUME NEW system \in Messages, NEW goal \in SaidMessages,
           system.role = "system", system.origin = "system", system.size = 1
    PROVE  /\ <<system, goal>> \in Seq(Messages) /\ <<goal>> \in Seq(SaidMessages)
           /\ <<system, goal>>[1] = system
           /\ RecordSound(<<system, goal>>, <<goal>>)
<1> DEFINE ms == <<system, goal>>
           all == <<goal>>
<1>0. Prefix = 2 /\ goal \in Messages
  BY DEF Prefix, SaidMessages
<1>1. ms \in Seq(Messages) /\ Len(ms) = 2 /\ ms[1] = system /\ ms[2] = goal
  BY <1>0
<1>2. all \in Seq(SaidMessages) /\ Len(all) = 1 /\ all[1] = goal
  <2> HIDE DEF SaidMessages
  <2> QED
    OBVIOUS
<1> HIDE DEF ms, all
<1>3. TailFrom(ms, 2, all)
  BY <1>1, <1>2 DEF TailFrom
<1>4. RecordSound(ms, all)
  BY <1>0, <1>1, <1>2, <1>3 DEF RecordSound, HeadSound
<1> QED
  BY <1>1, <1>2, <1>4 DEF ms, all

LEMMA StartRunKeeps ==
    ASSUME ConversationIndInv, NEW resume \in BOOLEAN, NEW prompt \in 0..1, NEW pinned \in BOOLEAN,
           NEW paths \in PathLists, StartRun(resume, prompt, paths, pinned)
    PROVE  ConversationIndInv'
<1> DEFINE system == Message("system", "system", runs + 1, 1)
           size == IF prompt = 0 THEN 0 ELSE GoalSize(prompt, paths)
           goal == Message("user", "goal", spoken + 1, size)
           resumed == IF resume THEN transcript.messages ELSE <<>>
<1>1. ConversationTypes /\ TranscriptStands
  BY DEF ConversationIndInv
<1>2. /\ IF resume THEN ResumeReads ELSE prompt > 0
      /\ messages' = Seeded(system, goal, resumed)
      /\ history' = messages'
      /\ said' = (IF resume THEN kept ELSE <<>>) \o (IF size = 0 THEN <<>> ELSE <<goal>>)
      /\ spoken' = spoken + (IF size = 0 THEN 0 ELSE 1)
      /\ turn' = [stage |-> "top", calls |-> 0, done |-> FALSE, pinned |-> pinned, first |-> TRUE]
      /\ runs' = runs + 1
      /\ UNCHANGED <<transcript, memo, kept>>
  BY DEF StartRun
<1>3. size \in Nat /\ (prompt > 0 => size # 0)
  <2>1. GoalSize(1, paths) \in Nat \ {0}
    BY GoalIsNat
  <2>2. prompt = 0 \/ prompt = 1
    OBVIOUS
  <2> QED
    BY <2>1, <2>2
<1>4. system \in Messages /\ system.role = "system" /\ system.origin = "system" /\ system.size = 1 /\ system.n = runs + 1
  <2>1. runs + 1 \in Nat
    BY <1>1 DEF ConversationTypes
  <2> QED
    BY <2>1, MessageFacts DEF Message
<1>5. goal \in SaidMessages /\ goal.size = size
  <2>1. spoken + 1 \in Nat
    BY <1>1 DEF ConversationTypes
  <2> HIDE DEF size
  <2> QED
    BY <1>3, <2>1, MessageFacts DEF Message
<1>6. spoken' \in Nat /\ runs' \in Nat
  BY <1>1, <1>2 DEF ConversationTypes
<1> HIDE DEF size, system, goal
<1>7. messages' \in Seq(Messages) /\ said' \in Seq(SaidMessages) /\ messages'[1] = system /\ RecordSound(messages', said')
  <2>1. CASE ~resume
    <3>1. messages' = <<system, goal>>
      BY <1>2, <2>1 DEF Seeded
    <3>2. said' = <<goal>>
      <4>1. said' = <<>> \o <<goal>>
        BY <1>2, <1>3, <2>1
      <4> HIDE DEF SaidMessages
      <4> QED
        BY <4>1
    <3> QED
      BY <1>4, <1>5, <3>1, <3>2, RecordFresh
  <2>2. CASE resume
    <3> DEFINE ms == transcript.messages
               base == [ms EXCEPT ![1] = system]
    <3>1. ms # <<>> /\ RecordSound(ms, kept) /\ ms \in Seq(Messages) /\ kept \in Seq(SaidMessages) /\ resumed = ms
      BY <1>1, <1>2, <2>2 DEF ResumeReads, TranscriptStands, ConversationTypes
    <3>2. ms[1].role = "system"
      BY <3>1 DEF RecordSound
    <3>3. messages' = IF goal.size = 0 THEN base ELSE Append(base, goal)
      BY <1>2, <3>1, <3>2 DEF Seeded
    <3>4. base \in Seq(Messages) /\ base[1] = system /\ RecordSound(base, kept)
      BY <1>4, <3>1, RecordRenewed
    <3> HIDE DEF base
    <3>5. CASE size = 0
      <4>1. messages' = base
        BY <1>5, <3>3, <3>5
      <4>2. said' = kept
        <5>1. said' = kept \o <<>>
          BY <1>2, <2>2, <3>5
        <5> HIDE DEF SaidMessages
        <5> QED
          BY <5>1, <3>1
      <4> QED
        BY <3>1, <3>4, <4>1, <4>2
    <3>6. CASE size # 0
      <4>1. messages' = Append(base, goal)
        BY <1>5, <3>3, <3>6
      <4>2. said' = Append(kept, goal)
        <5>1. said' = kept \o <<goal>>
          BY <1>2, <2>2, <3>6
        <5> HIDE DEF SaidMessages
        <5> QED
          BY <5>1, <3>1, <1>5
      <4>3. /\ Append(base, goal) \in Seq(Messages) /\ Append(base, goal)[1] = system
            /\ RecordSound(Append(base, goal), Append(kept, goal))
        BY <1>5, <3>1, <3>4, RecordAppended
      <4>4. Append(kept, goal) \in Seq(SaidMessages)
        BY <1>5, <3>1, SaidAppended
      <4> QED
        BY <4>1, <4>2, <4>3, <4>4
    <3> QED
      BY <3>5, <3>6
  <2> QED
    BY <2>1, <2>2
<1>8. turn'.stage = "top" /\ turn'.first = TRUE /\ Slot' = 0
  BY <1>2 DEF Slot
<1>9. ConversationTypes'
  BY <1>1, <1>2, <1>6, <1>7 DEF ConversationTypes
<1>10. HistoryStands'
  BY <1>2, <1>7 DEF HistoryStands
<1>11. TranscriptStands'
  BY <1>1, <1>2 DEF TranscriptStands
<1>12. WindowIndSound'
  <2>1. WindowStands(messages', 0, said', runs')
    BY <1>2, <1>4, <1>7, RecordIsWindow
  <2> QED
    BY <1>8, <2>1 DEF WindowIndSound
<1>13. BudgetIndKept'
  BY <1>8 DEF BudgetIndKept
<1> QED
  BY <1>9, <1>10, <1>11, <1>12, <1>13 DEF ConversationIndInv

(* The slot enters the window ...                                           *)
LEMMA WindowInserted ==
    ASSUME NEW ms \in Seq(Messages), NEW all \in Seq(SaidMessages), NEW m \in Messages,
           m.origin = "pinned", NEW n, WindowStands(ms, 0, all, n)
    PROVE  /\ PinnedPut(ms, m) \in Seq(Messages)
           /\ WindowStands(PinnedPut(ms, m), 1, all, n)
<1> DEFINE N == Len(ms)
           A == Len(all)
           head == SubSeq(ms, 1, 2)
           rest == SubSeq(ms, 3, N)
           out == (head \o <<m>>) \o rest
<1>0. Prefix = 2
  BY DEF Prefix
<1>1. /\ A \in Nat /\ N \in Nat /\ A >= 1 /\ N >= 2 /\ ms[1].origin = "system" /\ ms[2] = all[1] /\ ms[1].n = n
      /\ TailFrom(ms, 2, all)
  BY <1>0 DEF WindowStands, HeadSound
<1>2. N - 2 <= A - 1 /\ \A i \in 3 .. N : IsCutOf(ms[i], all[A - N + i])
  BY <1>1 DEF TailFrom
<1>3. N > 2 => ms[3].origin # "pinned"
  <2> SUFFICES ASSUME N > 2 PROVE ms[3].origin # "pinned"
    OBVIOUS
  <2>1. 3 \in 3 .. N /\ A - N + 3 \in 1 .. A /\ 3 \in 1 .. N
    BY <1>1, <1>2
  <2>2. IsCutOf(ms[3], all[A - N + 3])
    BY <1>2, <2>1
  <2>3. ms[3] \in Messages
    BY <2>1
  <2>4. all[A - N + 3] \in SaidMessages
    <3> HIDE DEF SaidMessages
    <3> QED
      BY <2>1
  <2>5. all[A - N + 3] \in Messages /\ all[A - N + 3].origin # "pinned"
    BY <2>4 DEF SaidMessages
  <2> QED
    BY <2>2, <2>3, <2>5, CutFacts
<1>4. PinnedPut(ms, m) = out
  BY <1>0, <1>1, <1>3 DEF PinnedPut
<1>5. head \in Seq(Messages) /\ Len(head) = 2 /\ head[1] = ms[1] /\ head[2] = ms[2]
  BY <1>1
<1>6. rest \in Seq(Messages) /\ Len(rest) = N - 2 /\ \A i \in 1 .. N - 2 : rest[i] = ms[2 + i]
  <2>1. 3 \in Nat /\ 1 <= 3 /\ 3 <= N + 1
    BY <1>1
  <2>2. /\ rest \in Seq(Messages) /\ Len(rest) = N + 1 - 3
        /\ \A i \in 1 .. N + 1 - 3 : rest[i] = ms[3 - 1 + i]
    BY <2>1, RestFacts
  <2>3. N + 1 - 3 = N - 2 /\ 3 - 1 = 2
    BY <1>1
  <2> HIDE DEF rest, N
  <2> QED
    BY <2>2, <2>3
<1> HIDE DEF head, rest, N, A
<1> DEFINE front == head \o <<m>>
<1>7. front \in Seq(Messages) /\ Len(front) = 3 /\ front[1] = ms[1] /\ front[2] = ms[2] /\ front[3] = m
  <2>1. front = Append(head, m)
    BY <1>5
  <2>2. /\ front \in Seq(Messages) /\ Len(front) = Len(head) + 1
        /\ \A i \in 1 .. Len(head) : front[i] = head[i]
        /\ front[Len(head) + 1] = m
    <3> HIDE DEF front
    <3> QED
      BY <1>5, <2>1, AppendFacts
  <2> HIDE DEF front
  <2>3. Len(head) = 2 /\ Len(head) + 1 = 3
    BY <1>5
  <2>4. /\ front \in Seq(Messages) /\ Len(front) = 3
        /\ \A i \in 1 .. 2 : front[i] = head[i]
        /\ front[3] = m
    BY <2>2, <2>3
  <2> QED
    BY <1>5, <2>4
<1> HIDE DEF front
<1>8. /\ out = front \o rest
      /\ out \in Seq(Messages) /\ Len(out) = 3 + Len(rest)
      /\ \A i \in 1 .. 3 : out[i] = front[i]
      /\ \A i \in 3 + 1 .. 3 + Len(rest) : out[i] = rest[i - 3]
  <2>1. out = front \o rest
    BY DEF front
  <2> HIDE DEF out
  <2>2. /\ out \in Seq(Messages) /\ Len(out) = Len(front) + Len(rest)
        /\ \A i \in 1 .. Len(front) : out[i] = front[i]
        /\ \A i \in Len(front) + 1 .. Len(front) + Len(rest) : out[i] = rest[i - Len(front)]
    BY <1>6, <1>7, <2>1, JoinFacts
  <2>3. Len(front) = 3
    BY <1>7
  <2> QED
    BY <2>1, <2>2, <2>3
<1>9. out \in Seq(Messages) /\ Len(out) = N + 1
  <2> HIDE DEF out
  <2> QED
    BY <1>1, <1>6, <1>8
<1> HIDE DEF out
<1>10. out[1] = ms[1] /\ out[2] = ms[2] /\ out[3] = m
  BY <1>7, <1>8
<1>11. ASSUME NEW i \in 4 .. N + 1 PROVE out[i] = ms[i - 1]
  <2>1. out[i] = rest[i - 3]
    <3>1. i \in 3 + 1 .. 3 + Len(rest)
      BY <1>1, <1>6
    <3> QED
      BY <1>8, <3>1
  <2>2. i - 3 \in 1 .. N - 2 /\ 2 + (i - 3) = i - 1
    BY <1>1
  <2> QED
    BY <2>1, <2>2, <1>6
<1>12. TailFrom(out, 3, all)
  <2>1. ASSUME NEW i \in 3 + 1 .. Len(out) PROVE IsCutOf(out[i], all[A - Len(out) + i])
    <3>0. Len(out) = N + 1 /\ N \in Nat /\ A \in Nat /\ i \in 4 .. N + 1
      BY <1>1, <1>9
    <3>1. i \in 4 .. N + 1 /\ i - 1 \in 3 .. N /\ A - Len(out) + i = A - N + (i - 1)
      <4>1. i - 1 \in 3 .. N
        BY <3>0
      <4>2. A - (N + 1) + i = A - N + (i - 1)
        BY <3>0
      <4> QED
        BY <3>0, <4>1, <4>2
    <3>2. IsCutOf(ms[i - 1], all[A - N + (i - 1)])
      BY <1>2, <3>1
    <3> QED
      BY <1>11, <3>1, <3>2
  <2>2. 3 <= Len(out) /\ Len(out) - 3 <= A - 1
    BY <1>1, <1>2, <1>9
  <2> QED
    BY <2>1, <2>2 DEF TailFrom, A
<1>13. Len(out) >= 3 /\ Len(out) >= 2
  BY <1>1, <1>9
<1>14. WindowStands(out, 1, all, n)
  <2>1. Prefix + 1 = 3
    BY <1>0
  <2> QED
    BY <1>0, <1>1, <1>10, <1>12, <1>13, <2>1 DEF WindowStands, HeadSound, A
<1> QED
  BY <1>4, <1>9, <1>14

(* ... or is replaced in it, and then it is not part of the budget.         *)
LEMMA WindowReplaced ==
    ASSUME NEW ms \in Seq(Messages), NEW all \in Seq(SaidMessages), NEW m \in Messages,
           m.origin = "pinned", NEW n, WindowStands(ms, 1, all, n)
    PROVE  /\ PinnedPut(ms, m) \in Seq(Messages)
           /\ WindowStands(PinnedPut(ms, m), 1, all, n)
           /\ KeepsBudget(ms, 1) => KeepsBudget(PinnedPut(ms, m), 1)
<1> DEFINE N == Len(ms)
           out == [ms EXCEPT ![3] = m]
<1>0. Prefix = 2 /\ Prefix + 1 = 3
  BY DEF Prefix
<1>1. /\ Len(all) \in Nat /\ N \in Nat /\ Len(all) >= 1 /\ N >= 3 /\ ms[1].origin = "system" /\ ms[2] = all[1]
      /\ ms[1].n = n /\ ms[3].origin = "pinned" /\ TailFrom(ms, 3, all)
  BY <1>0 DEF WindowStands, HeadSound
<1>2. PinnedPut(ms, m) = out
  <2>1. N > Prefix
    <3>1. \A l \in Nat : l >= 3 => l > 2
      OBVIOUS
    <3> QED
      BY <1>0, <1>1, <3>1
  <2> QED
    BY <1>0, <1>1, <2>1 DEF PinnedPut
<1>3. out \in Seq(Messages) /\ Len(out) = N
  BY <1>1
<1>4. out[3] = m /\ \A i \in 1 .. N : i # 3 => out[i] = ms[i]
  BY <1>1
<1> HIDE DEF out
<1>5. TailFrom(out, 3, all)
  <2>1. /\ N - 3 <= Len(all) - 1
        /\ \A i \in 3 + 1 .. N : IsCutOf(ms[i], all[Len(all) - N + i])
    BY <1>1 DEF TailFrom
  <2>2. \A i \in 3 + 1 .. N : out[i] = ms[i]
    BY <1>4
  <2> QED
    BY <1>1, <1>3, <2>1, <2>2 DEF TailFrom
<1>6. out[1] = ms[1] /\ out[2] = ms[2]
  BY <1>1, <1>4
<1>7. WindowStands(out, 1, all, n)
  BY <1>0, <1>1, <1>3, <1>4, <1>5, <1>6 DEF WindowStands, HeadSound
<1>8. ASSUME KeepsBudget(ms, 1) PROVE KeepsBudget(out, 1)
  <2>1. TotalSize(out) + ms[3].size = TotalSize(ms) + m.size
    <3>1. SizesOf(ms) /\ SizesOf(out)
      BY <1>3, MessagesSized
    <3>2. \A i \in 1 .. Len(ms) : i # 3 => ms[i].size = out[i].size
      BY <1>4
    <3>3. TotalSize(out) + ms[3].size = TotalSize(ms) + out[3].size
      BY <1>1, <1>3, <3>1, <3>2, 3 \in Nat, TotalOfChanged
    <3> QED
      BY <1>4, <3>3
  <2>2. TotalSize(out) \in Nat /\ TotalSize(ms) \in Nat
    BY <1>3, MessagesSized, TotalIsNat
  <2>3. ms[3].size \in Nat /\ m.size \in Nat
    <3>1. ms[3] \in Messages
      BY <1>1
    <3> QED
      BY <3>1 DEF Messages
  <2>4. TotalSize(out) - out[3].size = TotalSize(ms) - ms[3].size
    <3>1. TotalSize(out) - m.size = TotalSize(ms) - ms[3].size
      <4> DEFINE a == TotalSize(out)
                 b == ms[3].size
                 c == TotalSize(ms)
                 d == m.size
      <4>1. a \in Nat /\ b \in Nat /\ c \in Nat /\ d \in Nat /\ a + b = c + d
        BY <2>1, <2>2, <2>3
      <4> HIDE DEF a, b, c, d
      <4>2. a - d = c - b
        BY <4>1
      <4> QED
        BY <4>2 DEF a, b, c, d
    <3> QED
      BY <1>4, <3>1
  <2>5. SubSeq(out, 1, 2) = SubSeq(ms, 1, 2)
    <3> DEFINE h == SubSeq(out, 1, 2)
               g == SubSeq(ms, 1, 2)
    <3>1. 2 \in Nat /\ 2 <= Len(out) /\ 2 <= Len(ms) /\ out \in Seq(Messages)
      BY <1>1, <1>3
    <3>2. h \in Seq(Messages) /\ Len(h) = 2 /\ \A i \in 1 .. 2 : h[i] = out[i]
      BY <3>1, HeadFacts
    <3>3. g \in Seq(Messages) /\ Len(g) = 2 /\ \A i \in 1 .. 2 : g[i] = ms[i]
      BY <3>1, HeadFacts
    <3> HIDE DEF h, g
    <3>4. \A i \in 1 .. 2 : out[i] = ms[i]
      BY <1>6
    <3>5. h = g
      BY <3>2, <3>3, <3>4, SameLists
    <3> QED
      BY <3>5 DEF h, g
  <2> QED
    BY <1>0, <1>3, <1>8, <2>4, <2>5 DEF KeepsBudget
<1> QED
  BY <1>2, <1>3, <1>7, <1>8
-----------------------------------------------------------------------------
(* The other steps                                                          *)

LEMMA StageSet ==
    ASSUME NEW s, ConversationTypes, Stage(s)
    PROVE  /\ turn'.stage = s /\ turn'.pinned = turn.pinned /\ turn'.first = turn.first
           /\ DOMAIN turn' = {"stage", "calls", "done", "pinned", "first"}
BY DEF Stage, ConversationTypes

(* The slot does not change while the window has it.                        *)
LEMMA SlotKept ==
    ASSUME turn.stage # "top" \/ ~turn.first, turn'.stage # "top" \/ ~turn'.first,
           turn'.pinned = turn.pinned
    PROVE  Slot' = Slot /\ Slot = (IF turn.pinned THEN 1 ELSE 0) /\ Slot \in {0, 1}
BY DEF Slot

LEMMA WriteMemoKeeps ==
    ASSUME ConversationIndInv, NEW size \in {1, 3}, WriteMemo(size)
    PROVE  ConversationIndInv'
<1>1. ConversationTypes /\ HistoryStands /\ TranscriptStands /\ WindowIndSound /\ BudgetIndKept
  BY DEF ConversationIndInv
<1>2. /\ memo' = size
      /\ UNCHANGED <<messages, history, transcript, turn, said, kept, spoken, runs>>
  BY DEF WriteMemo
<1>3. ConversationTypes'
  BY <1>1, <1>2 DEF ConversationTypes
<1>4. Slot' = Slot
  BY <1>2 DEF Slot
<1>5. HistoryStands' /\ TranscriptStands' /\ WindowIndSound' /\ BudgetIndKept'
  BY <1>1, <1>2, <1>4 DEF HistoryStands, TranscriptStands, WindowIndSound, BudgetIndKept
<1> QED
  BY <1>3, <1>5 DEF ConversationIndInv

LEMMA AskKeeps ==
    ASSUME ConversationIndInv, Ask
    PROVE  ConversationIndInv'
<1> DEFINE m == Message("user", "pinned", 0, memo)
<1>1. ConversationTypes /\ HistoryStands /\ TranscriptStands /\ WindowIndSound /\ BudgetIndKept
  BY DEF ConversationIndInv
<1>2. /\ turn.stage = "top" /\ messages' = Refreshed /\ Stage("asked")
      /\ UNCHANGED <<history, transcript, memo, said, kept, spoken, runs>>
  BY DEF Ask
<1>3. /\ turn'.stage = "asked" /\ turn'.pinned = turn.pinned /\ turn'.first = turn.first
      /\ DOMAIN turn' = {"stage", "calls", "done", "pinned", "first"}
  BY <1>1, <1>2, StageSet
<1>4. m \in Messages /\ m.origin = "pinned"
  BY <1>1, 0 \in Nat, MessageFacts DEF ConversationTypes, Message
<1>5. messages \in Seq(Messages) /\ said \in Seq(SaidMessages) /\ WindowStands(messages, Slot, said, runs)
  BY <1>1, <1>2 DEF ConversationTypes, WindowIndSound
<1>6. Slot' = IF turn.pinned THEN 1 ELSE 0
  BY <1>3 DEF Slot
<1> HIDE DEF m
<1>7. /\ messages' \in Seq(Messages) /\ WindowStands(messages', Slot', said, runs)
      /\ ~turn.first => KeepsBudget(messages', Slot')
  <2>1. CASE ~turn.pinned
    <3>1. messages' = messages /\ Slot = 0 /\ Slot' = 0
      BY <1>2, <1>6, <2>1 DEF Refreshed, Slot
    <3>2. ~turn.first => KeepsBudget(messages, Slot)
      BY <1>1, <1>2 DEF BudgetIndKept
    <3> QED
      BY <1>5, <3>1, <3>2
  <2>2. CASE turn.pinned /\ turn.first
    <3>1. messages' = PinnedPut(messages, m) /\ Slot = 0 /\ Slot' = 1
      BY <1>2, <1>6, <2>2 DEF Refreshed, Slot, m
    <3>2. WindowStands(messages, 0, said, runs)
      BY <1>5, <3>1
    <3>3. PinnedPut(messages, m) \in Seq(Messages) /\ WindowStands(PinnedPut(messages, m), 1, said, runs)
      BY <1>4, <1>5, <3>2, WindowInserted
    <3> QED
      BY <2>2, <3>1, <3>3
  <2>3. CASE turn.pinned /\ ~turn.first
    <3>1. messages' = PinnedPut(messages, m) /\ Slot = 1 /\ Slot' = 1
      BY <1>2, <1>6, <2>3 DEF Refreshed, Slot, m
    <3>2. WindowStands(messages, 1, said, runs) /\ KeepsBudget(messages, 1)
      BY <1>1, <1>2, <1>5, <2>3, <3>1 DEF BudgetIndKept
    <3>3. /\ PinnedPut(messages, m) \in Seq(Messages) /\ WindowStands(PinnedPut(messages, m), 1, said, runs)
          /\ KeepsBudget(PinnedPut(messages, m), 1)
      BY <1>4, <1>5, <3>2, WindowReplaced
    <3> QED
      BY <3>1, <3>3
  <2> QED
    BY <2>1, <2>2, <2>3
<1>8. ConversationTypes'
  BY <1>1, <1>2, <1>3, <1>7 DEF ConversationTypes
<1>9. HistoryStands'
  BY <1>1, <1>2, <1>3 DEF HistoryStands
<1>10. TranscriptStands'
  BY <1>1, <1>2 DEF TranscriptStands
<1>11. WindowIndSound'
  BY <1>2, <1>7 DEF WindowIndSound
<1>12. BudgetIndKept'
  BY <1>3, <1>7 DEF BudgetIndKept
<1> QED
  BY <1>8, <1>9, <1>10, <1>11, <1>12 DEF ConversationIndInv

LEMMA TwoAppended ==
    ASSUME NEW T, NEW s \in Seq(T), NEW m \in T, NEW next \in T
    PROVE  s \o <<m, next>> = Append(Append(s, m), next)
OBVIOUS

LEMMA ReplyRejectedKeeps ==
    ASSUME ConversationIndInv, NEW reply, ReplyRejected(reply)
    PROVE  ConversationIndInv'
<1> DEFINE m == Message("assistant", "rejected", spoken + 1, 1)
           next == Message("user", "error", spoken + 2, 1)
           asked == Append(Append(messages, m), next)
           all == Append(Append(said, m), next)
<1>1. ConversationTypes /\ HistoryStands /\ TranscriptStands /\ WindowIndSound /\ BudgetIndKept
  BY DEF ConversationIndInv
<1>2. /\ turn.stage = "asked"
      /\ PushBoth(m, next)
      /\ turn' = [turn EXCEPT !.stage = "top", !.first = FALSE]
      /\ UNCHANGED <<transcript, memo, kept, runs>>
  BY DEF ReplyRejected
<1>3. /\ turn'.stage = "top" /\ turn'.pinned = turn.pinned /\ turn'.first = FALSE
      /\ DOMAIN turn' = {"stage", "calls", "done", "pinned", "first"}
  BY <1>1, <1>2 DEF ConversationTypes
<1>4. m \in SaidMessages /\ next \in SaidMessages
  <2>1. spoken + 1 \in Nat /\ spoken + 2 \in Nat /\ 1 \in Nat
    BY <1>1 DEF ConversationTypes
  <2> QED
    BY <2>1, MessageFacts
<1> HIDE DEF m, next
<1>5. m \in Messages /\ next \in Messages
  BY <1>4 DEF SaidMessages
<1>6. messages \in Seq(Messages) /\ history \in Seq(Messages) /\ said \in Seq(SaidMessages) /\ spoken \in Nat
  BY <1>1 DEF ConversationTypes
<1>7. Slot' = Slot /\ Slot = (IF turn.pinned THEN 1 ELSE 0) /\ Slot \in {0, 1}
  <2>1. turn.stage # "top" /\ ~turn'.first
    BY <1>2, <1>3
  <2> QED
    BY <1>3, <2>1, SlotKept
<1>8. /\ messages' = Pruned(asked, Prefix + Slot)
      /\ history' = Recorded(Recorded(history, m), next)
      /\ said' = all /\ spoken' = spoken + 2
  <2>1. messages \o <<m, next>> = asked
    BY <1>5, <1>6, TwoAppended
  <2>2. said \o <<m, next>> = all
    <3> HIDE DEF SaidMessages
    <3> QED
      BY <1>4, <1>6, TwoAppended
  <2> QED
    BY <1>2, <1>7, <2>1, <2>2 DEF PushBoth
<1>9. all \in Seq(SaidMessages) /\ Append(said, m) \in Seq(SaidMessages)
  BY <1>4, <1>6, SaidAppended
<1>10. Recorded(Recorded(history, m), next) \in Seq(Messages) /\ RecordSound(Recorded(Recorded(history, m), next), all)
  <2>1. RecordSound(history, said)
    BY <1>1, <1>2 DEF HistoryStands
  <2>2. Recorded(history, m) \in Seq(Messages) /\ RecordSound(Recorded(history, m), Append(said, m))
    BY <1>4, <1>6, <2>1, RecordPushed
  <2> QED
    BY <1>4, <1>9, <2>2, RecordPushed
<1>11. asked \in Seq(Messages) /\ WindowStands(asked, Slot, all, runs)
  <2>1. WindowStands(messages, Slot, said, runs)
    BY <1>1, <1>2 DEF WindowIndSound
  <2>2. Append(messages, m) \in Seq(Messages) /\ WindowStands(Append(messages, m), Slot, Append(said, m), runs)
    BY <1>4, <1>6, <1>7, <2>1, WindowAppended
  <2> QED
    BY <1>4, <1>7, <1>9, <2>2, WindowAppended
<1> HIDE DEF asked, all
<1>12. messages' \in Seq(Messages) /\ WindowStands(messages', Slot, all, runs) /\ KeepsBudget(messages', Slot)
  BY <1>7, <1>8, <1>9, <1>11, WindowPruned
<1>13. ConversationTypes'
  BY <1>1, <1>2, <1>3, <1>6, <1>8, <1>9, <1>10, <1>12 DEF ConversationTypes
<1>14. HistoryStands'
  BY <1>8, <1>10 DEF HistoryStands
<1>15. TranscriptStands'
  BY <1>1, <1>2 DEF TranscriptStands
<1>16. WindowIndSound'
  BY <1>2, <1>7, <1>8, <1>12 DEF WindowIndSound
<1>17. BudgetIndKept'
  BY <1>7, <1>12 DEF BudgetIndKept
<1> QED
  BY <1>13, <1>14, <1>15, <1>16, <1>17 DEF ConversationIndInv

LEMMA ReplyAcceptedKeeps ==
    ASSUME ConversationIndInv, NEW reply, ReplyAccepted(reply, 1)
    PROVE  ConversationIndInv'
<1> DEFINE m == Message("assistant", "directive", spoken + 1, 1)
<1>1. ConversationTypes /\ HistoryStands /\ TranscriptStands /\ WindowIndSound /\ BudgetIndKept
  BY DEF ConversationIndInv
<1>2. /\ turn.stage = "asked"
      /\ messages' = Append(messages, m)
      /\ history' = Recorded(history, m)
      /\ said' = Append(said, m) /\ spoken' = spoken + 1
      /\ turn' = [turn EXCEPT !.stage = "calls", !.calls = CallCount(reply), !.done = reply.done, !.first = FALSE]
      /\ UNCHANGED <<transcript, memo, kept, runs>>
  BY DEF ReplyAccepted
<1>3. /\ turn'.stage = "calls" /\ turn'.pinned = turn.pinned /\ turn'.first = FALSE
      /\ DOMAIN turn' = {"stage", "calls", "done", "pinned", "first"}
  BY <1>1, <1>2 DEF ConversationTypes
<1>4. m \in SaidMessages
  <2>1. spoken + 1 \in Nat /\ 1 \in Nat
    BY <1>1 DEF ConversationTypes
  <2> QED
    BY <2>1, MessageFacts
<1> HIDE DEF m
<1>5. messages \in Seq(Messages) /\ history \in Seq(Messages) /\ said \in Seq(SaidMessages) /\ spoken \in Nat
  BY <1>1 DEF ConversationTypes
<1>6. Slot' = Slot /\ Slot \in {0, 1}
  <2>1. turn.stage # "top" /\ turn'.stage # "top"
    BY <1>2, <1>3
  <2> QED
    BY <1>3, <2>1, SlotKept
<1>7. said' \in Seq(SaidMessages)
  BY <1>2, <1>4, <1>5, SaidAppended
<1>8. history' \in Seq(Messages) /\ RecordSound(history', said')
  <2>1. RecordSound(history, said)
    BY <1>1, <1>2 DEF HistoryStands
  <2> QED
    BY <1>2, <1>4, <1>5, <2>1, RecordPushed
<1>9. messages' \in Seq(Messages) /\ WindowStands(messages', Slot, said', runs)
  <2>1. WindowStands(messages, Slot, said, runs)
    BY <1>1, <1>2 DEF WindowIndSound
  <2> QED
    BY <1>2, <1>4, <1>5, <1>6, <2>1, WindowAppended
<1>10. ConversationTypes'
  BY <1>1, <1>2, <1>3, <1>5, <1>7, <1>8, <1>9 DEF ConversationTypes
<1>11. HistoryStands'
  BY <1>8 DEF HistoryStands
<1>12. TranscriptStands'
  BY <1>1, <1>2 DEF TranscriptStands
<1>13. WindowIndSound'
  BY <1>2, <1>6, <1>9 DEF WindowIndSound
<1>14. BudgetIndKept'
  BY <1>3 DEF BudgetIndKept
<1> QED
  BY <1>10, <1>11, <1>12, <1>13, <1>14 DEF ConversationIndInv

LEMMA CallAnsweredKeeps ==
    ASSUME ConversationIndInv, NEW size \in {1, 3}, CallAnswered(size)
    PROVE  ConversationIndInv'
<1> DEFINE m == Message("user", "result", spoken + 1, size)
           asked == Append(messages, m)
<1>1. ConversationTypes /\ HistoryStands /\ TranscriptStands /\ WindowIndSound /\ BudgetIndKept
  BY DEF ConversationIndInv
<1>2. /\ turn.stage = "calls"
      /\ messages' = Pruned(asked, Prefix + (IF turn.pinned THEN 1 ELSE 0))
      /\ history' = Recorded(history, m)
      /\ said' = Append(said, m) /\ spoken' = spoken + 1
      /\ turn' = [turn EXCEPT !.calls = @ - 1]
      /\ UNCHANGED <<transcript, memo, kept, runs>>
  BY DEF CallAnswered, Push
<1>3. /\ turn'.stage = "calls" /\ turn'.pinned = turn.pinned /\ turn'.first = turn.first
      /\ DOMAIN turn' = {"stage", "calls", "done", "pinned", "first"}
  BY <1>1, <1>2 DEF ConversationTypes
<1>4. m \in SaidMessages
  <2>1. spoken + 1 \in Nat /\ size \in Nat
    BY <1>1 DEF ConversationTypes
  <2> QED
    BY <2>1, MessageFacts
<1> HIDE DEF m
<1>5. messages \in Seq(Messages) /\ history \in Seq(Messages) /\ said \in Seq(SaidMessages) /\ spoken \in Nat
  BY <1>1 DEF ConversationTypes
<1>6. Slot' = Slot /\ Slot = (IF turn.pinned THEN 1 ELSE 0) /\ Slot \in {0, 1}
  <2>1. turn.stage # "top" /\ turn'.stage # "top"
    BY <1>2, <1>3
  <2> QED
    BY <1>3, <2>1, SlotKept
<1>7. said' \in Seq(SaidMessages)
  BY <1>2, <1>4, <1>5, SaidAppended
<1>8. history' \in Seq(Messages) /\ RecordSound(history', said')
  <2>1. RecordSound(history, said)
    BY <1>1, <1>2 DEF HistoryStands
  <2> QED
    BY <1>2, <1>4, <1>5, <2>1, RecordPushed
<1>9. asked \in Seq(Messages) /\ WindowStands(asked, Slot, said', runs)
  <2>1. WindowStands(messages, Slot, said, runs)
    BY <1>1, <1>2 DEF WindowIndSound
  <2> QED
    BY <1>2, <1>4, <1>5, <1>6, <2>1, WindowAppended
<1> HIDE DEF asked
<1>10. messages' \in Seq(Messages) /\ WindowStands(messages', Slot, said', runs)
  <2>1. messages' = Pruned(asked, Prefix + Slot)
    BY <1>2, <1>6
  <2> QED
    BY <1>6, <1>7, <1>9, <2>1, WindowPruned
<1>11. ConversationTypes'
  BY <1>1, <1>2, <1>3, <1>5, <1>7, <1>8, <1>10 DEF ConversationTypes
<1>12. HistoryStands'
  BY <1>8 DEF HistoryStands
<1>13. TranscriptStands'
  BY <1>1, <1>2 DEF TranscriptStands
<1>14. WindowIndSound'
  BY <1>2, <1>6, <1>10 DEF WindowIndSound
<1>15. BudgetIndKept'
  BY <1>3 DEF BudgetIndKept
<1> QED
  BY <1>11, <1>12, <1>13, <1>14, <1>15 DEF ConversationIndInv

LEMMA TurnOverKeeps ==
    ASSUME ConversationIndInv, TurnOver
    PROVE  ConversationIndInv'
<1>1. ConversationTypes /\ HistoryStands /\ TranscriptStands /\ WindowIndSound /\ BudgetIndKept
  BY DEF ConversationIndInv
<1>2. /\ turn.stage = "calls" /\ Stage("top")
      /\ messages' = Pruned(messages, Prefix + (IF turn.pinned THEN 1 ELSE 0))
      /\ UNCHANGED <<history, transcript, memo, said, kept, spoken, runs>>
  BY DEF TurnOver
<1>3. /\ turn'.stage = "top" /\ turn'.pinned = turn.pinned /\ turn'.first = turn.first
      /\ DOMAIN turn' = {"stage", "calls", "done", "pinned", "first"}
  BY <1>1, <1>2, StageSet
<1>4. ~turn.first
  BY <1>1, <1>2 DEF ConversationTypes
<1>5. Slot' = Slot /\ Slot = (IF turn.pinned THEN 1 ELSE 0) /\ Slot \in {0, 1}
  BY <1>3, <1>4, SlotKept
<1>6. messages \in Seq(Messages) /\ said \in Seq(SaidMessages) /\ WindowStands(messages, Slot, said, runs)
  BY <1>1, <1>2 DEF ConversationTypes, WindowIndSound
<1>7. messages' \in Seq(Messages) /\ WindowStands(messages', Slot, said, runs) /\ KeepsBudget(messages', Slot)
  <2>1. messages' = Pruned(messages, Prefix + Slot)
    BY <1>2, <1>5
  <2> QED
    BY <1>5, <1>6, <2>1, WindowPruned
<1>8. ConversationTypes'
  BY <1>1, <1>2, <1>3, <1>7 DEF ConversationTypes
<1>9. HistoryStands'
  BY <1>1, <1>2, <1>3 DEF HistoryStands
<1>10. TranscriptStands'
  BY <1>1, <1>2 DEF TranscriptStands
<1>11. WindowIndSound'
  BY <1>2, <1>5, <1>7 DEF WindowIndSound
<1>12. BudgetIndKept'
  BY <1>5, <1>7 DEF BudgetIndKept
<1> QED
  BY <1>8, <1>9, <1>10, <1>11, <1>12 DEF ConversationIndInv

LEMMA NothingSaid == <<>> \in Seq(Messages) /\ <<>> \in Seq(SaidMessages)
<1> HIDE DEF Messages, SaidMessages
<1> QED
  OBVIOUS

LEMMA RunOverKeeps ==
    ASSUME ConversationIndInv, RunOver
    PROVE  ConversationIndInv'
<1>1. ConversationTypes /\ HistoryStands
  BY DEF ConversationIndInv
<1>2. /\ turn.stage \in {"top", "asked", "calls"}
      /\ messages' = <<>> /\ transcript' = [state |-> "torn", messages |-> <<>>]
      /\ Stage("writing")
      /\ UNCHANGED <<history, memo, said, kept, spoken, runs>>
  BY DEF RunOver
<1>3. /\ turn'.stage = "writing" /\ turn'.pinned = turn.pinned /\ turn'.first = turn.first
      /\ DOMAIN turn' = {"stage", "calls", "done", "pinned", "first"}
  BY <1>1, <1>2, StageSet
<1>4. ConversationTypes'
  BY <1>1, <1>2, <1>3, NothingSaid DEF ConversationTypes
<1>5. HistoryStands'
  BY <1>1, <1>2 DEF HistoryStands
<1>6. TranscriptStands' /\ WindowIndSound' /\ BudgetIndKept'
  BY <1>2, <1>3 DEF TranscriptStands, WindowIndSound, BudgetIndKept
<1> QED
  BY <1>4, <1>5, <1>6 DEF ConversationIndInv

LEMMA TranscriptWrittenKeeps ==
    ASSUME ConversationIndInv, TranscriptWritten
    PROVE  ConversationIndInv'
<1>1. ConversationTypes /\ HistoryStands
  BY DEF ConversationIndInv
<1>2. /\ turn.stage = "writing" /\ transcript' = [state |-> "whole", messages |-> history]
      /\ kept' = said /\ history' = <<>> /\ said' = <<>>
      /\ Stage("none")
      /\ UNCHANGED <<messages, memo, spoken, runs>>
  BY DEF TranscriptWritten
<1>3. /\ turn'.stage = "none" /\ turn'.pinned = turn.pinned /\ turn'.first = turn.first
      /\ DOMAIN turn' = {"stage", "calls", "done", "pinned", "first"}
  BY <1>1, <1>2, StageSet
<1>4. ConversationTypes'
  BY <1>1, <1>2, <1>3, NothingSaid DEF ConversationTypes
<1>5. TranscriptStands'
  BY <1>1, <1>2 DEF TranscriptStands, HistoryStands
<1>6. HistoryStands' /\ WindowIndSound' /\ BudgetIndKept'
  BY <1>3 DEF HistoryStands, WindowIndSound, BudgetIndKept
<1> QED
  BY <1>4, <1>5, <1>6 DEF ConversationIndInv

LEMMA RunKilledKeeps ==
    ASSUME ConversationIndInv, RunKilled
    PROVE  ConversationIndInv'
<1>1. ConversationTypes /\ TranscriptStands
  BY DEF ConversationIndInv
<1>2. /\ messages' = <<>> /\ history' = <<>> /\ said' = <<>>
      /\ Stage("none")
      /\ UNCHANGED <<transcript, memo, kept, spoken, runs>>
  BY DEF RunKilled
<1>3. /\ turn'.stage = "none" /\ turn'.pinned = turn.pinned /\ turn'.first = turn.first
      /\ DOMAIN turn' = {"stage", "calls", "done", "pinned", "first"}
  BY <1>1, <1>2, StageSet
<1>4. ConversationTypes'
  BY <1>1, <1>2, <1>3, NothingSaid DEF ConversationTypes
<1>5. TranscriptStands'
  BY <1>1, <1>2 DEF TranscriptStands
<1>6. HistoryStands' /\ WindowIndSound' /\ BudgetIndKept'
  BY <1>3 DEF HistoryStands, WindowIndSound, BudgetIndKept
<1> QED
  BY <1>4, <1>5, <1>6 DEF ConversationIndInv

LEMMA ConversationInitInv ==
    ASSUME ConversationInit
    PROVE  ConversationIndInv
<1>1. /\ messages = <<>> /\ history = <<>> /\ transcript = [state |-> "absent", messages |-> <<>>]
      /\ turn = [stage |-> "none", calls |-> 0, done |-> FALSE, pinned |-> FALSE, first |-> FALSE]
      /\ memo = 1 /\ said = <<>> /\ kept = <<>> /\ spoken = 0 /\ runs = 0
  BY DEF ConversationInit
<1>2. ConversationTypes
  BY <1>1, NothingSaid DEF ConversationTypes
<1>3. HistoryStands /\ TranscriptStands /\ WindowIndSound /\ BudgetIndKept
  BY <1>1 DEF HistoryStands, TranscriptStands, WindowIndSound, BudgetIndKept
<1> QED
  BY <1>2, <1>3 DEF ConversationIndInv

LEMMA ConversationIdle ==
    ASSUME ConversationIndInv, UNCHANGED conversationVars
    PROVE  ConversationIndInv'
BY DEF ConversationIndInv, ConversationTypes, HistoryStands, TranscriptStands, WindowIndSound, BudgetIndKept,
       Slot, conversationVars

LEMMA ConversationStep ==
    ASSUME ConversationIndInv, [ConversationNext]_conversationVars
    PROVE  ConversationIndInv'
<1>1. ASSUME NEW resume \in BOOLEAN, NEW prompt \in 0..1, NEW pinned \in BOOLEAN,
             NEW paths \in {<<>>, <<"plain", "linked">>, <<"long">>, <<"away">>, <<"binary">>},
             StartRun(resume, prompt, paths, pinned)
      PROVE  ConversationIndInv'
  <2>1. paths \in PathLists
    BY DEF PathLists
  <2> QED
    BY <1>1, <2>1, StartRunKeeps
<1>2. ASSUME NEW size \in {1, 3}, WriteMemo(size)
      PROVE  ConversationIndInv'
  BY <1>2, WriteMemoKeeps
<1>3. ASSUME NEW size \in {1, 3}, CallAnswered(size)
      PROVE  ConversationIndInv'
  BY <1>3, CallAnsweredKeeps
<1>4. CASE Ask
  BY <1>4, AskKeeps
<1>5. CASE TurnOver
  BY <1>5, TurnOverKeeps
<1>6. CASE RunOver
  BY <1>6, RunOverKeeps
<1>7. CASE TranscriptWritten
  BY <1>7, TranscriptWrittenKeeps
<1>8. CASE RunKilled
  BY <1>8, RunKilledKeeps
<1>9. ASSUME NEW reply \in Replies, ReplyRejected(reply)
      PROVE  ConversationIndInv'
  BY <1>9, ReplyRejectedKeeps
<1>10. ASSUME NEW reply \in Replies, ReplyAccepted(reply, 1)
       PROVE  ConversationIndInv'
  BY <1>10, ReplyAcceptedKeeps
<1>11. CASE UNCHANGED conversationVars
  BY <1>11, ConversationIdle
<1> QED
  BY <1>1, <1>2, <1>3, <1>4, <1>5, <1>6, <1>7, <1>8, <1>9, <1>10, <1>11, Zenon DEF ConversationNext

LEMMA ConversationIndSound ==
    ASSUME ConversationIndInv
    PROVE  ConversationSound
<1>1. ConversationTypes /\ HistoryStands /\ TranscriptStands /\ WindowIndSound /\ BudgetIndKept
  BY DEF ConversationIndInv
<1>0. Prefix = 2 /\ Prefix + 1 = 3 /\ Prefix \in Nat /\ Prefix + 0 = Prefix
  BY DEF Prefix
<1>t. /\ messages \in Seq(Messages) /\ transcript.messages \in Seq(Messages)
      /\ said \in Seq(SaidMessages) /\ kept \in Seq(SaidMessages)
      /\ said \in Seq(Messages) /\ kept \in Seq(Messages)
  BY <1>1, SaidAreMessages DEF ConversationTypes
<1>2. WindowSound
  <2> SUFFICES ASSUME turn.stage = "asked"
               PROVE  LET fixed == Prefix + (IF turn.pinned THEN 1 ELSE 0) IN
                      /\ messages[1].origin = "system" /\ messages[1].n = runs
                      /\ messages[2] = said[1]
                      /\ turn.pinned => messages[3].origin = "pinned"
                      /\ IsTailOf(SubSeq(messages, fixed + 1, Len(messages)), Tail(said))
    BY DEF WindowSound
  <2>1. WindowStands(messages, Slot, said, runs)
    BY <1>1 DEF WindowIndSound
  <2>2. Slot = IF turn.pinned THEN 1 ELSE 0
    BY DEF Slot
  <2>3. /\ messages[1].origin = "system" /\ messages[1].n = runs /\ messages[2] = said[1]
        /\ Slot = 1 => messages[3].origin = "pinned"
        /\ TailFrom(messages, Prefix + Slot, said)
    BY <1>0, <2>1 DEF WindowStands, HeadSound
  <2>4. Prefix + Slot \in Nat
    BY <1>0, <2>2
  <2>5. IsTailOf(SubSeq(messages, (Prefix + Slot) + 1, Len(messages)), Tail(said))
    BY <1>t, <2>3, <2>4, TailIsTail
  <2> QED
    BY <2>2, <2>3, <2>5
<1>3. WindowFits
  <2> SUFFICES ASSUME turn.stage = "asked", ~turn.first
               PROVE  /\ Len(messages) <= Prefix + MaxTail + (IF turn.pinned THEN 1 ELSE 0)
                      /\ \/ TotalSize(messages) - (IF turn.pinned THEN messages[3].size ELSE 0) <= MaxChars
                         \/ TotalSize(SubSeq(messages, 1, Prefix)) > MaxChars
    BY DEF WindowFits
  <2>1. KeepsBudget(messages, Slot)
    BY <1>1 DEF BudgetIndKept
  <2>2. Slot = IF turn.pinned THEN 1 ELSE 0
    BY DEF Slot
  <2>3. CASE turn.pinned
    BY <2>1, <2>2, <2>3 DEF KeepsBudget
  <2>4. CASE ~turn.pinned
    BY <2>1, <2>2, <2>4 DEF KeepsBudget
  <2> QED
    BY <2>3, <2>4
<1>4. TranscriptSound
  <2> DEFINE ms == transcript.messages
  <2> SUFFICES ASSUME transcript.state = "whole"
               PROVE  /\ Len(ms) >= Prefix /\ ms[1].origin = "system" /\ ms[2] = kept[1]
                      /\ IsTailOf(SubSeq(ms, Prefix + 1, Len(ms)), Tail(kept))
                      /\ \/ Len(ms) > Prefix \/ Len(kept) = 1
                         \/ TotalSize(ms) >= MaxChars
    BY DEF TranscriptSound
  <2>1. RecordSound(ms, kept)
    BY <1>1 DEF TranscriptStands
  <2>2. IsTailOf(SubSeq(ms, Prefix + 1, Len(ms)), Tail(kept))
    BY <1>0, <1>t, <2>1, TailIsTail DEF RecordSound
  <2> QED
    BY <2>1, <2>2 DEF RecordSound, HeadSound
<1> QED
  BY <1>2, <1>3, <1>4 DEF ConversationSound

(***************************************************************************)
(* The history of a run and a transcript that can be read begin with a     *)
(* system prompt and the goal and end with the last that was said, without *)
(* a gap; so does the window behind its slot of the pinned files, which it *)
(* has from the first request on (engine.rs, history.rs).                  *)
(***************************************************************************)
THEOREM ConversationInvariant == ConversationSpec => []ConversationIndInv
<1>1. ConversationInit => ConversationIndInv
  BY ConversationInitInv
<1>2. ConversationIndInv /\ [ConversationNext]_conversationVars => ConversationIndInv'
  BY ConversationStep
<1> QED
  BY <1>1, <1>2, PTL DEF ConversationSpec

(***************************************************************************)
(* What the file tools show of a file, for files, windows, reads, offsets  *)
(* and numbers of hits of any size: the windows that a reader follows by   *)
(* next_offset make up the text of the file, whatever a read cuts in two   *)
(* and whatever is appended meanwhile; a window that fails or is truncated *)
(* has a reason; and the search shows just what read_file opens            *)
(* (read_window.rs, local_tools.rs).                                       *)
(***************************************************************************)
THEOREM FilesAreShown == DialogueSpec => []FilesShown
<1>1. DialogueInit => WindowIndInv /\ SearchIndInv
  BY WindowStart, SearchStart DEF DialogueInit
<1>2. WindowIndInv /\ SearchIndInv /\ [DialogueNext]_dialogueVars => (WindowIndInv /\ SearchIndInv)'
  <2>1. [DialogueNext]_dialogueVars => [WindowNext]_windowVars /\ [SearchNext]_searchVars
    BY DEF DialogueNext, dialogueVars
  <2>2. WindowIndInv /\ [WindowNext]_windowVars => WindowIndInv'
    BY WindowStep
  <2>3. SearchIndInv /\ [SearchNext]_searchVars => SearchIndInv'
    BY SearchStep
  <2> QED
    BY <2>1, <2>2, <2>3
<1>3. WindowIndInv /\ SearchIndInv => FilesShown
  BY WindowServes, SearchShows DEF FilesShown
<1> QED
  BY <1>1, <1>2, <1>3, PTL DEF DialogueSpec

(***************************************************************************)
(* For any budget, any number of messages in it and any limit of a file,   *)
(* any number of runs and things said: the window that the provider is     *)
(* asked with has the system prompt of this run, the goal, the present     *)
(* slot and the end of what was said, and keeps to the budget; a           *)
(* transcript that can be read loses nothing at its end, through pruning,  *)
(* resuming and crashes (engine.rs, history.rs, chat_history.rs).          *)
(***************************************************************************)
THEOREM ConversationStaysSound == DialogueSpec => []ConversationSound
<1>1. DialogueInit => ConversationIndInv
  BY ConversationInitInv DEF DialogueInit
<1>2. ConversationIndInv /\ [DialogueNext]_dialogueVars => ConversationIndInv'
  <2>1. [DialogueNext]_dialogueVars => [ConversationNext]_conversationVars
    BY DEF DialogueNext, dialogueVars
  <2> QED
    BY <2>1, ConversationStep
<1>3. ConversationIndInv => ConversationSound
  BY ConversationIndSound
<1> QED
  BY <1>1, <1>2, <1>3, PTL DEF DialogueSpec
=============================================================================
