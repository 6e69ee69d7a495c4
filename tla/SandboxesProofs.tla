--------------------------- MODULE SandboxesProofs ---------------------------
(***************************************************************************)
(* Proofs about the two sandboxes.                                         *)
(*                                                                         *)
(* Linux: a launch's result says what became of it, for any number of      *)
(* launches.  The invariant says which processes of a launch are there     *)
(* together, and what is known of their codes before they are reported.    *)
(*                                                                         *)
(* Windows: the launches of one agent process leave the host as it was.    *)
(* While a launch has the lock its grants are the only change of a path    *)
(* since their snapshots; that is why each snapshot may be put back, and   *)
(* it needs that no path is granted twice and that no other launch is      *)
(* between its lock and its release.  With two agent processes, which      *)
(* share the DACLs and not the lock, it is false (SandboxWindowsTwo.cfg).  *)
(***************************************************************************)
EXTENDS Sandboxes, TLAPS


-----------------------------------------------------------------------------
(* Linux.                                                                  *)

Gone == {"off", "dead"}
Before == {"idle", "probeMap", "probeWait", "probeKill", "spawn"}

\* Which processes of a launch are there together.
Lives(b) ==
    /\ b.parent \in Before => b.helper = "off" /\ b.result = "none"
    /\ b.helper = "off" <=> b.reader = "off"
    /\ b.helper \in {"off", "parse"} => b.init = "off"
    /\ b.helper = "map" => b.init = "barrier"
    /\ b.helper = "undo" => b.init = "dead" /\ b.payload = "off"
    /\ b.init \notin {"reap", "dead"} => b.payload = "off"
    /\ b.init = "dead" => b.payload \in Gone /\ b.child \in Gone
    /\ b.payload = "off" => b.child = "off" /\ b.payloadCode = 0
    /\ b.init \in {"fork", "reap"} \/ b.payload # "off" => b.confined
    /\ b.payload \in {"exec", "run"} => b.filtered

\* What the helper knows when it ends, and of what.
Verdicts(b) ==
    /\ b.expired => b.helper \in {"kill", "dead"}
    /\ b.helper = "kill" => b.expired
    /\ b.helper = "wait" /\ b.init = "dead" =>
          b.initCode = b.payloadCode \/ (b.initCode = SetupFailed /\ b.payload = "off")
    /\ b.helper = "dead" /\ b.helperCode # Signalled =>
          \/ b.init = "dead" /\ (TimedOut(b) <=> (b.expired \/ b.payloadCode = TimedOutCode))
          \/ b.helperCode = HelperFailed /\ (b.expired \/ b.init = "off")

\* What the reader has seen, and what it kept of it.
Output(b) ==
    /\ b.kept <= b.seen /\ b.seen <= b.written
    /\ ~b.truncated => b.kept = b.seen
    /\ b.reader = "cut" => b.truncated
    /\ b.reader = "eof" => Over(b) /\ b.seen = b.written
    /\ b.parent \in {"wait", "killing", "join"} => b.reader # "off"
    /\ b.parent = "join" \/ b.result = "ok" => b.helper = "dead"
    /\ b.result = "ok" => b.parent = "done" /\ b.reader \in {"eof", "cut"}

BoxShape(b) == Lives(b) /\ Verdicts(b) /\ Output(b)

LinIndInv == LinTypeOK /\ \A l \in Launches : BoxShape(box[l])

\* What may be put into a field of a box.
LEMMA Fields ==
    ASSUME NEW b \in Boxes
    PROVE  /\ \A n \in 0..MaxOut : /\ [b EXCEPT !.written = n] \in Boxes
                                   /\ [b EXCEPT !.seen = n] \in Boxes
                                   /\ [b EXCEPT !.kept = n] \in Boxes
           /\ \A n \in 0..4 : [b EXCEPT !.phase = n] \in Boxes
           /\ \A p \in {"off", "dead"} : /\ [b EXCEPT !.payload = p] \in Boxes
                                         /\ [b EXCEPT !.child = p] \in Boxes
           /\ [b EXCEPT !.reader = "cut"] \in Boxes
<1>1. ASSUME NEW n \in 0..MaxOut PROVE [b EXCEPT !.written = n] \in Boxes
  BY DEF Boxes
<1>2. ASSUME NEW n \in 0..MaxOut PROVE [b EXCEPT !.seen = n] \in Boxes
  BY DEF Boxes
<1>3. ASSUME NEW n \in 0..MaxOut PROVE [b EXCEPT !.kept = n] \in Boxes
  BY DEF Boxes
<1>4. ASSUME NEW n \in 0..4 PROVE [b EXCEPT !.phase = n] \in Boxes
  BY DEF Boxes
<1>5. ASSUME NEW p \in {"off", "dead"} PROVE [b EXCEPT !.payload = p] \in Boxes
  BY DEF Boxes
<1>6. ASSUME NEW p \in {"off", "dead"} PROVE [b EXCEPT !.child = p] \in Boxes
  BY DEF Boxes
<1>7. [b EXCEPT !.reader = "cut"] \in Boxes
  BY DEF Boxes
<1> QED
  BY <1>1, <1>2, <1>3, <1>4, <1>5, <1>6, <1>7

\* The numbers of a box.
LEMMA Numbers ==
    ASSUME NEW b \in Boxes
    PROVE  /\ MaxOut \in Nat /\ b.phase \in 0..4
           /\ b.written \in 0..MaxOut /\ b.seen \in 0..MaxOut /\ b.kept \in 0..MaxOut
BY LinBounds DEF Boxes

\* A step of one launch keeps the shape of all when it keeps that of its own.
LEMMA PutKeeps ==
    ASSUME LinIndInv, NEW l \in Launches, NEW b \in Boxes, BoxShape(b), Put(l, b)
    PROVE  LinIndInv'
BY DEF LinIndInv, LinTypeOK, Put

\* The probe (probe_primitives).
LEMMA ProbeKeeps ==
    ASSUME LinIndInv, NEW l \in Launches, ProbeStep(l)
    PROVE  LinIndInv'
<1>1. PICK b \in Boxes : b = box[l] /\ BoxShape(b)
  BY DEF LinIndInv, LinTypeOK
<1>2. \A c \in Boxes : BoxShape(c) /\ Put(l, c) => LinIndInv'
  BY PutKeeps
<1>3. CASE ProbeStarts(l)
  <2>1. b.parent = "idle"
    BY <1>1, <1>3 DEF ProbeStarts, Failed
  <2> DEFINE d == [b EXCEPT !.parent = "done", !.result = "error"]
  <2>2. d \in Boxes /\ BoxShape(d)
    <3>1. PICK x \in Boxes : x = [b EXCEPT !.parent = "done"]
      BY DEF Boxes
    <3>2. [x EXCEPT !.result = "error"] \in Boxes
      BY DEF Boxes
    <3>3. d \in Boxes
      BY <3>1, <3>2
    <3> QED
      BY <1>1, <2>1, <3>3 DEF Boxes, BoxShape, Lives, Verdicts, Output, Over, TimedOut, Gone,
         Before
  <2> DEFINE e(hung, children) == [b EXCEPT !.parent = "probeMap", !.prober = "new",
                                            !.stuck = hung, !.children = children]
  <2>3. ASSUME NEW hung \in SUBSET {"prober", "helper", "init", "payload"}, NEW children \in BOOLEAN
        PROVE  e(hung, children) \in Boxes /\ BoxShape(e(hung, children))
    <3>1. PICK x \in Boxes : x = [b EXCEPT !.parent = "probeMap"]
      BY DEF Boxes
    <3>2. PICK y \in Boxes : y = [x EXCEPT !.prober = "new"]
      BY DEF Boxes
    <3>3. PICK z \in Boxes : z = [y EXCEPT !.stuck = hung]
      BY DEF Boxes
    <3>4. [z EXCEPT !.children = children] \in Boxes
      BY DEF Boxes
    <3>5. e(hung, children) \in Boxes
      BY <3>1, <3>2, <3>3, <3>4
    <3> QED
      BY <1>1, <2>1, <3>5 DEF Boxes, BoxShape, Lives, Verdicts, Output, Over, TimedOut, Gone,
         Before
  <2> QED
    BY <1>1, <1>2, <1>3, <2>1, <2>2, <2>3 DEF ProbeStarts, Failed
<1>4. CASE ProberUnshares(l)
  <2>1. b.prober = "new"
    BY <1>1, <1>4 DEF ProberUnshares
  <2> DEFINE d == [b EXCEPT !.prober = "barrier"]
  <2>2. d \in Boxes /\ BoxShape(d)
    <3>1. d \in Boxes
      BY DEF Boxes
    <3> QED
      BY <1>1, <2>1, <3>1 DEF Boxes, BoxShape, Lives, Verdicts, Output, Over, TimedOut, Gone,
         Before
  <2> DEFINE e == [b EXCEPT !.prober = "dead", !.proberCode = 1]
  <2>3. e \in Boxes /\ BoxShape(e)
    <3>1. PICK x \in Boxes : x = [b EXCEPT !.prober = "dead"]
      BY DEF Boxes
    <3>2. [x EXCEPT !.proberCode = 1] \in Boxes
      BY DEF Boxes
    <3>3. e \in Boxes
      BY <3>1, <3>2
    <3> QED
      BY <1>1, <2>1, <3>3 DEF Boxes, BoxShape, Lives, Verdicts, Output, Over, TimedOut, Gone,
         Before
  <2> QED
    BY <1>1, <1>2, <1>4, <2>1, <2>2, <2>3 DEF ProberUnshares
<1>5. CASE ProbeMaps(l)
  <2>1. b.parent = "probeMap"
    BY <1>1, <1>5 DEF ProbeMaps
  <2> DEFINE d == [b EXCEPT !.parent = "probeWait", !.mapped = TRUE]
  <2>2. d \in Boxes /\ BoxShape(d)
    <3>1. PICK x \in Boxes : x = [b EXCEPT !.parent = "probeWait"]
      BY DEF Boxes
    <3>2. [x EXCEPT !.mapped = TRUE] \in Boxes
      BY DEF Boxes
    <3>3. d \in Boxes
      BY <3>1, <3>2
    <3> QED
      BY <1>1, <2>1, <3>3 DEF Boxes, BoxShape, Lives, Verdicts, Output, Over, TimedOut, Gone,
         Before
  <2> DEFINE e == [b EXCEPT !.parent = "probeWait"]
  <2>3. e \in Boxes /\ BoxShape(e)
    <3>1. e \in Boxes
      BY DEF Boxes
    <3> QED
      BY <1>1, <2>1, <3>1 DEF Boxes, BoxShape, Lives, Verdicts, Output, Over, TimedOut, Gone,
         Before
  <2> QED
    BY <1>1, <1>2, <1>5, <2>1, <2>2, <2>3 DEF ProbeMaps
<1>6. CASE ProberMounts(l)
  <2>1. b.parent # "probeMap"
    BY <1>1, <1>6 DEF ProberMounts
  <2> DEFINE d(code) == [b EXCEPT !.prober = "dead", !.proberCode = code]
  <2>2. ASSUME NEW code \in {0, 3} PROVE d(code) \in Boxes /\ BoxShape(d(code))
    <3>1. PICK x \in Boxes : x = [b EXCEPT !.prober = "dead"]
      BY DEF Boxes
    <3>2. [x EXCEPT !.proberCode = code] \in Boxes
      BY DEF Boxes
    <3>3. d(code) \in Boxes
      BY <3>1, <3>2
    <3> QED
      BY <1>1, <2>1, <3>3 DEF Boxes, BoxShape, Lives, Verdicts, Output, Over, TimedOut, Gone,
         Before
  <2> QED
    BY <1>1, <1>2, <1>6, <2>1, <2>2 DEF ProberMounts
<1>7. CASE ProbeReaped(l)
  <2>1. b.parent \in {"probeWait", "probeKill"}
    BY <1>1, <1>7 DEF ProbeReaped, Failed
  <2> DEFINE d == [b EXCEPT !.parent = "spawn", !.mapped = FALSE]
  <2>2. d \in Boxes /\ BoxShape(d)
    <3>1. PICK x \in Boxes : x = [b EXCEPT !.parent = "spawn"]
      BY DEF Boxes
    <3>2. [x EXCEPT !.mapped = FALSE] \in Boxes
      BY DEF Boxes
    <3>3. d \in Boxes
      BY <3>1, <3>2
    <3> QED
      BY <1>1, <2>1, <3>3 DEF Boxes, BoxShape, Lives, Verdicts, Output, Over, TimedOut, Gone,
         Before
  <2> DEFINE e == [b EXCEPT !.parent = "done", !.result = "error"]
  <2>3. e \in Boxes /\ BoxShape(e)
    <3>1. PICK x \in Boxes : x = [b EXCEPT !.parent = "done"]
      BY DEF Boxes
    <3>2. [x EXCEPT !.result = "error"] \in Boxes
      BY DEF Boxes
    <3>3. e \in Boxes
      BY <3>1, <3>2
    <3> QED
      BY <1>1, <2>1, <3>3 DEF Boxes, BoxShape, Lives, Verdicts, Output, Over, TimedOut, Gone,
         Before
  <2> QED
    BY <1>1, <1>2, <1>7, <2>1, <2>2, <2>3 DEF ProbeReaped, Failed
<1>8. CASE ProbeTimeout(l)
  <2>1. b.parent = "probeWait"
    BY <1>1, <1>8 DEF ProbeTimeout
  <2> DEFINE d == [b EXCEPT !.parent = "probeKill"]
  <2>2. d \in Boxes /\ BoxShape(d)
    <3>1. d \in Boxes
      BY DEF Boxes
    <3> QED
      BY <1>1, <2>1, <3>1 DEF Boxes, BoxShape, Lives, Verdicts, Output, Over, TimedOut, Gone,
         Before
  <2> DEFINE e == [b EXCEPT !.parent = "probeKill", !.prober = "dead",
                            !.proberCode = Signalled]
  <2>3. e \in Boxes /\ BoxShape(e)
    <3>1. PICK x \in Boxes : x = [b EXCEPT !.parent = "probeKill"]
      BY DEF Boxes
    <3>2. PICK y \in Boxes : y = [x EXCEPT !.prober = "dead"]
      BY DEF Boxes
    <3>3. [y EXCEPT !.proberCode = Signalled] \in Boxes
      BY DEF Boxes
    <3>4. e \in Boxes
      BY <3>1, <3>2, <3>3
    <3> QED
      BY <1>1, <2>1, <3>4 DEF Boxes, BoxShape, Lives, Verdicts, Output, Over, TimedOut, Gone,
         Before
  <2> QED
    BY <1>1, <1>2, <1>8, <2>1, <2>2, <2>3 DEF ProbeTimeout
<1>9. CASE ProbeHung(l)
  <2>1. b.parent = "probeKill"
    BY <1>1, <1>9 DEF ProbeHung, Failed
  <2> DEFINE d == [b EXCEPT !.parent = "done", !.result = "error"]
  <2>2. d \in Boxes /\ BoxShape(d)
    <3>1. PICK x \in Boxes : x = [b EXCEPT !.parent = "done"]
      BY DEF Boxes
    <3>2. [x EXCEPT !.result = "error"] \in Boxes
      BY DEF Boxes
    <3>3. d \in Boxes
      BY <3>1, <3>2
    <3> QED
      BY <1>1, <2>1, <3>3 DEF Boxes, BoxShape, Lives, Verdicts, Output, Over, TimedOut, Gone,
         Before
  <2> QED
    BY <1>1, <1>2, <1>9, <2>1, <2>2 DEF ProbeHung, Failed
<1> QED
  BY <1>3, <1>4, <1>5, <1>6, <1>7, <1>8, <1>9 DEF ProbeStep

\* The agent that supervises (parent.rs).
LEMMA ParentKeeps ==
    ASSUME LinIndInv, NEW l \in Launches, RunViaHelper(l) \/ ParentReaps(l) \/ ParentKills(l)
           \/ ParentGivesUp(l) \/ Join(l)
    PROVE  LinIndInv'
<1>1. PICK b \in Boxes : b = box[l] /\ BoxShape(b)
  BY DEF LinIndInv, LinTypeOK
<1>2. \A c \in Boxes : BoxShape(c) /\ Put(l, c) => LinIndInv'
  BY PutKeeps
<1>3. CASE RunViaHelper(l)
  <2>1. b.parent = "spawn"
    BY <1>1, <1>3 DEF RunViaHelper, Failed
  <2> DEFINE d == [b EXCEPT !.parent = "done", !.result = "error"]
  <2>2. d \in Boxes /\ BoxShape(d)
    <3>1. PICK x \in Boxes : x = [b EXCEPT !.parent = "done"]
      BY DEF Boxes
    <3>2. [x EXCEPT !.result = "error"] \in Boxes
      BY DEF Boxes
    <3>3. d \in Boxes
      BY <3>1, <3>2
    <3> QED
      BY <1>1, <2>1, <3>3 DEF Boxes, BoxShape, Lives, Verdicts, Output, Over, TimedOut, Gone,
         Before
  <2> DEFINE e == [b EXCEPT !.parent = "wait", !.helper = "parse", !.reader = "reading"]
  <2>3. e \in Boxes /\ BoxShape(e)
    <3>1. PICK x \in Boxes : x = [b EXCEPT !.parent = "wait"]
      BY DEF Boxes
    <3>2. PICK y \in Boxes : y = [x EXCEPT !.helper = "parse"]
      BY DEF Boxes
    <3>3. [y EXCEPT !.reader = "reading"] \in Boxes
      BY DEF Boxes
    <3>4. e \in Boxes
      BY <3>1, <3>2, <3>3
    <3> QED
      BY <1>1, <2>1, <3>4 DEF Boxes, BoxShape, Lives, Verdicts, Output, Over, TimedOut, Gone,
         Before
  <2> QED
    BY <1>1, <1>2, <1>3, <2>1, <2>2, <2>3 DEF RunViaHelper, Failed
<1>4. CASE ParentReaps(l)
  <2>1. b.parent \in {"wait", "killing"} /\ b.helper = "dead"
    BY <1>1, <1>4 DEF ParentReaps
  <2> DEFINE d == [b EXCEPT !.parent = "join"]
  <2>2. d \in Boxes /\ BoxShape(d)
    <3>1. d \in Boxes
      BY DEF Boxes
    <3> QED
      BY <1>1, <2>1, <3>1 DEF Boxes, BoxShape, Lives, Verdicts, Output, Over, TimedOut, Gone,
         Before
  <2> QED
    BY <1>1, <1>2, <1>4, <2>1, <2>2 DEF ParentReaps
<1>5. CASE ParentKills(l)
  <2>1. b.parent = "wait" /\ b.helper # "dead"
    BY <1>1, <1>5 DEF ParentKills
  <2> DEFINE d == [b EXCEPT !.parent = "killing"]
  <2>2. d \in Boxes /\ BoxShape(d)
    <3>1. d \in Boxes
      BY DEF Boxes, Codes
    <3> QED
      BY <1>1, <2>1, <3>1 DEF Boxes, BoxShape, Lives, Verdicts, Output, Over, TimedOut, Gone,
         Before
  <2> DEFINE e == [b EXCEPT !.parent = "killing", !.helper = "dead",
                            !.helperCode = Signalled]
  <2>3. e \in Boxes /\ BoxShape(e)
    <3>1. PICK x \in Boxes : x = [b EXCEPT !.parent = "killing"]
      BY DEF Boxes, Codes
    <3>2. PICK y \in Boxes : y = [x EXCEPT !.helper = "dead"]
      BY ZenonT(30) DEF Boxes, Codes
    <3>3. [y EXCEPT !.helperCode = Signalled] \in Boxes
      BY DEF Boxes, Codes
    <3>4. e \in Boxes
      BY <3>1, <3>2, <3>3
    <3> QED
      BY <1>1, <2>1, <3>4 DEF Boxes, BoxShape, Lives, Verdicts, Output, Over, TimedOut, Gone,
         Before
  <2> QED
    BY <1>1, <1>2, <1>5, <2>1, <2>2, <2>3 DEF ParentKills
<1>6. CASE ParentGivesUp(l)
  <2>1. b.parent = "killing"
    BY <1>1, <1>6 DEF ParentGivesUp, Failed
  <2> DEFINE d == [b EXCEPT !.parent = "done", !.result = "error"]
  <2>2. d \in Boxes /\ BoxShape(d)
    <3>1. PICK x \in Boxes : x = [b EXCEPT !.parent = "done"]
      BY DEF Boxes
    <3>2. [x EXCEPT !.result = "error"] \in Boxes
      BY DEF Boxes
    <3>3. d \in Boxes
      BY <3>1, <3>2
    <3> QED
      BY <1>1, <2>1, <3>3 DEF Boxes, BoxShape, Lives, Verdicts, Output, Over, TimedOut, Gone,
         Before
  <2> QED
    BY <1>1, <1>2, <1>6, <2>1, <2>2 DEF ParentGivesUp, Failed
<1>7. CASE Join(l)
  <2>1. b.parent = "join" /\ b.reader # "reading"
    BY <1>1, <1>7 DEF Join
  <2> DEFINE d == [b EXCEPT !.parent = "done", !.result = "ok"]
  <2>2. d \in Boxes /\ BoxShape(d)
    <3>1. PICK x \in Boxes : x = [b EXCEPT !.parent = "done"]
      BY DEF Boxes
    <3>2. [x EXCEPT !.result = "ok"] \in Boxes
      BY DEF Boxes
    <3>3. d \in Boxes
      BY <3>1, <3>2
    <3> QED
      BY <1>1, <2>1, <3>3 DEF Boxes, BoxShape, Lives, Verdicts, Output, Over, TimedOut, Gone,
         Before
  <2> QED
    BY <1>1, <1>2, <1>7, <2>1, <2>2 DEF Join
<1> QED
  BY <1>3, <1>4, <1>5, <1>6, <1>7

\* The reader of a pipe (read_pipe_until).
LEMMA ReaderKeeps ==
    ASSUME LinIndInv, NEW l \in Launches, ReaderEof(l) \/ ReadPipe(l) \/ ReaderDeadline(l)
    PROVE  LinIndInv'
<1>1. PICK b \in Boxes : b = box[l] /\ BoxShape(b)
  BY DEF LinIndInv, LinTypeOK
<1>2. \A c \in Boxes : BoxShape(c) /\ Put(l, c) => LinIndInv'
  BY PutKeeps
<1>3. CASE ReaderEof(l)
  <2>1. b.reader = "reading" /\ Over(b) /\ b.seen = b.written
    BY <1>1, <1>3 DEF ReaderEof
  <2> DEFINE d == [b EXCEPT !.reader = "eof"]
  <2>2. d \in Boxes /\ BoxShape(d)
    <3>1. d \in Boxes
      BY DEF Boxes
    <3> QED
      BY <1>1, <2>1, <3>1 DEF Boxes, BoxShape, Lives, Verdicts, Output, Over, TimedOut, Gone,
         Before
  <2> QED
    BY <1>1, <1>2, <1>3, <2>1, <2>2 DEF ReaderEof
<1>4. CASE ReadPipe(l)
  <2>1. b.reader = "reading" /\ b.seen < b.written /\ b.seen + 1 \in 0..MaxOut
        /\ b.kept + 1 \in 0..MaxOut
    <3>1. b.reader = "reading" /\ b.seen < b.written 
      BY <1>1, <1>4 DEF ReadPipe
    <3> QED
      BY <1>1, <3>1, Numbers DEF BoxShape, Output, Lives, Gone, Over
  <2> DEFINE d == [b EXCEPT !.seen = b.seen + 1, !.kept = b.kept + 1]
  <2>2. d \in Boxes /\ BoxShape(d)
    <3>1. PICK x \in Boxes : x = [b EXCEPT !.seen = b.seen + 1]
      BY <2>1, Fields
    <3>2. [x EXCEPT !.kept = b.kept + 1] \in Boxes
      BY <2>1, Fields
    <3>3. d \in Boxes
      BY <3>1, <3>2
    <3> QED
      BY <1>1, <2>1, <3>3 DEF Boxes, BoxShape, Lives, Verdicts, Output, Over, TimedOut, Gone,
         Before
  <2> DEFINE e == [b EXCEPT !.seen = b.seen + 1, !.truncated = TRUE]
  <2>3. e \in Boxes /\ BoxShape(e)
    <3>1. PICK x \in Boxes : x = [b EXCEPT !.seen = b.seen + 1]
      BY <2>1, Fields
    <3>2. [x EXCEPT !.truncated = TRUE] \in Boxes
      BY DEF Boxes
    <3>3. e \in Boxes
      BY <3>1, <3>2
    <3> QED
      BY <1>1, <2>1, <3>3 DEF Boxes, BoxShape, Lives, Verdicts, Output, Over, TimedOut, Gone,
         Before
  <2> QED
    BY <1>1, <1>2, <1>4, <2>1, <2>2, <2>3 DEF ReadPipe
<1>5. CASE ReaderDeadline(l)
  <2>1. b.reader = "reading"
    BY <1>1, <1>5 DEF ReaderDeadline
  <2> DEFINE d == [b EXCEPT !.reader = "cut", !.truncated = TRUE]
  <2>2. d \in Boxes /\ BoxShape(d)
    <3>1. PICK x \in Boxes : x = [b EXCEPT !.reader = "cut"]
      BY Fields
    <3>2. [x EXCEPT !.truncated = TRUE] \in Boxes
      BY DEF Boxes
    <3>3. d \in Boxes
      BY <3>1, <3>2
    <3> QED
      BY <1>1, <2>1, <3>3 DEF Boxes, BoxShape, Lives, Verdicts, Output, Over, TimedOut, Gone,
         Before
  <2> QED
    BY <1>1, <1>2, <1>5, <2>1, <2>2 DEF ReaderDeadline
<1> QED
  BY <1>3, <1>4, <1>5

\* The helper, but for its two kills (helper.rs).
LEMMA HelperKeeps ==
    ASSUME LinIndInv, NEW l \in Launches,
    HelperClones(l) \/ HelperUndone(l) \/ HelperReaps(l) \/ HelperAfterKill(l)
    PROVE  LinIndInv'
<1>1. PICK b \in Boxes : b = box[l] /\ BoxShape(b)
  BY DEF LinIndInv, LinTypeOK
<1>2. \A c \in Boxes : BoxShape(c) /\ Put(l, c) => LinIndInv'
  BY PutKeeps
<1>3. CASE HelperClones(l)
  <2>1. b.helper = "parse"
    BY <1>1, <1>3 DEF HelperClones, HelperExits
  <2> DEFINE d == [b EXCEPT !.helper = "dead", !.helperCode = HelperFailed]
  <2>2. d \in Boxes /\ BoxShape(d)
    <3>1. PICK x \in Boxes : x = [b EXCEPT !.helper = "dead"]
      BY DEF Boxes, Codes
    <3>2. [x EXCEPT !.helperCode = HelperFailed] \in Boxes
      BY DEF Boxes, Codes
    <3>3. d \in Boxes
      BY <3>1, <3>2
    <3> QED
      BY <1>1, <2>1, <3>3 DEF Boxes, BoxShape, Lives, Verdicts, Output, Over, TimedOut, Gone,
         Before, TimedOutCode, HelperFailed, SetupFailed, Signalled
  <2> DEFINE e == [b EXCEPT !.helper = "map", !.init = "barrier"]
  <2>3. e \in Boxes /\ BoxShape(e)
    <3>1. PICK x \in Boxes : x = [b EXCEPT !.helper = "map"]
      BY DEF Boxes, Codes
    <3>2. [x EXCEPT !.init = "barrier"] \in Boxes
      BY DEF Boxes, Codes
    <3>3. e \in Boxes
      BY <3>1, <3>2
    <3> QED
      BY <1>1, <2>1, <3>3 DEF Boxes, BoxShape, Lives, Verdicts, Output, Over, TimedOut, Gone,
         Before, TimedOutCode, HelperFailed, SetupFailed, Signalled
  <2> QED
    BY <1>1, <1>2, <1>3, <2>1, <2>2, <2>3 DEF HelperClones, HelperExits
<1>4. CASE HelperUndone(l)
  <2>1. b.helper = "undo"
    BY <1>1, <1>4 DEF HelperUndone, HelperExits
  <2> DEFINE d == [b EXCEPT !.helper = "dead", !.helperCode = HelperFailed]
  <2>2. d \in Boxes /\ BoxShape(d)
    <3>1. PICK x \in Boxes : x = [b EXCEPT !.helper = "dead"]
      BY DEF Boxes, Codes
    <3>2. [x EXCEPT !.helperCode = HelperFailed] \in Boxes
      BY DEF Boxes, Codes
    <3>3. d \in Boxes
      BY <3>1, <3>2
    <3> QED
      BY <1>1, <2>1, <3>3 DEF Boxes, BoxShape, Lives, Verdicts, Output, Over, TimedOut, Gone,
         Before, TimedOutCode, HelperFailed, SetupFailed, Signalled
  <2> QED
    BY <1>1, <1>2, <1>4, <2>1, <2>2 DEF HelperUndone, HelperExits
<1>5. CASE HelperReaps(l)
  <2>1. b.helper = "wait" /\ b.init = "dead"
    BY <1>1, <1>5 DEF HelperReaps, HelperExits
  <2> DEFINE d == [b EXCEPT !.helper = "dead", !.helperCode = b.initCode]
  <2>2. d \in Boxes /\ BoxShape(d)
    <3>1. PICK x \in Boxes : x = [b EXCEPT !.helper = "dead"]
      BY DEF Boxes
    <3>2. [x EXCEPT !.helperCode = b.initCode] \in Boxes
      BY DEF Boxes
    <3>3. d \in Boxes
      BY <3>1, <3>2
    <3> QED
      BY <1>1, <2>1, <3>3 DEF Boxes, BoxShape, Lives, Verdicts, Output, Over, TimedOut, Gone,
         Before, TimedOutCode, HelperFailed, SetupFailed, Signalled
  <2> QED
    BY <1>1, <1>2, <1>5, <2>1, <2>2 DEF HelperReaps, HelperExits
<1>6. CASE HelperAfterKill(l)
  <2>1. b.helper = "kill"
    BY <1>1, <1>6 DEF HelperAfterKill, HelperExits
  <2> DEFINE d == [b EXCEPT !.helper = "dead", !.helperCode = TimedOutCode]
  <2>2. d \in Boxes /\ (b.init = "dead" => BoxShape(d))
    <3>1. PICK x \in Boxes : x = [b EXCEPT !.helper = "dead"]
      BY DEF Boxes, Codes
    <3>2. [x EXCEPT !.helperCode = TimedOutCode] \in Boxes
      BY DEF Boxes, Codes
    <3>3. d \in Boxes
      BY <3>1, <3>2
    <3> QED
      BY <1>1, <2>1, <3>3 DEF Boxes, BoxShape, Lives, Verdicts, Output, Over, TimedOut, Gone,
         Before, TimedOutCode, HelperFailed, SetupFailed, Signalled
  <2> DEFINE e == [b EXCEPT !.helper = "dead", !.helperCode = HelperFailed]
  <2>3. e \in Boxes /\ BoxShape(e)
    <3>1. PICK x \in Boxes : x = [b EXCEPT !.helper = "dead"]
      BY DEF Boxes, Codes
    <3>2. [x EXCEPT !.helperCode = HelperFailed] \in Boxes
      BY DEF Boxes, Codes
    <3>3. e \in Boxes
      BY <3>1, <3>2
    <3> QED
      BY <1>1, <2>1, <3>3 DEF Boxes, BoxShape, Lives, Verdicts, Output, Over, TimedOut, Gone,
         Before, TimedOutCode, HelperFailed, SetupFailed, Signalled
  <2> QED
    BY <1>1, <1>2, <1>6, <2>1, <2>2, <2>3 DEF HelperAfterKill, HelperExits
<1> QED
  BY <1>3, <1>4, <1>5, <1>6

\* Pid 1 (pid1.rs).
LEMMA InitKeeps ==
    ASSUME LinIndInv, NEW l \in Launches,
    BarrierOpens(l) \/ SetupFails(l) \/ OpensExecutable(l) \/ PivotsRoot(l)
           \/ DropsCapabilities(l) \/ ForksPayload(l) \/ InitReaps(l)
    PROVE  LinIndInv'
<1>1. PICK b \in Boxes : b = box[l] /\ BoxShape(b)
  BY DEF LinIndInv, LinTypeOK
<1>2. \A c \in Boxes : BoxShape(c) /\ Put(l, c) => LinIndInv'
  BY PutKeeps
<1>3. CASE BarrierOpens(l)
  <2>1. b.init = "barrier" /\ b.helper \in {"wait", "kill", "dead"}
    BY <1>1, <1>3 DEF BarrierOpens
  <2> DEFINE d == [b EXCEPT !.init = "open"]
  <2>2. d \in Boxes /\ BoxShape(d)
    <3>1. d \in Boxes
      BY DEF Boxes
    <3> QED
      BY <1>1, <2>1, <3>1 DEF Boxes, BoxShape, Lives, Verdicts, Output, Over, TimedOut, Gone,
         Before
  <2> QED
    BY <1>1, <1>2, <1>3, <2>1, <2>2 DEF BarrierOpens
<1>4. CASE SetupFails(l)
  <2>1. b.init \in {"open", "root", "caps", "fork"}
    BY <1>1, <1>4 DEF SetupFails, InitDies, Setup
  <2> DEFINE d == [b EXCEPT !.init = "dead", !.initCode = SetupFailed,
                            !.payload = Dead(b.payload), !.child = Dead(b.child)]
  <2>2. d \in Boxes /\ BoxShape(d)
    <3>1. PICK x \in Boxes : x = [b EXCEPT !.init = "dead"]
      BY DEF Boxes, Codes
    <3>2. PICK y \in Boxes : y = [x EXCEPT !.initCode = SetupFailed]
      BY DEF Boxes, Codes
    <3>3. PICK z \in Boxes : z = [y EXCEPT !.payload = Dead(b.payload)]
      BY Fields DEF Dead
    <3>4. [z EXCEPT !.child = Dead(b.child)] \in Boxes
      BY Fields DEF Dead
    <3>5. d \in Boxes
      BY <3>1, <3>2, <3>3, <3>4
    <3> QED
      BY <1>1, <2>1, <3>5 DEF Boxes, BoxShape, Lives, Verdicts, Output, Over, TimedOut, Gone,
         Before, Dead
  <2> QED
    BY <1>1, <1>2, <1>4, <2>1, <2>2 DEF SetupFails, InitDies, Setup
<1>5. CASE OpensExecutable(l)
  <2>1. b.init = "open"
    BY <1>1, <1>5 DEF OpensExecutable, SetsUp
  <2> DEFINE d == [b EXCEPT !.init = "root"]
  <2>2. d \in Boxes /\ BoxShape(d)
    <3>1. d \in Boxes
      BY DEF Boxes
    <3> QED
      BY <1>1, <2>1, <3>1 DEF Boxes, BoxShape, Lives, Verdicts, Output, Over, TimedOut, Gone,
         Before
  <2> QED
    BY <1>1, <1>2, <1>5, <2>1, <2>2 DEF OpensExecutable, SetsUp
<1>6. CASE PivotsRoot(l)
  <2>1. b.init = "root"
    BY <1>1, <1>6 DEF PivotsRoot, SetsUp
  <2> DEFINE d == [b EXCEPT !.init = "caps"]
  <2>2. d \in Boxes /\ BoxShape(d)
    <3>1. d \in Boxes
      BY DEF Boxes
    <3> QED
      BY <1>1, <2>1, <3>1 DEF Boxes, BoxShape, Lives, Verdicts, Output, Over, TimedOut, Gone,
         Before
  <2> QED
    BY <1>1, <1>2, <1>6, <2>1, <2>2 DEF PivotsRoot, SetsUp
<1>7. CASE DropsCapabilities(l)
  <2>1. b.init = "caps"
    BY <1>1, <1>7 DEF DropsCapabilities, SetsUp
  <2> DEFINE d == [b EXCEPT !.init = "fork", !.confined = TRUE]
  <2>2. d \in Boxes /\ BoxShape(d)
    <3>1. PICK x \in Boxes : x = [b EXCEPT !.init = "fork"]
      BY DEF Boxes
    <3>2. [x EXCEPT !.confined = TRUE] \in Boxes
      BY DEF Boxes
    <3>3. d \in Boxes
      BY <3>1, <3>2
    <3> QED
      BY <1>1, <2>1, <3>3 DEF Boxes, BoxShape, Lives, Verdicts, Output, Over, TimedOut, Gone,
         Before
  <2> QED
    BY <1>1, <1>2, <1>7, <2>1, <2>2 DEF DropsCapabilities, SetsUp
<1>8. CASE ForksPayload(l)
  <2>1. b.init = "fork"
    BY <1>1, <1>8 DEF ForksPayload, SetsUp
  <2> DEFINE d == [b EXCEPT !.init = "reap", !.payload = "filter"]
  <2>2. d \in Boxes /\ BoxShape(d)
    <3>1. PICK x \in Boxes : x = [b EXCEPT !.init = "reap"]
      BY DEF Boxes
    <3>2. [x EXCEPT !.payload = "filter"] \in Boxes
      BY DEF Boxes
    <3>3. d \in Boxes
      BY <3>1, <3>2
    <3> QED
      BY <1>1, <2>1, <3>3 DEF Boxes, BoxShape, Lives, Verdicts, Output, Over, TimedOut, Gone,
         Before
  <2> QED
    BY <1>1, <1>2, <1>8, <2>1, <2>2 DEF ForksPayload, SetsUp
<1>9. CASE InitReaps(l)
  <2>1. b.init = "reap" /\ b.payload = "dead"
    BY <1>1, <1>9 DEF InitReaps, InitDies
  <2> DEFINE d == [b EXCEPT !.init = "dead", !.initCode = b.payloadCode,
                            !.payload = Dead(b.payload), !.child = Dead(b.child)]
  <2>2. d \in Boxes /\ BoxShape(d)
    <3>1. PICK x \in Boxes : x = [b EXCEPT !.init = "dead"]
      BY DEF Boxes
    <3>2. PICK y \in Boxes : y = [x EXCEPT !.initCode = b.payloadCode]
      BY DEF Boxes
    <3>3. PICK z \in Boxes : z = [y EXCEPT !.payload = Dead(b.payload)]
      BY Fields DEF Dead
    <3>4. [z EXCEPT !.child = Dead(b.child)] \in Boxes
      BY Fields DEF Dead
    <3>5. d \in Boxes
      BY <3>1, <3>2, <3>3, <3>4
    <3> QED
      BY <1>1, <2>1, <3>5 DEF Boxes, BoxShape, Lives, Verdicts, Output, Over, TimedOut, Gone,
         Before, Dead
  <2> QED
    BY <1>1, <1>2, <1>9, <2>1, <2>2 DEF InitReaps, InitDies
<1> QED
  BY <1>3, <1>4, <1>5, <1>6, <1>7, <1>8, <1>9

\* The payload, what it starts, and the time.
LEMMA PayloadKeeps ==
    ASSUME LinIndInv, NEW l \in Launches,
    InstallsFilter(l) \/ PayloadExec(l) \/ PayloadForks(l) \/ Writes(l)
           \/ PayloadExits(l) \/ ChildExits(l) \/ Tick(l)
    PROVE  LinIndInv'
<1>1. PICK b \in Boxes : b = box[l] /\ BoxShape(b)
  BY DEF LinIndInv, LinTypeOK
<1>2. \A c \in Boxes : BoxShape(c) /\ Put(l, c) => LinIndInv'
  BY PutKeeps
<1>3. CASE InstallsFilter(l)
  <2>1. b.payload = "filter"
    BY <1>1, <1>3 DEF InstallsFilter, PayloadDies
  <2> DEFINE d == [b EXCEPT !.payload = "dead", !.payloadCode = FilterFailed]
  <2>2. d \in Boxes /\ BoxShape(d)
    <3>1. PICK x \in Boxes : x = [b EXCEPT !.payload = "dead"]
      BY DEF Boxes, Codes
    <3>2. [x EXCEPT !.payloadCode = FilterFailed] \in Boxes
      BY DEF Boxes, Codes
    <3>3. d \in Boxes
      BY <3>1, <3>2
    <3> QED
      BY <1>1, <2>1, <3>3 DEF Boxes, BoxShape, Lives, Verdicts, Output, Over, TimedOut, Gone,
         Before
  <2> DEFINE e == [b EXCEPT !.payload = "exec", !.filtered = TRUE]
  <2>3. e \in Boxes /\ BoxShape(e)
    <3>1. PICK x \in Boxes : x = [b EXCEPT !.payload = "exec"]
      BY DEF Boxes, Codes
    <3>2. [x EXCEPT !.filtered = TRUE] \in Boxes
      BY DEF Boxes, Codes
    <3>3. e \in Boxes
      BY <3>1, <3>2
    <3> QED
      BY <1>1, <2>1, <3>3 DEF Boxes, BoxShape, Lives, Verdicts, Output, Over, TimedOut, Gone,
         Before
  <2> QED
    BY <1>1, <1>2, <1>3, <2>1, <2>2, <2>3 DEF InstallsFilter, PayloadDies
<1>4. CASE PayloadExec(l)
  <2>1. b.payload = "exec"
    BY <1>1, <1>4 DEF PayloadExec, PayloadDies
  <2> DEFINE d == [b EXCEPT !.payload = "dead", !.payloadCode = ExecFailed]
  <2>2. d \in Boxes /\ BoxShape(d)
    <3>1. PICK x \in Boxes : x = [b EXCEPT !.payload = "dead"]
      BY DEF Boxes, Codes
    <3>2. [x EXCEPT !.payloadCode = ExecFailed] \in Boxes
      BY DEF Boxes, Codes
    <3>3. d \in Boxes
      BY <3>1, <3>2
    <3> QED
      BY <1>1, <2>1, <3>3 DEF Boxes, BoxShape, Lives, Verdicts, Output, Over, TimedOut, Gone,
         Before
  <2> DEFINE e == [b EXCEPT !.payload = "run"]
  <2>3. e \in Boxes /\ BoxShape(e)
    <3>1. e \in Boxes
      BY DEF Boxes, Codes
    <3> QED
      BY <1>1, <2>1, <3>1 DEF Boxes, BoxShape, Lives, Verdicts, Output, Over, TimedOut, Gone,
         Before
  <2> QED
    BY <1>1, <1>2, <1>4, <2>1, <2>2, <2>3 DEF PayloadExec, PayloadDies
<1>5. CASE PayloadForks(l)
  <2>1. b.payload = "run" /\ b.child = "off"
    BY <1>1, <1>5 DEF PayloadForks, PayloadRuns
  <2> DEFINE d == [b EXCEPT !.child = "run"]
  <2>2. d \in Boxes /\ BoxShape(d)
    <3>1. d \in Boxes
      BY DEF Boxes
    <3> QED
      BY <1>1, <2>1, <3>1 DEF Boxes, BoxShape, Lives, Verdicts, Output, Over, TimedOut, Gone,
         Before
  <2> QED
    BY <1>1, <1>2, <1>5, <2>1, <2>2 DEF PayloadForks, PayloadRuns
<1>6. CASE Writes(l)
  <2>1. (b.payload = "run" \/ b.child = "run") /\ b.written + 1 \in 0..MaxOut
        /\ (IF b.reader = "reading" THEN b.seen ELSE b.seen + 1) \in 0..MaxOut
    <3>1. (b.payload = "run" \/ b.child = "run") /\ b.written < MaxOut
      BY <1>1, <1>6 DEF Writes, PayloadRuns
    <3> QED
      BY <1>1, <3>1, Numbers DEF BoxShape, Output, Lives, Gone, Over
  <2> DEFINE d == [b EXCEPT !.written = b.written + 1,
                            !.seen = IF b.reader = "reading" THEN b.seen ELSE b.seen + 1]
  <2>2. d \in Boxes /\ BoxShape(d)
    <3>1. PICK x \in Boxes : x = [b EXCEPT !.written = b.written + 1]
      BY <2>1, Fields
    <3>2. [x EXCEPT !.seen = IF b.reader = "reading" THEN b.seen ELSE b.seen + 1] \in Boxes
      BY <2>1, Fields
    <3>3. d \in Boxes
      BY <3>1, <3>2
    <3> QED
      BY <1>1, <2>1, <3>3 DEF Boxes, BoxShape, Lives, Verdicts, Output, Over, TimedOut, Gone,
         Before
  <2> QED
    BY <1>1, <1>2, <1>6, <2>1, <2>2 DEF Writes, PayloadRuns
<1>7. CASE PayloadExits(l)
  <2>1. b.payload = "run"
    BY <1>1, <1>7 DEF PayloadExits, PayloadDies, PayloadRuns
  <2> DEFINE d(code) == [b EXCEPT !.payload = "dead", !.payloadCode = code]
  <2>2. ASSUME NEW code \in {0, TimedOutCode} PROVE d(code) \in Boxes /\ BoxShape(d(code))
    <3>1. PICK x \in Boxes : x = [b EXCEPT !.payload = "dead"]
      BY DEF Boxes, Codes
    <3>2. [x EXCEPT !.payloadCode = code] \in Boxes
      BY DEF Boxes, Codes
    <3>3. d(code) \in Boxes
      BY <3>1, <3>2
    <3> QED
      BY <1>1, <2>1, <3>3 DEF Boxes, BoxShape, Lives, Verdicts, Output, Over, TimedOut, Gone,
         Before
  <2> QED
    BY <1>1, <1>2, <1>7, <2>1, <2>2 DEF PayloadExits, PayloadDies, PayloadRuns
<1>8. CASE ChildExits(l)
  <2>1. b.child = "run"
    BY <1>1, <1>8 DEF ChildExits
  <2> DEFINE d == [b EXCEPT !.child = "dead"]
  <2>2. d \in Boxes /\ BoxShape(d)
    <3>1. d \in Boxes
      BY DEF Boxes
    <3> QED
      BY <1>1, <2>1, <3>1 DEF Boxes, BoxShape, Lives, Verdicts, Output, Over, TimedOut, Gone,
         Before
  <2> QED
    BY <1>1, <1>2, <1>8, <2>1, <2>2 DEF ChildExits
<1>9. CASE Tick(l)
  <2>1. b.phase + 1 \in 0..4
    <3>1. b.phase < 4
      BY <1>1, <1>9 DEF Tick
    <3> QED
      BY <1>1, <3>1, Numbers DEF BoxShape, Output, Lives, Gone, Over
  <2> DEFINE d == [b EXCEPT !.phase = b.phase + 1]
  <2>2. d \in Boxes /\ BoxShape(d)
    <3>1. d \in Boxes
      BY <2>1, Fields
    <3> QED
      BY <1>1, <2>1, <3>1 DEF Boxes, BoxShape, Lives, Verdicts, Output, Over, TimedOut, Gone,
         Before
  <2> QED
    BY <1>1, <1>2, <1>9, <2>1, <2>2 DEF Tick
<1> QED
  BY <1>3, <1>4, <1>5, <1>6, <1>7, <1>8, <1>9

\* What the end of a pid namespace leaves as it was, and what it ends.
LEMMA KilledBox ==
    ASSUME NEW b \in Boxes
    PROVE  LET k == Killed(b) IN
           /\ k \in Boxes
           /\ k.parent = b.parent /\ k.helper = b.helper /\ k.helperCode = b.helperCode
           /\ k.reader = b.reader /\ k.written = b.written /\ k.seen = b.seen /\ k.kept = b.kept
           /\ k.truncated = b.truncated /\ k.confined = b.confined /\ k.filtered = b.filtered
           /\ k.payloadCode = b.payloadCode /\ k.expired = b.expired /\ k.result = b.result
           /\ \/ k.init = b.init /\ k.payload = b.payload /\ k.child = b.child
              \/ k.init = "dead" /\ k.payload = Dead(b.payload) /\ k.child = Dead(b.child)
           /\ b.init = "barrier" /\ b.payload = "off" => k.init = "dead" /\ k.payload = "off"
<1>1. CASE Hung(b) \/ b.init = "dead"
  <2>1. Killed(b) = b
    BY <1>1 DEF Killed
  <2> QED
    BY <1>1, <2>1 DEF Hung, Setup
<1>2. CASE ~(Hung(b) \/ b.init = "dead")
  <2> DEFINE d == [b EXCEPT !.init = "dead", !.payload = Dead(@), !.child = Dead(@),
                            !.initCode = Signalled]
  <2>1. Killed(b) = d
    BY <1>2 DEF Killed
  <2>2. PICK x \in Boxes : x = [b EXCEPT !.init = "dead"]
    BY DEF Boxes
  <2>3. PICK y \in Boxes : y = [x EXCEPT !.payload = Dead(b.payload)]
    BY Fields DEF Dead
  <2>4. PICK z \in Boxes : z = [y EXCEPT !.child = Dead(b.child)]
    BY Fields DEF Dead
  <2>5. [z EXCEPT !.initCode = Signalled] \in Boxes
    BY DEF Boxes, Codes
  <2>6. d \in Boxes
    BY <2>2, <2>3, <2>4, <2>5
  <2> HIDE DEF Boxes
  <2> QED
    BY <2>1, <2>6 DEF Boxes, Dead
<1> QED
  BY <1>1, <1>2

\* The helper kills the namespace: when the maps fail, and at the deadline.
LEMMA KillKeeps ==
    ASSUME LinIndInv, NEW l \in Launches, HelperMaps(l) \/ HelperDeadline(l) PROVE LinIndInv'
<1>1. PICK b \in Boxes : b = box[l] /\ BoxShape(b)
  BY DEF LinIndInv, LinTypeOK
<1>2. \A c \in Boxes : BoxShape(c) /\ Put(l, c) => LinIndInv'
  BY PutKeeps
<1>3. PICK k \in Boxes : k = Killed(b)
  BY KilledBox
<1>4. CASE HelperMaps(l)
  <2>1. b.helper = "map" /\ b.init = "barrier" /\ b.payload = "off"
    BY <1>1, <1>4 DEF HelperMaps, BoxShape, Lives
  <2> DEFINE d == [b EXCEPT !.helper = "wait", !.mapped = TRUE]
  <2>2. d \in Boxes /\ BoxShape(d)
    <3>1. PICK x \in Boxes : x = [b EXCEPT !.helper = "wait"]
      BY DEF Boxes
    <3>2. [x EXCEPT !.mapped = TRUE] \in Boxes
      BY DEF Boxes
    <3>3. d \in Boxes
      BY <3>1, <3>2
    <3> QED
      BY <1>1, <2>1, <3>3 DEF Boxes, BoxShape, Lives, Verdicts, Output, Over, TimedOut, Gone,
         Before
  <2> DEFINE e == [k EXCEPT !.helper = "undo"]
  <2>3. e \in Boxes /\ BoxShape(e)
    <3>1. e \in Boxes
      BY DEF Boxes
    <3>2. k.init = "dead" /\ k.payload = "off"
      BY <1>3, <2>1, KilledBox
    <3> QED
      BY <1>1, <1>3, <2>1, <3>1, <3>2, KilledBox DEF Boxes, BoxShape, Lives, Verdicts, Output,
         Over, TimedOut, Gone, Before, Dead
  <2> QED
    BY <1>1, <1>2, <1>3, <1>4, <2>2, <2>3 DEF HelperMaps
<1>5. CASE HelperDeadline(l)
  <2>1. b.helper = "wait"
    BY <1>1, <1>5 DEF HelperDeadline
  <2> DEFINE d == [k EXCEPT !.helper = "kill", !.expired = TRUE]
  <2>2. d \in Boxes /\ BoxShape(d)
    <3>1. PICK x \in Boxes : x = [k EXCEPT !.helper = "kill"]
      BY DEF Boxes
    <3>2. [x EXCEPT !.expired = TRUE] \in Boxes
      BY DEF Boxes
    <3>3. d \in Boxes
      BY <3>1, <3>2
    <3> QED
      BY <1>1, <1>3, <2>1, <3>3, KilledBox DEF Boxes, BoxShape, Lives, Verdicts, Output, Over,
         TimedOut, Gone, Before, Dead
  <2> QED
    BY <1>1, <1>2, <1>3, <1>5, <2>2 DEF HelperDeadline
<1> QED
  BY <1>4, <1>5

\* Ctrl-C ends the helper, and the payload if it does not handle it.
LEMMA InterruptKeeps ==
    ASSUME LinIndInv, NEW l \in Launches, Interrupt(l) PROVE LinIndInv'
<1>1. PICK b \in Boxes : b = box[l] /\ BoxShape(b)
  BY DEF LinIndInv, LinTypeOK
<1>2. \A c \in Boxes : BoxShape(c) /\ Put(l, c) => LinIndInv'
  BY PutKeeps
<1>3. b.helper \notin {"off", "dead"} /\ b.parent = "wait"
  BY <1>1 DEF Interrupt
<1> DEFINE ends(caught) == PayloadRuns(b) /\ ~caught
           d(caught) == [HelperExits(b, Signalled) EXCEPT
                             !.payload = IF ends(caught) THEN "dead" ELSE @,
                             !.payloadCode = IF ends(caught) THEN Signalled ELSE @]
<1>4. ASSUME NEW caught \in BOOLEAN PROVE d(caught) \in Boxes /\ BoxShape(d(caught))
  <2>1. PICK x \in Boxes : x = [b EXCEPT !.helper = "dead"]
    BY DEF Boxes
  <2>2. PICK y \in Boxes : y = [x EXCEPT !.helperCode = Signalled]
    BY DEF Boxes, Codes
  <2>3. PICK p \in {"off", "filter", "exec", "run", "dead"} :
            p = IF ends(caught) THEN "dead" ELSE b.payload
    BY DEF Boxes
  <2>4. PICK code \in Codes : code = IF ends(caught) THEN Signalled ELSE b.payloadCode
    BY DEF Boxes, Codes
  <2>5. PICK z \in Boxes : z = [y EXCEPT !.payload = p]
    BY ZenonT(30) DEF Boxes
  <2>6. [z EXCEPT !.payloadCode = code] \in Boxes
    BY DEF Boxes
  <2>7. PICK e \in Boxes : e = [b EXCEPT !.helper = "dead", !.helperCode = Signalled,
                                         !.payload = p, !.payloadCode = code]
    BY <2>1, <2>2, <2>5, <2>6
  <2>8. d(caught) = e
    BY <2>3, <2>4, <2>7 DEF HelperExits, Boxes
  <2>9. BoxShape(e)
    BY <1>1, <1>3, <2>3, <2>4, <2>7 DEF Boxes, BoxShape, Lives, Verdicts, Output, Over, TimedOut,
       Gone, Before, PayloadRuns
  <2> QED
    BY <2>8, <2>9
<1> QED
  BY <1>1, <1>2, <1>4 DEF Interrupt

\* No launch has started.
LEMMA InitLinIndInv == LinInit => LinIndInv
<1>1. NoBox \in Boxes
  BY LinBounds DEF NoBox, Boxes, Codes
<1>2. BoxShape(NoBox)
  BY DEF NoBox, BoxShape, Lives, Verdicts, Output, Over, TimedOut, Before
<1> QED
  BY <1>1, <1>2 DEF LinInit, LinIndInv, LinTypeOK

\* Every step of every launch keeps the invariant.
LEMMA LinIndStep == LinIndInv /\ [LinNext]_linVars => LinIndInv'
<1> SUFFICES ASSUME LinIndInv, [LinNext]_linVars PROVE LinIndInv'
  OBVIOUS
<1>1. CASE LinNext
  <2>1. PICK l \in Launches : ProbeStep(l) \/ SupervisorStep(l) \/ PayloadStep(l) \/ Tick(l)
    BY <1>1 DEF LinNext
  <2> QED
    BY <2>1, ProbeKeeps, ParentKeeps, ReaderKeeps, HelperKeeps, InitKeeps, PayloadKeeps,
       KillKeeps, InterruptKeeps DEF SupervisorStep, PayloadStep
<1>2. CASE UNCHANGED linVars
  BY <1>2 DEF linVars, LinIndInv, LinTypeOK
<1> QED
  BY <1>1, <1>2

\* What a finished launch says is true, for any number of launches, any output
\* and any pipe: a payload runs confined, untruncated output is all there was
\* and of processes that have ended, and a deadline is reported as one
\* (run_via_helper, wait_pidfd).
THEOREM LinuxResults == LinSpec => []LinuxResultsTrue
<1>1. LinIndInv => LinuxResultsTrue
  <2> SUFFICES ASSUME LinIndInv PROVE LinuxResultsTrue
    OBVIOUS
  <2>1. ASSUME NEW l \in Launches
        PROVE  LET b == box[l] IN
               /\ b.payload = "run" => b.confined /\ b.filtered
               /\ b.result = "ok" /\ ~b.truncated => Over(b) /\ b.kept = b.written
               /\ b.result = "ok" /\ b.helperCode \notin {Signalled, HelperFailed} => Over(b)
               /\ b.result = "ok" /\ b.helperCode # Signalled =>
                     \/ TimedOut(b) <=> (b.expired \/ b.payloadCode = TimedOutCode)
                     \/ b.expired /\ b.helperCode = HelperFailed
    <3>1. PICK b \in Boxes : b = box[l] /\ BoxShape(b)
      BY DEF LinIndInv, LinTypeOK
    <3>2. b.init = "off" => b.payload = "off"
      BY <3>1 DEF BoxShape, Lives
    <3>3. b.result = "ok" => b.helper = "dead" /\ b.reader \in {"eof", "cut"}
      BY <3>1 DEF BoxShape, Output
    <3>4. b.payload = "run" => b.confined /\ b.filtered
      BY <3>1 DEF BoxShape, Lives
    <3>5. b.result = "ok" /\ ~b.truncated => Over(b) /\ b.kept = b.written
      BY <3>1, <3>3 DEF BoxShape, Output
    <3>6. b.result = "ok" /\ b.helperCode \notin {Signalled, HelperFailed} => Over(b)
      BY <3>1, <3>3 DEF BoxShape, Lives, Verdicts, Over, Gone
    <3>7. b.result = "ok" /\ b.helperCode # Signalled =>
             \/ TimedOut(b) <=> (b.expired \/ b.payloadCode = TimedOutCode)
             \/ b.expired /\ b.helperCode = HelperFailed
      <4>1. b.init = "off" => b.payloadCode # TimedOutCode
        BY <3>1, <3>2 DEF BoxShape, Lives, TimedOutCode
      <4>2. HelperFailed # TimedOutCode
        BY DEF HelperFailed, TimedOutCode
      <4> QED
        BY <3>1, <3>3, <4>1, <4>2 DEF BoxShape, Verdicts, TimedOut
    <3> QED
      BY <3>1, <3>4, <3>5, <3>6, <3>7
  <2> QED
    BY <2>1 DEF LinIndInv, LinuxResultsTrue, ResultMeansOver, DeadlineIsReported
<1> QED
  BY <1>1, InitLinIndInv, LinIndStep, PTL DEF LinSpec

-----------------------------------------------------------------------------
(* Windows.                                                                *)

\* The stages in which a launch has the lock of its process, and those before.
Locked == {"grant", "stage", "create", "run", "collect", "restore"}
Early == {"idle", "profile", "record", "locking"}

\* A launch from its profile to the end, and what there is of it at each stage.
Launched(r, k) ==
    /\ host[r] \notin alive => k.stage \in {"idle", "done", "killed"}
    /\ k.stage = "killed" => host[r] \notin alive
    /\ k.stage \notin Locked \cup {"killed"} => k.grants = <<>>
    /\ k.payload = "run" => k.stage = "run"
    /\ k.link => k.stage \in {"create", "run", "collect", "killed"}
    /\ k.stage \in {"idle", "done"} => r \notin profiles
    /\ k.stage \notin {"idle", "done", "killed"} => r \in profiles
    /\ k.stage \in {"idle", "profile"} => r \notin DOMAIN journal
    /\ k.stage \in {"record", "delete", "done"} /\ r \in DOMAIN journal => journal[r] = "torn"

Paths(k) == {k.grants[i].path : i \in 1..Len(k.grants)}

\* Only the device is granted as one, and nothing comes after it.
Placed(todo, i) ==
    /\ todo[i].path = "nul" => i = Len(todo) /\ todo[i].kind # "walk"
    /\ todo[i].kind = "device" => todo[i].path = "nul"

\* The device comes last among what is to be granted, so no path comes twice.
Planned(k) ==
    /\ \A i \in 1..Len(k.todo) : Placed(k.todo, i)
    /\ k.stage = "grant" /\ k.todo # <<>> => "nul" \notin Paths(k)

\* While a launch has the lock its grants are the only change of a path since
\* their snapshots, so each can be taken back alone.
Granted(r, k) ==
    /\ k.stage \in Locked =>
          /\ \A i, j \in 1..Len(k.grants) : k.grants[i].path = k.grants[j].path => i = j
          /\ \A i \in 1..Len(k.grants) :
                r \in dacl[k.grants[i].path] /\ k.grants[i].snapshot = dacl[k.grants[i].path] \ {r}
    /\ k.stage \in Locked \ {"restore"} => \A p \in Places : r \in dacl[p] => p \in Paths(k)
    /\ k.stage \in Early => \A p \in Places : r \notin dacl[p]

\* Who has the lock, and the privileges with it.
LockShape ==
    /\ \A r \in Runs : run[r].stage \in Locked => lock[host[r]] = r
    /\ \A h \in Hosts : lock[h] # None => run[lock[h]].stage \in Locked /\ host[lock[h]] = h
    /\ \A h \in raised : lock[h] # None /\ run[lock[h]].raises

\* A path that is not broken carries SIDs of launches that have a grant on it.
PathShape == \A p \in Places \ broken : \A r \in dacl[p] : p \in Paths(run[r])

\* The invariant of the launches of one agent process.
WinIndInv ==
    /\ WinTypeOK /\ run \in [Runs -> Records] /\ LockShape /\ PathShape
    /\ \A r \in Runs : Launched(r, run[r]) /\ Planned(run[r]) /\ Granted(r, run[r])

\* The launches are those of one agent process, with its one lock.
SingleHost == \A g, h \in Hosts : g = h

\* What is on the host and not in a launch.
hostVars == <<host, alive, lock, raised, dacl, profiles, journal, broken>>

\* What Append, Head, Tail and a new first element make of a sequence.
LEMMA SeqFacts ==
    ASSUME NEW S, NEW s \in Seq(S)
    PROVE  /\ Len(s) \in Nat
           /\ \A i \in 1..Len(s) : s[i] \in S
           /\ \A x \in S : /\ Append(s, x) \in Seq(S) /\ Len(Append(s, x)) = Len(s) + 1
                           /\ Append(s, x)[Len(s) + 1] = x
                           /\ \A i \in 1..Len(s) : Append(s, x)[i] = s[i]
           /\ s # <<>> => /\ Len(s) > 0 /\ Head(s) \in S /\ Head(s) = s[1]
                          /\ Tail(s) \in Seq(S) /\ Len(Tail(s)) = Len(s) - 1
                          /\ \A i \in 1..(Len(s) - 1) : Tail(s)[i] = s[i + 1]
OBVIOUS

\* What a new first element makes of a sequence.
LEMMA ConsFacts ==
    ASSUME NEW S, NEW s \in Seq(S), NEW x \in S
    PROVE  /\ <<x>> \o s \in Seq(S) /\ Len(<<x>> \o s) = Len(s) + 1
           /\ (<<x>> \o s)[1] = x
           /\ \A i \in 1..Len(s) : (<<x>> \o s)[i + 1] = s[i]
OBVIOUS

\* What is left of a journal without its last entry.
LEMMA FrontFacts ==
    ASSUME NEW S, NEW s \in Seq(S), s # <<>>
    PROVE  /\ Front(s) \in Seq(S) /\ Len(Front(s)) = Len(s) - 1
           /\ \A i \in 1..(Len(s) - 1) : Front(s)[i] = s[i]
           /\ Len(s) \in Nat /\ Len(s) > 0 /\ Last(s) = s[Len(s)] /\ Last(s) \in S
<1>1. Len(s) \in Nat /\ Len(s) > 0 /\ Last(s) = s[Len(s)] /\ Last(s) \in S
  BY DEF Last
<1>2. Front(s) = [i \in 1..(Len(s) - 1) |-> s[i]]
  BY <1>1, SMT DEF Front
<1>3. Front(s) \in Seq(S)
  BY <1>1, <1>2
<1>4. Len(Front(s)) = Len(s) - 1
  BY <1>1, <1>2
<1>5. \A i \in 1..(Len(s) - 1) : Front(s)[i] = s[i]
  BY <1>2
<1> QED
  BY <1>1, <1>3, <1>4, <1>5

\* Every request is for places, and asks for the device last (apply_access_grants).
LEMMA PlanFacts ==
    ASSUME NEW plan \in Plans
    PROVE  /\ plan \in Seq(Needs)
           /\ \A i \in 1..Len(plan) : Placed(plan, i)
<1> DEFINE rest == <<Need("runtime", "root"), Need("exe", "path"), Need("ancestor", "best"),
                     Need("nul", "device")>>
<1>1. /\ rest \in Seq(Needs) /\ Len(rest) = 4
      /\ \A i \in 1..4 : Placed(rest, i)
  BY DEF Placed, Needs, Need, Places
<1>2. CASE plan = <<>> \o rest
  <2>1. plan = rest
    BY <1>1, <1>2
  <2> QED
    BY <1>1, <2>1
<1>3. ASSUME NEW x \in {Need("tree", "tree"), Need("tree", "walk")}, plan = <<x>> \o rest
      PROVE  /\ plan \in Seq(Needs)
             /\ \A i \in 1..Len(plan) : Placed(plan, i)
  <2>1. x \in Needs /\ x.path # "nul" /\ x.kind # "device"
    BY DEF Needs, Need, Places
  <2> HIDE DEF rest
  <2>2. /\ plan \in Seq(Needs) /\ Len(plan) = 5 /\ plan[1] = x
        /\ \A i \in 1..4 : plan[i + 1] = rest[i]
    <3>1. rest \in Seq(Needs) /\ Len(rest) = 4
      BY <1>1
    <3> QED
      BY <1>3, <2>1, <3>1, ConsFacts
  <2>3. \A i \in 2..5 : i - 1 \in 1..4 /\ plan[i] = rest[i - 1]
    BY <2>2
  <2> QED
    BY <1>1, <2>1, <2>2, <2>3 DEF Placed
<1> QED
  BY <1>2, <1>3 DEF Plans

\* The invariant is about launches, and types come with their records.
LEMMA RunOf ==
    ASSUME WinIndInv, NEW r \in Runs
    PROVE  /\ run[r] \in Records /\ Launched(r, run[r]) /\ Planned(run[r]) /\ Granted(r, run[r])
           /\ host[r] \in Hosts /\ Seen(r) = Paths(run[r])
           /\ run[r].todo \in Seq(Needs) /\ run[r].grants \in Seq(Undo)
BY DEF WinIndInv, WinTypeOK, Seen, Paths, Records

\* A step of one launch that keeps its grants, and neither takes nor gives the
\* lock; what it does to the profiles and their files is right when every launch
\* stays what it was.
LEMMA FilesStep ==
    ASSUME WinIndInv, NEW r \in Runs, NEW k \in Records, Set(r, k),
           UNCHANGED <<host, alive, lock, raised, dacl, broken>>,
           profiles' \subseteq Runs, DOMAIN journal' \subseteq Runs,
           \A q \in DOMAIN journal' : journal'[q] \in Files,
           k.grants = run[r].grants, k.raises = run[r].raises,
           k.stage \in Locked <=> run[r].stage \in Locked,
           k.stage \in Locked \ {"restore"} => run[r].stage \in Locked \ {"restore"},
           k.stage \in Early => run[r].stage \in Early,
           Launched(r, k)', \A q \in Runs \ {r} : Launched(q, run[q])', Planned(k)
    PROVE  WinIndInv'
<1>1. /\ run' \in [Runs -> Records] /\ run'[r] = k
      /\ \A q \in Runs \ {r} : run'[q] = run[q]
  BY DEF Set, WinIndInv
<1>2. WinTypeOK'
  BY <1>1 DEF WinIndInv, WinTypeOK, Records
<1>3. LockShape'
  BY <1>1, NoneAssumption DEF WinIndInv, WinTypeOK, LockShape
<1>4. PathShape'
  BY <1>1 DEF WinIndInv, WinTypeOK, PathShape, Paths
<1>5. ASSUME NEW q \in Runs PROVE (Launched(q, run[q]) /\ Planned(run[q]) /\ Granted(q, run[q]))'
  <2>1. CASE q = r
    <3>1. Granted(r, k)
      BY RunOf DEF Granted, Paths
    <3>2. Planned(run[r])' /\ Granted(r, run[r])'
      BY <1>1, <3>1 DEF Planned, Granted, Paths
    <3>3. Launched(r, run[r])'
      BY <1>1 DEF Launched
    <3> QED
      BY <2>1, <3>2, <3>3
  <2>2. CASE q # r
    <3>1. run'[q] = run[q] /\ Planned(run[q]) /\ Granted(q, run[q])
      BY <1>1, <2>2, RunOf
    <3>2. Planned(run[q])' /\ Granted(q, run[q])'
      BY <3>1 DEF Planned, Granted, Paths
    <3> QED
      BY <2>2, <3>2
  <2> QED
    BY <2>1, <2>2
<1> QED
  BY <1>1, <1>2, <1>3, <1>4, <1>5 DEF WinIndInv

\* Such a step that touches no file either.
LEMMA QuietStep ==
    ASSUME WinIndInv, NEW r \in Runs, NEW k \in Records, Set(r, k), UNCHANGED hostVars,
           k.grants = run[r].grants, k.raises = run[r].raises,
           k.stage \in Locked <=> run[r].stage \in Locked,
           k.stage \in Locked \ {"restore"} => run[r].stage \in Locked \ {"restore"},
           k.stage \in Early => run[r].stage \in Early,
           Launched(r, k), Planned(k)
    PROVE  WinIndInv'
<1> USE DEF hostVars
<1>1. \A q \in Runs \ {r} : run'[q] = run[q]
  BY DEF Set, WinIndInv
<1>2. Launched(r, k)'
  BY DEF Launched
<1>3. \A q \in Runs \ {r} : Launched(q, run[q])'
  BY <1>1, RunOf DEF Launched
<1>4. /\ profiles' \subseteq Runs /\ DOMAIN journal' \subseteq Runs
      /\ \A q \in DOMAIN journal' : journal'[q] \in Files
  BY DEF WinIndInv, WinTypeOK
<1> QED
  BY <1>2, <1>3, <1>4, FilesStep

\* Moves is a step of a launch's record.
LEMMA MovesSets ==
    ASSUME NEW r \in Runs, NEW stage, Moves(r, stage)
    PROVE  Set(r, [run[r] EXCEPT !.stage = stage])
BY DEF Moves, Set

\* A plan is kept, or dropped.
LEMMA PlanKept ==
    ASSUME NEW m \in Records, NEW k \in Records, Planned(m), k.grants = m.grants,
           \/ k.todo = <<>>
           \/ k.todo = m.todo /\ (k.stage = "grant" => m.stage = "grant")
    PROVE  Planned(k)
BY DEF Planned, Paths

\* The first path of a plan is done.
LEMMA PathDonePlanned ==
    ASSUME NEW m \in Records, Planned(m), m.todo # <<>>
    PROVE  PathDone(m) \in Records /\ Planned(PathDone(m))
<1>1. m.todo \in Seq(Needs)
  BY DEF Records
<1>2. PICK t \in Seq(Needs) : t = Tail(m.todo)
  BY <1>1, SeqFacts
<1>3. PICK k \in Records : k = [m EXCEPT !.todo = t]
  BY DEF Records
<1>4. PathDone(m) = k
  BY <1>2, <1>3 DEF PathDone
<1>5. k.todo = t /\ k.grants = m.grants /\ k.stage = m.stage
  BY <1>3 DEF Records
<1>6. /\ Len(t) = Len(m.todo) - 1 /\ Len(m.todo) \in Nat
      /\ \A i \in 1..Len(t) : i + 1 \in 1..Len(m.todo) /\ t[i] = m.todo[i + 1]
  BY <1>1, <1>2, SeqFacts
<1>7. Planned(k)
  BY <1>5, <1>6 DEF Planned, Placed, Paths
<1> QED
  BY <1>4, <1>7

\* What run_sandboxed() leaves of a launch when it returns.
LEMMA LeavesRun ==
    ASSUME NEW m \in Records, NEW result \in {"none", "ok", "error"}
    PROVE  LET k == Leaves(m, result) IN
           /\ k \in Records /\ k.stage = "restore" /\ k.grants = m.grants /\ k.raises = m.raises
           /\ k.todo = <<>> /\ k.link = FALSE /\ k.payload = "off"
<1>1. NoRun \in Records
  BY DEF NoRun, Records, Stages
<1>2. PICK x \in Records : x = [NoRun EXCEPT !.stage = "restore"]
  BY <1>1 DEF Records, Stages
<1>3. PICK y \in Records : y = [x EXCEPT !.result = result]
  BY DEF Records
<1>4. PICK z \in Records : z = [y EXCEPT !.grants = m.grants]
  BY DEF Records
<1>5. PICK k \in Records : k = [z EXCEPT !.raises = m.raises]
  BY DEF Records
<1>6. Leaves(m, result) = k
  BY <1>2, <1>3, <1>4, <1>5 DEF Leaves
<1>7. k.stage = "restore" /\ k.grants = m.grants /\ k.raises = m.raises
  BY <1>2, <1>3, <1>4, <1>5 DEF Records
<1>8. k.todo = <<>> /\ k.link = FALSE /\ k.payload = "off"
  BY <1>1, <1>2, <1>3, <1>4, <1>5 DEF Records, NoRun
<1> QED
  BY <1>6, <1>7, <1>8

\* The steps of a launch that change nothing on the host (process.rs, job.rs and
\* the failures of the others).
LEMMA QuietSteps ==
    ASSUME WinIndInv, NEW r \in Runs,
           \/ CreateSuspended(r) \/ Resume(r) \/ PayloadMoves(r) \/ ChildEnds(r)
           \/ DeadlinePasses(r) \/ WaitEnds(r) \/ CollectOutput(r) \/ MountLink(r)
    PROVE  WinIndInv'
<1>1. PICK m \in Records : m = run[r] /\ Launched(r, m) /\ Planned(m)
  BY RunOf
<1>2. UNCHANGED hostVars
  BY DEF hostVars, CreateSuspended, Resume, PayloadMoves, ChildEnds, DeadlinePasses, WaitEnds,
         CollectOutput, MountLink
<1>3. m.stage \in {"create", "run", "collect"} \/ m.payload = "run" \/ m.child = "run"
  BY <1>1 DEF At, CreateSuspended, Resume, PayloadMoves, ChildEnds, DeadlinePasses, WaitEnds,
         CollectOutput, MountLink
<1>4. ASSUME NEW k \in Records, Set(r, k), k.grants = m.grants, k.raises = m.raises,
             k.todo = m.todo \/ k.todo = <<>>, k.stage = m.stage,
             k.payload = "run" => m.payload = "run", k.link => m.link
      PROVE  WinIndInv'
  <2>1. Planned(k)
    BY <1>1, <1>4, PlanKept
  <2>2. Launched(r, k)
    BY <1>1, <1>4 DEF Launched
  <2> QED
    BY <1>1, <1>2, <1>4, <2>1, <2>2, QuietStep
<1>5. ASSUME NEW k \in Records, Set(r, k), k.grants = m.grants, k.raises = m.raises,
             k.todo = m.todo \/ k.todo = <<>>, m.stage \in {"create", "run", "collect"},
             k.stage \in {"create", "run", "collect", "restore"},
             k.payload = "run" => k.stage = "run", k.link => k.stage # "restore"
      PROVE  WinIndInv'
  <2>1. Planned(k)
    BY <1>1, <1>5, PlanKept
  <2>2. Launched(r, k)
    BY <1>1, <1>5 DEF Launched, Locked
  <2>3. k.stage \in Locked /\ m.stage \in Locked \ {"restore"} /\ k.stage \notin Early
    BY <1>5 DEF Locked, Early
  <2> QED
    BY <1>1, <1>2, <1>5, <2>1, <2>2, <2>3, QuietStep
<1>6. ASSUME NEW result \in {"none", "ok", "error"}, Set(r, Leaves(run[r], result)),
             m.stage \in {"create", "run", "collect"}
      PROVE  WinIndInv'
  <2>1. PICK k \in Records : /\ k = Leaves(m, result)
                             /\ k.stage = "restore" /\ k.grants = m.grants /\ k.raises = m.raises
                             /\ k.todo = <<>> /\ k.link = FALSE /\ k.payload = "off"
    BY LeavesRun
  <2> QED
    BY <1>1, <1>5, <1>6, <2>1
<1>7. CASE CreateSuspended(r)
  <2>1. m.stage = "create"
    BY <1>1, <1>7 DEF CreateSuspended, At
  <2>2. PICK k \in Records : k = [m EXCEPT !.payload = "suspended"]
    BY DEF Records
  <2>3. /\ k.grants = m.grants /\ k.raises = m.raises /\ k.todo = m.todo /\ k.stage = m.stage
        /\ k.payload = "suspended" /\ k.link = m.link
    BY <2>2 DEF Records
  <2> QED
    BY <1>1, <1>4, <1>6, <1>7, <2>1, <2>2, <2>3 DEF CreateSuspended
<1>8. CASE Resume(r)
  <2>1. m.stage = "create"
    BY <1>1, <1>8 DEF Resume, At
  <2>2. PICK x \in Records : x = [m EXCEPT !.stage = "run"]
    BY DEF Records, Stages
  <2>3. PICK k \in Records : k = [x EXCEPT !.payload = "run"]
    BY DEF Records
  <2>4. k = [m EXCEPT !.stage = "run", !.payload = "run"]
    BY <2>2, <2>3
  <2>5. /\ k.grants = m.grants /\ k.raises = m.raises /\ k.todo = m.todo /\ k.stage = "run"
    BY <2>4 DEF Records
  <2> QED
    BY <1>1, <1>5, <1>6, <1>8, <2>1, <2>4, <2>5 DEF Resume
<1>9. CASE PayloadMoves(r)
  <2>1. ASSUME NEW payload \in {"hung", "dead"}, Set(r, [run[r] EXCEPT !.payload = payload])
        PROVE  WinIndInv'
    <3>1. PICK k \in Records : k = [m EXCEPT !.payload = payload]
      BY DEF Records
    <3>2. /\ k.grants = m.grants /\ k.raises = m.raises /\ k.todo = m.todo /\ k.stage = m.stage
          /\ k.payload = payload /\ k.link = m.link
      BY <3>1 DEF Records
    <3> QED
      BY <1>1, <1>4, <2>1, <3>1, <3>2
  <2>2. ASSUME Set(r, [run[r] EXCEPT !.child = "run"]) PROVE WinIndInv'
    <3>1. PICK k \in Records : k = [m EXCEPT !.child = "run"]
      BY DEF Records
    <3>2. /\ k.grants = m.grants /\ k.raises = m.raises /\ k.todo = m.todo /\ k.stage = m.stage
          /\ k.payload = m.payload /\ k.link = m.link
      BY <3>1 DEF Records
    <3> QED
      BY <1>1, <1>4, <2>2, <3>1, <3>2
  <2> QED
    BY <1>9, <2>1, <2>2 DEF PayloadMoves
<1>10. CASE ChildEnds(r)
  <2>1. PICK k \in Records : k = [m EXCEPT !.child = "off"]
    BY DEF Records
  <2>2. /\ k.grants = m.grants /\ k.raises = m.raises /\ k.todo = m.todo /\ k.stage = m.stage
        /\ k.payload = m.payload /\ k.link = m.link
    BY <2>1 DEF Records
  <2>3. Set(r, k)
    BY <1>1, <1>10, <2>1 DEF ChildEnds, Set
  <2> QED
    BY <1>1, <1>4, <2>2, <2>3
<1>11. CASE DeadlinePasses(r)
  <2>1. PICK k \in Records : k = [m EXCEPT !.late = TRUE]
    BY DEF Records
  <2>2. /\ k.grants = m.grants /\ k.raises = m.raises /\ k.todo = m.todo /\ k.stage = m.stage
        /\ k.payload = m.payload /\ k.link = m.link
    BY <2>1 DEF Records
  <2>3. Set(r, k)
    BY <1>1, <1>11, <2>1 DEF DeadlinePasses, Set
  <2> QED
    BY <1>1, <1>4, <2>2, <2>3
<1>12. CASE WaitEnds(r)
  <2>1. m.stage = "run"
    BY <1>1, <1>12 DEF WaitEnds, At
  <2>2. ASSUME m.payload = "dead", Moves(r, "collect") PROVE WinIndInv'
    <3>1. PICK k \in Records : k = [m EXCEPT !.stage = "collect"]
      BY DEF Records, Stages
    <3>2. /\ k.grants = m.grants /\ k.raises = m.raises /\ k.todo = m.todo /\ k.stage = "collect"
          /\ k.payload = m.payload /\ k.link = m.link
      BY <3>1 DEF Records
    <3>3. Set(r, k)
      BY <1>1, <2>2, <3>1, MovesSets
    <3> QED
      BY <1>5, <2>1, <2>2, <3>2, <3>3
  <2>3. ASSUME m.payload # "hung", Set(r, [Ends(run[r]) EXCEPT !.stage = "collect"])
        PROVE  WinIndInv'
    <3>1. PICK x \in Records : x = [m EXCEPT !.payload = "dead"]
      BY DEF Records
    <3>2. PICK y \in Records : y = [x EXCEPT !.child = "off"]
      BY DEF Records
    <3>3. PICK k \in Records : k = [y EXCEPT !.stage = "collect"]
      BY DEF Records, Stages
    <3>4. k = [Ends(m) EXCEPT !.stage = "collect"]
      BY <2>3, <3>1, <3>2, <3>3 DEF Ends
    <3>5. /\ k.grants = m.grants /\ k.raises = m.raises /\ k.todo = m.todo /\ k.stage = "collect"
          /\ k.payload = "dead" /\ k.link = m.link
      BY <3>1, <3>2, <3>3 DEF Records
    <3> QED
      BY <1>1, <1>5, <2>1, <2>3, <3>4, <3>5
  <2> QED
    BY <1>1, <1>6, <1>12, <2>1, <2>2, <2>3 DEF WaitEnds
<1>13. CASE CollectOutput(r)
  BY <1>1, <1>6, <1>13 DEF CollectOutput, At
<1>14. CASE MountLink(r)
  <2>1. m.stage = "create" /\ m.payload = "off"
    BY <1>1, <1>14 DEF MountLink, At
  <2>2. PICK k \in Records : k = [m EXCEPT !.link = TRUE]
    BY DEF Records
  <2>3. /\ k.grants = m.grants /\ k.raises = m.raises /\ k.todo = m.todo /\ k.stage = m.stage
        /\ k.payload = m.payload
    BY <2>2 DEF Records
  <2> QED
    BY <1>1, <1>5, <1>14, <2>1, <2>2, <2>3 DEF MountLink
<1> QED
  BY <1>7, <1>8, <1>9, <1>10, <1>11, <1>12, <1>13, <1>14

\* The steps of the grants that grant nothing, and the failures after them.
LEMMA PlanSteps ==
    ASSUME WinIndInv, NEW r \in Runs, host[r] \in alive,
           \/ GrantSkipped(r) \/ GrantRuntimeRoot(r) \/ GrantFails(r)
           \/ CheckLoopback(r) \/ StageLaunch(r)
    PROVE  WinIndInv'
<1>1. PICK m \in Records : m = run[r] /\ Launched(r, m) /\ Planned(m) /\ m.todo \in Seq(Needs)
  BY RunOf
<1>2. UNCHANGED hostVars
  BY DEF hostVars, GrantSkipped, GrantRuntimeRoot, GrantFails, CheckLoopback, StageLaunch
<1>3. m.stage \in {"grant", "stage"}
  BY <1>1 DEF Granting, At, GrantSkipped, GrantRuntimeRoot, GrantFails, CheckLoopback, StageLaunch
<1>4. ASSUME NEW k \in Records, Set(r, k), k.grants = m.grants, k.raises = m.raises,
             k.stage \in Locked, k.payload = m.payload, k.link = m.link, Planned(k),
             k.stage # "run"
      PROVE  WinIndInv'
  <2>1. Launched(r, k)
    BY <1>1, <1>3, <1>4 DEF Launched, Locked
  <2>2. m.stage \in Locked \ {"restore"} /\ k.stage \notin Early
    BY <1>3, <1>4 DEF Locked, Early
  <2> QED
    BY <1>1, <1>2, <1>4, <2>1, <2>2, QuietStep
<1>5. ASSUME m.stage = "grant", m.todo # <<>>, Set(r, PathDone(run[r])) PROVE WinIndInv'
  <2>1. PICK k \in Records : k = PathDone(m) /\ Planned(k)
    BY <1>1, <1>5, PathDonePlanned
  <2>2. /\ k.grants = m.grants /\ k.raises = m.raises /\ k.stage = m.stage
        /\ k.payload = m.payload /\ k.link = m.link
    BY <2>1 DEF PathDone, Records
  <2>3. k.stage \in Locked /\ k.stage # "run"
    BY <1>5, <2>2 DEF Locked
  <2> QED
    BY <1>1, <1>4, <1>5, <2>1, <2>2, <2>3
<1>6. ASSUME Set(r, [run[r] EXCEPT !.stage = "restore", !.result = "error"]) PROVE WinIndInv'
  <2>1. PICK x \in Records : x = [m EXCEPT !.stage = "restore"]
    BY DEF Records, Stages
  <2>2. PICK k \in Records : k = [x EXCEPT !.result = "error"]
    BY DEF Records
  <2>3. k = [m EXCEPT !.stage = "restore", !.result = "error"]
    BY <2>1, <2>2
  <2>4. /\ k.grants = m.grants /\ k.raises = m.raises /\ k.stage = "restore"
        /\ k.payload = m.payload /\ k.link = m.link /\ k.todo = m.todo
    BY <2>1, <2>2 DEF Records
  <2>5. k.stage \in Locked /\ Planned(k)
    BY <1>1, <2>4, PlanKept DEF Locked
  <2> QED
    BY <1>1, <1>4, <1>6, <2>3, <2>4, <2>5
<1>7. ASSUME NEW stage \in {"stage", "create"}, Moves(r, stage) PROVE WinIndInv'
  <2>1. PICK k \in Records : k = [m EXCEPT !.stage = stage]
    BY DEF Records, Stages
  <2>2. /\ k.grants = m.grants /\ k.raises = m.raises /\ k.stage = stage
        /\ k.payload = m.payload /\ k.link = m.link /\ k.todo = m.todo
    BY <2>1 DEF Records
  <2>3. k.stage \in Locked /\ Planned(k)
    BY <1>1, <2>2, PlanKept DEF Locked
  <2>4. Set(r, k)
    BY <1>1, <1>7, <2>1, MovesSets
  <2> QED
    BY <1>4, <2>2, <2>3, <2>4
<1>8. CASE GrantSkipped(r)
  BY <1>1, <1>5, <1>8 DEF GrantSkipped, Granting, At
<1>9. CASE GrantRuntimeRoot(r)
  <2>1. m.stage = "grant" /\ m.todo # <<>> /\ m.todo[1].kind = "root"
    BY <1>1, <1>9, SeqFacts DEF GrantRuntimeRoot, Granting, At, NeedOf
  <2>2. PICK t \in Seq(Needs) : t = Tail(m.todo)
    BY <1>1, <2>1, SeqFacts
  <2>3. PICK x \in Needs : x = Need("runtime", "walk")
    BY DEF Need, Needs, Places
  <2>4. PICK s \in Seq(Needs) : s = <<x>> \o t
    BY ConsFacts
  <2>5. PICK k \in Records : k = [m EXCEPT !.todo = s]
    BY DEF Records
  <2>6. /\ k.grants = m.grants /\ k.raises = m.raises /\ k.stage = m.stage
        /\ k.payload = m.payload /\ k.link = m.link /\ k.todo = s
    BY <2>5 DEF Records
  <2>7. Planned(k)
    <3>1. /\ Len(m.todo) \in Nat /\ Len(m.todo) > 0 /\ Len(t) = Len(m.todo) - 1
          /\ \A i \in 1..(Len(m.todo) - 1) : t[i] = m.todo[i + 1]
      BY <1>1, <2>1, <2>2, SeqFacts
    <3>2. Len(s) = Len(m.todo) /\ s[1] = x /\ x.path # "nul" /\ x.kind # "device"
          /\ \A i \in 2..Len(m.todo) : s[i] = m.todo[i]
      <4>1. Len(s) = Len(t) + 1 /\ s[1] = x /\ \A i \in 1..Len(t) : s[i + 1] = t[i]
        BY <2>4, ConsFacts
      <4>2. x.path # "nul" /\ x.kind # "device"
        BY <2>3 DEF Need
      <4>3. ASSUME NEW i \in 2..Len(m.todo) PROVE s[i] = m.todo[i]
        <5>1. i - 1 \in 1..Len(t) /\ (i - 1) + 1 = i
          BY <3>1
        <5> QED
          BY <3>1, <4>1, <5>1
      <4> QED
        BY <3>1, <4>1, <4>2, <4>3
    <3>3. \A i \in 1..Len(s) : Placed(s, i)
      BY <1>1, <3>1, <3>2 DEF Planned, Placed
    <3> QED
      BY <1>1, <2>1, <2>6, <3>3 DEF Planned, Paths
  <2>8. k.stage \in Locked /\ k.stage # "run"
    BY <2>1, <2>6 DEF Locked
  <2>9. [m EXCEPT !.todo = <<Need("runtime", "walk")>> \o Tail(m.todo)] = k
    BY <2>2, <2>3, <2>4, <2>5
  <2> QED
    BY <1>1, <1>4, <1>5, <1>9, <2>1, <2>6, <2>7, <2>8, <2>9 DEF GrantRuntimeRoot
<1>10. CASE GrantFails(r)
  <2>1. m.stage = "grant" /\ m.todo # <<>>
    BY <1>1, <1>10 DEF GrantFails, Granting, At
  <2>2. ASSUME Set(r, [run[r] EXCEPT !.todo = <<>>, !.stage = "restore", !.result = "error"])
        PROVE  WinIndInv'
    <3> DEFINE none == <<>>
    <3>0. none \in Seq(Needs)
      OBVIOUS
    <3> HIDE DEF none
    <3>1. PICK x \in Records : x = [m EXCEPT !.todo = none]
      BY <3>0 DEF Records
    <3>2. PICK y \in Records : y = [x EXCEPT !.stage = "restore"]
      BY DEF Records, Stages
    <3>3. PICK k \in Records : k = [y EXCEPT !.result = "error"]
      BY DEF Records
    <3>4. k = [m EXCEPT !.todo = <<>>, !.stage = "restore", !.result = "error"]
      BY <3>1, <3>2, <3>3 DEF none
    <3>5. /\ k.grants = m.grants /\ k.raises = m.raises /\ k.stage = "restore"
          /\ k.payload = m.payload /\ k.link = m.link /\ k.todo = <<>>
      BY <3>1, <3>2, <3>3 DEF Records, none
    <3>6. k.stage \in Locked /\ Planned(k)
      BY <1>1, <3>5, PlanKept DEF Locked
    <3> QED
      BY <1>1, <1>4, <2>2, <3>4, <3>5, <3>6
  <2> QED
    BY <1>5, <1>10, <2>1, <2>2 DEF GrantFails
<1>11. CASE CheckLoopback(r) \/ StageLaunch(r)
  BY <1>6, <1>7, <1>11 DEF CheckLoopback, StageLaunch
<1> QED
  BY <1>8, <1>9, <1>10, <1>11

\* A reclaim takes profiles and files of ended processes only, and torn files.
LEMMA ReclaimFiles ==
    ASSUME WinIndInv, NEW new \in SUBSET Runs, Reclaim(new)
    PROVE  /\ profiles' \subseteq Runs /\ DOMAIN journal' \subseteq DOMAIN journal
           /\ DOMAIN journal' \subseteq Runs
           /\ \A q \in DOMAIN journal' : journal'[q] = journal[q] /\ journal'[q] \in Files
           /\ profiles' \subseteq profiles \cup new
           /\ new \subseteq profiles'
           /\ \A q \in profiles : host[q] \in alive => q \in profiles'
BY DEF WinIndInv, WinTypeOK, Reclaim, Remove, Stale

\* Reclaiming leaves every other launch what it was.
LEMMA ReclaimLaunched ==
    ASSUME WinIndInv, NEW new \in SUBSET Runs, Reclaim(new), UNCHANGED <<host, alive>>,
           NEW q \in Runs \ new, run'[q] = run[q]
    PROVE  Launched(q, run[q])'
<1>1. PICK m \in Records : m = run[q] /\ Launched(q, m)
  BY RunOf
<1>2. m.stage \notin {"idle", "done", "killed"} => q \in profiles'
  BY <1>1, ReclaimFiles DEF Launched
<1>3. m.stage \in {"idle", "done"} => q \notin profiles'
  BY <1>1, ReclaimFiles DEF Launched
<1>4. q \in DOMAIN journal' => q \in DOMAIN journal /\ journal'[q] = journal[q]
  BY ReclaimFiles
<1>5. run'[q] = m
  BY <1>1
<1> QED
  BY <1>1, <1>2, <1>3, <1>4, <1>5 DEF Launched

\* A profile with its record, from its creation to its end (profile.rs, journal.rs).
LEMMA ProfileSteps ==
    ASSUME WinIndInv, NEW r \in Runs, host[r] \in alive,
           \/ CreateProfile(r) \/ BeginRecord(r) \/ RecordProfile(r)
           \/ DropRecord(r) \/ DropProfile(r)
    PROVE  WinIndInv'
<1>1. PICK m \in Records : /\ m = run[r] /\ Launched(r, m) /\ Planned(m)
                           /\ m.stage \in {"idle", "profile", "record", "unjournal", "delete"}
  BY RunOf DEF At, CreateProfile, BeginRecord, RecordProfile, DropRecord, DropProfile
<1>2. UNCHANGED <<host, alive, lock, raised, dacl, broken>>
  BY DEF CreateProfile, BeginRecord, RecordProfile, DropRecord, DropProfile
<1>3. profiles \subseteq Runs /\ DOMAIN journal \subseteq Runs /\ \A q \in DOMAIN journal : journal[q] \in Files
  BY DEF WinIndInv, WinTypeOK
<1>4. m.grants = <<>> /\ m.payload # "run" /\ ~m.link
  BY <1>1 DEF Launched, Locked, Records
\* What the launch becomes, and that its files fit it.
<1> DEFINE Becomes(k) ==
        /\ Set(r, k) /\ k.grants = m.grants /\ k.raises = m.raises /\ k.todo = m.todo
        /\ k.payload = m.payload /\ k.link = m.link
        /\ k.stage \in {"profile", "record", "locking", "delete", "done"}
        /\ k.stage \in Early => m.stage \in Early
<1>5. ASSUME NEW k \in Records, Becomes(k),
             profiles' \subseteq Runs, DOMAIN journal' \subseteq Runs,
             \A q \in DOMAIN journal' : journal'[q] \in Files,
             Launched(r, k)', \A q \in Runs \ {r} : Launched(q, run[q])'
      PROVE  WinIndInv'
  <2>1. Planned(k)
    BY <1>1, <1>5, PlanKept
  <2>2. k.stage \notin Locked /\ m.stage \notin Locked
    BY <1>1, <1>5 DEF Locked
  <2> QED
    BY <1>1, <1>2, <1>5, <2>1, <2>2, FilesStep
<1>6. ASSUME NEW stage \in {"profile", "record", "locking", "delete", "done"}, Moves(r, stage),
             stage \in Early => m.stage \in Early
      PROVE  \E k \in Records : Becomes(k) /\ k.stage = stage
  <2>1. PICK k \in Records : k = [m EXCEPT !.stage = stage]
    BY DEF Records, Stages
  <2>2. Set(r, k)
    BY <1>1, <1>6, <2>1, MovesSets
  <2> QED
    BY <1>6, <2>1, <2>2 DEF Records
<1>7. ASSUME NEW stage \in {"delete", "done"},
             Set(r, [run[r] EXCEPT !.stage = stage, !.result = "error"])
      PROVE  \E k \in Records : Becomes(k) /\ k.stage = stage
  <2>1. PICK x \in Records : x = [m EXCEPT !.stage = stage]
    BY DEF Records, Stages
  <2>2. PICK k \in Records : k = [x EXCEPT !.result = "error"]
    BY DEF Records
  <2>3. k = [m EXCEPT !.stage = stage, !.result = "error"]
    BY <2>1, <2>2
  <2>4. Set(r, k)
    BY <1>1, <1>7, <2>3
  <2>5. /\ k.grants = m.grants /\ k.raises = m.raises /\ k.todo = m.todo
        /\ k.payload = m.payload /\ k.link = m.link /\ k.stage = stage
    BY <2>1, <2>2 DEF Records
  <2> QED
    BY <1>7, <2>4, <2>5 DEF Early
<1>8. ASSUME NEW k \in Records, Becomes(k), NEW q \in Runs \ {r} PROVE run'[q] = run[q]
  BY <1>8 DEF Set, WinIndInv
\* Files of this launch alone change.
<1>9. ASSUME NEW k \in Records, Becomes(k), NEW q \in Runs \ {r},
             q \in profiles' <=> q \in profiles, q \in DOMAIN journal' <=> q \in DOMAIN journal,
             q \in DOMAIN journal => journal'[q] = journal[q]
      PROVE  Launched(q, run[q])'
  <2>1. run'[q] = run[q] /\ Launched(q, run[q])
    BY <1>8, <1>9, RunOf
  <2> QED
    BY <1>2, <1>9, <2>1 DEF Launched
<1>10. CASE CreateProfile(r)
  <2>1. m.stage = "idle"
    BY <1>1, <1>10 DEF CreateProfile, At
  <2>2. ASSUME Set(r, [run[r] EXCEPT !.stage = "done", !.result = "error"]),
               UNCHANGED <<profiles, journal>>
        PROVE  WinIndInv'
    <3>1. PICK k \in Records : Becomes(k) /\ k.stage = "done"
      BY <1>7, <2>2
    <3>2. Launched(r, k)'
      BY <1>1, <1>2, <1>4, <2>1, <2>2, <3>1 DEF Launched
    <3>3. \A q \in Runs \ {r} : Launched(q, run[q])'
      BY <1>9, <2>2, <3>1
    <3> QED
      BY <1>3, <1>5, <2>2, <3>1, <3>2, <3>3
  <2>3. ASSUME Moves(r, "profile"), Reclaim({r}) PROVE WinIndInv'
    <3>1. PICK k \in Records : Becomes(k) /\ k.stage = "profile"
      BY <1>6, <2>1, <2>3 DEF Early
    <3>2. Launched(r, k)'
      <4>1. r \notin DOMAIN journal /\ r \notin DOMAIN journal' /\ r \in profiles'
        BY <1>1, <2>1, <2>3, ReclaimFiles DEF Launched
      <4> QED
        BY <1>2, <1>4, <3>1, <4>1 DEF Launched
    <3>3. \A q \in Runs \ {r} : Launched(q, run[q])'
      BY <1>2, <1>8, <2>3, <3>1, ReclaimLaunched
    <3>4. /\ profiles' \subseteq Runs /\ DOMAIN journal' \subseteq Runs
          /\ \A q \in DOMAIN journal' : journal'[q] \in Files
      BY <2>3, ReclaimFiles
    <3> QED
      BY <1>5, <3>1, <3>2, <3>3, <3>4
  <2> QED
    BY <1>10, <2>2, <2>3 DEF CreateProfile
<1>11. CASE BeginRecord(r) \/ RecordProfile(r)
  <2>1. m.stage \in {"profile", "record"} /\ UNCHANGED profiles /\ r \in profiles
    BY <1>1, <1>11 DEF BeginRecord, RecordProfile, At, Launched
  <2>2. PICK k \in Records : Becomes(k) /\ k.stage \in {"record", "locking", "delete"}
    <3>1. Moves(r, "record") => \E k \in Records : Becomes(k) /\ k.stage = "record"
      BY <1>6, <2>1 DEF Early
    <3>2. Moves(r, "locking") => \E k \in Records : Becomes(k) /\ k.stage = "locking"
      BY <1>6, <2>1 DEF Early
    <3>3. Set(r, [run[r] EXCEPT !.stage = "delete", !.result = "error"])
             => \E k \in Records : Becomes(k) /\ k.stage = "delete"
      BY <1>7
    <3> QED
      BY <1>11, <3>1, <3>2, <3>3 DEF BeginRecord, RecordProfile
  <2>3. /\ \A q \in Runs \ {r} : q \in DOMAIN journal' <=> q \in DOMAIN journal
        /\ \A q \in Runs \ {r} : q \in DOMAIN journal => journal'[q] = journal[q]
        /\ DOMAIN journal' \subseteq Runs /\ \A q \in DOMAIN journal' : journal'[q] \in Files
    <3>1. CASE UNCHANGED journal
      BY <1>3, <3>1
    <3>2. ASSUME NEW content \in Files, Recorded(r, content)
          PROVE  /\ DOMAIN journal' = DOMAIN journal \cup {r} /\ journal'[r] = content
                 /\ \A q \in DOMAIN journal \ {r} : journal'[q] = journal[q]
      BY <3>2 DEF Recorded
    <3> QED
      BY <1>3, <1>11, <3>1, <3>2 DEF BeginRecord, RecordProfile, Files
  <2>4. k.stage \in {"record", "delete"} /\ r \in DOMAIN journal' => journal'[r] = "torn"
    <3>1. r \in DOMAIN journal => m.stage = "record" /\ journal[r] = "torn"
      BY <1>1, <2>1 DEF Launched
    <3>2. /\ run'[r].stage = k.stage
          /\ \A stage \in Stages : Moves(r, stage) => run'[r].stage = stage
          /\ Set(r, [run[r] EXCEPT !.stage = "delete", !.result = "error"])
                => run'[r].stage = "delete"
      <4>1. run'[r].stage = k.stage
        BY <2>2 DEF Set, WinIndInv
      <4>2. ASSUME NEW stage \in Stages, Moves(r, stage) PROVE run'[r].stage = stage
        BY <4>2 DEF Moves, WinIndInv, Records
      <4>3. ASSUME Set(r, [run[r] EXCEPT !.stage = "delete", !.result = "error"])
            PROVE  run'[r].stage = "delete"
        BY <4>3 DEF Set, WinIndInv, Records
      <4> QED
        BY <4>1, <4>2, <4>3
    <3>3. CASE k.stage = "record"
      <4>1. Recorded(r, "torn")
        BY <1>11, <3>2, <3>3 DEF BeginRecord, RecordProfile, Stages
      <4> QED
        BY <4>1 DEF Recorded
    <3>4. CASE k.stage = "delete"
      <4>1. UNCHANGED journal
        BY <1>11, <3>2, <3>4 DEF BeginRecord, RecordProfile, Stages
      <4> QED
        BY <3>1, <4>1
    <3> QED
      BY <3>3, <3>4
  <2>5. Launched(r, k)'
    BY <1>1, <1>2, <1>4, <2>1, <2>2, <2>4 DEF Launched
  <2>6. ASSUME NEW q \in Runs \ {r} PROVE Launched(q, run[q])'
    <3>1. /\ q \in profiles' <=> q \in profiles
          /\ q \in DOMAIN journal' <=> q \in DOMAIN journal
          /\ q \in DOMAIN journal => journal'[q] = journal[q]
      BY <2>1, <2>3
    <3> QED
      BY <1>9, <2>2, <3>1
  <2> QED
    BY <1>3, <1>5, <2>1, <2>2, <2>3, <2>5, <2>6
<1>12. CASE DropRecord(r)
  <2>1. PICK k \in Records : Becomes(k) /\ k.stage = "delete"
    BY <1>6, <1>12 DEF DropRecord, Early
  <2>2. /\ UNCHANGED profiles /\ r \in profiles /\ DOMAIN journal' = DOMAIN journal \ {r}
        /\ \A q \in DOMAIN journal' : journal'[q] = journal[q]
    BY <1>1, <1>12 DEF DropRecord, Remove, At, Launched
  <2>3. Launched(r, k)'
    BY <1>1, <1>2, <1>4, <2>1, <2>2 DEF Launched
  <2>4. \A q \in Runs \ {r} : Launched(q, run[q])'
    BY <1>9, <2>1, <2>2
  <2> QED
    BY <1>3, <1>5, <2>1, <2>2, <2>3, <2>4
<1>13. CASE DropProfile(r)
  <2>1. PICK k \in Records : Becomes(k) /\ k.stage = "done"
    BY <1>6, <1>13 DEF DropProfile, Early
  <2>2. m.stage = "delete" /\ profiles' = profiles \ {r} /\ UNCHANGED journal
    BY <1>1, <1>13 DEF DropProfile, At
  <2>3. Launched(r, k)'
    BY <1>1, <1>2, <1>4, <2>1, <2>2 DEF Launched
  <2>4. \A q \in Runs \ {r} : Launched(q, run[q])'
    BY <1>9, <2>1, <2>2
  <2> QED
    BY <1>3, <1>5, <2>1, <2>2, <2>3, <2>4
<1> QED
  BY <1>10, <1>11, <1>12, <1>13

\* The lock is taken and given back with the privileges (TakeLock, ReleaseLock).
LEMMA TakeLockStep ==
    ASSUME WinIndInv, NEW r \in Runs, host[r] \in alive, TakeLock(r) PROVE WinIndInv'
<1>1. PICK m \in Records : /\ m = run[r] /\ Launched(r, m) /\ Granted(r, m)
                           /\ m.stage = "locking" /\ m.grants = <<>>
  BY RunOf DEF TakeLock, At, Launched, Locked
<1>2. PICK h \in Hosts : h = host[r] /\ lock[h] = None /\ h \notin raised
  BY RunOf, NoneAssumption DEF TakeLock, WinIndInv, LockShape
<1>3. PICK plan \in Plans : Set(r, [run[r] EXCEPT !.stage = "grant", !.todo = plan,
                                                 !.raises = host[r] \notin raised])
  BY DEF TakeLock
<1>4. PICK k \in Records : k = [m EXCEPT !.stage = "grant", !.todo = plan, !.raises = TRUE]
  <2>1. PICK x \in Records : x = [m EXCEPT !.stage = "grant"]
    BY DEF Records, Stages
  <2>2. PICK t \in Seq(Needs) : t = plan
    BY PlanFacts
  <2>3. PICK y \in Records : y = [x EXCEPT !.todo = t]
    BY DEF Records
  <2>4. [y EXCEPT !.raises = TRUE] \in Records
    BY DEF Records
  <2> QED
    BY <2>1, <2>2, <2>3, <2>4
<1>5. /\ k.stage = "grant" /\ k.todo = plan /\ k.raises = TRUE /\ k.grants = <<>>
      /\ k.payload = m.payload /\ k.link = m.link
  BY <1>1, <1>4 DEF Records
<1>6. /\ run' \in [Runs -> Records] /\ run'[r] = k
      /\ \A q \in Runs \ {r} : run'[q] = run[q]
  BY <1>1, <1>2, <1>3, <1>4 DEF Set, WinIndInv
<1>7. /\ lock' = [lock EXCEPT ![h] = r] /\ raised' = raised \cup {h}
      /\ UNCHANGED <<host, alive, dacl, profiles, journal, broken>>
  BY <1>2 DEF TakeLock
<1>8. WinTypeOK'
  BY <1>6, <1>7 DEF WinIndInv, WinTypeOK, Records
<1>9. LockShape'
  <2>1. \A q \in Runs : run[q].stage \in Locked => q # r /\ host[q] # h
    BY <1>1, <1>2, NoneAssumption DEF WinIndInv, LockShape, Locked
  <2>2. ASSUME NEW q \in Runs, run'[q].stage \in Locked PROVE lock'[host'[q]] = q
    <3>1. host[q] \in Hosts /\ host[r] = h /\ lock \in [Hosts -> Runs \cup {None}]
      BY <1>2 DEF WinIndInv, WinTypeOK
    <3> QED
      BY <1>6, <1>7, <2>1, <2>2, <3>1 DEF WinIndInv, LockShape
  <2>3. ASSUME NEW g \in Hosts, lock'[g] # None
        PROVE  run'[lock'[g]].stage \in Locked /\ host'[lock'[g]] = g
    <3>1. CASE g = h
      BY <1>2, <1>5, <1>6, <1>7, <3>1 DEF WinIndInv, WinTypeOK, Locked
    <3>2. CASE g # h
      <4>1. lock'[g] = lock[g] /\ lock[g] \in Runs /\ run[lock[g]].stage \in Locked /\ host[lock[g]] = g
        BY <1>7, <2>3, <3>2 DEF WinIndInv, WinTypeOK, LockShape
      <4> QED
        BY <1>6, <1>7, <2>1, <4>1
    <3> QED
      BY <3>1, <3>2
  <2>4. ASSUME NEW g \in raised' PROVE lock'[g] # None /\ run'[lock'[g]].raises
    <3>1. CASE g = h
      BY <1>5, <1>6, <1>7, <3>1, NoneAssumption DEF WinIndInv, WinTypeOK
    <3>2. CASE g # h
      <4>1. g \in Hosts /\ lock'[g] = lock[g] /\ lock[g] # None /\ lock[g] \in Runs /\ run[lock[g]].raises
            /\ host[lock[g]] = g
        BY <1>7, <2>4, <3>2 DEF WinIndInv, WinTypeOK, LockShape
      <4>2. lock[g] # r
        BY <1>2, <3>2, <4>1
      <4> QED
        BY <1>6, <4>1, <4>2
    <3> QED
      BY <3>1, <3>2
  <2> QED
    BY <2>2, <2>3, <2>4 DEF LockShape
<1>10. PathShape'
  BY <1>1, <1>5, <1>6, <1>7 DEF WinIndInv, WinTypeOK, PathShape, Paths
<1>11. ASSUME NEW q \in Runs PROVE (Launched(q, run[q]) /\ Planned(run[q]) /\ Granted(q, run[q]))'
  <2>1. CASE q = r
    <3>1. Launched(r, k)'
      BY <1>1, <1>5, <1>7 DEF Launched, Locked
    <3>2. Planned(k)
      BY <1>5, PlanFacts DEF Planned, Paths
    <3>3. Granted(r, k)'
      BY <1>1, <1>5, <1>7 DEF Granted, Locked, Early, Paths
    <3>4. Launched(r, run[r])' /\ Granted(r, run[r])' /\ Planned(run[r])'
      BY <1>6, <3>1, <3>2, <3>3 DEF Launched, Granted, Planned, Paths
    <3> QED
      BY <2>1, <3>4
  <2>2. CASE q # r
    <3>1. run'[q] = run[q] /\ Launched(q, run[q]) /\ Planned(run[q]) /\ Granted(q, run[q])
      BY <1>6, <2>2, RunOf
    <3> QED
      BY <1>7, <3>1 DEF Launched, Planned, Granted, Paths
  <2> QED
    BY <2>1, <2>2
<1> QED
  BY <1>6, <1>8, <1>9, <1>10, <1>11 DEF WinIndInv

\* With the last grant taken back, the lock and the privileges are given back.
LEMMA ReleaseLockStep ==
    ASSUME WinIndInv, NEW r \in Runs, host[r] \in alive, ReleaseLock(r) PROVE WinIndInv'
<1>1. PICK m \in Records : /\ m = run[r] /\ Launched(r, m) /\ Granted(r, m)
                           /\ m.stage = "restore" /\ m.grants = <<>>
  BY RunOf DEF ReleaseLock, At
<1>2. PICK h \in Hosts : h = host[r] /\ lock[h] = r
  BY <1>1, RunOf DEF WinIndInv, LockShape, Locked
<1>3. PICK k \in Records : k = [NoRun EXCEPT !.stage = "unjournal", !.result = m.result]
  <2>1. NoRun \in Records
    BY DEF NoRun, Records, Stages
  <2>2. PICK x \in Records : x = [NoRun EXCEPT !.stage = "unjournal"]
    BY <2>1 DEF Records, Stages
  <2>3. [x EXCEPT !.result = m.result] \in Records
    BY DEF Records
  <2> QED
    BY <2>2, <2>3
<1>4. k.stage = "unjournal" /\ k.todo = <<>> /\ k.grants = <<>> /\ k.payload = "off" /\ k.link = FALSE
  BY <1>3 DEF NoRun, Records
<1>5. /\ run' \in [Runs -> Records] /\ run'[r] = k
      /\ \A q \in Runs \ {r} : run'[q] = run[q]
  BY <1>1, <1>3 DEF ReleaseLock, Set, WinIndInv
<1>6. /\ lock' = [lock EXCEPT ![h] = None]
      /\ raised' = IF m.raises THEN raised \ {h} ELSE raised
      /\ UNCHANGED <<host, alive, dacl, profiles, journal, broken>>
  BY <1>1, <1>2 DEF ReleaseLock
<1>7. WinTypeOK'
  BY <1>5, <1>6 DEF WinIndInv, WinTypeOK, Records
<1>8. h \notin raised'
  BY <1>1, <1>2, <1>6 DEF WinIndInv, LockShape
<1>9. LockShape'
  <2>1. \A q \in Runs : q # r /\ run[q].stage \in Locked => host[q] # h
    BY <1>2 DEF WinIndInv, LockShape
  <2>2. ASSUME NEW q \in Runs, run'[q].stage \in Locked PROVE lock'[host'[q]] = q
    <3>1. q # r
      BY <1>4, <1>5, <2>2 DEF Locked
    <3>2. host[q] \in Hosts /\ host[q] # h /\ lock[host[q]] = q
      BY <1>5, <2>1, <2>2, <3>1 DEF WinIndInv, WinTypeOK, LockShape
    <3> QED
      BY <1>6, <3>2
  <2>3. ASSUME NEW g \in Hosts, lock'[g] # None
        PROVE  /\ g # h /\ lock'[g] = lock[g] /\ lock[g] \in Runs \ {r}
               /\ run[lock[g]].stage \in Locked /\ host[lock[g]] = g
    BY <1>2, <1>6, <2>3 DEF WinIndInv, WinTypeOK, LockShape
  <2>4. ASSUME NEW g \in raised' PROVE lock'[g] # None /\ run'[lock'[g]].raises
    <3>1. g \in raised /\ g # h /\ g \in Hosts
      BY <1>6, <1>8, <2>4 DEF WinIndInv, WinTypeOK
    <3>2. lock'[g] = lock[g] /\ lock[g] # None /\ run[lock[g]].raises
      BY <1>6, <3>1 DEF WinIndInv, LockShape
    <3> QED
      BY <1>5, <2>3, <3>1, <3>2
  <2>5. \A g \in Hosts : lock'[g] # None => run'[lock'[g]].stage \in Locked /\ host'[lock'[g]] = g
    BY <1>5, <1>6, <2>3
  <2> QED
    BY <2>2, <2>4, <2>5 DEF LockShape
<1>10. PathShape'
  BY <1>1, <1>4, <1>5, <1>6 DEF WinIndInv, WinTypeOK, PathShape, Paths
<1>11. ASSUME NEW q \in Runs PROVE (Launched(q, run[q]) /\ Planned(run[q]) /\ Granted(q, run[q]))'
  <2>1. CASE q = r
    <3>1. Launched(r, k)'
      BY <1>1, <1>4, <1>6 DEF Launched, Locked
    <3>2. Planned(k) /\ Granted(r, k)'
      BY <1>4 DEF Planned, Granted, Locked, Early
    <3>3. Launched(r, run[r])' /\ Granted(r, run[r])' /\ Planned(run[r])'
      BY <1>5, <3>1, <3>2 DEF Launched, Granted, Planned, Paths
    <3> QED
      BY <2>1, <3>3
  <2>2. CASE q # r
    <3>1. run'[q] = run[q] /\ Launched(q, run[q]) /\ Planned(run[q]) /\ Granted(q, run[q])
      BY <1>5, <2>2, RunOf
    <3> QED
      BY <1>6, <3>1 DEF Launched, Planned, Granted, Paths
  <2> QED
    BY <2>1, <2>2
<1> QED
  BY <1>5, <1>7, <1>9, <1>10, <1>11 DEF WinIndInv

\* One host, one launch with its lock.
LEMMA OneLocked ==
    ASSUME WinIndInv, SingleHost, NEW q \in Runs, NEW r \in Runs,
           run[q].stage \in Locked, run[r].stage \in Locked
    PROVE  q = r
BY DEF WinIndInv, WinTypeOK, LockShape, SingleHost

\* A step of the launch that has the lock which changes its plan and its grants,
\* and the paths.
LEMMA PathStep ==
    ASSUME WinIndInv, SingleHost, NEW r \in Runs, NEW k \in Records, Set(r, k),
           run[r].stage \in {"grant", "restore"}, k.stage = run[r].stage,
           k.raises = run[r].raises, k.payload = run[r].payload, k.link = run[r].link,
           UNCHANGED <<host, alive, lock, raised, profiles, journal>>,
           dacl' \in [Places -> SUBSET Runs], broken' \subseteq Places, broken \subseteq broken',
           \A p \in Places, q \in Runs \ {r} : q \in dacl'[p] => q \in dacl[p],
           \A p \in Places \ broken' : r \in dacl'[p] => p \in Paths(k),
           Planned(k), Granted(r, k)'
    PROVE  WinIndInv'
<1>1. /\ run' \in [Runs -> Records] /\ run'[r] = k
      /\ \A q \in Runs \ {r} : run'[q] = run[q]
  BY DEF Set, WinIndInv
<1>2. WinTypeOK'
  BY <1>1 DEF WinIndInv, WinTypeOK, Records
<1>3. LockShape'
  BY <1>1, NoneAssumption DEF WinIndInv, WinTypeOK, LockShape
<1>4. PathShape'
  <2>1. ASSUME NEW p \in Places \ broken', NEW q \in dacl'[p] PROVE p \in Paths(run'[q])
    <3>1. CASE q = r
      BY <1>1, <2>1, <3>1
    <3>2. CASE q # r
      BY <1>1, <2>1, <3>2 DEF WinIndInv, PathShape, WinTypeOK
    <3> QED
      BY <3>1, <3>2
  <2>2. \A q : Paths(run[q])' = Paths(run'[q])
    BY DEF Paths
  <2> QED
    BY <2>1, <2>2 DEF PathShape
<1>5. ASSUME NEW q \in Runs PROVE (Launched(q, run[q]) /\ Planned(run[q]) /\ Granted(q, run[q]))'
  <2>1. CASE q = r
    <3>1. Launched(r, k)'
      BY RunOf DEF Launched, Locked
    <3>2. Launched(r, run[r])' /\ Planned(run[r])' /\ Granted(r, run[r])'
      BY <1>1, <3>1 DEF Launched, Planned, Granted, Paths
    <3> QED
      BY <2>1, <3>2
  <2>2. CASE q # r
    <3>1. run'[q] = run[q] /\ Launched(q, run[q]) /\ Planned(run[q]) /\ Granted(q, run[q])
      BY <1>1, <2>2, RunOf
    <3>2. run[q].stage \notin Locked
      BY <2>2, OneLocked DEF Locked
    <3>3. Launched(q, run[q])' /\ Planned(run[q])'
      BY <3>1 DEF Launched, Planned, Paths
    <3>4. Granted(q, run[q])'
      BY <2>2, <3>1, <3>2 DEF Granted
    <3> QED
      BY <3>3, <3>4
  <2> QED
    BY <2>1, <2>2
<1> QED
  BY <1>1, <1>2, <1>3, <1>4, <1>5 DEF WinIndInv

\* A path that is granted is journalled (AclJournal), and is no longer to be granted.
LEMMA JournalledRun ==
    ASSUME NEW m \in Records, m.todo # <<>>, NEW p \in Places, NEW revoke \in BOOLEAN,
           dacl \in [Places -> SUBSET Runs]
    PROVE  LET k == Journalled(m, p, revoke)
               undo == [path |-> p, snapshot |-> dacl[p], revoke |-> revoke]
           IN  /\ k \in Records /\ k.stage = m.stage /\ k.raises = m.raises
               /\ k.payload = m.payload /\ k.link = m.link
               /\ k.todo = Tail(m.todo) /\ k.grants = Append(m.grants, undo)
               /\ undo \in Undo
<1>1. m.todo \in Seq(Needs) /\ m.grants \in Seq(Undo)
  BY DEF Records
<1>2. PICK undo \in Undo : undo = [path |-> p, snapshot |-> dacl[p], revoke |-> revoke]
  BY DEF Undo
<1>3. PICK t \in Seq(Needs) : t = Tail(m.todo)
  BY <1>1, SeqFacts
<1>4. PICK g \in Seq(Undo) : g = Append(m.grants, undo)
  BY <1>1, SeqFacts
<1>5. PICK x \in Records : x = [m EXCEPT !.todo = t]
  BY DEF Records
<1>6. PICK k \in Records : k = [x EXCEPT !.grants = g]
  BY DEF Records
<1>7. Journalled(m, p, revoke) = k
  <2>1. x.grants = m.grants
    BY <1>5 DEF Records
  <2>2. PathDone(m) = x
    BY <1>3, <1>5 DEF PathDone
  <2> QED
    BY <1>2, <1>4, <1>6, <2>1, <2>2 DEF Journalled
<1>8. /\ k.stage = m.stage /\ k.raises = m.raises /\ k.payload = m.payload /\ k.link = m.link
      /\ k.todo = t /\ k.grants = g
  BY <1>5, <1>6 DEF Records
<1> QED
  BY <1>2, <1>3, <1>4, <1>7, <1>8

\* A path is granted: whatever else is then planned, the DACL of the path holds
\* the launch, and held it not before.
LEMMA GrantOne ==
    ASSUME WinIndInv, SingleHost, NEW r \in Runs, NEW m \in Records, m = run[r],
           m.stage = "grant", NEW p \in Places, p \notin Seen(r), NEW revoke \in BOOLEAN,
           NEW undo \in Undo, undo = [path |-> p, snapshot |-> dacl[p], revoke |-> revoke],
           NEW k \in Records, Set(r, k), k.stage = "grant", k.raises = m.raises,
           k.payload = m.payload, k.link = m.link, k.grants = Append(m.grants, undo),
           dacl' = WithSid(p, r), UNCHANGED <<host, alive, lock, raised, profiles, journal, broken>>,
           Planned(k)
    PROVE  WinIndInv'
<1>1. /\ Granted(r, m) /\ Seen(r) = Paths(m) /\ m.grants \in Seq(Undo)
      /\ dacl \in [Places -> SUBSET Runs] /\ broken \subseteq Places
  BY RunOf DEF WinIndInv, WinTypeOK
<1>2. PICK n \in Nat : n = Len(m.grants)
  BY <1>1, SeqFacts
<1>3. /\ Len(k.grants) = n + 1 /\ k.grants[n + 1] = undo
      /\ \A i \in 1..n : k.grants[i] = m.grants[i] /\ m.grants[i] \in Undo
  BY <1>1, <1>2, SeqFacts
<1>4. \A i \in 1..(n + 1) : i = n + 1 \/ i \in 1..n
  BY <1>2
<1>5. \A i \in 1..n : m.grants[i].path # p /\ m.grants[i].path \in Places
  BY <1>1, <1>2, <1>3 DEF Paths, Undo
<1>6. undo.path = p /\ undo.snapshot = dacl[p]
  OBVIOUS
<1>7. /\ dacl' \in [Places -> SUBSET Runs] /\ dacl'[p] = dacl[p] \cup {r}
      /\ \A q \in Places \ {p} : dacl'[q] = dacl[q]
  BY <1>1 DEF WithSid
<1>8. Paths(k) = Paths(m) \cup {p}
  BY <1>2, <1>3, <1>4, <1>6 DEF Paths
<1>9. r \notin dacl[p]
  BY <1>1 DEF Granted, Locked
<1>10. \A i, j \in 1..Len(k.grants) : k.grants[i].path = k.grants[j].path => i = j
  BY <1>1, <1>2, <1>3, <1>4, <1>5, <1>6 DEF Granted, Locked
<1>11. ASSUME NEW i \in 1..Len(k.grants)
       PROVE  /\ r \in dacl'[k.grants[i].path]
              /\ k.grants[i].snapshot = dacl'[k.grants[i].path] \ {r}
  <2>1. CASE i = n + 1
    BY <1>3, <1>6, <1>7, <1>9, <2>1
  <2>2. CASE i \in 1..n
    <3>1. /\ r \in dacl[m.grants[i].path]
          /\ m.grants[i].snapshot = dacl[m.grants[i].path] \ {r}
      BY <1>1, <1>2, <2>2 DEF Granted, Locked
    <3> QED
      BY <1>3, <1>5, <1>7, <2>2, <3>1
  <2> QED
    BY <1>3, <1>4, <2>1, <2>2
<1>12. \A q \in Places : r \in dacl'[q] => q \in Paths(k)
  BY <1>1, <1>7, <1>8 DEF Granted, Locked
<1>13. Granted(r, k)'
  <2>1. Paths(k)' = Paths(k) /\ k.stage \notin Early
    BY DEF Paths, Early
  <2> QED
    BY <1>10, <1>11, <1>12, <2>1 DEF Granted
<1> QED
  BY <1>1, <1>7, <1>12, <1>13, PathStep

\* The grants (acl.rs try_grant_dacl, propagate_children_manual, try_grant_named).
LEMMA GrantSteps ==
    ASSUME WinIndInv, SingleHost, NEW r \in Runs,
           \/ GrantTree(r) \/ GrantWalk(r) \/ GrantRevocable(r) \/ GrantObject(r) \/ GrantDevice(r)
    PROVE  WinIndInv'
<1>1. PICK m \in Records : /\ m = run[r] /\ Planned(m) /\ m.stage = "grant" /\ m.todo # <<>>
                           /\ m.todo \in Seq(Needs) /\ m.grants \in Seq(Undo)
  BY RunOf DEF GrantTree, GrantWalk, GrantRevocable, GrantObject, GrantDevice, Granting, At
<1>2. dacl \in [Places -> SUBSET Runs] /\ Seen(r) = Paths(m)
  BY <1>1, RunOf DEF WinIndInv, WinTypeOK
<1>3. PICK need \in Needs : need = NeedOf(r) /\ need = m.todo[1] /\ Len(m.todo) > 0
  BY <1>1, SeqFacts DEF NeedOf
<1>4. PICK p \in Places : p = need.path
  BY DEF Needs
<1>5. p \notin Seen(r)
  <2>1. CASE GrantDevice(r)
    <3>1. need.kind = "device"
      BY <1>3, <2>1 DEF GrantDevice, Granting
    <3>2. 1 \in 1..Len(m.todo)
      BY <1>1, <1>3, SeqFacts
    <3>3. p = "nul"
      BY <1>1, <1>3, <1>4, <3>1, <3>2 DEF Planned, Placed
    <3> QED
      BY <1>1, <1>2, <3>3 DEF Planned
  <2> QED
    BY <1>3, <1>4, <2>1 DEF GrantTree, GrantWalk, GrantRevocable, GrantObject
<1>6. PICK revoke \in BOOLEAN :
         /\ dacl' = WithSid(p, r)
         /\ UNCHANGED <<host, alive, lock, raised, profiles, journal, broken>>
         /\ \/ Set(r, Journalled(run[r], p, revoke))
            \/ /\ need.kind = "walk"
               /\ Set(r, [Journalled(run[r], p, revoke)
                             EXCEPT !.todo = <<Need("file", "file")>> \o @])
  BY <1>3, <1>4 DEF GrantTree, GrantWalk, GrantRevocable, GrantObject, GrantDevice, Granting
<1>7. PICK undo \in Undo : undo = [path |-> p, snapshot |-> dacl[p], revoke |-> revoke]
  BY <1>1, <1>2, JournalledRun
<1>8. PICK b \in Records : /\ b = Journalled(m, p, revoke)
                           /\ b.stage = m.stage /\ b.raises = m.raises
                           /\ b.payload = m.payload /\ b.link = m.link
                           /\ b.todo = Tail(m.todo) /\ b.grants = Append(m.grants, undo)
  BY <1>1, <1>2, <1>7, JournalledRun
<1>9. PICK t \in Seq(Needs) : t = Tail(m.todo)
  BY <1>1, SeqFacts
<1>10. /\ Len(t) = Len(m.todo) - 1 /\ Len(m.todo) \in Nat
       /\ \A i \in 1..Len(t) : i + 1 \in 1..Len(m.todo) /\ t[i] = m.todo[i + 1]
  BY <1>1, <1>9, SeqFacts
<1>11. \A i \in 1..Len(t) : Placed(t, i)
  BY <1>1, <1>10, SMTT(30) DEF Planned, Placed
<1>12. t # <<>> => p # "nul"
  <2>1. t # <<>> => Len(t) > 0 /\ Len(m.todo) # 1
    BY <1>9, <1>10, SeqFacts
  <2>2. 1 \in 1..Len(m.todo)
    BY <1>3, <1>10
  <2> QED
    BY <1>1, <1>3, <1>4, <2>1, <2>2 DEF Planned, Placed
<1>13. \A k \in Records : k.grants = b.grants => Paths(k) = Paths(m) \cup {p}
  <2>1. PICK n \in Nat : n = Len(m.grants)
    BY <1>1, SeqFacts
  <2>2. /\ Len(b.grants) = n + 1 /\ b.grants[n + 1] = undo
        /\ \A i \in 1..n : b.grants[i] = m.grants[i]
    BY <1>1, <1>8, <2>1, SeqFacts
  <2>3. \A i \in 1..(n + 1) : i = n + 1 \/ i \in 1..n
    BY <2>1
  <2>4. undo.path = p
    BY <1>7
  <2> QED
    BY <2>1, <2>2, <2>3, <2>4, SMTT(30) DEF Paths
<1>14. CASE Set(r, Journalled(run[r], p, revoke))
  <2>1. Planned(b)
    BY <1>1, <1>8, <1>9, <1>11, <1>12, <1>13 DEF Planned
  <2> QED
    BY <1>1, <1>5, <1>6, <1>7, <1>8, <1>14, <2>1, GrantOne
<1>15. CASE /\ need.kind = "walk"
            /\ Set(r, [Journalled(run[r], p, revoke)
                          EXCEPT !.todo = <<Need("file", "file")>> \o @])
  <2>1. PICK x \in Needs : x = Need("file", "file")
    BY DEF Needs, Need, Places
  <2>2. x.path # "nul" /\ x.kind # "device"
    BY <2>1 DEF Need
  <2>3. PICK s \in Seq(Needs) : /\ s = <<x>> \o t /\ Len(s) = Len(t) + 1 /\ s[1] = x
                                /\ \A i \in 1..Len(t) : s[i + 1] = t[i]
    <3>1. /\ <<x>> \o t \in Seq(Needs) /\ Len(<<x>> \o t) = Len(t) + 1 /\ (<<x>> \o t)[1] = x
          /\ \A i \in 1..Len(t) : (<<x>> \o t)[i + 1] = t[i]
      BY ConsFacts
    <3> QED
      BY <3>1
  <2>4. PICK k \in Records : k = [b EXCEPT !.todo = s]
    BY DEF Records
  <2>5. /\ k.stage = b.stage /\ k.raises = b.raises /\ k.payload = b.payload /\ k.link = b.link
        /\ k.todo = s /\ k.grants = b.grants
    BY <2>4 DEF Records
  <2>6. Set(r, k)
    BY <1>1, <1>8, <1>9, <1>15, <2>1, <2>3, <2>4
  <2>7. p # "nul"
    <3>1. 1 \in 1..Len(m.todo)
      BY <1>3, <1>10
    <3> QED
      BY <1>1, <1>3, <1>4, <1>15, <3>1 DEF Planned, Placed
  <2>8. \A i \in 1..Len(s) : i = 1 \/ (i - 1 \in 1..Len(t) /\ s[i] = t[i - 1])
    <3>1. Len(t) \in Nat
      BY SeqFacts
    <3>2. ASSUME NEW i \in 1..Len(s), i # 1 PROVE i - 1 \in 1..Len(t) /\ s[i] = t[i - 1]
      <4>1. i - 1 \in 1..Len(t) /\ (i - 1) + 1 = i
        BY <2>3, <3>1, <3>2
      <4> QED
        BY <2>3, <4>1
    <3> QED
      BY <3>2
  <2>9. ASSUME NEW i \in 1..Len(s) PROVE Placed(s, i)
    <3>1. CASE i = 1
      BY <2>2, <2>3, <3>1 DEF Placed
    <3>2. CASE i - 1 \in 1..Len(t) /\ s[i] = t[i - 1]
      <4>1. Len(t) \in Nat
        BY SeqFacts
      <4> QED
        BY <1>11, <2>3, <3>2, <4>1 DEF Placed
    <3> QED
      BY <2>8, <3>1, <3>2
  <2>10. Planned(k)
    BY <1>1, <1>13, <2>5, <2>7, <2>9 DEF Planned
  <2> QED
    <3>1. /\ k.stage = "grant" /\ k.raises = m.raises /\ k.payload = m.payload
          /\ k.link = m.link /\ k.grants = Append(m.grants, undo)
      BY <1>1, <1>8, <2>5
    <3> QED
      BY <1>1, <1>5, <1>6, <1>7, <2>6, <2>10, <3>1, GrantOne
<1> QED
  BY <1>1, <1>6, <1>14, <1>15

\* A restore gives back the path of the last grant as it was but for the launch
\* (acl.rs restore_all).
LEMMA RestoreGives ==
    ASSUME WinIndInv, NEW r \in Runs, RestoreOne(r)
    PROVE  LET g == run[r].grants
               p == Last(g).path
           IN  /\ g # <<>> /\ Last(g) \in Undo /\ Last(g) = g[Len(g)] /\ p \in Places
               /\ \/ dacl' = [dacl EXCEPT ![p] = @ \ {r}] /\ UNCHANGED broken
                  \/ p = "ancestor" /\ broken' = broken \cup {p} /\ UNCHANGED dacl
<1>1. PICK g \in Seq(Undo) : g = run[r].grants /\ g # <<>>
  BY RunOf DEF RestoreOne
<1>2. PICK undo \in Undo : undo = Last(g) /\ undo = g[Len(g)] /\ Len(g) \in 1..Len(g)
  <2>1. Len(g) \in Nat /\ Len(g) > 0 /\ Last(g) = g[Len(g)] /\ Last(g) \in Undo
    BY <1>1, FrontFacts
  <2> QED
    BY <2>1
<1>3. PICK p \in Places : p = undo.path
  BY DEF Undo
<1>4. undo.snapshot = dacl[p] \ {r}
  BY <1>1, <1>2, <1>3, RunOf, SMTT(30) DEF RestoreOne, At, Granted, Locked
<1>5. dacl \in [Places -> SUBSET Runs]
  BY DEF WinIndInv, WinTypeOK
<1>6. CASE dacl' = [dacl EXCEPT ![p] = IF undo.revoke THEN @ \ {r} ELSE undo.snapshot]
  <2>1. dacl' = [dacl EXCEPT ![p] = @ \ {r}]
    BY <1>4, <1>5, <1>6
  <2>2. UNCHANGED broken \/ (p = "ancestor" /\ broken' = broken \cup {p} /\ UNCHANGED dacl)
    BY <1>1, <1>2, <1>3 DEF RestoreOne
  <2> QED
    BY <1>1, <1>2, <1>3, <2>1, <2>2
<1> QED
  BY <1>1, <1>2, <1>3, <1>6 DEF RestoreOne

\* The grants are taken back one by one, the last first.
LEMMA RestoreStep ==
    ASSUME WinIndInv, SingleHost, NEW r \in Runs, RestoreOne(r) PROVE WinIndInv'
<1>1. PICK m \in Records : /\ m = run[r] /\ Granted(r, m) /\ m.stage = "restore"
                           /\ m.grants \in Seq(Undo) /\ m.grants # <<>>
  BY RunOf DEF RestoreOne, At
<1>2. PICK n \in Nat : n = Len(m.grants) /\ n > 0 /\ Last(m.grants) = m.grants[n]
  BY <1>1, FrontFacts
<1>3. PICK g \in Seq(Undo) : /\ g = Front(m.grants) /\ Len(g) = n - 1
                             /\ \A i \in 1..(n - 1) : g[i] = m.grants[i]
  BY <1>1, <1>2, FrontFacts
<1>4. PICK k \in Records : k = [m EXCEPT !.grants = g]
  BY DEF Records
<1>5. /\ k.stage = "restore" /\ k.raises = m.raises /\ k.payload = m.payload /\ k.link = m.link
      /\ k.todo = m.todo /\ k.grants = g
  BY <1>1, <1>4 DEF Records
<1>6. /\ run' = [run EXCEPT ![r].grants = Front(@)]
      /\ UNCHANGED <<host, alive, lock, raised, profiles, journal>>
  BY DEF RestoreOne
<1>7. Set(r, k)
  BY <1>1, <1>3, <1>4, <1>6 DEF Set
<1>8. PICK p \in Places : /\ p = m.grants[n].path
                          /\ \/ dacl' = [dacl EXCEPT ![p] = @ \ {r}] /\ UNCHANGED broken
                             \/ p = "ancestor" /\ broken' = broken \cup {p} /\ UNCHANGED dacl
  BY <1>1, <1>2, RestoreGives
<1>9. dacl \in [Places -> SUBSET Runs] /\ broken \subseteq Places /\ PathShape
  BY DEF WinIndInv, WinTypeOK
<1>10. /\ dacl' \in [Places -> SUBSET Runs] /\ broken' \subseteq Places /\ broken \subseteq broken'
       /\ \A q \in Places \ {p} : dacl'[q] = dacl[q]
       /\ \A q \in Places : dacl'[q] \subseteq dacl[q] /\ dacl'[q] \ {r} = dacl[q] \ {r}
       /\ r \in dacl'[p] => p \in broken'
  BY <1>8, <1>9
<1>11. \A i \in 1..(n - 1) : i \in 1..n /\ m.grants[i] \in Undo /\ m.grants[i].path # p
  BY <1>1, <1>2, <1>8, SeqFacts DEF Granted, Locked
<1>12. Paths(m) \ {p} = Paths(k)
  <2>1. \A i \in 1..n : i = n \/ i \in 1..(n - 1)
    BY <1>2
  <2>2. Paths(m) = {m.grants[i].path : i \in 1..(n - 1)} \cup {p}
    BY <1>2, <1>8, <2>1 DEF Paths
  <2>3. Paths(k) = {m.grants[i].path : i \in 1..(n - 1)}
    BY <1>3, <1>5 DEF Paths
  <2> QED
    BY <1>11, <2>2, <2>3
<1>13. \A q \in Places \ broken' : r \in dacl'[q] => q \in Paths(k)
  <2>1. \A q \in Places \ broken : r \in dacl[q] => q \in Paths(m)
    BY <1>1, <1>9 DEF PathShape
  <2> QED
    BY <1>10, <1>12, <2>1
<1>14. Granted(r, k)'
  <2>1. ASSUME NEW i \in 1..Len(k.grants), NEW j \in 1..Len(k.grants),
               k.grants[i].path = k.grants[j].path
        PROVE  i = j
    <3>1. /\ i \in 1..(n - 1) /\ i \in 1..n /\ k.grants[i] = m.grants[i]
          /\ j \in 1..(n - 1) /\ j \in 1..n /\ k.grants[j] = m.grants[j]
      BY <1>2, <1>3, <1>5
    <3> QED
      BY <1>1, <1>2, <2>1, <3>1 DEF Granted, Locked
  <2>2. ASSUME NEW i \in 1..Len(k.grants)
        PROVE  /\ r \in dacl'[k.grants[i].path]
               /\ k.grants[i].snapshot = dacl'[k.grants[i].path] \ {r}
    <3>1. i \in 1..(n - 1) /\ i \in 1..n /\ k.grants[i] = m.grants[i]
      BY <1>2, <1>3, <1>5, <2>2
    <3>2. PICK q \in Places \ {p} : q = m.grants[i].path
      BY <1>11, <3>1 DEF Undo
    <3>3. r \in dacl[q] /\ m.grants[i].snapshot = dacl[q] \ {r}
      BY <1>1, <1>2, <3>1, <3>2 DEF Granted, Locked
    <3> QED
      BY <1>10, <3>1, <3>2, <3>3
  <2> QED
    BY <1>5, <2>1, <2>2 DEF Granted, Early
<1>15. Planned(k)
  <2>1. Planned(m)
    BY <1>1, RunOf
  <2> QED
    BY <1>5, <2>1 DEF Planned
<1> QED
  BY <1>1, <1>5, <1>6, <1>7, <1>10, <1>13, <1>14, <1>15, PathStep

\* An agent process is killed: its launches end where they are, and what they
\* granted stays.
LEMMA KillStep ==
    ASSUME WinIndInv, NEW h \in Hosts, KillHost(h) PROVE WinIndInv'
<1> DEFINE mine == {r \in Runs : host[r] = h /\ run[r].stage \notin {"idle", "done"}}
<1>1. /\ h \in alive /\ alive' = alive \ {h} /\ raised' = raised \ {h}
      /\ lock' = [lock EXCEPT ![h] = None]
      /\ UNCHANGED <<host, dacl, profiles, journal>>
      /\ run' = [r \in Runs |-> IF r \in mine THEN [Ends(run[r]) EXCEPT !.stage = "killed"]
                                ELSE run[r]]
  BY DEF KillHost
<1>2. ASSUME NEW r \in mine
      PROVE  /\ run'[r] \in Records /\ run'[r].stage = "killed"
             /\ run'[r].grants = run[r].grants /\ run'[r].payload # "run"
  <2>1. PICK m \in Records : m = run[r]
    BY <1>2, RunOf
  <2>2. PICK ended \in {"hung", "dead"} : ended = IF m.payload = "hung" THEN m.payload ELSE "dead"
    OBVIOUS
  <2>3. PICK x \in Records : x = [m EXCEPT !.payload = ended]
    BY DEF Records
  <2>4. PICK y \in Records : y = [x EXCEPT !.child = "off"]
    BY DEF Records
  <2>5. PICK z \in Records : z = [y EXCEPT !.stage = "killed"]
    BY DEF Records, Stages
  <2>6. Ends(m) = y
    BY <2>2, <2>3, <2>4 DEF Ends
  <2>7. z.stage = "killed" /\ z.grants = m.grants /\ z.payload = ended
    BY <2>3, <2>4, <2>5 DEF Records
  <2>8. run'[r] = z
    BY <1>1, <1>2, <2>1, <2>5, <2>6
  <2> QED
    BY <2>1, <2>2, <2>7, <2>8
<1>3. \A r \in Runs \ mine : run'[r] = run[r]
  BY <1>1
<1>4. \A r \in mine : host[r] = h /\ run[r].stage \notin {"idle", "done"}
  OBVIOUS
<1>5. \A r \in Runs : host[r] = h /\ run[r].stage \notin {"idle", "done"} => r \in mine
  OBVIOUS
<1>6. \A r \in mine : Paths(run[r]) \subseteq broken'
  BY DEF KillHost, Paths
<1>7. broken \subseteq broken' /\ broken' \subseteq Places
  <2>1. \A r \in mine : Paths(run[r]) \subseteq Places
    <3>1. ASSUME NEW r \in mine PROVE Paths(run[r]) \subseteq Places
      <4>1. run[r].grants \in Seq(Undo)
        BY RunOf
      <4>2. \A i \in 1..Len(run[r].grants) : run[r].grants[i] \in Undo
        BY <4>1
      <4> QED
        BY <4>2 DEF Paths, Undo
    <3> QED
      BY <3>1
  <2>2. broken \subseteq Places
    BY DEF WinIndInv, WinTypeOK
  <2>3. broken' = broken \cup UNION {Paths(run[r]) : r \in mine}
    BY DEF KillHost, Paths
  <2> QED
    BY <2>1, <2>2, <2>3
<1> mine \subseteq Runs
  OBVIOUS
<1> HIDE DEF mine
<1>8. run' \in [Runs -> Records]
  <2>1. DOMAIN run' = Runs /\ run' = [r \in Runs |-> run'[r]]
    BY <1>1
  <2>2. \A r \in Runs : run'[r] \in Records
    BY <1>2, <1>3, RunOf
  <2> QED
    BY <2>1, <2>2
<1>9. WinTypeOK'
  <2>1. \A r \in Runs : /\ run'[r].stage \in Stages
                        /\ \A i \in 1..Len(run'[r].grants) : run'[r].grants[i] \in Undo
    BY <1>8 DEF Records
  <2> QED
    BY <1>1, <1>7, <2>1 DEF WinIndInv, WinTypeOK
<1>10. LockShape'
  <2>1. ASSUME NEW q \in Runs, run'[q].stage \in Locked PROVE lock'[host'[q]] = q
    <3>1. q \notin mine
      BY <1>2, <2>1 DEF Locked
    <3>2. run[q].stage \in Locked /\ host[q] # h
      BY <1>3, <1>5, <2>1, <3>1 DEF Locked
    <3>3. host[q] \in Hosts /\ lock[host[q]] = q
      BY <3>2, RunOf DEF WinIndInv, LockShape
    <3> QED
      BY <1>1, <3>2, <3>3 DEF WinIndInv, WinTypeOK
  <2>2. ASSUME NEW g \in Hosts, lock'[g] # None
        PROVE  /\ g # h /\ lock'[g] = lock[g] /\ run'[lock[g]] = run[lock[g]]
               /\ run[lock[g]].stage \in Locked /\ host[lock[g]] = g
    <3>1. g # h /\ lock'[g] = lock[g]
      BY <1>1, <2>2 DEF WinIndInv, WinTypeOK
    <3>2. lock[g] \in Runs /\ host[lock[g]] = g /\ run[lock[g]].stage \in Locked
      BY <2>2, <3>1 DEF WinIndInv, WinTypeOK, LockShape
    <3>3. lock[g] \notin mine
      BY <1>4, <3>1, <3>2
    <3> QED
      BY <1>3, <3>1, <3>2, <3>3
  <2>3. ASSUME NEW g \in raised' PROVE lock'[g] # None /\ run'[lock'[g]].raises
    <3>1. g \in raised /\ g # h /\ g \in Hosts
      BY <1>1, <2>3 DEF WinIndInv, WinTypeOK
    <3>2. lock'[g] = lock[g] /\ lock[g] # None /\ run[lock[g]].raises
      BY <1>1, <3>1 DEF WinIndInv, WinTypeOK, LockShape
    <3> QED
      BY <2>2, <3>1, <3>2
  <2>4. \A g \in Hosts : lock'[g] # None => run'[lock'[g]].stage \in Locked /\ host'[lock'[g]] = g
    <3>1. host' = host
      BY <1>1
    <3> QED
      BY <2>2, <3>1
  <2> QED
    BY <2>1, <2>3, <2>4 DEF LockShape
<1>11. PathShape'
  <2>1. ASSUME NEW p \in Places \ broken', NEW q \in dacl'[p] PROVE p \in Paths(run'[q])
    <3>1. q \in Runs /\ p \in Paths(run[q])
      BY <1>1, <1>7, <2>1 DEF WinIndInv, WinTypeOK, PathShape
    <3>2. q \notin mine
      BY <1>6, <2>1, <3>1
    <3> QED
      BY <1>3, <3>1, <3>2
  <2>2. \A q : Paths(run[q])' = Paths(run'[q])
    BY DEF Paths
  <2> QED
    BY <2>1, <2>2 DEF PathShape
<1>12. ASSUME NEW q \in Runs PROVE (Launched(q, run[q]) /\ Planned(run[q]) /\ Granted(q, run[q]))'
  <2>1. Launched(q, run[q]) /\ Planned(run[q]) /\ Granted(q, run[q])
    BY RunOf
  <2>2. CASE q \in mine
    <3>1. run'[q].stage = "killed" /\ run'[q].payload # "run" /\ host'[q] \notin alive'
      BY <1>1, <1>2, <1>4, <2>2
    <3>2. Launched(q, run[q])'
      BY <3>1 DEF Launched, Locked
    <3>3. Planned(run[q])' /\ Granted(q, run[q])'
      <4>1. \A i \in 1..Len(run[q].todo) : Placed(run[q].todo, i)
        BY <2>1 DEF Planned
      <4>2. run'[q].todo = run[q].todo
        BY <1>1, <2>2, RunOf DEF Ends, Records
      <4>3. Planned(run[q])'
        BY <3>1, <4>1, <4>2 DEF Planned, Placed
      <4>4. Granted(q, run[q])'
        BY <3>1 DEF Granted, Locked, Early
      <4> QED
        BY <4>3, <4>4
    <3> QED
      BY <3>2, <3>3
  <2>3. CASE q \notin mine
    <3>1. run'[q] = run[q]
      BY <1>3, <2>3
    <3>2. Planned(run[q])' /\ Granted(q, run[q])'
      <4>1. dacl' = dacl
        BY <1>1
      <4> QED
        BY <2>1, <3>1, <4>1 DEF Planned, Placed, Granted, Paths
    <3>3. host'[q] \notin alive' => run[q].stage \in {"idle", "done", "killed"}
      BY <1>1, <1>5, <2>1, <2>3 DEF Launched
    <3>4. Launched(q, run[q])'
      BY <1>1, <2>1, <3>1, <3>3 DEF Launched
    <3> QED
      BY <3>2, <3>4
  <2> QED
    BY <2>2, <2>3
<1> QED
  BY <1>8, <1>9, <1>10, <1>11, <1>12 DEF WinIndInv

\* A probe only reclaims what killed processes left.
LEMMA WinProbeStep ==
    ASSUME WinIndInv, Probe PROVE WinIndInv'
<1>1. Reclaim({}) /\ UNCHANGED <<run, host, alive, lock, raised, dacl, broken>>
  BY DEF Probe
<1>2. /\ profiles' \subseteq Runs /\ DOMAIN journal' \subseteq Runs
      /\ \A q \in DOMAIN journal' : journal'[q] \in Files
  BY <1>1, ReclaimFiles
<1>3. WinTypeOK' /\ run' \in [Runs -> Records] /\ LockShape' /\ PathShape'
  BY <1>1, <1>2 DEF WinIndInv, WinTypeOK, LockShape, PathShape, Paths
<1>4. ASSUME NEW q \in Runs PROVE (Launched(q, run[q]) /\ Planned(run[q]) /\ Granted(q, run[q]))'
  <2>1. Launched(q, run[q])'
    BY <1>1, ReclaimLaunched
  <2>2. Planned(run[q])' /\ Granted(q, run[q])'
    BY <1>1, RunOf DEF Planned, Granted, Paths
  <2> QED
    BY <2>1, <2>2
<1> QED
  BY <1>3, <1>4 DEF WinIndInv

\* At first nothing is launched, and nothing on the host is changed.
LEMMA InitWinIndInv ==
    ASSUME WinInit PROVE WinIndInv
<1>1. run \in [Runs -> Records] /\ \A r \in Runs : run[r] = NoRun
  BY DEF WinInit, NoRun, Records, Stages
<1>2. WinTypeOK
  BY <1>1 DEF WinInit, WinTypeOK, NoRun, Stages, Undo
<1>3. /\ NoRun.stage = "idle" /\ NoRun.todo = <<>> /\ NoRun.grants = <<>>
      /\ NoRun.payload = "off" /\ NoRun.link = FALSE
  BY DEF NoRun
<1>4. LockShape
  BY <1>1, <1>3 DEF WinInit, LockShape, Locked
<1>5. PathShape
  BY DEF WinInit, PathShape
<1>6. ASSUME NEW r \in Runs PROVE Launched(r, NoRun) /\ Planned(NoRun) /\ Granted(r, NoRun)
  <2>1. Launched(r, NoRun)
    BY <1>3 DEF WinInit, Launched, Locked
  <2>2. Planned(NoRun)
    BY <1>3 DEF Planned
  <2>3. Granted(r, NoRun)
    BY <1>3 DEF WinInit, Granted, Locked
  <2> QED
    BY <2>1, <2>2, <2>3
<1> QED
  BY <1>1, <1>2, <1>4, <1>5, <1>6 DEF WinIndInv

\* Every step of the launches of one process keeps the invariant.
LEMMA WinIndStep ==
    ASSUME WinIndInv, SingleHost, [WinNext]_winVars PROVE WinIndInv'
<1>1. ASSUME NEW r \in Runs, LaunchStep(r) PROVE WinIndInv'
  <2>1. host[r] \in alive
    BY <1>1 DEF LaunchStep
  <2>2. CASE TakeLock(r)
    BY <2>1, <2>2, TakeLockStep
  <2>3. CASE ReleaseLock(r)
    BY <2>1, <2>3, ReleaseLockStep
  <2>4. CASE RestoreOne(r)
    BY <2>4, RestoreStep
  <2>5. CASE \/ CreateProfile(r) \/ BeginRecord(r) \/ RecordProfile(r)
             \/ DropRecord(r) \/ DropProfile(r)
    BY <2>1, <2>5, ProfileSteps
  <2>6. CASE \/ GrantTree(r) \/ GrantWalk(r) \/ GrantRevocable(r) \/ GrantObject(r) \/ GrantDevice(r)
    BY <2>6, GrantSteps
  <2>7. CASE \/ GrantSkipped(r) \/ GrantRuntimeRoot(r) \/ GrantFails(r)
             \/ CheckLoopback(r) \/ StageLaunch(r)
    BY <2>1, <2>7, PlanSteps
  <2>8. CASE \/ CreateSuspended(r) \/ Resume(r) \/ DeadlinePasses(r) \/ WaitEnds(r)
             \/ CollectOutput(r) \/ MountLink(r)
    BY <2>8, QuietSteps
  <2> QED
    BY <1>1, <2>2, <2>3, <2>4, <2>5, <2>6, <2>7, <2>8 DEF LaunchStep
<1>2. ASSUME NEW r \in Runs, PayloadMoves(r) \/ ChildEnds(r) PROVE WinIndInv'
  BY <1>2, QuietSteps
<1>3. ASSUME NEW h \in Hosts, KillHost(h) PROVE WinIndInv'
  BY <1>3, KillStep
<1>4. CASE Probe
  BY <1>4, WinProbeStep
<1>5. CASE UNCHANGED winVars
  <2>1. UNCHANGED <<run, host, alive, lock, raised, dacl, profiles, journal, broken>>
    BY <1>5 DEF winVars
  <2>2. WinTypeOK' /\ run' \in [Runs -> Records] /\ LockShape' /\ PathShape'
    BY <2>1 DEF WinIndInv, WinTypeOK, LockShape, PathShape, Paths
  <2>3. ASSUME NEW q \in Runs PROVE (Launched(q, run[q]) /\ Planned(run[q]) /\ Granted(q, run[q]))'
    BY <2>1, RunOf DEF Launched, Planned, Granted, Paths
  <2> QED
    BY <2>2, <2>3 DEF WinIndInv
<1> QED
  BY <1>1, <1>2, <1>3, <1>4, <1>5 DEF WinNext

\* What the invariant says is kept on the host is what HostKept asks for.
LEMMA KeptNow ==
    ASSUME WinIndInv PROVE HostKept
<1>1. WinTypeOK /\ LockShape /\ PathShape
  BY DEF WinIndInv
<1>2. ASSUME NEW p \in Places \ broken
      PROVE  /\ \A r \in dacl[p] : \E i \in 1..Len(run[r].grants) : run[r].grants[i].path = p
             /\ \A r \in Runs : run[r].payload = "run" =>
                   \A i \in 1..Len(run[r].grants) :
                       run[r].grants[i].path = p => r \in dacl[p]
  <2>1. \A r \in dacl[p] : \E i \in 1..Len(run[r].grants) : run[r].grants[i].path = p
    BY <1>1 DEF PathShape, Paths
  <2>2. ASSUME NEW r \in Runs, run[r].payload = "run", NEW i \in 1..Len(run[r].grants),
               run[r].grants[i].path = p
        PROVE  r \in dacl[p]
    <3>1. run[r].stage = "run" /\ Granted(r, run[r])
      BY <2>2, RunOf DEF Launched
    <3> QED
      BY <2>2, <3>1 DEF Granted, Locked
  <2> QED
    BY <2>1, <2>2
<1>3. ASSUME NEW h \in raised PROVE \E r \in Runs : host[r] = h /\ Active(r)
  <2>1. h \in Hosts /\ lock[h] \in Runs /\ run[lock[h]].stage \in Locked /\ host[lock[h]] = h
    BY <1>1 DEF WinTypeOK, LockShape
  <2> QED
    BY <2>1 DEF Active, Locked
<1>4. ASSUME NEW r \in Runs, At(r, "done")
      PROVE  r \notin profiles /\ ~run[r].link /\ (r \in DOMAIN journal => journal[r] = "torn")
  <2>1. Launched(r, run[r]) /\ run[r].stage = "done"
    BY <1>4, RunOf DEF At
  <2> QED
    BY <2>1 DEF Launched
<1>5. GrantsComeAndGo
  BY <1>1, <1>2, <1>3, <1>4 DEF GrantsComeAndGo
<1>6. LiveProfileKept
  BY RunOf DEF LiveProfileKept, Active, Launched
<1> QED
  BY <1>5, <1>6 DEF HostKept

\* A restore takes no SID off a path but that of its launch, and puts none on it.
LEMMA RestoresOwnNow ==
    ASSUME WinIndInv, NEW r \in Runs, RestoreOne(r)
    PROVE  \A p \in Places : dacl'[p] \in {dacl[p], dacl[p] \ {r}}
<1>1. dacl \in [Places -> SUBSET Runs]
  BY DEF WinIndInv, WinTypeOK
<1>2. PICK p \in Places : dacl' = [dacl EXCEPT ![p] = @ \ {r}] \/ UNCHANGED dacl
  BY RestoreGives
<1> QED
  BY <1>1, <1>2

\* The launches of one agent process keep the invariant for good.
LEMMA WinInductive ==
    ASSUME SingleHost PROVE WinSpec => []WinIndInv
<1>1. WinInit => WinIndInv
  BY InitWinIndInv
<1>2. WinIndInv /\ [WinNext]_winVars => WinIndInv'
  BY WinIndStep
<1> QED
  BY <1>1, <1>2, PTL DEF WinSpec

\* The launches of one agent process leave the host as it was, whatever step of
\* theirs fails: grants, privileges, profiles, journal records and links come and
\* go with their launch (shared_acl_lock, AclJournal, the drops of run()).
THEOREM HostIsKept ==
    ASSUME SingleHost PROVE WinSpec => []HostKept
<1>1. WinIndInv => HostKept
  BY KeptNow
<1> QED
  BY <1>1, WinInductive, PTL

\* Restoring the snapshots of one launch of the process never undoes what another
\* launch of it has granted (acl.rs restore_all under shared_acl_lock).
THEOREM RestoresOwn ==
    ASSUME SingleHost PROVE WinSpec => RestoresOwnOnly
<1> DEFINE Own == \A r \in Runs : RestoreOne(r) =>
                     \A p \in Places : dacl'[p] \in {dacl[p], dacl[p] \ {r}}
<1>1. WinIndInv => Own
  BY RestoresOwnNow
<1>2. WinIndInv => [Own]_winVars
  BY <1>1
<1> HIDE DEF Own
<1>3. []WinIndInv => [][Own]_winVars
  BY <1>2, PTL
<1> QED
  BY <1>3, WinInductive, PTL DEF RestoresOwnOnly, Own

=============================================================================
