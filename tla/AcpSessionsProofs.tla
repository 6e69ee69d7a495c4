-------------------------- MODULE AcpSessionsProofs --------------------------
(***************************************************************************)
(* Theorems about AcpSessions, for any number of sessions, prompts and     *)
(* updates and a table of any size: TableInv.                              *)
(*                                                                         *)
(* The table is the recent end of the sessions in the order of their last  *)
(* use (TableShape).  What a cancellation is answered with follows from    *)
(* whose RunCancel is in a slot (TurnShape): the one of the prompt at work *)
(* there, unless another prompt of the session was outstanding with it.    *)
(***************************************************************************)
EXTENDS AcpSessions, FiniteSetTheorems, SequenceTheorems, TLAPS

Kinds == {"plain", "cut", "usage"}

\* The sessions created so far, each once, the forgotten ones first.
TableShape ==
    /\ \A i \in 1..Len(recent) : recent[i] \in 1..Len(recent)
    /\ \A i, j \in 1..Len(recent) : recent[i] = recent[j] => i = j
    /\ \A i, j \in 1..Len(recent) : recent[i] \notin slots /\ recent[j] \in slots => i < j
    /\ \A s \in slots : \E i \in 1..Len(recent) : recent[i] = s
    /\ IsFiniteSet(slots) /\ Cardinality(slots) <= MaxSessions

\* Each prompt runs with a RunCancel of its own, which the slot of its session
\* holds from its turn on, until a rival takes the slot.
TurnShape ==
    /\ shared \in [Prompts -> BOOLEAN] /\ heard \in [Prompts -> BOOLEAN]
    /\ due \in [Prompts -> BOOLEAN]
    /\ \A s \in Sessions : held[s] # NoPrompt =>
         of[held[s]] = s /\ phase[held[s]] \in Turn \cup {"answered"}
    /\ \A p, q \in Prompts :
         p # q /\ Outstanding(p) /\ Outstanding(q) /\ of[p] = of[q] => shared[p]
    /\ \A p \in Prompts :
         /\ uses[p] = p
         /\ phase[p] # "unsent" => of[p] \in Sessions
         /\ phase[p] \in Turn => held[of[p]] = p \/ shared[p]
         /\ p \in fired => phase[p] \notin {"unsent", "queued"}
         /\ p \in fired /\ phase[p] \in Turn => heard[p] \/ due[p]
         /\ heard[p] /\ ~shared[p] => p \in fired
         /\ phase[p] # "answered" => answer[p] = "none"

\* Nothing is sent before the run, and nothing after its answer.
StreamShape ==
    /\ sent \in [Prompts -> Seq(Kinds)] /\ forwarded \in [Prompts -> Nat]
    /\ \A p \in Prompts :
         /\ forwarded[p] <= Len(sent[p])
         /\ phase[p] \in {"unsent", "queued", "taken"} => Len(sent[p]) = 0

TableIndInv ==
    /\ AcpTypeOK /\ TableShape /\ TurnShape /\ StreamShape
    /\ CancelledHasCause /\ CancelIsAnswered /\ UpdatesBeforeAnswer

-----------------------------------------------------------------------------
(* The order of the sessions.                                              *)

\* The position of a session of the table is the one LastUse finds.
LEMMA PositionOfUse ==
    ASSUME recent \in Seq(Sessions), TableShape, NEW k \in 1..Len(recent)
    PROVE  LastUse(recent[k]) = k
<1> DEFINE I == {i \in 1..Len(recent) : recent[i] = recent[k]}
<1>1. I = {k}
  BY DEF TableShape
<1>2. Max({k}) = k
  BY DEF Max
<1>3. LastUse(recent[k]) = IF I # {} THEN Max(I) ELSE 0
  BY DEF LastUse, SelectLastInSeq
<1> HIDE DEF I
<1> QED
  BY <1>1, <1>2, <1>3

\* A session that was never created has no position.
LEMMA NeverUsed ==
    ASSUME NEW s, \A i \in 1..Len(recent) : recent[i] # s PROVE LastUse(s) = 0
BY DEF LastUse, SelectLastInSeq

\* A use moves a session to the end, and the later ones up.
LEMMA TouchMoves ==
    ASSUME recent \in Seq(Sessions), TableShape, NEW k \in 1..Len(recent), Touch(recent[k])
    PROVE  /\ recent' \in Seq(Sessions) /\ Len(recent') = Len(recent)
           /\ recent'[Len(recent)] = recent[k]
           /\ \A i \in 1..(k - 1) : recent'[i] = recent[i]
           /\ \A i \in k..(Len(recent) - 1) : recent'[i] = recent[i + 1]
<1>1. LastUse(recent[k]) = k /\ Len(recent) \in Nat /\ recent[k] \in Sessions /\ k \in Nat \ {0}
  BY PositionOfUse
<1>2. PICK a, b : a = SubSeq(recent, 1, k - 1) /\ b = SubSeq(recent, k + 1, Len(recent))
  OBVIOUS
<1>3. /\ a \in Seq(Sessions) /\ Len(a) = k - 1 /\ \A i \in 1..(k - 1) : a[i] = recent[i]
  BY <1>1, <1>2
<1>4. /\ b \in Seq(Sessions) /\ Len(b) = Len(recent) - k
      /\ \A i \in 1..(Len(recent) - k) : b[i] = recent[k + i]
  BY <1>1, <1>2
<1>5. recent' = Append(a \o b, recent[k])
  BY <1>1, <1>2 DEF Touch, RemoveAt
<1>6. PICK c : c = a \o b
  OBVIOUS
<1>7. /\ c \in Seq(Sessions) /\ Len(c) = Len(recent) - 1
      /\ \A i \in 1..(k - 1) : c[i] = recent[i]
      /\ \A i \in k..(Len(recent) - 1) : c[i] = b[i - (k - 1)]
  <2>1. /\ c \in Seq(Sessions) /\ Len(c) = Len(a) + Len(b)
        /\ \A i \in 1..(Len(a) + Len(b)) : c[i] = IF i <= Len(a) THEN a[i] ELSE b[i - Len(a)]
    BY <1>3, <1>4, <1>6, ConcatProperties
  <2>2. Len(c) = Len(recent) - 1
    BY <1>1, <1>3, <1>4, <2>1
  <2>3. ASSUME NEW i \in 1..(k - 1) PROVE c[i] = recent[i]
    <3>1. i \in 1..(Len(a) + Len(b)) /\ i <= Len(a)
      BY <1>1, <1>3, <1>4
    <3> QED
      BY <1>3, <2>1, <3>1
  <2>4. ASSUME NEW i \in k..(Len(recent) - 1) PROVE c[i] = b[i - (k - 1)]
    <3>1. i \in 1..(Len(a) + Len(b)) /\ ~(i <= Len(a)) /\ i - Len(a) = i - (k - 1)
      BY <1>1, <1>3, <1>4
    <3> QED
      BY <2>1, <3>1
  <2> QED
    BY <2>1, <2>2, <2>3, <2>4
<1>8. \A i \in k..(Len(recent) - 1) : c[i] = recent[i + 1]
  BY <1>1, <1>4, <1>7
<1> QED
  BY <1>1, <1>5, <1>6, <1>7, <1>8

\* A use of a session of the table keeps the forgotten ones before it.
LEMMA UseStep ==
    ASSUME AcpTypeOK, TableShape, NEW s \in slots, Touch(s), slots' = slots
    PROVE  TableShape' /\ recent' \in Seq(Sessions) /\ slots' \subseteq ToSet(recent')
<1>1. /\ recent \in Seq(Sessions) /\ Len(recent) \in Nat
      /\ \A i \in 1..Len(recent) : recent[i] \in Sessions
  BY DEF AcpTypeOK
<1>2. PICK k \in 1..Len(recent) : recent[k] = s
  BY DEF TableShape
<1>3. /\ recent' \in Seq(Sessions) /\ Len(recent') = Len(recent)
      /\ recent'[Len(recent)] = recent[k]
      /\ \A i \in 1..(k - 1) : recent'[i] = recent[i]
      /\ \A i \in k..(Len(recent) - 1) : recent'[i] = recent[i + 1]
  BY <1>1, <1>2, TouchMoves
\* Where the session at a new position comes from, and where one goes.
<1> DEFINE From(i) == IF i < k THEN i ELSE IF i < Len(recent) THEN i + 1 ELSE k
           To(i) == IF i < k THEN i ELSE IF i = k THEN Len(recent) ELSE i - 1
<1>4. \A i \in 1..Len(recent) : From(i) \in 1..Len(recent) /\ recent'[i] = recent[From(i)]
  BY <1>1, <1>3
<1>5. \A i \in 1..Len(recent) : To(i) \in 1..Len(recent) /\ recent'[To(i)] = recent[i]
  BY <1>1, <1>3
<1>6. \A i, j \in 1..Len(recent) : From(i) = From(j) => i = j
  BY <1>1
<1>7. \A i, j \in 1..Len(recent) : From(i) < From(j) /\ From(i) # k => i < j
  BY <1>1
<1> HIDE DEF From, To
<1>8. \A i \in 1..Len(recent') : recent'[i] \in 1..Len(recent')
  BY <1>3, <1>4 DEF TableShape
<1>9. ASSUME NEW i \in 1..Len(recent), NEW j \in 1..Len(recent), recent'[i] = recent'[j]
      PROVE  i = j
  <2>1. /\ From(i) \in 1..Len(recent) /\ From(j) \in 1..Len(recent)
        /\ recent[From(i)] = recent[From(j)]
    BY <1>4, <1>9
  <2>2. From(i) = From(j)
    BY <2>1 DEF TableShape
  <2> QED
    BY <1>6, <2>2
<1>10. ASSUME NEW i \in 1..Len(recent), NEW j \in 1..Len(recent),
              recent'[i] \notin slots, recent'[j] \in slots
       PROVE  i < j
  <2>1. From(i) \in 1..Len(recent) /\ From(j) \in 1..Len(recent) /\ From(i) < From(j) /\ From(i) # k
    BY <1>2, <1>4, <1>10 DEF TableShape
  <2> QED
    BY <1>7, <2>1
<1>11. ASSUME NEW x \in slots PROVE \E i \in 1..Len(recent') : recent'[i] = x
  <2>1. PICK i \in 1..Len(recent) : recent[i] = x
    BY DEF TableShape
  <2>2. To(i) \in 1..Len(recent) /\ recent'[To(i)] = x
    BY <1>5, <2>1
  <2> QED
    BY <1>3, <2>2
<1>12. slots \subseteq ToSet(recent')
  BY <1>3, <1>11 DEF ToSet
<1>13. IsFiniteSet(slots) /\ Cardinality(slots) <= MaxSessions
  BY DEF TableShape
<1> QED
  BY <1>3, <1>8, <1>9, <1>10, <1>11, <1>12, <1>13 DEF TableShape

\* The table has a session whose last use is before those of all others.
LEMMA LeastExists ==
    ASSUME recent \in Seq(Sessions), TableShape, NEW S \in SUBSET slots, S # {}
    PROVE  \E o \in S : \A x \in S : LastUse(o) <= LastUse(x)
<1> DEFINE Less == {ss \in Nat \X Nat : ss[1] < ss[2]}
           T == {LastUse(x) : x \in S}
<1>1. \A x \in S : LastUse(x) \in Nat
  BY PositionOfUse DEF TableShape
<1>2. T \subseteq Nat /\ T # {}
  BY <1>1
<1>3. IsWellFoundedOn(Less, Nat)
  BY NatLessThanWellFounded DEF OpToRel
<1>4. PICK n \in T : \A m \in T : ~(<<m, n>> \in Less)
  <2> HIDE DEF Less, T
  <2> QED
    BY <1>2, <1>3, WFMin, Zenon
<1>5. ASSUME NEW m \in T PROVE n <= m
  <2>1. m \in Nat /\ n \in Nat
    BY <1>2
  <2>2. <<m, n>> \in Nat \X Nat /\ <<m, n>>[1] = m /\ <<m, n>>[2] = n
    BY <2>1
  <2>3. ~(m < n)
    BY <1>4, <2>2
  <2> QED
    BY <2>1, <2>3
<1>6. PICK o \in S : n = LastUse(o)
  OBVIOUS
<1> QED
  BY <1>5, <1>6

\* A new session comes last; the one used longest ago is forgotten for it.
LEMMA InsertStep ==
    ASSUME AcpTypeOK, TableShape, NEW s \in Sessions, NewSession(s)
    PROVE  TableShape' /\ recent' \in Seq(Sessions) /\ slots' \subseteq ToSet(recent')
           /\ slots' \subseteq Sessions
<1>1. /\ recent \in Seq(Sessions) /\ Len(recent) \in Nat /\ s = Len(recent) + 1
      /\ \A i \in 1..Len(recent) : recent[i] \in Sessions /\ recent[i] # s
      /\ s \notin slots /\ slots \subseteq Sessions
  BY DEF AcpTypeOK, TableShape, NewSession
<1>2. recent' = Append(recent, s)
  BY <1>1, NeverUsed DEF NewSession, Touch
<1>3. /\ recent' \in Seq(Sessions) /\ Len(recent') = Len(recent) + 1
      /\ recent'[Len(recent) + 1] = s
      /\ \A i \in 1..Len(recent) : recent'[i] = recent[i]
  BY <1>1, <1>2
<1>4. \A i \in 1..Len(recent') : i \in 1..Len(recent) \/ i = Len(recent) + 1
  BY <1>1, <1>3
<1>5. /\ \A i \in 1..Len(recent') : recent'[i] \in 1..Len(recent')
      /\ \A i, j \in 1..Len(recent') : recent'[i] = recent'[j] => i = j
  BY <1>1, <1>3, <1>4, SMTT(30) DEF TableShape
<1>6. \A x \in slots \cup {s} : \E i \in 1..Len(recent') : recent'[i] = x
  BY <1>1, <1>3 DEF TableShape
<1>7. /\ IsFiniteSet(slots \cup {s}) /\ Cardinality(slots) \in Nat /\ MaxSessions \in Nat \ {0}
      /\ Cardinality(slots \cup {s}) = Cardinality(slots) + 1
  BY <1>1, FS_AddElement, FS_CardinalityType, AcpAssumption DEF TableShape
<1>8. CASE ~(Cardinality(slots \cup {s}) > MaxSessions)
  <2>1. slots' = slots \cup {s}
    BY <1>8 DEF NewSession, Inserted
  <2>2. Cardinality(slots') <= MaxSessions
    BY <1>7, <1>8, <2>1
  <2>3. \A i, j \in 1..Len(recent') : recent'[i] \notin slots' /\ recent'[j] \in slots' => i < j
    BY <1>1, <1>3, <1>4, <2>1 DEF TableShape
  <2>4. slots' \subseteq ToSet(recent')
    BY <1>3, <1>6, <2>1 DEF ToSet
  <2>5. TableShape'
    BY <1>5, <1>6, <1>7, <2>1, <2>2, <2>3 DEF TableShape
  <2> QED
    BY <1>1, <1>3, <2>1, <2>4, <2>5
<1>9. CASE Cardinality(slots \cup {s}) > MaxSessions
  <2>1. slots \ {s} = slots /\ slots # {}
    <3>1. Cardinality(slots) # 0
      BY <1>7, <1>9
    <3> QED
      BY <1>1, <3>1, FS_EmptySet
  <2>2. PICK o \in slots : o = LeastRecent(s) /\ \A x \in slots : LastUse(o) <= LastUse(x)
    BY <1>1, <2>1, LeastExists DEF LeastRecent
  <2>3. slots' = (slots \cup {s}) \ {o}
    BY <1>9, <2>2 DEF NewSession, Inserted
  <2>4. IsFiniteSet(slots') /\ Cardinality(slots') = Cardinality(slots \cup {s}) - 1
    BY <1>7, <2>2, <2>3, FS_RemoveElement
  <2>5. Cardinality(slots') <= MaxSessions
    <3>1. Cardinality(slots) <= MaxSessions
      BY DEF TableShape
    <3> QED
      BY <1>7, <2>4, <3>1
  <2>6. \A i, j \in 1..Len(recent') : recent'[i] \notin slots' /\ recent'[j] \in slots' => i < j
    <3> SUFFICES ASSUME NEW i \in 1..Len(recent'), NEW j \in 1..Len(recent'),
                        recent'[i] \notin slots', recent'[j] \in slots'
                 PROVE  i < j
      OBVIOUS
    <3>1. i \in 1..Len(recent) /\ recent'[i] = recent[i]
      BY <1>1, <1>3, <1>4, <2>2, <2>3
    <3>2. CASE j = Len(recent) + 1
      BY <1>1, <3>1, <3>2
    <3>3. CASE j \in 1..Len(recent)
      <4>1. recent'[j] = recent[j] /\ recent[j] \in slots /\ recent[j] # o
        BY <1>1, <1>3, <2>3, <3>3
      <4>2. CASE recent[i] \notin slots
        BY <3>1, <3>3, <4>1, <4>2 DEF TableShape
      <4>3. CASE recent[i] \in slots
        <5>1. recent[i] = o
          BY <2>3, <3>1, <4>3
        <5>2. LastUse(recent[i]) = i /\ LastUse(recent[j]) = j /\ i # j
          BY <1>1, <3>1, <3>3, <4>1, <5>1, PositionOfUse
        <5> QED
          BY <2>2, <4>1, <5>1, <5>2
      <4> QED
        BY <4>2, <4>3
    <3> QED
      BY <1>4, <3>2, <3>3
  <2>7. slots' \subseteq slots \cup {s}
    BY <2>3
  <2>8. slots' \subseteq ToSet(recent')
    BY <1>3, <1>6, <2>7 DEF ToSet
  <2>9. TableShape'
    BY <1>5, <1>6, <2>4, <2>5, <2>6, <2>7 DEF TableShape
  <2> QED
    BY <1>1, <1>3, <2>7, <2>8, <2>9
<1> QED
  BY <1>8, <1>9

-----------------------------------------------------------------------------
(* The turns.                                                              *)

\* Steps of a prompt that leave the table, the cancellations and the histories
\* alone.
Quiet(p) ==
    RefuseUnknown(p) \/ RefuseInvalid(p) \/ StartRun(p) \/ Emit(p) \/ RunReturns(p)
    \/ ForwarderStep(p) \/ Respond(p)

\* What such a step does to phase and answer.
LEMMA QuietSteps ==
    ASSUME AcpTypeOK, NEW p \in Prompts, Quiet(p)
    PROVE  /\ UNCHANGED <<table, of, uses, fired, shared, heard, due>>
           /\ \A q \in Prompts \ {p} : phase'[q] = phase[q] /\ answer'[q] = answer[q]
           /\ \/ UNCHANGED <<phase, answer>>
              \/ phase[p] \in Turn /\ phase'[p] \in Turn /\ answer' = answer
              \/ phase[p] \in {"queued", "taken"} /\ phase'[p] = "answered" /\ answer'[p] = "Invalid"
              \/ phase[p] = "returned" /\ phase'[p] = "answered" /\ answer'[p] = StopReason(p)
<1> USE DEF Moves, AcpTypeOK, table, turnHistory, updates, Turn
<1>1. CASE RefuseUnknown(p) \/ RefuseInvalid(p)
  BY <1>1 DEF RefuseUnknown, RefuseInvalid
<1>2. CASE StartRun(p) \/ RunReturns(p)
  BY <1>2 DEF StartRun, RunReturns
<1>3. CASE Emit(p) \/ ForwarderStep(p)
  BY <1>3 DEF Emit, ForwarderStep, Forward, ForwarderPanics
<1>4. CASE Respond(p)
  BY <1>4 DEF Respond
<1> QED
  BY <1>1, <1>2, <1>3, <1>4 DEF Quiet

\* Appending one event to a stream.
LEMMA Appended ==
    ASSUME NEW s \in Seq(Kinds), NEW e \in Kinds
    PROVE  /\ Append(s, e) \in Seq(Kinds) /\ Len(Append(s, e)) = Len(s) + 1 /\ Len(s) \in Nat
BY AppendProperties, LenProperties

\* Updates are appended while the turn lasts and the answer closes the stream.
LEMMA StreamStep ==
    ASSUME AcpTypeOK, StreamShape, UpdatesBeforeAnswer, AcpNext
    PROVE  StreamShape' /\ UpdatesBeforeAnswer'
<1> DEFINE Goal == StreamShape' /\ UpdatesBeforeAnswer'
<1> USE DEF Moves, table, turnHistory, updates, Turn
<1>1. ASSUME NEW p \in Prompts, RunReturns(p) \/ Emit(p) PROVE Goal
  <2>1. /\ phase[p] = "running" /\ phase'[p] \in {"running", "returned"}
        /\ forwarded' = forwarded /\ forwarder' = forwarder
        /\ \A q \in Prompts \ {p} : phase'[q] = phase[q]
    BY <1>1 DEF RunReturns, Emit, AcpTypeOK
  <2>2. PICK t \in Seq(Kinds) :
           /\ sent' = [sent EXCEPT ![p] = t] /\ Len(t) \in {Len(sent[p]), Len(sent[p]) + 1}
           /\ Len(sent[p]) \in Nat
    <3>1. sent[p] \in Seq(Kinds) /\ sent' \in {sent, [sent EXCEPT ![p] = Append(sent[p], "usage")],
              [sent EXCEPT ![p] = Append(sent[p], "plain")], [sent EXCEPT ![p] = Append(sent[p], "cut")]}
      BY <1>1 DEF RunReturns, Emit, StreamShape
    <3>2. Len(sent[p]) \in Nat /\ sent = [sent EXCEPT ![p] = sent[p]]
      BY <3>1, LenProperties DEF StreamShape
    <3>3. "usage" \in Kinds /\ "plain" \in Kinds /\ "cut" \in Kinds
      BY DEF Kinds
    <3> QED
      BY <3>1, <3>2, <3>3, Appended
  <2>3. sent' \in [Prompts -> Seq(Kinds)] /\ sent'[p] = t
        /\ \A q \in Prompts \ {p} : sent'[q] = sent[q]
    BY <2>2 DEF StreamShape
  <2>4. forwarded[p] <= Len(t)
    BY <2>2 DEF StreamShape
  <2> QED
    BY <2>1, <2>3, <2>4 DEF StreamShape, UpdatesBeforeAnswer
<1>2. ASSUME NEW p \in Prompts, ForwarderStep(p) PROVE Goal
  <2>1. /\ forwarded[p] < Len(sent[p]) /\ Len(sent[p]) \in Nat /\ forwarder[p] = "on"
        /\ UNCHANGED <<phase, sent>>
        /\ \/ forwarded' = [forwarded EXCEPT ![p] = forwarded[p] + 1] /\ forwarder' = forwarder
           \/ forwarded' = forwarded /\ forwarder' = [forwarder EXCEPT ![p] = "broken"]
    BY <1>2, LenProperties DEF ForwarderStep, Forward, ForwarderPanics, Waiting, StreamShape
  <2>2. phase[p] # "answered"
    BY <2>1 DEF UpdatesBeforeAnswer, StreamShape
  <2>3. forwarded[p] \in Nat
    BY DEF StreamShape
  <2>4. StreamShape'
    <3>1. /\ forwarded' \in [Prompts -> Nat] /\ forwarded'[p] <= Len(sent[p])
          /\ \A q \in Prompts \ {p} : forwarded'[q] = forwarded[q]
      BY <2>1, <2>3, SMTT(30) DEF StreamShape
    <3> QED
      BY <2>1, <3>1 DEF StreamShape
  <2>5. UpdatesBeforeAnswer'
    BY <2>1, <2>2, ZenonT(30) DEF StreamShape, UpdatesBeforeAnswer, AcpTypeOK
  <2> QED
    BY <2>4, <2>5
<1>3. ASSUME UNCHANGED updates,
             \A p \in Prompts :
                \/ phase'[p] = phase[p]
                \/ phase[p] = "unsent" /\ phase'[p] = "queued"
                \/ phase[p] = "queued" /\ phase'[p] = "taken"
                \/ phase[p] = "taken" /\ phase'[p] = "running"
                \/ phase[p] \in {"queued", "taken"} /\ phase'[p] = "answered"
                \/ phase'[p] = "answered" /\ ForwarderEnded(p)
      PROVE Goal
  <2>1. \A p \in Prompts : forwarded[p] <= Len(sent[p]) /\ forwarded[p] \in Nat /\ Len(sent[p]) \in Nat
    BY LenProperties DEF StreamShape
  <2>2. StreamShape'
    BY <1>3, <2>1 DEF StreamShape
  <2>3. UpdatesBeforeAnswer'
    BY <1>3, <2>1 DEF StreamShape, UpdatesBeforeAnswer, ForwarderEnded, Waiting
  <2> QED
    BY <2>2, <2>3
<1>4. ASSUME NEW s \in Sessions, NewSession(s) \/ CancelSession(s) PROVE Goal
  BY <1>3, <1>4 DEF NewSession, CancelSession
<1>5. ASSUME NEW p \in Prompts,
             \/ \E s \in Sessions : Receive(p, s)
             \/ PromptStep(p) \/ RefuseInvalid(p) \/ DeadlineFires(p)
      PROVE Goal
  <2>1. CASE Respond(p)
    BY <1>3, <2>1 DEF Respond, AcpTypeOK
  <2>2. CASE TakeTurn(p) \/ StartRun(p) \/ DeadlineFires(p)
    BY <1>3, <2>2 DEF TakeTurn, StartRun, DeadlineFires, AcpTypeOK
  <2>3. CASE RefuseUnknown(p) \/ RefuseInvalid(p) \/ \E s \in Sessions : Receive(p, s)
    BY <1>3, <2>3 DEF RefuseUnknown, RefuseInvalid, Receive, AcpTypeOK
  <2> QED
    BY <1>5, <2>1, <2>2, <2>3 DEF PromptStep
<1> QED
  BY <1>1, <1>2, <1>4, <1>5 DEF AcpNext

\* Every step of a prompt, a session or the editor keeps the types.
LEMMA TypeStep ==
    ASSUME AcpTypeOK, TableShape, TurnShape, StreamShape', AcpNext PROVE AcpTypeOK'
<1>0. \A p \in Prompts : /\ \A i \in 1..Len(sent'[p]) : sent'[p][i] \in Kinds
                         /\ forwarded'[p] \in 0..Len(sent'[p])
  BY LenProperties, ElementOfSeq DEF StreamShape
<1> USE DEF Kinds
<1> USE DEF Moves, table, turnHistory, updates, Turn
<1>1. ASSUME NEW s \in Sessions, NewSession(s) PROVE AcpTypeOK'
  <2>1. recent' \in Seq(Sessions) /\ slots' \subseteq ToSet(recent') /\ slots' \subseteq Sessions
    BY <1>1, InsertStep
  <2> QED
    BY <1>1, <2>1 DEF NewSession, AcpTypeOK
<1>2. ASSUME NEW s \in Sessions, CancelSession(s) PROVE AcpTypeOK'
  BY <1>2 DEF CancelSession, AcpTypeOK
<1>3. ASSUME NEW p \in Prompts, NEW s \in Sessions, Receive(p, s) PROVE AcpTypeOK'
  BY <1>3 DEF Receive, AcpTypeOK
<1>4. ASSUME NEW p \in Prompts, TakeTurn(p) PROVE AcpTypeOK'
  <2>1. recent' \in Seq(Sessions) /\ slots' \subseteq ToSet(recent') /\ slots' = slots
    BY <1>4, UseStep DEF TakeTurn
  <2> QED
    BY <1>4, <2>1 DEF TakeTurn, AcpTypeOK
<1>5. ASSUME NEW p \in Prompts, RefuseUnknown(p) \/ RefuseInvalid(p) PROVE AcpTypeOK'
  <2>1. phase' \in [Prompts -> Turn \cup {"unsent", "queued", "answered"}]
    BY <1>5 DEF RefuseUnknown, RefuseInvalid, AcpTypeOK
  <2>2. answer' = [answer EXCEPT ![p] = "Invalid"]
        /\ UNCHANGED <<slots, held, recent, of, uses, fired, sent, forwarded, forwarder, verdict>>
    BY <1>5 DEF RefuseUnknown, RefuseInvalid
  <2> QED
    BY <2>1, <2>2 DEF AcpTypeOK
<1>6. ASSUME NEW p \in Prompts, StartRun(p) PROVE AcpTypeOK'
  BY <1>6 DEF StartRun, AcpTypeOK
<1>8. ASSUME NEW p \in Prompts, DeadlineFires(p) PROVE AcpTypeOK'
  BY <1>8 DEF DeadlineFires, AcpTypeOK
<1>9. ASSUME NEW p \in Prompts, Emit(p) PROVE AcpTypeOK'
  BY <1>0, <1>9 DEF Emit, AcpTypeOK
<1>10. ASSUME NEW p \in Prompts, RunReturns(p) PROVE AcpTypeOK'
  <2>1. PICK v \in {"GoalReached", "LimitReached", "Error"} : verdict' = [verdict EXCEPT ![p] = v]
    BY <1>10 DEF RunReturns
  <2> QED
    BY <1>0, <1>10, <2>1 DEF RunReturns, AcpTypeOK
<1>11. ASSUME NEW p \in Prompts, ForwarderStep(p) PROVE AcpTypeOK'
  BY <1>0, <1>11 DEF ForwarderStep, Forward, ForwarderPanics, AcpTypeOK
<1>7. ASSUME NEW p \in Prompts, Respond(p) PROVE AcpTypeOK'
  <2>1. StopReason(p) \in {"EndTurn", "MaxTokens", "Refusal", "Cancelled"}
    BY DEF StopReason
  <2> QED
    BY <1>7, <2>1 DEF Respond, AcpTypeOK
<1> QED
  BY <1>1, <1>2, <1>3, <1>4, <1>5, <1>6, <1>7, <1>8, <1>9, <1>10, <1>11 DEF AcpNext, PromptStep

\* The table changes with a new session and with a turn.
LEMMA TableStep ==
    ASSUME AcpTypeOK, TableShape, AcpNext PROVE TableShape'
<1> USE DEF table
<1>1. ASSUME NEW s \in Sessions, NewSession(s) PROVE TableShape'
  BY <1>1, InsertStep
<1>2. ASSUME NEW p \in Prompts, TakeTurn(p) PROVE TableShape'
  BY <1>2, UseStep DEF TakeTurn
<1>3. CASE UNCHANGED table
  BY <1>3 DEF TableShape
<1>4. ASSUME NEW p \in Prompts, Quiet(p) PROVE UNCHANGED table
  BY <1>4, QuietSteps
<1>5. ASSUME NEW s \in Sessions, CancelSession(s) \/ \E p \in Prompts : Receive(p, s)
      PROVE UNCHANGED table
  BY <1>5 DEF CancelSession, Receive
<1>6. ASSUME NEW p \in Prompts, DeadlineFires(p) PROVE UNCHANGED table
  BY <1>6 DEF DeadlineFires
<1> QED
  BY <1>1, <1>2, <1>3, <1>4, <1>5, <1>6 DEF AcpNext, PromptStep, Quiet

\* What the steps of a turn must keep.
TurnGoal == TurnShape /\ CancelledHasCause /\ CancelIsAnswered

\* A prompt that arrives is a rival of those outstanding in its session.
LEMMA ReceiveStep ==
    ASSUME AcpTypeOK, TurnGoal, NEW p \in Prompts, NEW s \in Sessions, Receive(p, s)
    PROVE  TurnGoal'
<1> USE DEF TurnGoal, table, updates
<1>1. /\ phase[p] = "unsent" /\ phase'[p] = "queued" /\ of'[p] = s
      /\ \A q \in Prompts \ {p} : phase'[q] = phase[q] /\ of'[q] = of[q]
      /\ UNCHANGED <<held, uses, fired, answer, heard, due>>
  BY DEF Receive, Moves, AcpTypeOK
<1>2. /\ shared' \in [Prompts -> BOOLEAN]
      /\ \A q \in Prompts : shared[q] => shared'[q]
      /\ \A q \in Prompts \ {p} : of[q] = s /\ Outstanding(q) => shared'[q] /\ shared'[p]
  BY DEF Receive, TurnShape
<1>3. \A q \in Prompts \ {p} : Outstanding(q)' <=> Outstanding(q)
  BY <1>1 DEF Outstanding
<1>4. \A q \in Sessions : held[q] # NoPrompt => held[q] # p /\ held[q] \in Prompts
  BY <1>1 DEF TurnShape, Turn, AcpTypeOK
<1>5. \A q \in Sessions : held'[q] # NoPrompt =>
         of'[held'[q]] = q /\ phase'[held'[q]] \in Turn \cup {"answered"}
  BY <1>1, <1>4 DEF TurnShape
<1>6. \A a, b \in Prompts : a # b /\ Outstanding(a)' /\ Outstanding(b)' /\ of'[a] = of'[b] => shared'[a]
  <2> SUFFICES ASSUME NEW a \in Prompts, NEW b \in Prompts, a # b, Outstanding(a)', Outstanding(b)',
                      of'[a] = of'[b]
               PROVE  shared'[a]
    OBVIOUS
  <2>1. CASE a # p /\ b # p
    BY <1>1, <1>2, <1>3, <2>1 DEF TurnShape
  <2>2. CASE a = p \/ b = p
    BY <1>1, <1>2, <1>3, <2>2
  <2> QED
    BY <2>1, <2>2
<1>7. TurnShape'
  BY <1>1, <1>2, <1>5, <1>6 DEF TurnShape, Turn
<1>8. CancelledHasCause' /\ CancelIsAnswered'
  BY <1>1, <1>2 DEF CancelledHasCause, CancelIsAnswered
<1> QED
  BY <1>7, <1>8

\* A turn takes the slot; whom it takes it from has a rival.
LEMMA TurnTaken ==
    ASSUME AcpTypeOK, TurnGoal, NEW p \in Prompts, TakeTurn(p) PROVE TurnGoal'
<1> USE DEF TurnGoal, table, updates, turnHistory
<1>1. /\ phase[p] = "queued" /\ phase'[p] = "taken" /\ of[p] \in Sessions
      /\ \A q \in Prompts \ {p} : phase'[q] = phase[q]
      /\ held' = [held EXCEPT ![of[p]] = p] /\ uses' = [uses EXCEPT ![p] = p]
      /\ UNCHANGED <<of, fired, answer, shared, heard, due>>
  BY DEF TakeTurn, Moves, AcpTypeOK
<1>2. \A q \in Prompts : Outstanding(q)' <=> Outstanding(q)
  BY <1>1 DEF Outstanding, Turn
<1>3. p \notin fired /\ NoPrompt \notin Prompts
  BY <1>1 DEF TurnShape, NoPrompt, Prompts
<1>4. \A s \in Sessions : held'[s] # NoPrompt =>
         of'[held'[s]] = s /\ phase'[held'[s]] \in Turn \cup {"answered"}
  BY <1>1 DEF TurnShape, AcpTypeOK, Turn
<1>5. ASSUME NEW q \in Prompts, phase'[q] \in Turn PROVE held'[of'[q]] = q \/ shared'[q]
  <2>1. CASE q = p
    BY <1>1, <2>1 DEF AcpTypeOK
  <2>2. CASE q # p /\ of[q] = of[p]
    BY <1>1, <1>5, <2>2 DEF TurnShape, Outstanding, Turn
  <2>3. CASE q # p /\ of[q] # of[p]
    BY <1>1, <1>5, <2>3 DEF TurnShape, AcpTypeOK
  <2> QED
    BY <2>1, <2>2, <2>3
<1>6. TurnShape'
  BY <1>1, <1>2, <1>3, <1>4, <1>5 DEF TurnShape, AcpTypeOK
<1>7. CancelledHasCause' /\ CancelIsAnswered'
  BY <1>1 DEF CancelledHasCause, CancelIsAnswered
<1> QED
  BY <1>6, <1>7

\* A cancellation reaches the prompt whose RunCancel is in the slot.
LEMMA CancelStep ==
    ASSUME AcpTypeOK, TurnGoal, NEW s \in Sessions, CancelSession(s) PROVE TurnGoal'
<1> USE DEF TurnGoal, table, updates
<1>1. /\ fired' = fired \cup ({held[s]} \ {NoPrompt})
      /\ \A p \in Prompts : heard'[p] <=> heard[p] \/ (of[p] = s /\ phase[p] \in Turn)
      /\ heard' \in [Prompts -> BOOLEAN]
      /\ UNCHANGED <<held, phase, of, uses, answer, shared, due>>
  BY DEF CancelSession, TurnShape
<1>2. held[s] # NoPrompt => of[held[s]] = s /\ phase[held[s]] \in Turn \cup {"answered"}
  BY DEF TurnShape
<1>3. \A p \in Prompts : p \in fired' => p \in fired \/ p = held[s]
  BY <1>1
<1>4. ASSUME NEW p \in Prompts, heard'[p], ~shared[p] PROVE p \in fired'
  <2>1. CASE heard[p]
    BY <1>1, <1>4, <2>1 DEF TurnShape
  <2>2. CASE of[p] = s /\ phase[p] \in Turn
    <3>1. held[s] = p
      BY <1>4, <2>2 DEF TurnShape
    <3> QED
      BY <1>1, <3>1 DEF NoPrompt, Prompts
  <2> QED
    BY <1>1, <1>4, <2>1, <2>2
<1>5. \A p \in Prompts : Outstanding(p)' <=> Outstanding(p)
  BY <1>1 DEF Outstanding
<1>6. TurnShape'
  BY <1>1, <1>2, <1>3, <1>4, <1>5 DEF TurnShape, Turn
<1>7. CancelledHasCause' /\ CancelIsAnswered'
  <2>1. \A p \in Prompts : phase[p] \in Turn => answer[p] = "none"
    BY DEF TurnShape, Turn
  <2> QED
    BY <1>1, <2>1 DEF CancelledHasCause, CancelIsAnswered
<1> QED
  BY <1>6, <1>7

\* A new session concerns no prompt.
LEMMA NewSessionTurn ==
    ASSUME TurnGoal, NEW s \in Sessions, NewSession(s) PROVE TurnGoal'
BY DEF TurnGoal, NewSession, turnHistory, TurnShape, CancelledHasCause, CancelIsAnswered, Outstanding

\* The deadline of a prompt cancels its own run.
LEMMA DeadlineStep ==
    ASSUME AcpTypeOK, TurnGoal, NEW p \in Prompts, DeadlineFires(p) PROVE TurnGoal'
<1> USE DEF TurnGoal, table, updates
<1>1. /\ fired' = fired \cup {p} /\ due' = [due EXCEPT ![p] = TRUE]
      /\ phase[p] \in {"running", "returned"}
      /\ UNCHANGED <<held, phase, of, uses, answer, shared, heard>>
  BY DEF DeadlineFires, TurnShape
<1>2. \A q \in Prompts : Outstanding(q)' <=> Outstanding(q)
  BY <1>1 DEF Outstanding
<1>3. due' \in [Prompts -> BOOLEAN] /\ due'[p] /\ \A q \in Prompts : due[q] => due'[q]
  BY <1>1 DEF TurnShape
<1>4. TurnShape'
  BY <1>1, <1>2, <1>3 DEF TurnShape
<1>5. CancelledHasCause' /\ CancelIsAnswered'
  BY <1>1, <1>3 DEF CancelledHasCause, CancelIsAnswered
<1> QED
  BY <1>4, <1>5

\* What the other steps make of a prompt, its answer among them.
LEMMA QuietTurn ==
    ASSUME AcpTypeOK, TurnGoal, NEW p \in Prompts, Quiet(p) PROVE TurnGoal'
<1> USE DEF TurnGoal, table
<1>1. /\ UNCHANGED <<held, of, uses, fired, shared, heard, due>>
      /\ \A q \in Prompts \ {p} : phase'[q] = phase[q] /\ answer'[q] = answer[q]
      /\ \/ UNCHANGED <<phase, answer>>
         \/ phase[p] \in Turn /\ phase'[p] \in Turn /\ answer' = answer
         \/ phase[p] \in {"queued", "taken"} /\ phase'[p] = "answered" /\ answer'[p] = "Invalid"
         \/ phase[p] = "returned" /\ phase'[p] = "answered" /\ answer'[p] = StopReason(p)
  BY QuietSteps
<1>2. \A q \in Prompts : Outstanding(q)' => Outstanding(q)
  BY <1>1 DEF Outstanding, Turn
<1>3. \A q \in Prompts : /\ phase'[q] \in Turn => phase[q] \in Turn
                         /\ phase[q] \in Turn \cup {"answered"} => phase'[q] \in Turn \cup {"answered"}
                         /\ phase[q] \notin {"unsent", "queued"} => phase'[q] \notin {"unsent", "queued"}
                         /\ phase'[q] # "unsent" => phase[q] # "unsent"
                         /\ phase'[q] # "answered" => phase[q] # "answered" /\ answer'[q] = answer[q]
  BY <1>1 DEF Turn, TurnShape
<1>4. \A s \in Sessions : held[s] # NoPrompt => held[s] \in Prompts
  BY DEF AcpTypeOK
<1>5. TurnShape'
  BY <1>1, <1>2, <1>3, <1>4 DEF TurnShape
<1>6. answer'[p] = StopReason(p) /\ phase[p] = "returned" =>
        /\ answer'[p] = "Cancelled" <=> p \in fired
        /\ p \in fired => heard[p] \/ due[p]
        /\ heard[p] /\ ~shared[p] => p \in fired
  BY DEF StopReason, TurnShape, Turn
<1>7. CancelledHasCause'
  BY <1>1, <1>6 DEF CancelledHasCause
<1>8. CancelIsAnswered'
  BY <1>1, <1>6 DEF CancelIsAnswered
<1> QED
  BY <1>5, <1>7, <1>8

-----------------------------------------------------------------------------
(* The invariant.                                                          *)

\* The server starts with no session and no prompt.
LEMMA InitTableIndInv == AcpInit => TableIndInv
<1> SUFFICES ASSUME AcpInit PROVE TableIndInv
  OBVIOUS
<1>1. AcpTypeOK
  BY DEF AcpInit, AcpTypeOK, ToSet, Turn
<1>2. TableShape
  BY FS_EmptySet, AcpAssumption DEF AcpInit, TableShape
<1>3. TurnShape /\ CancelledHasCause /\ CancelIsAnswered
  BY DEF AcpInit, TurnShape, CancelledHasCause, CancelIsAnswered, Outstanding, Turn
<1>4. StreamShape /\ UpdatesBeforeAnswer
  BY DEF AcpInit, StreamShape, UpdatesBeforeAnswer
<1> QED
  BY <1>1, <1>2, <1>3, <1>4 DEF TableIndInv

\* Every step keeps the table of sessions, the turns and the streams in shape.
LEMMA TableIndStep == TableIndInv /\ [AcpNext]_acpVars => TableIndInv'
<1> SUFFICES ASSUME TableIndInv, [AcpNext]_acpVars PROVE TableIndInv'
  OBVIOUS
<1> USE DEF TableIndInv
<1>1. CASE AcpNext
  <2>1. StreamShape' /\ UpdatesBeforeAnswer'
    BY <1>1, StreamStep
  <2>2. AcpTypeOK'
    BY <1>1, <2>1, TypeStep
  <2>3. TableShape'
    BY <1>1, TableStep
  <2>4. TurnGoal'
    <3>1. TurnGoal
      BY DEF TurnGoal
    <3> QED
      BY <1>1, <3>1, ReceiveStep, TurnTaken, CancelStep, DeadlineStep, QuietTurn, NewSessionTurn
      DEF AcpNext, PromptStep, Quiet
  <2> QED
    BY <2>1, <2>2, <2>3, <2>4 DEF TurnGoal
<1>2. CASE UNCHANGED acpVars
  BY <1>2 DEF acpVars, table, updates, turnHistory, AcpTypeOK, TableShape, TurnShape, StreamShape,
     CancelledHasCause, CancelIsAnswered, UpdatesBeforeAnswer, Outstanding
<1> QED
  BY <1>1, <1>2

\* A Cancelled answer has a cancellation or a deadline of its own turn behind
\* it, a cancellation of a lone prompt is what it is answered with, updates come
\* before the answer, and the table forgets what was used longest ago
\* (handle_prompt, evict_lru_session_if_needed).
THEOREM TableInvariant == AcpSpec => []TableInv
<1>1. TableIndInv => TableInv
  <2> SUFFICES ASSUME TableIndInv PROVE TableInv
    OBVIOUS
  <2> USE DEF TableIndInv
  <2>1. ForgottenIsOldest
    <3> SUFFICES ASSUME NEW s \in ToSet(recent) \ slots, NEW o \in slots
                 PROVE  LastUse(s) < LastUse(o)
      BY DEF ForgottenIsOldest, TableShape
    <3>1. recent \in Seq(Sessions)
      BY DEF AcpTypeOK
    <3>2. PICK i \in 1..Len(recent) : recent[i] = s
      BY <3>1 DEF ToSet
    <3>3. PICK j \in 1..Len(recent) : recent[j] = o
      BY DEF TableShape
    <3>4. i < j
      BY <3>2, <3>3 DEF TableShape
    <3> QED
      BY <3>1, <3>2, <3>3, <3>4, PositionOfUse
  <2> QED
    BY <2>1 DEF TableInv
<1> QED
  BY <1>1, InitTableIndInv, TableIndStep, PTL DEF AcpSpec

=============================================================================
