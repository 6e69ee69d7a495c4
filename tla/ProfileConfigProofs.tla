------------------------ MODULE ProfileConfigProofs ------------------------
(***************************************************************************)
(* Proofs about the configuration document, the forms and `.env`, and      *)
(* about the files of a profile and the commands that change them.         *)
(*                                                                         *)
(* ConfigForms, for any servers, keys, secrets, browsers and writers: what *)
(* a stored document may hold follows from what every save looks at        *)
(* (DocumentShape), what a put makes of a marker from the shape of a form, *)
(* however it was edited (WireShape), and what `.env` holds from the lines *)
(* its one writer has read (EnvShape).                                     *)
(*                                                                         *)
(* ProfileFiles, for any skills, commanders, commands and kills: what is   *)
(* left of a command is a list of operations in which pairs stay together  *)
(* and what may fail comes last (Planned), and where no two commands       *)
(* overlapped the files are those that the operations so far make of what  *)
(* the command found (Ordinary, and Untroubled where nothing went wrong).  *)
(***************************************************************************)
EXTENDS ProfileConfig, WellFoundedInduction, TLAPS

\* The fields of a server in a form, and of a document.
WireShape(r) ==
    DOMAIN r = {"name", "tag", "command", "url", "env", "headers", "auth", "extra", "timeout"}
SectionsShape(c) ==
    DOMAIN c = {"key", "keyEnv", "mcp", "tokens", "cost", "billing", "handlers", "shaped", "access"}
FormShape(c) == SectionsShape(c) /\ \A r \in c.mcp : WireShape(r)

NoMarkers(servers) ==
    \A s \in servers : s.auth # Marker /\ \A k \in Keys : s.entries[k] # Marker

DocumentShape ==
    /\ SectionsShape(document) /\ NoMarkers(document.mcp)
    /\ \A s, t \in document.mcp : s.name = t.name => s = t
    /\ DocumentSound
    /\ DOMAIN form = Forms
    /\ \A f \in Forms : form[f] = <<>> \/ \E c : form[f] = <<c>> /\ FormShape(c)

\* What was acknowledged last is in the lines.
Keeps(lines) == \A k \in Keys : ValueIn(lines, k) = acked[k]

EnvLine == [name : Keys \cup {"#"}, value : Secrets \cup {""}]
Lines == Seq(EnvLine)
WriterStates ==
    [at : {"idle"}, key : {None}, value : {None}, lines : {<<>>}]
    \cup [at : {"read", "truncated"}, key : Keys, value : Secrets, lines : Lines]

\* While one writer writes, what was acknowledged is in the lines it has read.
EnvShape ==
    /\ dotenv \in Lines /\ writer \in [Writers -> WriterStates]
    /\ DOMAIN acked = Keys /\ spoilt \in BOOLEAN
    /\ ~spoilt =>
         /\ \A w, u \in Writing : w = u
         /\ Writing = {} => Keeps(dotenv)
         /\ \A w \in Writing : /\ Keeps(writer[w].lines)
                               /\ writer[w].at = "read" => writer[w].lines = dotenv

FormsIndInv == DocumentShape /\ EnvShape

-----------------------------------------------------------------------------
(* The stored document                                                     *)

LEMMA SecretsAreNoMarks ==
    /\ None # Marker /\ None \notin Secrets /\ Marker \notin Secrets /\ "" \notin Secrets
    /\ \E v : v \in Secrets
BY FormsAssumption DEF None, Marker

\* What every command does that stores a document it has made.
LEMMA SaveKeeps ==
    ASSUME DocumentShape, NEW c, SectionsShape(c), NoMarkers(c.mcp), Save(c)
    PROVE  DocumentShape'
<1>1. UNCHANGED form /\ document' \in {document, c}
  BY DEF Save
<1>2. CASE document' = document
  BY <1>1, <1>2 DEF DocumentShape, SectionsShape, NoMarkers, DocumentSound, FormShape, WireShape
<1>3. CASE document' = c /\ Valid(c) /\ Safe(c)
  <2>1. \A s, u \in c.mcp : s.name = u.name => s = u
    BY <1>3 DEF Valid, ServersValid
  <2>2. \A s \in c.mcp : Marker \notin {s.auth} \cup {s.entries[k] : k \in Keys}
    BY DEF NoMarkers
  <2>3. c.billing.server \in {None} \cup ({s.name : s \in c.mcp} \ c.handlers)
    BY <1>3 DEF Valid, DedicatedBilling
  <2>4. c.cost \in {None, c.billing.currency}
    BY <1>3 DEF Valid, SectionsValid
  <2>5. c.key = None
    BY <1>3 DEF Safe
  <2>6. DocumentSound'
    BY <1>3, <2>2, <2>3, <2>4, <2>5 DEF DocumentSound
  <2> QED
    BY <1>1, <1>3, <2>1, <2>6 DEF DocumentShape, SectionsShape, NoMarkers, FormShape, WireShape
<1> QED
  BY <1>1, <1>2, <1>3 DEF Save

\* A command that is no put leaves the entries of the servers that keep their transport.
Kept ==
    \A p \in document.mcp, q \in document'.mcp : p.name = q.name /\ p.kind = q.kind => q.entries = p.entries

LEMMA OtherSections ==
    ASSUME DocumentShape, NEW c, SectionsShape(c), c.mcp = document.mcp, Save(c)
    PROVE  DocumentShape' /\ Kept
<1>1. NoMarkers(c.mcp)
  BY DEF DocumentShape
<1>2. document'.mcp = document.mcp
  BY DEF Save
<1> QED
  BY <1>1, <1>2, SaveKeeps DEF DocumentShape, Kept

LEMMA McpAddKeeps ==
    ASSUME DocumentShape, NEW n \in Names, NEW command \in BOOLEAN, NEW k \in Keys, NEW v \in Secrets,
           McpAdd(n, command, [NoEntries EXCEPT ![k] = v])
    PROVE  DocumentShape' /\ Kept
<1> DEFINE entries == [NoEntries EXCEPT ![k] = v]
           s == IF command THEN Stdio(n, entries, FALSE) ELSE Http(n, entries, None)
           c == [document EXCEPT !.mcp = @ \cup {s}]
<1>1. Save(c) /\ \A p \in document.mcp : p.name # n
  BY DEF McpAdd
<1>2. \A key \in Keys : entries[key] # Marker
  BY SecretsAreNoMarks DEF NoEntries
<1> HIDE DEF entries
<1>3. s.name = n /\ s.auth = None /\ s.entries = entries
  BY DEF Stdio, Http
<1> HIDE DEF s
<1>4. SectionsShape(c) /\ c.mcp = document.mcp \cup {s}
  BY DEF DocumentShape, SectionsShape
<1> HIDE DEF c
<1>5. NoMarkers(c.mcp)
  BY <1>2, <1>3, <1>4, SecretsAreNoMarks DEF DocumentShape, NoMarkers
<1>6. Kept
  BY <1>1, <1>3, <1>4 DEF Save, Kept, DocumentShape
<1> QED
  BY <1>1, <1>4, <1>5, <1>6, SaveKeeps

LEMMA McpSetKeeps ==
    ASSUME DocumentShape, NEW s \in document.mcp, NEW flag \in {None, "command", "url"}, NEW time,
           McpSet(s, flag, time)
    PROVE  DocumentShape' /\ Kept
<1> DEFINE new == Rebuilt(s, flag, time).server
           c == [document EXCEPT !.mcp = (@ \ {s}) \cup {new}]
<1>1. Save(c)
  BY DEF McpSet
<1>2. /\ new.name = s.name /\ new.auth = None
      /\ new.entries \in {s.entries, NoEntries}
      /\ new.kind = s.kind => new.entries = s.entries
  BY DEF Rebuilt, Built, Stdio, Http, None
<1> HIDE DEF new
<1>3. SectionsShape(c) /\ c.mcp = (document.mcp \ {s}) \cup {new}
  BY DEF DocumentShape, SectionsShape
<1> HIDE DEF c
<1>4. \A key \in Keys : new.entries[key] # Marker
  BY <1>2, SecretsAreNoMarks DEF NoEntries, DocumentShape, NoMarkers
<1>5. NoMarkers(c.mcp)
  BY <1>2, <1>3, <1>4, SecretsAreNoMarks DEF DocumentShape, NoMarkers
<1>6. Kept
  BY <1>1, <1>2, <1>3 DEF Save, Kept, DocumentShape
<1> QED
  BY <1>1, <1>3, <1>5, <1>6, SaveKeeps

LEMMA McpRemoveKeeps ==
    ASSUME DocumentShape, NEW s \in document.mcp, McpRemove(s)
    PROVE  DocumentShape' /\ Kept
<1> DEFINE c == [document EXCEPT !.mcp = @ \ {s}]
<1>1. Save(c)
  BY DEF McpRemove
<1>2. SectionsShape(c) /\ c.mcp = document.mcp \ {s}
  BY DEF DocumentShape, SectionsShape
<1> HIDE DEF c
<1>3. NoMarkers(c.mcp)
  BY <1>2 DEF DocumentShape, NoMarkers
<1>4. Kept
  BY <1>1, <1>2 DEF Save, Kept, DocumentShape
<1> QED
  BY <1>1, <1>2, <1>3, <1>4, SaveKeeps

LEMMA SectionEditsKeep ==
    ASSUME DocumentShape, EditSections \/ EditAccess
    PROVE  DocumentShape' /\ Kept
<1> USE DEF SectionsShape
<1>1. SectionsShape(document)
  BY DEF DocumentShape
<1>2. ASSUME NEW currency, NEW server, BillingSet(currency, server) PROVE DocumentShape' /\ Kept
  BY <1>1, <1>2, OtherSections DEF BillingSet
<1>3. ASSUME NEW handlers, NEW shaped, EventSet(handlers, shaped) PROVE DocumentShape' /\ Kept
  BY <1>1, <1>3, OtherSections DEF EventSet
<1>4. ASSUME NEW tokens, NEW cost, LimitsSet(tokens, cost) PROVE DocumentShape' /\ Kept
  BY <1>1, <1>4, OtherSections DEF LimitsSet
<1>5. ASSUME NEW keyEnv, ProviderSet(keyEnv) PROVE DocumentShape' /\ Kept
  BY <1>1, <1>5, OtherSections DEF ProviderSet
<1>6. ASSUME NEW a, AccessSet(a) PROVE DocumentShape' /\ Kept
  BY <1>1, <1>6, OtherSections DEF AccessSet
<1>7. ASSUME NEW x, Save([document EXCEPT !.access.builtins = x]) PROVE DocumentShape' /\ Kept
  BY <1>1, <1>7, OtherSections
<1>8. ASSUME NEW b, BuiltinsAdd(b) \/ BuiltinsRemove(b) PROVE DocumentShape' /\ Kept
  BY <1>7, <1>8 DEF BuiltinsAdd, BuiltinsRemove
<1> QED
  BY <1>2, <1>3, <1>4, <1>5, <1>6, <1>8 DEF EditSections, EditAccess

-----------------------------------------------------------------------------
(* The forms                                                               *)

LEMMA FormFetched ==
    ASSUME DocumentShape, NEW f \in Forms, Get(f)
    PROVE  DocumentShape' /\ Kept
<1>1. UNCHANGED document /\ form' = [form EXCEPT ![f] = <<View(document)>>]
  BY DEF Get
<1>2. FormShape(View(document))
  <2>1. SectionsShape(View(document)) /\ View(document).mcp = {ServerView(s) : s \in document.mcp}
    BY DEF View, DocumentShape, SectionsShape
  <2>2. \A s : WireShape(ServerView(s))
    BY DEF ServerView, WireShape
  <2> QED
    BY <2>1, <2>2 DEF FormShape
<1>3. DOMAIN form' = Forms /\ \A g \in Forms : form'[g] = <<>> \/ \E c : form'[g] = <<c>> /\ FormShape(c)
  BY <1>1, <1>2 DEF DocumentShape
<1>4. DocumentShape'
  BY <1>1, <1>3 DEF DocumentShape, SectionsShape, NoMarkers, DocumentSound, FormShape, WireShape
<1> QED
  BY <1>1, <1>4 DEF DocumentShape, Kept

\* An edited form has the fields of a form.
LEMMA EditsKeepShape ==
    ASSUME NEW base, FormShape(base), NEW doc \in FormEdits(base)
    PROVE  FormShape(doc)
<1>1. ASSUME NEW r \in base.mcp, NEW edited \in ServerEdits(r) PROVE WireShape(edited)
  <2> USE DEF WireShape
  <2>1. WireShape(r)
    BY DEF FormShape
  <2>2. CASE edited \in {[r EXCEPT !.name = n] : n \in Names}
    BY <2>1, <2>2
  <2>3. CASE edited \in {[r EXCEPT !.env[k] = v] : k \in Keys, v \in Secrets \cup {Marker, None}}
    BY <2>1, <2>3
  <2>4. CASE edited \in {[r EXCEPT !.headers[k] = v] : k \in Keys, v \in {Marker, None}}
    BY <2>1, <2>4
  <2>5. CASE edited \in {[r EXCEPT !.tag = IF @ = "stdio" THEN "http" ELSE "stdio",
                                   !.command = ~@, !.url = ~@, !.extra = FALSE]}
    BY <2>1, <2>5
  <2>6. CASE edited \in {[r EXCEPT !.tag = None, !.url = TRUE], [r EXCEPT !.timeout = 0]}
    BY <2>1, <2>6
  <2> HIDE DEF WireShape
  <2> QED
    BY <1>1, <2>2, <2>3, <2>4, <2>5, <2>6 DEF ServerEdits
<1>2. SectionsShape(base) /\ \A r \in base.mcp : WireShape(r)
  BY DEF FormShape
<1>3. CASE doc \in {base, [base EXCEPT !.tokens = 2]} \cup {[base EXCEPT !.key = s] : s \in Secrets \cup {""}}
  <2>1. SectionsShape(doc) /\ doc.mcp = base.mcp
    BY <1>2, <1>3 DEF SectionsShape
  <2> QED
    BY <1>2, <2>1 DEF FormShape
<1>4. ASSUME NEW m \in ServersEdited(base.mcp) PROVE \A r \in m : WireShape(r)
  BY <1>1, <1>2, <1>4 DEF ServersEdited
<1>5. ASSUME NEW m \in ServersEdited(base.mcp), doc = [base EXCEPT !.mcp = m] PROVE FormShape(doc)
  <2>1. SectionsShape(doc) /\ doc.mcp = m
    BY <1>2, <1>5 DEF SectionsShape
  <2> QED
    BY <1>4, <2>1 DEF FormShape
<1> QED
  BY <1>3, <1>5 DEF FormEdits

\* The form a browser holds, edited.
LEMMA EditedForm ==
    ASSUME DocumentShape, NEW f \in Forms, form[f] # <<>>, NEW doc \in FormEdits(form[f][1])
    PROVE  FormShape(doc)
<1>1. PICK c : form[f] = <<c>> /\ FormShape(c)
  BY DEF DocumentShape
<1>2. form[f][1] = c
  BY <1>1
<1> QED
  BY <1>1, <1>2, EditsKeepShape

LEMMA MergedFields ==
    ASSUME NEW doc, FormShape(doc), NEW clear
    PROVE  /\ SectionsShape(Merged(doc, clear))
           /\ Merged(doc, clear).mcp = {Parsed(MergedServer(r)) : r \in doc.mcp}
BY DEF Merged, FormShape, SectionsShape

LEMMA FormPut ==
    ASSUME DocumentShape, NEW f \in Forms, PutBack(f)
    PROVE  DocumentShape'
<1>1. PICK doc \in FormEdits(form[f][1]), clear \in BOOLEAN : form[f] # <<>> /\ Put(f, doc, clear)
  BY DEF PutBack
<1> DEFINE c == Merged(doc, clear)
<1>2. Save(c) /\ Merges(doc)
  BY <1>1 DEF Put
<1>3. FormShape(doc)
  BY <1>1, EditedForm
<1>4. SectionsShape(c) /\ c.mcp = {Parsed(MergedServer(r)) : r \in doc.mcp}
  BY <1>3, MergedFields
<1>5. ASSUME NEW m, Parses(m) PROVE Parsed(m).auth # Marker /\ \A k \in Keys : Parsed(m).entries[k] # Marker
  BY <1>5 DEF Parses, Parsed, HasMarker, MarkersOf
<1> HIDE DEF c
<1>6. NoMarkers(c.mcp)
  BY <1>2, <1>4, <1>5 DEF NoMarkers, Merges
<1> QED
  BY <1>2, <1>4, <1>6, SaveKeeps

\* What becomes of a server of a form that holds markers.
LEMMA MarkersRestored ==
    ASSUME NEW r, WireShape(r), HasMarker(r), ServerMerges(r), Parses(MergedServer(r))
    PROVE  \E p \in document.mcp :
              /\ p.name = r.name /\ Parsed(MergedServer(r)).name = r.name
              /\ \A k \in MarkersOf(r) : /\ Parsed(MergedServer(r)).entries[k] = p.entries[k]
                                         /\ Parsed(MergedServer(r)).entries[k] # None
              /\ r.auth = Marker => Parsed(MergedServer(r)).auth = p.auth
<1>1. Previous(r) # {}
  BY DEF ServerMerges
<1> DEFINE p == CHOOSE q \in Previous(r) : TRUE
           m == MergedServer(r)
<1>2. p \in Previous(r)
  BY <1>1
<1>3. m = RestoreServer(r, p)
  BY <1>1 DEF MergedServer
<1> HIDE DEF p, m
<1>4. p \in document.mcp /\ p.name = r.name
  BY <1>2 DEF Previous
<1>5. Restorable(IF p.kind = "stdio" THEN r.env ELSE r.headers, p.entries)
  BY <1>1, <1>2 DEF ServerMerges
<1>6. /\ m.auth # Marker /\ \A k \in Keys : m.env[k] # Marker /\ m.headers[k] # Marker
      /\ KindOf(m) = "stdio" => m.headers = NoEntries
      /\ KindOf(m) = "http" => m.env = NoEntries
      /\ KindOf(m) \in {"stdio", "http"}
  BY DEF Parses, HasMarker, MarkersOf, m
<1>7. /\ Parsed(m).name = m.name /\ Parsed(m).auth = m.auth
      /\ Parsed(m).entries = IF KindOf(m) = "stdio" THEN m.env ELSE m.headers
  BY DEF Parsed
<1>8. MarkersOf(r) \subseteq Keys /\ \A k \in MarkersOf(r) : r.env[k] = Marker \/ r.headers[k] = Marker
  BY DEF MarkersOf
<1>9. CASE p.kind = "stdio"
  <2>1. /\ m.env = Restored(r.env, p.entries) /\ m.headers = r.headers /\ m.auth = r.auth /\ m.name = r.name
    BY <1>3, <1>9 DEF RestoreServer, WireShape
  <2>2. \A k \in MarkersOf(r) : m.env[k] = p.entries[k] /\ p.entries[k] # None
    BY <1>5, <1>6, <1>8, <1>9, <2>1 DEF Restored, Restorable
  <2>3. \A k \in MarkersOf(r) : KindOf(m) = "stdio"
    BY <1>6, <1>8, <2>2 DEF NoEntries
  <2> QED
    BY <1>4, <1>6, <1>7, <2>1, <2>2, <2>3 DEF m
<1>10. CASE p.kind # "stdio"
  <2>1. /\ m.headers = Restored(r.headers, p.entries) /\ m.env = r.env /\ m.name = r.name
        /\ m.auth = IF r.auth = Marker THEN p.auth ELSE r.auth
    BY <1>3, <1>10 DEF RestoreServer, WireShape
  <2>2. \A k \in MarkersOf(r) : m.headers[k] = p.entries[k] /\ p.entries[k] # None
    BY <1>5, <1>6, <1>8, <1>10, <2>1 DEF Restored, Restorable
  <2>3. \A k \in MarkersOf(r) : KindOf(m) = "http"
    BY <1>6, <1>8, <2>2 DEF NoEntries
  <2> QED
    BY <1>4, <1>6, <1>7, <2>1, <2>2, <2>3 DEF m
<1> QED
  BY <1>9, <1>10

LEMMA PutsStand == ASSUME DocumentShape PROVE PutKeeps
<1> SUFFICES ASSUME NEW f \in Forms, form[f] # <<>>, NEW doc \in FormEdits(form[f][1]), NEW clear \in BOOLEAN,
                    Merges(doc), document' = Merged(doc, clear), NEW r \in doc.mcp, HasMarker(r)
             PROVE  \E p \in document.mcp, q \in document'.mcp :
                       /\ p.name = r.name /\ q.name = r.name
                       /\ \A k \in MarkersOf(r) : q.entries[k] = p.entries[k] /\ q.entries[k] # None
                       /\ r.auth = Marker => q.auth = p.auth
  BY DEF PutKeeps, MarkersStand
<1>1. FormShape(doc)
  BY EditedForm
<1>2. Parsed(MergedServer(r)) \in document'.mcp
  BY <1>1, MergedFields
<1> QED
  BY <1>1, <1>2, MarkersRestored DEF FormShape, Merges

-----------------------------------------------------------------------------
(* The lines of `.env`                                                     *)

\* The lines that define a key.
Positions(lines, k) == {i \in DOMAIN lines : lines[i].name = k}

LEMMA LeastExists ==
    ASSUME NEW S \in SUBSET Nat, S # {}
    PROVE  Min(S) \in S /\ \A i \in S : Min(S) <= i
<1> DEFINE Less == {ss \in Nat \X Nat : ss[1] < ss[2]}
<1>1. IsWellFoundedOn(Less, Nat)
  BY NatLessThanWellFounded DEF OpToRel
<1>2. PICK i \in S : TRUE
  OBVIOUS
<1>3. \E x \in S : \A y \in S : ~(<<y, x>> \in Less)
  <2> HIDE DEF Less
  <2> QED
    BY <1>1, <1>2, WFMin, Zenon
<1>4. PICK x \in S : \A y \in S : ~(<<y, x>> \in Less)
  BY <1>3
<1>5. ASSUME NEW y \in S PROVE x <= y
  <2>1. <<y, x>> \in Nat \X Nat /\ <<y, x>>[1] = y /\ <<y, x>>[2] = x
    OBVIOUS
  <2>2. ~(y < x)
    BY <1>4, <2>1
  <2> QED
    BY <2>2
<1> QED
  BY <1>5 DEF Min

LEMMA ValueFound ==
    ASSUME NEW lines \in Lines, NEW k
    PROVE  /\ Positions(lines, k) = {} => ValueIn(lines, k) = None
           /\ Positions(lines, k) # {} => /\ Min(Positions(lines, k)) \in Positions(lines, k)
                                          /\ ValueIn(lines, k) = lines[Min(Positions(lines, k))].value
<1>1. Positions(lines, k) \in SUBSET Nat
  <2>1. DOMAIN lines = 1..Len(lines)
    BY DEF Lines
  <2> QED
    BY <2>1 DEF Positions
<1> QED
  BY <1>1, LeastExists DEF Positions, ValueIn

\* An upserted key has the value it was given, every other key the one it had.
LEMMA UpsertedValue ==
    ASSUME NEW lines \in Lines, NEW k \in Keys, NEW v \in Secrets
    PROVE  /\ Upserted(lines, k, v) \in Lines
           /\ \A other : ValueIn(Upserted(lines, k, v), other) = IF other = k THEN v ELSE ValueIn(lines, other)
<1> DEFINE new == Upserted(lines, k, v)
<1>1. /\ lines \in Seq(EnvLine) /\ Len(lines) \in Nat /\ DOMAIN lines = 1..Len(lines)
      /\ \A i \in 1..Len(lines) : lines[i] \in EnvLine
  BY DEF Lines
<1>2. Line(k, v) \in EnvLine /\ Line(k, v).name = k /\ Line(k, v).value = v
  BY DEF Line, EnvLine
<1>3. CASE Positions(lines, k) # {}
  <2>1. new = [i \in DOMAIN lines |-> IF lines[i].name = k THEN Line(k, v) ELSE lines[i]]
    BY <1>3 DEF Upserted, Positions
  <2> HIDE DEF new
  <2>2. new \in Lines /\ DOMAIN new = DOMAIN lines
    <3>1. \A i \in 1..Len(lines) : new[i] \in EnvLine
      BY <1>1, <1>2, <2>1
    <3>2. DOMAIN new = 1..Len(lines) /\ new = [i \in 1..Len(lines) |-> new[i]]
      BY <1>1, <2>1
    <3> QED
      BY <1>1, <3>1, <3>2 DEF Lines
  <2>3. \A i \in DOMAIN lines : new[i] = IF lines[i].name = k THEN Line(k, v) ELSE lines[i]
    BY <2>1
  <2>4. ASSUME NEW other PROVE Positions(new, other) = Positions(lines, other)
    BY <1>2, <2>2, <2>3 DEF Positions
  <2>5. ASSUME NEW other PROVE ValueIn(new, other) = IF other = k THEN v ELSE ValueIn(lines, other)
    <3>1. CASE Positions(lines, other) = {}
      BY <1>3, <2>2, <2>4, <3>1, ValueFound
    <3>2. CASE Positions(lines, other) # {}
      <4> DEFINE m == Min(Positions(lines, other))
      <4>1. /\ m \in Positions(lines, other) /\ ValueIn(lines, other) = lines[m].value
            /\ ValueIn(new, other) = new[m].value
        BY <2>2, <2>4, <3>2, ValueFound
      <4>2. m \in DOMAIN lines /\ lines[m].name = other
        BY <4>1 DEF Positions
      <4> QED
        BY <1>2, <2>3, <4>1, <4>2
    <3> QED
      BY <3>1, <3>2
  <2> QED
    BY <2>2, <2>5 DEF new
<1>4. CASE Positions(lines, k) = {}
  <2>1. [i \in DOMAIN lines |-> IF lines[i].name = k THEN Line(k, v) ELSE lines[i]] = lines
    <3>1. [i \in DOMAIN lines |-> IF lines[i].name = k THEN Line(k, v) ELSE lines[i]] = [i \in DOMAIN lines |-> lines[i]]
      BY <1>4 DEF Positions
    <3> QED
      BY <1>1, <3>1
  <2>2. new = Append(lines, Line(k, v))
    BY <1>4, <2>1 DEF Upserted, Positions
  <2> HIDE DEF new
  <2>3. /\ new \in Lines /\ DOMAIN new = 1..(Len(lines) + 1) /\ Len(lines) \in Nat
        /\ new[Len(lines) + 1] = Line(k, v) /\ DOMAIN lines = 1..Len(lines)
        /\ \A i \in DOMAIN lines : new[i] = lines[i]
    BY <1>1, <1>2, <2>2 DEF Lines
  <2>4. ASSUME NEW other, other # k PROVE Positions(new, other) = Positions(lines, other)
    BY <1>2, <2>3, <2>4 DEF Positions
  <2>5. ASSUME NEW other, other # k PROVE ValueIn(new, other) = ValueIn(lines, other)
    <3>1. CASE Positions(lines, other) = {}
      BY <2>3, <2>4, <2>5, <3>1, ValueFound
    <3>2. CASE Positions(lines, other) # {}
      <4> DEFINE m == Min(Positions(lines, other))
      <4>1. /\ m \in Positions(lines, other) /\ ValueIn(lines, other) = lines[m].value
            /\ ValueIn(new, other) = new[m].value
        BY <2>3, <2>4, <2>5, <3>2, ValueFound
      <4>2. m \in DOMAIN lines
        BY <4>1 DEF Positions
      <4> QED
        BY <2>3, <4>1, <4>2
    <3> QED
      BY <3>1, <3>2
  <2>6. ValueIn(new, k) = v
    <3>1. Positions(new, k) = {Len(lines) + 1}
      BY <1>2, <1>4, <2>3 DEF Positions
    <3>2. Min(Positions(new, k)) = Len(lines) + 1
      BY <2>3, <3>1, ValueFound
    <3> QED
      BY <1>2, <2>3, <3>1, <3>2, ValueFound
  <2> QED
    BY <2>3, <2>5, <2>6 DEF new
<1> QED
  BY <1>3, <1>4

-----------------------------------------------------------------------------
(* The writers of `.env`                                                   *)

LEMMA WriterShape ==
    ASSUME EnvShape, NEW w \in Writers, writer[w].at # "idle"
    PROVE  /\ writer[w].key \in Keys /\ writer[w].value \in Secrets /\ writer[w].lines \in Lines
           /\ \A a \in {"read", "truncated"} : [writer[w] EXCEPT !.at = a] \in WriterStates
           /\ \A a : /\ [writer[w] EXCEPT !.at = a].at = a
                     /\ [writer[w] EXCEPT !.at = a].lines = writer[w].lines
<1>1. writer[w] \in [at : {"read", "truncated"}, key : Keys, value : Secrets, lines : Lines]
  BY DEF EnvShape, WriterStates
<1> QED
  BY <1>1 DEF WriterStates

LEMMA RestIsWriterState == AtRest \in WriterStates /\ AtRest.at = "idle"
BY DEF WriterStates, AtRest

\* As long as nothing is spoilt a writer is alone, and has read what is acknowledged.
LEMMA AloneWriter ==
    ASSUME EnvShape, ~spoilt, NEW w \in Writers, writer[w].at # "idle"
    PROVE  /\ Writing = {w} /\ Keeps(writer[w].lines)
           /\ writer[w].at = "read" => Keeps(dotenv)
<1>1. w \in Writing
  BY DEF Writing
<1>2. \A u \in Writing : u = w
  BY <1>1, Zenon DEF EnvShape
<1>3. \A u \in Writing : Keeps(writer[u].lines) /\ (writer[u].at = "read" => writer[u].lines = dotenv)
  BY Zenon DEF EnvShape
<1> QED
  BY <1>1, <1>2, <1>3 DEF Keeps

LEMMA SecretSetKeeps ==
    ASSUME EnvShape, NEW w \in Writers, NEW k \in Keys, NEW v \in Secrets \cup {""}, SecretSet(w, k, v)
    PROVE  EnvShape'
<1> DEFINE new == [at |-> "read", key |-> k, value |-> v, lines |-> dotenv]
<1>1. /\ writer' = [writer EXCEPT ![w] = new] /\ spoilt' = (spoilt \/ Writing # {})
      /\ dotenv' = dotenv /\ acked' = acked /\ v # ""
  BY DEF SecretSet
<1>2. dotenv \in Lines /\ writer \in [Writers -> WriterStates] /\ DOMAIN acked = Keys /\ spoilt \in BOOLEAN
  BY DEF EnvShape
<1>3. new \in WriterStates
  BY <1>1, <1>2 DEF WriterStates
<1>4. new.at = "read" /\ new.lines = dotenv
  OBVIOUS
<1> HIDE DEF new
<1>5. writer' \in [Writers -> WriterStates]
  BY <1>1, <1>2, <1>3
<1>6. spoilt' \in BOOLEAN
  BY <1>1, <1>2
<1>7. CASE ~spoilt'
  <2>1. ~spoilt /\ Writing = {}
    BY <1>1, <1>2, <1>7
  <2>2. Keeps(dotenv)
    BY <2>1 DEF EnvShape
  <2>3. Writing' = {w} /\ writer'[w] = new
    BY <1>1, <1>2, <1>4, <2>1 DEF Writing
  <2>4. Keeps(dotenv)'
    BY <1>1, <2>2 DEF Keeps
  <2>5. Keeps(writer[w].lines)'
    BY <1>1, <1>4, <2>3, <2>4 DEF Keeps
  <2> QED
    BY <1>1, <1>2, <1>4, <1>5, <1>6, <2>3, <2>5 DEF EnvShape
<1>8. CASE spoilt'
  BY <1>1, <1>2, <1>5, <1>6, <1>8 DEF EnvShape
<1> QED
  BY <1>7, <1>8

LEMMA TruncateKeeps ==
    ASSUME EnvShape, NEW w \in Writers, TruncateEnv(w)
    PROVE  EnvShape'
<1> DEFINE new == [writer[w] EXCEPT !.at = "truncated"]
<1>1. /\ writer' = [writer EXCEPT ![w] = new] /\ writer[w].at = "read" /\ dotenv' = <<>>
      /\ acked' = acked /\ spoilt' = spoilt
  BY DEF TruncateEnv
<1>2. writer \in [Writers -> WriterStates] /\ DOMAIN acked = Keys /\ spoilt \in BOOLEAN
  BY DEF EnvShape
<1>3. new \in WriterStates /\ new.at = "truncated" /\ new.lines = writer[w].lines
  BY <1>1, WriterShape
<1> HIDE DEF new
<1>4. writer' \in [Writers -> WriterStates] /\ dotenv' \in Lines
  BY <1>1, <1>2, <1>3 DEF Lines
<1>5. Writing' = Writing
  BY <1>1, <1>2, <1>3 DEF Writing
<1>6. CASE ~spoilt
  <2>1. Writing = {w} /\ Keeps(writer[w].lines)
    BY <1>1, <1>6, AloneWriter
  <2>2. writer'[w] = new
    BY <1>1, <1>2
  <2>3. Keeps(writer[w].lines)'
    BY <1>1, <1>3, <2>1, <2>2 DEF Keeps
  <2> QED
    BY <1>1, <1>2, <1>3, <1>4, <1>5, <2>1, <2>2, <2>3 DEF EnvShape
<1>7. CASE spoilt
  BY <1>1, <1>2, <1>4, <1>7 DEF EnvShape
<1> QED
  BY <1>2, <1>6, <1>7

LEMMA FillKeeps ==
    ASSUME EnvShape, NEW w \in Writers, FillEnv(w)
    PROVE  EnvShape'
<1> DEFINE lines == writer[w].lines
           k == writer[w].key
           v == writer[w].value
<1>1. /\ writer' = [writer EXCEPT ![w] = AtRest] /\ writer[w].at = "truncated"
      /\ dotenv' = Upserted(lines, k, v) /\ acked' = [acked EXCEPT ![k] = v] /\ spoilt' = spoilt
  BY DEF FillEnv
<1>2. writer \in [Writers -> WriterStates] /\ DOMAIN acked = Keys /\ spoilt \in BOOLEAN
  BY DEF EnvShape
<1>3. k \in Keys /\ v \in Secrets /\ lines \in Lines
  BY <1>1, WriterShape
<1>4. writer' \in [Writers -> WriterStates] /\ DOMAIN acked' = Keys
  BY <1>1, <1>2, RestIsWriterState
<1>5. dotenv' \in Lines
  BY <1>1, <1>3, UpsertedValue
<1>6. CASE ~spoilt
  <2>1. Writing = {w} /\ Keeps(lines)
    BY <1>1, <1>6, AloneWriter
  <2>2. Writing' = {}
    BY <1>1, <1>2, <2>1, RestIsWriterState DEF Writing
  <2>3. ASSUME NEW x \in Keys PROVE ValueIn(dotenv', x) = acked'[x]
    <3>1. ValueIn(dotenv', x) = IF x = k THEN v ELSE ValueIn(lines, x)
      BY <1>1, <1>3, UpsertedValue
    <3>2. ValueIn(lines, x) = acked[x]
      BY <2>1 DEF Keeps
    <3> QED
      BY <1>1, <1>2, <3>1, <3>2
  <2>4. Keeps(dotenv)'
    BY <2>3 DEF Keeps, ValueIn
  <2> QED
    BY <1>1, <1>2, <1>4, <1>5, <2>2, <2>4 DEF EnvShape
<1>7. CASE spoilt
  BY <1>1, <1>2, <1>4, <1>5, <1>7 DEF EnvShape
<1> QED
  BY <1>2, <1>6, <1>7

LEMMA KillKeeps ==
    ASSUME EnvShape, NEW w \in Writers, KillWriter(w)
    PROVE  EnvShape'
<1>1. /\ writer' = [writer EXCEPT ![w] = AtRest] /\ w \in Writing
      /\ spoilt' = (spoilt \/ writer[w].at = "truncated") /\ dotenv' = dotenv /\ acked' = acked
  BY DEF KillWriter
<1>2. dotenv \in Lines /\ writer \in [Writers -> WriterStates] /\ DOMAIN acked = Keys /\ spoilt \in BOOLEAN
  BY DEF EnvShape
<1>3. writer' \in [Writers -> WriterStates] /\ spoilt' \in BOOLEAN
  BY <1>1, <1>2, RestIsWriterState
<1>4. CASE ~spoilt'
  <2>1. ~spoilt /\ writer[w].at # "truncated"
    BY <1>1, <1>2, <1>4
  <2>2. writer[w].at = "read"
    BY <1>1, <1>2, <2>1 DEF Writing, WriterStates
  <2>3. Writing = {w} /\ Keeps(dotenv)
    BY <2>1, <2>2, AloneWriter
  <2>4. Writing' = {}
    BY <1>1, <1>2, <2>3, RestIsWriterState DEF Writing
  <2>5. Keeps(dotenv)'
    BY <1>1, <2>3 DEF Keeps
  <2> QED
    BY <1>1, <1>2, <1>3, <2>4, <2>5 DEF EnvShape
<1>5. CASE spoilt'
  BY <1>1, <1>2, <1>3, <1>5 DEF EnvShape
<1> QED
  BY <1>4, <1>5

\* What leaves the file, its writers and what was acknowledged.
LEMMA EnvStays == ASSUME EnvShape, UNCHANGED <<dotenv, writer, acked, spoilt>> PROVE EnvShape'
BY DEF EnvShape, Writing, Keeps

LEMMA DocumentStays == ASSUME DocumentShape, UNCHANGED <<document, form>> PROVE DocumentShape' /\ Kept
BY DEF DocumentShape, SectionsShape, NoMarkers, DocumentSound, FormShape, WireShape, Kept

-----------------------------------------------------------------------------
(* The invariant                                                           *)

LEMMA WrittenShape ==
    ASSUME NEW c \in Written
    PROVE  /\ SectionsShape(c) /\ NoMarkers(c.mcp)
           /\ \A s, u \in c.mcp : s.name = u.name => s = u
           /\ c.billing.server \in {None} \cup ({s.name : s \in c.mcp} \ c.handlers)
           /\ c.cost = None
<1> DEFINE n == CHOOSE x \in Names \ Reserved : TRUE
           k == CHOOSE x \in Keys : TRUE
           v == CHOOSE x \in Secrets : TRUE
           full == [NoEntries EXCEPT ![k] = v]
           headers == [x \in Keys |-> IF x = k THEN v ELSE ""]
<1>1. v \in Secrets
  BY SecretsAreNoMarks
<1>2. v # Marker /\ None # Marker /\ "" # Marker
  BY <1>1, SecretsAreNoMarks DEF Marker
<1>3. PICK key, s, billing : c = Document(key, {s}, billing) /\ billing \in {None, s.name}
                             /\ s \in {Stdio(n, full, TRUE), Http(n, headers, v), Http(n, NoEntries, v)}
  <2>1. c \in {Document(None, {Stdio(n, full, TRUE)}, n), Document(None, {Http(n, headers, v)}, None),
               Document(v, {Http(n, NoEntries, v)}, None)}
    BY Zenon DEF Written
  <2>2. Stdio(n, full, TRUE).name = n
    BY DEF Stdio
  <2> HIDE DEF n, full, headers, v
  <2> QED
    BY <2>1, <2>2
<1>4. s.auth # Marker /\ \A x \in Keys : s.entries[x] # Marker
  <2> HIDE DEF n, k, v
  <2>1. \A x \in Keys : full[x] # Marker /\ headers[x] # Marker /\ NoEntries[x] # Marker
    BY <1>2 DEF NoEntries
  <2> HIDE DEF full, headers
  <2>2. \A e : /\ Stdio(n, e, TRUE).auth = None /\ Stdio(n, e, TRUE).entries = e
               /\ Http(n, e, v).auth = v /\ Http(n, e, v).entries = e
    BY DEF Stdio, Http
  <2>3. s \in {Stdio(n, full, TRUE), Http(n, headers, v), Http(n, NoEntries, v)}
    BY <1>3
  <2>4. s.auth \in {None, v} /\ s.entries \in {full, headers, NoEntries}
    BY <2>2, <2>3, Zenon
  <2>5. s.auth # Marker
    BY <1>2, <2>4
  <2> HIDE DEF NoEntries
  <2> QED
    BY <2>1, <2>4, <2>5
<1>5. /\ SectionsShape(c) /\ c.mcp = {s} /\ c.billing.server = billing /\ c.handlers = {} /\ c.cost = None
  BY <1>3 DEF Document, SectionsShape
<1> QED
  BY <1>3, <1>4, <1>5 DEF NoMarkers

LEMMA FormsStart == FormsInit => FormsIndInv
<1> SUFFICES ASSUME FormsInit PROVE DocumentShape /\ EnvShape
  BY DEF FormsIndInv
<1>1. DocumentShape
  <2>1. document \in Written /\ form = [f \in Forms |-> <<>>]
    BY DEF FormsInit
  <2>2. DocumentSound
    BY <2>1, WrittenShape DEF DocumentSound, NoMarkers
  <2> QED
    BY <2>1, <2>2, WrittenShape DEF DocumentShape
<1>2. EnvShape
  <2>1. PICK k \in Keys, v \in Secrets : dotenv = <<Line(k, v), Comment, Line(k, "")>>
    BY SecretsAreNoMarks, FormsAssumption DEF FormsInit
  <2>2. Line(k, v) \in EnvLine /\ Comment \in EnvLine /\ Line(k, "") \in EnvLine
    BY DEF Line, Comment, EnvLine
  <2>3. dotenv \in Lines
    <3>1. \A a, b, c \in EnvLine : <<a, b, c>> \in Seq(EnvLine)
      OBVIOUS
    <3> QED
      BY <2>1, <2>2, <3>1, Zenon DEF Lines
  <2>4. /\ acked = [x \in Keys |-> ValueIn(dotenv, x)] /\ writer = [w \in Writers |-> AtRest]
        /\ spoilt = FALSE
    BY DEF FormsInit
  <2>5. Writing = {} /\ writer \in [Writers -> WriterStates]
    BY <2>4, RestIsWriterState DEF Writing
  <2>6. Keeps(dotenv)
    BY <2>4 DEF Keeps
  <2> QED
    BY <2>3, <2>4, <2>5, <2>6 DEF EnvShape
<1> QED
  BY <1>1, <1>2

\* What a step may not do, but for a put.
StepKeeps == PutKeeps /\ EditKeeps

LEMMA KeptSuffices == ASSUME DocumentShape, Kept PROVE StepKeeps
BY PutsStand DEF StepKeeps, EditKeeps, Kept

LEMMA FormsStep ==
    ASSUME FormsIndInv, [FormsNext]_formVars
    PROVE  FormsIndInv' /\ StepKeeps
<1>1. DocumentShape /\ EnvShape
  BY DEF FormsIndInv
<1>2. ASSUME NEW f \in Forms, Get(f) PROVE FormsIndInv' /\ StepKeeps
  <2>1. UNCHANGED <<dotenv, writer, acked, spoilt>>
    BY <1>2 DEF Get
  <2> QED
    BY <1>1, <1>2, <2>1, FormFetched, EnvStays, KeptSuffices DEF FormsIndInv
<1>3. ASSUME NEW f \in Forms, PutBack(f) PROVE FormsIndInv' /\ StepKeeps
  <2>1. UNCHANGED <<dotenv, writer, acked, spoilt>>
    BY <1>3 DEF PutBack, Put, Save
  <2>2. EditKeeps
    BY <1>3 DEF EditKeeps
  <2> QED
    BY <1>1, <1>3, <2>1, <2>2, FormPut, EnvStays, PutsStand DEF FormsIndInv, StepKeeps
<1>4. CASE EditMcp
  <2>1. DocumentShape' /\ Kept
    BY <1>1, <1>4, McpAddKeeps, McpSetKeeps, McpRemoveKeeps DEF EditMcp
  <2>2. UNCHANGED <<dotenv, writer, acked, spoilt>>
    BY <1>4 DEF EditMcp, McpAdd, McpSet, McpRemove, Save
  <2> QED
    BY <1>1, <2>1, <2>2, EnvStays, KeptSuffices DEF FormsIndInv
<1>5. CASE EditSections \/ EditAccess
  <2>1. DocumentShape' /\ Kept
    BY <1>1, <1>5, SectionEditsKeep
  <2>2. UNCHANGED <<dotenv, writer, acked, spoilt>>
    BY <1>5 DEF EditSections, EditAccess, BillingSet, EventSet, LimitsSet, ProviderSet, AccessSet,
                BuiltinsAdd, BuiltinsRemove, Save
  <2> QED
    BY <1>1, <2>1, <2>2, EnvStays, KeptSuffices DEF FormsIndInv
<1>6. ASSUME NEW p, Vanish(p) PROVE FormsIndInv' /\ StepKeeps
  <2>1. UNCHANGED <<document, form, dotenv, writer, acked, spoilt>>
    BY <1>6 DEF Vanish
  <2> QED
    BY <1>1, <2>1, DocumentStays, EnvStays, KeptSuffices DEF FormsIndInv
<1>7. ASSUME NEW w \in Writers, WriteEnv(w) PROVE FormsIndInv' /\ StepKeeps
  <2>1. UNCHANGED <<document, form>>
    BY <1>7 DEF WriteEnv, SecretSet, TruncateEnv, FillEnv, KillWriter
  <2>2. EnvShape'
    BY <1>1, <1>7, SecretSetKeeps, TruncateKeeps, FillKeeps, KillKeeps DEF WriteEnv
  <2> QED
    BY <1>1, <2>1, <2>2, DocumentStays, KeptSuffices DEF FormsIndInv
<1>8. CASE UNCHANGED formVars
  <2>1. UNCHANGED <<document, form, dotenv, writer, acked, spoilt>>
    BY <1>8 DEF formVars
  <2> QED
    BY <1>1, <2>1, DocumentStays, EnvStays, KeptSuffices DEF FormsIndInv
<1> QED
  BY <1>2, <1>3, <1>4, <1>5, <1>6, <1>7, <1>8 DEF FormsNext

LEMMA ProfileConfigStep ==
    [ProfileConfigNext]_profileConfigVars => [FormsNext]_formVars
BY DEF ProfileConfigNext, profileConfigVars, formVars

(* The invariant, of the documents as they are explored beside the files.   *)
THEOREM FormsInvariant == ProfileConfigSpec => []FormsIndInv
<1>1. ProfileConfigInit => FormsIndInv
  BY FormsStart DEF ProfileConfigInit
<1>2. FormsIndInv /\ [ProfileConfigNext]_profileConfigVars => FormsIndInv'
  BY FormsStep, ProfileConfigStep
<1> QED
  BY <1>1, <1>2, PTL DEF ProfileConfigSpec

(* However commands, forms and writers interleave: the stored document      *)
(* holds no marker and no dangling or shared billing server, and what an    *)
(* undisturbed `secret set` acknowledged is what the first line says.       *)
THEOREM FormsStaySound == ProfileConfigSpec => []FormsSound
<1>1. FormsIndInv => FormsSound
  <2> SUFFICES ASSUME FormsIndInv PROVE DocumentSound /\ AckedIsStored
    BY DEF FormsSound
  <2>1. DocumentSound
    BY DEF FormsIndInv, DocumentShape
  <2>2. ASSUME Writing = {}, ~spoilt PROVE Keeps(dotenv)
    BY <2>2 DEF FormsIndInv, EnvShape
  <2>3. AckedIsStored
    BY <2>2 DEF AckedIsStored, Keeps
  <2> QED
    BY <2>1, <2>3
<1> QED
  BY <1>1, FormsInvariant, PTL

(* A marker in an accepted put stands for the value stored under the same   *)
(* server and key, and no other command changes the secrets of a server     *)
(* that keeps its transport (redact.rs merge_config_put, mcp.rs).           *)
THEOREM FormsKeepSecrets == ProfileConfigSpec => SecretsKept
<1>1. FormsIndInv /\ [ProfileConfigNext]_profileConfigVars => [PutKeeps /\ EditKeeps]_formVars
  BY FormsStep, ProfileConfigStep DEF StepKeeps
<1> QED
  BY <1>1, FormsInvariant, PTL DEF ProfileConfigSpec, SecretsKept

-----------------------------------------------------------------------------
(* The shapes of a profile, of an operation and of a command               *)

Trees == {"runtime", "legacy"}
Parts == {Dir, Body, Stray, Extra}
Settings == [there : BOOLEAN, limits : Limits, resolves : BOOLEAN]
Contents == SUBSET (Skills \cup {Words})
Texts == {t \in [Files -> Contents] : t["skills"] \subseteq Skills}
Folders == [Trees -> [Skills -> SUBSET Parts]]
Disks == [config : Settings, text : Texts, runtime : BOOLEAN, folder : Folders]

TextOps == {"stage", "rename", "drop", "fill"}
FolderOps == {"mkdir", "stage body", "rename body", "empty", "remove", "clear", "put file", "drop file"}
Ops ==
    [do : {"drop config", "reload config", "install", "verify"}]
    \cup [do : {"put config"}, config : Settings]
    \cup {x \in [do : TextOps, file : Files, content : Contents \ {{}}] :
             x.file = "skills" => x.content \subseteq Skills}
    \cup [do : FolderOps, where : Trees, skill : Skills]
    \cup [do : Loops, skills : SUBSET Skills]

ForOneSkill == {"remove", "body", "clear", "file"}
Cmds ==
    [op : {"none", "limits", "prompt", "add", "init"}]
    \cup [op : {"access"}, resolves : BOOLEAN]
    \cup [op : ForOneSkill \cup {"replace"}, skill : Skills]
    \cup [op : {"import"}, declares : (SUBSET Skills) \ {{}}, stored : SUBSET Skills,
          config : BOOLEAN, keep : BOOLEAN, live : BOOLEAN]

DiskTypes ==
    /\ config \in Settings /\ text \in Texts /\ tmp \in Texts
    /\ runtime \in BOOLEAN /\ folder \in Folders
    /\ ~runtime => \A s \in Skills : folder["runtime"][s] = {}

HistoryTypes ==
    /\ latest \in [cmd : Cmds, found : Disks, answer : {"none", "ok", "error", "killed"}]
    /\ latest.found.runtime => runtime

-----------------------------------------------------------------------------
(* What the operations left of a command look like                         *)

OpsIn(t) == {t[i] : i \in DOMAIN t}

\* Operations that come in pairs: nothing of the command comes between the two.
Firsts == {"stage", "drop", "drop config", "mkdir", "stage body", "empty"}
Seconds == {"rename", "fill", "put config", "stage body", "rename body", "remove"}
Pair(x, y) ==
    \/ x.do = "stage" /\ y.do = "rename" /\ y.file = x.file /\ y.content = x.content
    \/ x.do = "drop" /\ y.do = "fill" /\ y.file = x.file
    \/ x.do = "drop config" /\ y.do = "put config"
    \/ x.do = "mkdir" /\ y.do = "stage body" /\ y.skill = x.skill
    \/ x.do = "stage body" /\ y.do = "rename body" /\ y.skill = x.skill
    \/ x.do = "empty" /\ y.do = "remove" /\ y.where = x.where /\ y.skill = x.skill
Paired(t) == \A i \in DOMAIN t :
    /\ t[i].do \in Firsts => i + 1 \in DOMAIN t /\ Pair(t[i], t[i + 1])
    /\ t[i].do \in Seconds /\ i # 1 => Pair(t[i - 1], t[i])

\* What may fail comes last, an import reads the profile before it writes, the bodies
\* come after the texts.
Refusing == {"reload config", "clear", "put file", "drop file", "install", "verify"}
Building == {"mkdir", "stage body", "rename body", "write bodies"}
Follows(x, y) ==
    /\ x.do \notin Refusing
    /\ y.do = "install" => x.do \in {"drop config", "put config"}
    /\ x.do \in Building => y.do \notin TextOps
Ordered(t) == \A i, j \in DOMAIN t : i < j => Follows(t[i], t[j])

\* Which operations a command has.
Saving == {"body", "file", "add", "prompt", "limits", "access"}
Belongs(cmd, x) ==
    /\ x.do \in {"drop", "fill"} => cmd.op \in Wholesale
    /\ cmd.op \in Saving => x.do \notin {"empty", "remove", "clear", "install"} \cup Loops
    /\ cmd.op \in ForOneSkill =>
         /\ x.do \notin {"install"} \cup Loops
         /\ x.do \in FolderOps => x.skill = cmd.skill
    /\ x.do = "install" => cmd.op = "import"
Belonging(cmd, t) == \A x \in OpsIn(t) : Belongs(cmd, x)

Planned(cmd, t) == t \in Seq(Ops) /\ Paired(t) /\ Ordered(t) /\ Belonging(cmd, t)

-----------------------------------------------------------------------------
(* While commands come one after the other                                 *)

Ahead(t, name) == t # <<>> /\ Head(t).do = name

\* What an operation finds that its first half prepared.
Prepared(t) ==
    /\ Ahead(t, "rename") => tmp[Head(t).file] = Head(t).content
    /\ Ahead(t, "stage body") => Dir \in folder["runtime"][Head(t).skill]
    /\ Ahead(t, "rename body") => Stray \in folder["runtime"][Head(t).skill]
    /\ Ahead(t, "remove") => folder[Head(t).where][Head(t).skill] \subseteq {Dir}

TextsThere(t) ==
    "torn" \notin trouble => \A f \in Files : text[f] # {} \/ (Ahead(t, "fill") /\ Head(t).file = f)

BodiesThere == \A s \in Skills :
    latest.cmd.op \in Saving /\ Body \in latest.found.folder["runtime"][s] => Body \in folder["runtime"][s]

OthersThere == \A s \in Skills :
    latest.cmd.op \in ForOneSkill /\ latest.cmd.skill # s /\ latest.found.runtime
    => folder["runtime"][s] = latest.found.folder["runtime"][s]

Keeping == latest.cmd.op = "import" /\ latest.cmd.keep /\ latest.cmd.live
LimitsKept(t) ==
    Keeping =>
      /\ latest.answer \in {"none", "ok"} =>
           config.limits = latest.found.config.limits \/ Ahead(t, "put config")
      /\ \A x \in OpsIn(t) : x.do = "put config" => x.config.limits = latest.found.config.limits

Ordinary(t) == Prepared(t) /\ TextsThere(t) /\ LimitsKept(t)

-----------------------------------------------------------------------------
(* While nothing troubles the profile                                      *)

Loaded(t) ==
    /\ (config.there /\ config.resolves) \/ Ahead(t, "put config")
    /\ \A x \in OpsIn(t) : x.do = "put config" => x.config.there /\ x.config.resolves

Tree == IF runtime THEN "runtime" ELSE "legacy"
Here == {s \in Skills : Dir \in folder[Tree][s]}

\* The operation before which a folder is no package.
Unfinished(t, s) ==
    \/ (Ahead(t, "stage body") \/ Ahead(t, "rename body")) /\ Head(t).skill = s
    \/ Ahead(t, "remove") /\ Head(t).where = Tree /\ Head(t).skill = s

Packages(t) == \A s \in Here : Body \in folder[Tree][s] \/ Unfinished(t, s)

Dooms(x, s) ==
    \/ x.do = "remove" /\ x.where = Tree /\ x.skill = s
    \/ x.do = "remove packages" /\ s \in x.skills
Doomed(t, s) == \E x \in OpsIn(t) : Dooms(x, s)

Catalogs(x) == x.do \in TextOps /\ x.file = "skills"
Creates(x, s) == (x.do = "mkdir" /\ x.skill = s) \/ (x.do = "write bodies" /\ s \in x.skills)

InCatalog(t) ==
    /\ \A s \in Here : \/ s \in text["skills"] \/ Doomed(t, s)
                       \/ Ahead(t, "fill") /\ Head(t).file = "skills"
    /\ \A x \in OpsIn(t) : Catalogs(x) => \A s \in Here : s \in x.content \/ Doomed(t, s)

Made(t) == \A x \in OpsIn(t), s \in Skills : Creates(x, s) =>
    /\ s \in text["skills"] \/ \E y \in OpsIn(t) : Catalogs(y)
    /\ \A y \in OpsIn(t) : Catalogs(y) => s \in y.content

Imported(cmd, t) == (\E x \in OpsIn(t) : x.do = "install") =>
    Here \subseteq cmd.declares /\ cmd.stored \subseteq cmd.declares

Untroubled(cmd, t) == Loaded(t) /\ Packages(t) /\ InCatalog(t) /\ Made(t) /\ Imported(cmd, t)

-----------------------------------------------------------------------------

Sound(cmd, t) == Ordinary(t) /\ (trouble = {} => Untroubled(cmd, t))

Plans ==
    /\ process \in [Commanders -> [cmd : Cmds, todo : Seq(Ops)]]
    /\ \A p \in Commanders :
         /\ Planned(process[p].cmd, process[p].todo)
         /\ p \notin Running => process[p] = Idle

OneByOne ==
    /\ \A p, q \in Running : p = q
    /\ \A p \in Running :
         /\ latest.cmd = process[p].cmd /\ latest.answer = "none"
         /\ Sound(process[p].cmd, process[p].todo)
    /\ Running = {} => Sound(Idle.cmd, <<>>)
    /\ BodiesThere /\ OthersThere

FilesIndInv ==
    DiskTypes /\ HistoryTypes /\ Plans /\ ("overlapped" \notin trouble => OneByOne)

-----------------------------------------------------------------------------
(* Lists of operations                                                     *)

LEMMA OneOp == ASSUME NEW x PROVE OpsIn(<<x>>) = {x}
BY DEF OpsIn

LEMMA TwoOps == ASSUME NEW x, NEW y PROVE OpsIn(<<x, y>>) = {x, y}
<1>1. DOMAIN <<x, y>> = {1, 2} /\ <<x, y>>[1] = x /\ <<x, y>>[2] = y
  OBVIOUS
<1> QED
  BY <1>1 DEF OpsIn

LEMMA NoOps == OpsIn(<<>>) = {}
BY DEF OpsIn

\* The first operation of a list and what comes after it.
LEMMA HeadAndRest ==
    ASSUME NEW t \in Seq(Ops), t # <<>>
    PROVE  /\ Head(t) \in Ops /\ Tail(t) \in Seq(Ops) /\ Head(t) = t[1] /\ 1 \in DOMAIN t
           /\ \A i \in DOMAIN Tail(t) : i + 1 \in DOMAIN t /\ Tail(t)[i] = t[i + 1] /\ i \in Nat \ {0}
           /\ \A i \in DOMAIN t : i = 1 \/ (i \in Nat /\ i - 1 \in DOMAIN Tail(t) /\ Tail(t)[i - 1] = t[i])
           /\ OpsIn(t) = {Head(t)} \cup OpsIn(Tail(t))
           /\ Tail(t) # <<>> => 2 \in DOMAIN t /\ Head(Tail(t)) = t[2] /\ 1 \in DOMAIN Tail(t)
           /\ 2 \in DOMAIN t => Tail(t) # <<>>
           /\ Len(t) \in Nat /\ DOMAIN t = 1..Len(t) /\ DOMAIN Tail(t) = 1..(Len(t) - 1)
<1>1. Head(t) \in Ops /\ Tail(t) \in Seq(Ops) /\ Head(t) = t[1] /\ 1 \in DOMAIN t
  OBVIOUS
<1>2. \A i \in DOMAIN Tail(t) : i + 1 \in DOMAIN t /\ Tail(t)[i] = t[i + 1] /\ i \in Nat \ {0}
  OBVIOUS
<1>3. \A i \in DOMAIN t : i = 1 \/ (i \in Nat /\ i - 1 \in DOMAIN Tail(t) /\ Tail(t)[i - 1] = t[i])
  OBVIOUS
<1>4. OpsIn(t) = {Head(t)} \cup OpsIn(Tail(t))
  <2>1. ASSUME NEW i \in DOMAIN t PROVE t[i] \in {Head(t)} \cup OpsIn(Tail(t))
    BY <1>1, <1>3, <2>1 DEF OpsIn
  <2>2. ASSUME NEW i \in DOMAIN Tail(t) PROVE Tail(t)[i] \in OpsIn(t)
    BY <1>2, <2>2 DEF OpsIn
  <2>3. t[1] \in OpsIn(t)
    BY <1>1 DEF OpsIn
  <2> QED
    BY <1>1, <2>1, <2>2, <2>3 DEF OpsIn
<1>5. Tail(t) # <<>> => 2 \in DOMAIN t /\ Head(Tail(t)) = t[2] /\ 1 \in DOMAIN Tail(t)
  OBVIOUS
<1>6. Len(t) \in Nat /\ DOMAIN t = 1..Len(t) /\ DOMAIN Tail(t) = 1..(Len(t) - 1)
  OBVIOUS
<1>7. 2 \in DOMAIN t => Tail(t) # <<>>
  <2>1. 2 \in DOMAIN t => 1 \in DOMAIN Tail(t)
    BY <1>6
  <2>2. DOMAIN <<>> = {}
    OBVIOUS
  <2> QED
    BY <2>1, <2>2
<1> QED
  BY <1>1, <1>2, <1>3, <1>4, <1>5, <1>6, <1>7

LEMMA Joined ==
    ASSUME NEW a \in Seq(Ops), NEW b \in Seq(Ops)
    PROVE  /\ a \o b \in Seq(Ops) /\ OpsIn(a \o b) = OpsIn(a) \cup OpsIn(b)
           /\ Len(a) \in Nat /\ Len(b) \in Nat /\ DOMAIN a = 1..Len(a) /\ DOMAIN b = 1..Len(b)
           /\ DOMAIN (a \o b) = 1..(Len(a) + Len(b))
           /\ \A i \in 1..(Len(a) + Len(b)) : (a \o b)[i] = IF i <= Len(a) THEN a[i] ELSE b[i - Len(a)]
<1>1. a \o b \in Seq(Ops) /\ Len(a) \in Nat /\ Len(b) \in Nat /\ DOMAIN a = 1..Len(a) /\ DOMAIN b = 1..Len(b)
  OBVIOUS
<1>2. DOMAIN (a \o b) = 1..(Len(a) + Len(b))
  OBVIOUS
<1>3. \A i \in 1..(Len(a) + Len(b)) : (a \o b)[i] = IF i <= Len(a) THEN a[i] ELSE b[i - Len(a)]
  OBVIOUS
<1>4. OpsIn(a \o b) = OpsIn(a) \cup OpsIn(b)
  <2>1. ASSUME NEW i \in DOMAIN (a \o b) PROVE (a \o b)[i] \in OpsIn(a) \cup OpsIn(b)
    <3>1. CASE i <= Len(a)
      BY <1>1, <1>2, <1>3, <2>1, <3>1 DEF OpsIn
    <3>2. CASE ~(i <= Len(a))
      <4>1. i - Len(a) \in DOMAIN b /\ (a \o b)[i] = b[i - Len(a)]
        BY <1>1, <1>2, <1>3, <2>1, <3>2
      <4> QED
        BY <4>1 DEF OpsIn
    <3> QED
      BY <3>1, <3>2
  <2>2. ASSUME NEW i \in DOMAIN a PROVE a[i] \in OpsIn(a \o b)
    <3>1. i \in DOMAIN (a \o b) /\ (a \o b)[i] = a[i]
      BY <1>1, <1>2, <1>3, <2>2
    <3> QED
      BY <3>1 DEF OpsIn
  <2>3. ASSUME NEW i \in DOMAIN b PROVE b[i] \in OpsIn(a \o b)
    <3>1. i + Len(a) \in DOMAIN (a \o b) /\ (a \o b)[i + Len(a)] = b[i]
      BY <1>1, <1>2, <1>3, <2>3
    <3> QED
      BY <3>1 DEF OpsIn
  <2> QED
    BY <2>1, <2>2, <2>3 DEF OpsIn
<1> QED
  BY <1>1, <1>2, <1>3, <1>4

\* A list that does not begin in the middle of a pair.
Whole(t) == t # <<>> => Head(t).do \notin Seconds

LEMMA PlannedJoined ==
    ASSUME NEW cmd, NEW a, NEW b, Planned(cmd, a), Planned(cmd, b), Whole(b),
           \A x \in OpsIn(a), y \in OpsIn(b) : Follows(x, y)
    PROVE  Planned(cmd, a \o b)
<1> DEFINE c == a \o b
<1>1. a \in Seq(Ops) /\ b \in Seq(Ops) /\ Paired(a) /\ Paired(b) /\ Ordered(a) /\ Ordered(b)
  BY DEF Planned
<1>2. /\ c \in Seq(Ops) /\ OpsIn(c) = OpsIn(a) \cup OpsIn(b)
      /\ Len(a) \in Nat /\ Len(b) \in Nat /\ DOMAIN a = 1..Len(a) /\ DOMAIN b = 1..Len(b)
      /\ DOMAIN c = 1..(Len(a) + Len(b))
      /\ \A i \in 1..(Len(a) + Len(b)) : c[i] = IF i <= Len(a) THEN a[i] ELSE b[i - Len(a)]
  BY <1>1, Joined
<1> HIDE DEF c
<1>3. Belonging(cmd, c)
  BY <1>2 DEF Planned, Belonging
<1>4. Paired(c)
  <2> SUFFICES ASSUME NEW i \in DOMAIN c
               PROVE  /\ c[i].do \in Firsts => i + 1 \in DOMAIN c /\ Pair(c[i], c[i + 1])
                      /\ c[i].do \in Seconds /\ i # 1 => Pair(c[i - 1], c[i])
    BY DEF Paired
  <2>1. CASE i <= Len(a)
    <3>1. i \in DOMAIN a /\ c[i] = a[i]
      BY <1>2, <2>1
    <3>2. i + 1 \in DOMAIN a => i + 1 \in DOMAIN c /\ c[i + 1] = a[i + 1]
      BY <1>2
    <3>3. i # 1 => i - 1 \in DOMAIN a /\ c[i - 1] = a[i - 1]
      BY <1>2, <2>1
    <3> QED
      BY <1>1, <3>1, <3>2, <3>3 DEF Paired
  <2>2. CASE ~(i <= Len(a))
    <3> DEFINE k == i - Len(a)
    <3>1. k \in DOMAIN b /\ c[i] = b[k]
      BY <1>2, <2>2
    <3>2. k + 1 \in DOMAIN b => i + 1 \in DOMAIN c /\ c[i + 1] = b[k + 1]
      BY <1>2, <2>2
    <3>3. k # 1 => k - 1 \in DOMAIN b /\ c[i - 1] = b[k - 1]
      BY <1>2, <2>2
    <3>4. k = 1 => b[k].do \notin Seconds
      BY <1>1, <3>1 DEF Whole
    <3> HIDE DEF k
    <3> QED
      BY <1>1, <3>1, <3>2, <3>3, <3>4 DEF Paired
  <2> QED
    BY <2>1, <2>2
<1>5. Ordered(c)
  <2> SUFFICES ASSUME NEW i \in DOMAIN c, NEW j \in DOMAIN c, i < j PROVE Follows(c[i], c[j])
    BY DEF Ordered
  <2>1. CASE j <= Len(a)
    <3>1. i \in DOMAIN a /\ j \in DOMAIN a /\ c[i] = a[i] /\ c[j] = a[j]
      BY <1>2, <2>1
    <3> QED
      BY <1>1, <3>1 DEF Ordered
  <2>2. CASE ~(j <= Len(a)) /\ i <= Len(a)
    <3>1. i \in DOMAIN a /\ j - Len(a) \in DOMAIN b /\ c[i] = a[i] /\ c[j] = b[j - Len(a)]
      BY <1>2, <2>2
    <3> QED
      BY <3>1 DEF OpsIn
  <2>3. CASE ~(i <= Len(a))
    <3>1. /\ i - Len(a) \in DOMAIN b /\ j - Len(a) \in DOMAIN b /\ c[i] = b[i - Len(a)]
          /\ c[j] = b[j - Len(a)] /\ i - Len(a) < j - Len(a)
      BY <1>2, <2>3
    <3> QED
      BY <1>1, <3>1 DEF Ordered
  <2> QED
    BY <1>2, <2>1, <2>2, <2>3
<1> QED
  BY <1>2, <1>3, <1>4, <1>5 DEF Planned, c

More(t) == t # <<>>

\* What the first operation says of the rest.
LEMMA FirstOfPlan ==
    ASSUME NEW cmd, NEW t, Planned(cmd, t), t # <<>>
    PROVE  /\ Head(t) \in Ops /\ Planned(cmd, Tail(t)) /\ OpsIn(t) = {Head(t)} \cup OpsIn(Tail(t))
           /\ Belongs(cmd, Head(t)) /\ \A x \in OpsIn(Tail(t)) : Follows(Head(t), x)
           /\ Head(t).do \in Firsts => More(Tail(t)) /\ Pair(Head(t), Head(Tail(t)))
           /\ Head(t).do \notin Firsts => Whole(Tail(t))
           /\ Head(t).do \in Refusing => ~More(Tail(t))
<1>1. t \in Seq(Ops) /\ Paired(t) /\ Ordered(t) /\ Belonging(cmd, t)
  BY DEF Planned
<1> DEFINE h == Head(t)  r == Tail(t)
<1>2. /\ h \in Ops /\ r \in Seq(Ops) /\ h = t[1] /\ 1 \in DOMAIN t
      /\ \A i \in DOMAIN r : i + 1 \in DOMAIN t /\ r[i] = t[i + 1] /\ i \in Nat \ {0}
      /\ \A i \in DOMAIN t : i = 1 \/ (i \in Nat /\ i - 1 \in DOMAIN r /\ r[i - 1] = t[i])
      /\ OpsIn(t) = {h} \cup OpsIn(r)
      /\ r # <<>> => 2 \in DOMAIN t /\ Head(r) = t[2] /\ 1 \in DOMAIN r
      /\ 2 \in DOMAIN t => r # <<>>
      /\ Len(t) \in Nat /\ DOMAIN t = 1..Len(t) /\ DOMAIN r = 1..(Len(t) - 1)
  BY <1>1, HeadAndRest
<1> HIDE DEF h, r
<1>3. Belongs(cmd, h) /\ Belonging(cmd, r)
  BY <1>1, <1>2 DEF Belonging
<1>4. \A x \in OpsIn(r) : Follows(h, x)
  <2> SUFFICES ASSUME NEW i \in DOMAIN r PROVE Follows(h, r[i])
    BY DEF OpsIn
  <2>1. i + 1 \in DOMAIN t /\ r[i] = t[i + 1] /\ 1 < i + 1
    BY <1>2
  <2> QED
    BY <1>1, <1>2, <2>1 DEF Ordered
<1>5. Paired(r)
  <2> SUFFICES ASSUME NEW i \in DOMAIN r
               PROVE  /\ r[i].do \in Firsts => i + 1 \in DOMAIN r /\ Pair(r[i], r[i + 1])
                      /\ r[i].do \in Seconds /\ i # 1 => Pair(r[i - 1], r[i])
    BY DEF Paired
  <2>1. i + 1 \in DOMAIN t /\ r[i] = t[i + 1] /\ i \in Nat \ {0} /\ i + 1 # 1
    BY <1>2
  <2>2. (i + 1) + 1 \in DOMAIN t => i + 1 \in DOMAIN r /\ r[i + 1] = t[(i + 1) + 1]
    <3> SUFFICES ASSUME (i + 1) + 1 \in DOMAIN t PROVE i + 1 \in DOMAIN r /\ r[i + 1] = t[(i + 1) + 1]
      OBVIOUS
    <3>1. i + 1 \in DOMAIN r
      BY <1>2, <2>1
    <3> QED
      BY <1>2, <3>1
  <2>3. i # 1 => r[i - 1] = t[(i + 1) - 1]
    <3>1. i # 1 => i - 1 \in DOMAIN r /\ (i - 1) + 1 = i
      BY <1>2, <2>1
    <3>2. i # 1 => r[i - 1] = t[i]
      BY <1>2, <3>1
    <3>3. (i + 1) - 1 = i
      BY <2>1
    <3> QED
      BY <3>2, <3>3
  <2>4. /\ t[i + 1].do \in Firsts => (i + 1) + 1 \in DOMAIN t /\ Pair(t[i + 1], t[(i + 1) + 1])
        /\ t[i + 1].do \in Seconds /\ i + 1 # 1 => Pair(t[(i + 1) - 1], t[i + 1])
    BY <1>1, <2>1 DEF Paired
  <2> QED
    BY <2>1, <2>2, <2>3, <2>4
<1>6. Ordered(r)
  <2> SUFFICES ASSUME NEW i \in DOMAIN r, NEW j \in DOMAIN r, i < j PROVE Follows(r[i], r[j])
    BY DEF Ordered
  <2>1. i + 1 \in DOMAIN t /\ j + 1 \in DOMAIN t /\ r[i] = t[i + 1] /\ r[j] = t[j + 1] /\ i + 1 < j + 1
    BY <1>2
  <2> QED
    BY <1>1, <2>1 DEF Ordered
<1>7. h.do \in Firsts => More(r) /\ Pair(h, Head(r))
  <2>1. h.do \in Firsts => 1 + 1 \in DOMAIN t /\ Pair(t[1], t[1 + 1])
    BY <1>1, <1>2 DEF Paired
  <2>2. 1 + 1 = 2
    OBVIOUS
  <2> QED
    BY <1>2, <2>1, <2>2 DEF More
<1>8. h.do \notin Firsts => Whole(r)
  <2> SUFFICES ASSUME r # <<>>, Head(r).do \in Seconds PROVE h.do \in Firsts
    BY DEF Whole
  <2>1. Pair(t[2 - 1], t[2])
    <3>1. 2 \in DOMAIN t /\ t[2].do \in Seconds /\ 2 # 1
      BY <1>2
    <3> QED
      BY <1>1, <3>1 DEF Paired
  <2>2. 2 - 1 = 1
    OBVIOUS
  <2> QED
    BY <1>2, <2>1, <2>2 DEF Pair, Firsts
<1>9. h.do \in Refusing => ~More(r)
  <2> SUFFICES ASSUME r # <<>>, h.do \in Refusing PROVE FALSE
    BY DEF More
  <2>1. r[1] \in OpsIn(r)
    BY <1>2 DEF OpsIn
  <2> QED
    BY <1>4, <2>1 DEF Follows
<1> QED
  BY <1>2, <1>3, <1>4, <1>5, <1>6, <1>7, <1>8, <1>9 DEF Planned, h, r

LEMMA FirstOfPair ==
    ASSUME NEW cmd, NEW t, Planned(cmd, t), t # <<>>, Head(t).do \in Firsts
    PROVE  More(Tail(t)) /\ Pair(Head(t), Head(Tail(t))) /\ Planned(cmd, Tail(t))
BY FirstOfPlan

LEMMA OpFields ==
    ASSUME NEW x \in Ops
    PROVE  /\ x.do \in TextOps => x.file \in Files /\ x.content \in Contents /\ x.content # {}
           /\ x.do \in TextOps /\ x.file = "skills" => x.content \subseteq Skills
           /\ x.do \in FolderOps => x.where \in Trees /\ x.skill \in Skills
           /\ x.do = "put config" => x.config \in Settings
           /\ x.do \in Loops => x.skills \in SUBSET Skills
<1> USE DEF TextOps, FolderOps, Loops
<1>1. CASE x \in [do : {"drop config", "reload config", "install", "verify"}]
  BY <1>1
<1>2. CASE x \in [do : {"put config"}, config : Settings]
  BY <1>2
<1>3. CASE x \in {y \in [do : TextOps, file : Files, content : Contents \ {{}}] :
                    y.file = "skills" => y.content \subseteq Skills}
  BY <1>3
<1>4. CASE x \in [do : FolderOps, where : Trees, skill : Skills]
  BY <1>4
<1>5. CASE x \in [do : Loops, skills : SUBSET Skills]
  BY <1>5
<1> QED
  BY <1>1, <1>2, <1>3, <1>4, <1>5 DEF Ops

\* A text is replaced.
LEMMA TextTypes ==
    /\ {} \in Contents /\ {} \subseteq Skills
    /\ \A t \in Texts, f \in Files : t[f] \in Contents /\ (f = "skills" => t[f] \subseteq Skills)
BY DEF Texts, Contents

LEMMA TextType ==
    ASSUME NEW t \in Texts, NEW f \in Files, NEW c \in Contents, f = "skills" => c \subseteq Skills
    PROVE  /\ [t EXCEPT ![f] = c] \in Texts /\ [t EXCEPT ![f] = c][f] = c
           /\ \A g \in Files : g # f => [t EXCEPT ![f] = c][g] = t[g]
<1> DEFINE u == [t EXCEPT ![f] = c]
<1>1. u \in [Files -> Contents] /\ u[f] = c /\ \A g \in Files : g # f => u[g] = t[g]
  BY DEF Texts
<1> HIDE DEF u
<1>2. "skills" \in Files /\ t["skills"] \subseteq Skills
  BY DEF Files, Texts
<1>3. u["skills"] \subseteq Skills
  BY <1>1, <1>2
<1> QED
  BY <1>1, <1>3 DEF u, Texts

-----------------------------------------------------------------------------
(* A step of a command                                                     *)

At(p, cmd, t) == p \in Running /\ process[p].cmd = cmd /\ process[p].todo = t

LEMMA AtCommand ==
    ASSUME FilesIndInv, NEW p \in Commanders, p \in Running
    PROVE  \E cmd, t : At(p, cmd, t)
BY DEF At

LEMMA AtFacts ==
    ASSUME FilesIndInv, NEW p \in Commanders, NEW cmd, NEW t, At(p, cmd, t)
    PROVE  /\ cmd \in Cmds /\ t \in Seq(Ops) /\ Planned(cmd, t) /\ cmd.op # "none"
           /\ "overlapped" \notin trouble =>
                /\ Sound(cmd, t) /\ BodiesThere /\ OthersThere
                /\ latest.cmd = cmd /\ latest.answer = "none" /\ Running = {p}
BY DEF At, FilesIndInv, Plans, OneByOne, Running

LEMMA Goes ==
    ASSUME FilesIndInv, NEW p \in Commanders, NEW cmd, NEW t, At(p, cmd, t),
           NEW u, Continue(p, u), Planned(cmd, u), DiskTypes', runtime => runtime', trouble' = trouble,
           "overlapped" \notin trouble => Sound(cmd, u)' /\ BodiesThere' /\ OthersThere'
    PROVE  FilesIndInv'
<1>1. /\ cmd \in Cmds /\ cmd.op # "none" /\ u \in Seq(Ops)
      /\ "overlapped" \notin trouble => latest.cmd = cmd /\ latest.answer = "none" /\ Running = {p}
  BY AtFacts DEF Planned
<1>2. process \in [Commanders -> [cmd : Cmds, todo : Seq(Ops)]]
  BY DEF FilesIndInv, Plans
<1>3. process' = [process EXCEPT ![p].todo = u] /\ latest' = latest
  BY DEF Continue
<1>4. /\ process' \in [Commanders -> [cmd : Cmds, todo : Seq(Ops)]]
      /\ process'[p].cmd = cmd /\ process'[p].todo = u
      /\ \A q \in Commanders : q # p => process'[q] = process[q]
  BY <1>1, <1>2, <1>3 DEF At
<1>5. Running' = Running
  <2>1. \A q \in Commanders : (q \in Running' <=> q \in Running)
    BY <1>1, <1>4 DEF Running, At
  <2> QED
    BY <2>1 DEF Running
<1>6. Plans'
  <2> SUFFICES ASSUME NEW q \in Commanders
               PROVE  /\ Planned(process'[q].cmd, process'[q].todo)
                      /\ q \notin Running' => process'[q] = Idle
    BY <1>4 DEF Plans
  <2>1. CASE q = p
    BY <1>4, <1>5, <2>1 DEF At
  <2>2. CASE q # p
    BY <1>4, <1>5, <2>2 DEF FilesIndInv, Plans
  <2> QED
    BY <2>1, <2>2
<1>7. HistoryTypes'
  BY <1>3 DEF FilesIndInv, HistoryTypes
<1>8. ASSUME "overlapped" \notin trouble PROVE OneByOne'
  BY <1>1, <1>3, <1>4, <1>5, <1>8 DEF OneByOne
<1> QED
  BY <1>6, <1>7, <1>8 DEF FilesIndInv

LEMMA Ends ==
    ASSUME FilesIndInv, NEW p \in Commanders, NEW cmd, NEW t, At(p, cmd, t),
           NEW answer \in {"ok", "error", "killed"}, End(p, answer), DiskTypes', runtime => runtime',
           trouble \subseteq trouble',
           "overlapped" \notin trouble => Sound(Idle.cmd, <<>>)' /\ BodiesThere' /\ OthersThere'
    PROVE  FilesIndInv'
<1>1. "overlapped" \notin trouble => Running = {p}
  BY AtFacts
<1>2. process \in [Commanders -> [cmd : Cmds, todo : Seq(Ops)]]
  BY DEF FilesIndInv, Plans
<1>3. process' = [process EXCEPT ![p] = Idle] /\ latest' = [latest EXCEPT !.answer = answer]
  BY DEF End
<1>4. /\ Idle \in [cmd : Cmds, todo : Seq(Ops)] /\ Idle.cmd.op = "none" /\ Planned(Idle.cmd, Idle.todo)
      /\ Idle.todo = <<>>
  <2>1. Idle.cmd \in Cmds /\ Idle.cmd.op = "none" /\ Idle.todo = <<>> /\ <<>> \in Seq(Ops)
    BY DEF Idle, Cmds
  <2>2. Idle \in [cmd : Cmds, todo : Seq(Ops)]
    BY <2>1 DEF Idle
  <2> QED
    BY <2>1, <2>2, NoOps DEF Planned, Paired, Ordered, Belonging
<1>5. /\ process' \in [Commanders -> [cmd : Cmds, todo : Seq(Ops)]] /\ process'[p] = Idle
      /\ \A q \in Commanders : q # p => process'[q] = process[q]
  BY <1>2, <1>3, <1>4
<1>6. Running' = Running \ {p}
  <2>1. \A q \in Commanders : (q \in Running' <=> q \in Running /\ q # p)
    BY <1>4, <1>5 DEF Running
  <2> QED
    BY <2>1 DEF Running
<1>7. Plans'
  <2> SUFFICES ASSUME NEW q \in Commanders
               PROVE  /\ Planned(process'[q].cmd, process'[q].todo)
                      /\ q \notin Running' => process'[q] = Idle
    BY <1>5 DEF Plans
  <2>1. CASE q = p
    BY <1>4, <1>5, <2>1
  <2>2. CASE q # p
    BY <1>5, <1>6, <2>2 DEF FilesIndInv, Plans
  <2> QED
    BY <2>1, <2>2
<1>8. HistoryTypes'
  BY <1>3 DEF FilesIndInv, HistoryTypes
<1>9. ASSUME "overlapped" \notin trouble PROVE OneByOne'
  BY <1>1, <1>6, <1>9 DEF OneByOne
<1> QED
  BY <1>7, <1>8, <1>9 DEF FilesIndInv

-----------------------------------------------------------------------------
(* What stays sound                                                        *)

LEMMA WholeIsPrepared == ASSUME NEW u, Whole(u) PROVE Prepared(u)'
BY DEF Prepared, Whole, Ahead, Seconds

LEMMA DiskRead ==
    /\ Root(Disk) = Tree /\ Stored(Disk) = Here
    /\ LoadsConfig(Disk) <=> config.there /\ config.resolves
BY DEF Root, Disk, Tree, Stored, Here, LoadsConfig

LEMMA SameTree == ASSUME runtime' = runtime PROVE Tree' = Tree
BY DEF Tree

LEMMA TreeStays ==
    ASSUME UNCHANGED <<folder, runtime>> PROVE Tree' = Tree /\ Here' = Here
BY DEF Tree, Here

LEMMA FoldersStay ==
    ASSUME UNCHANGED <<folder, latest>>, BodiesThere, OthersThere PROVE BodiesThere' /\ OthersThere'
BY DEF BodiesThere, OthersThere

LEMMA TextsStay ==
    ASSUME NEW t, NEW u, UNCHANGED <<text, trouble>>, TextsThere(t), ~Ahead(t, "fill")
    PROVE  TextsThere(u)'
BY DEF TextsThere

LEMMA LimitsStay ==
    ASSUME NEW t, NEW u, UNCHANGED <<config, latest>>, LimitsKept(t), ~Ahead(t, "put config"),
           \A x \in OpsIn(u) : x.do = "put config" => x \in OpsIn(t)
    PROVE  LimitsKept(u)'
BY DEF LimitsKept, Keeping

LEMMA LoadedStays ==
    ASSUME NEW t, NEW u, UNCHANGED config, Loaded(t), ~Ahead(t, "put config"),
           \A x \in OpsIn(u) : x.do = "put config" => x \in OpsIn(t)
    PROVE  Loaded(u)'
BY DEF Loaded

LEMMA PackagesStay ==
    ASSUME NEW t, NEW u, UNCHANGED <<folder, runtime>>, Packages(t),
           ~Ahead(t, "stage body"), ~Ahead(t, "rename body"), ~Ahead(t, "remove")
    PROVE  Packages(u)'
BY TreeStays DEF Packages, Unfinished

LEMMA DoomedStays ==
    ASSUME UNCHANGED <<folder, runtime>>, NEW u, NEW s PROVE Doomed(u, s)' <=> Doomed(u, s)
BY TreeStays DEF Doomed, Dooms

LEMMA CatalogStays ==
    ASSUME NEW t, NEW u, UNCHANGED <<text, folder, runtime>>, InCatalog(t), ~Ahead(t, "fill"),
           \A s \in Skills : Doomed(t, s) => Doomed(u, s),
           \A x \in OpsIn(u) : Catalogs(x) => x \in OpsIn(t)
    PROVE  InCatalog(u)'
<1>1. \A s : Doomed(u, s)' <=> Doomed(u, s)
  BY DoomedStays
<1>2. Here' = Here /\ Here \subseteq Skills
  BY TreeStays DEF Here
<1>3. \A s \in Here : s \in text["skills"] \/ Doomed(u, s)
  BY <1>2 DEF InCatalog
<1>4. \A x \in OpsIn(u) : Catalogs(x) => \A s \in Here : s \in x.content \/ Doomed(u, s)
  BY <1>2 DEF InCatalog
<1> QED
  BY <1>1, <1>2, <1>3, <1>4 DEF InCatalog

LEMMA MadeStays ==
    ASSUME NEW t, NEW u, UNCHANGED text, Made(t),
           \A x \in OpsIn(u), s \in Skills : Creates(x, s) => \E y \in OpsIn(t) : Creates(y, s),
           \A x \in OpsIn(u) : Catalogs(x) => x \in OpsIn(t),
           (\E y \in OpsIn(t) : Catalogs(y)) => \E y \in OpsIn(u) : Catalogs(y)
    PROVE  Made(u)'
BY DEF Made

LEMMA ImportedStays ==
    ASSUME NEW cmd, NEW t, NEW u, UNCHANGED <<folder, runtime>>, Imported(cmd, t),
           (\E x \in OpsIn(u) : x.do = "install") => \E x \in OpsIn(t) : x.do = "install"
    PROVE  Imported(cmd, u)'
BY TreeStays DEF Imported

\* Operations that change no file, and those that write beside one.
LEMMA Replans ==
    ASSUME NEW cmd, NEW t, NEW u, UNCHANGED <<config, text, folder, runtime, latest, trouble>>,
           Sound(cmd, t), BodiesThere, OthersThere, Whole(t), Prepared(u)',
           \A x \in OpsIn(u) : x.do = "put config" => x \in OpsIn(t),
           \A x \in OpsIn(u) : Catalogs(x) => x \in OpsIn(t),
           (\E y \in OpsIn(t) : Catalogs(y)) => \E y \in OpsIn(u) : Catalogs(y),
           \A s \in Skills : Doomed(t, s) => Doomed(u, s),
           \A x \in OpsIn(u), s \in Skills : Creates(x, s) => \E y \in OpsIn(t) : Creates(y, s),
           (\E x \in OpsIn(u) : x.do = "install") => \E x \in OpsIn(t) : x.do = "install"
    PROVE  Sound(cmd, u)' /\ BodiesThere' /\ OthersThere'
<1>1. \A name \in Seconds : ~Ahead(t, name)
  BY DEF Ahead, Whole
<1>2. /\ ~Ahead(t, "fill") /\ ~Ahead(t, "put config") /\ ~Ahead(t, "stage body")
      /\ ~Ahead(t, "rename body") /\ ~Ahead(t, "remove")
  BY <1>1 DEF Seconds
<1>3. Ordinary(u)'
  BY <1>2, TextsStay, LimitsStay DEF Sound, Ordinary
<1>4. ASSUME trouble = {} PROVE Untroubled(cmd, u)'
  <2>1. Untroubled(cmd, t)
    BY <1>4 DEF Sound
  <2>2. Loaded(u)' /\ Packages(u)'
    BY <1>2, <2>1, LoadedStays, PackagesStay DEF Untroubled
  <2>3. InCatalog(u)'
    BY <1>2, <2>1, CatalogStays DEF Untroubled
  <2>4. Made(u)'
    BY <2>1, MadeStays DEF Untroubled
  <2>5. Imported(cmd, u)'
    BY <2>1, ImportedStays DEF Untroubled
  <2> QED
    BY <2>2, <2>3, <2>4, <2>5 DEF Untroubled
<1> QED
  BY <1>3, <1>4, FoldersStay DEF Sound

\* The rest of a plan has nothing new.
LEMMA RestHas ==
    ASSUME NEW cmd, NEW t, Planned(cmd, t), t # <<>>
    PROVE  /\ \A x \in OpsIn(Tail(t)) : x \in OpsIn(t)
           /\ (Head(t).do \notin TextOps \/ Head(t).do = "stage") =>
                ((\E y \in OpsIn(t) : Catalogs(y)) => \E y \in OpsIn(Tail(t)) : Catalogs(y))
           /\ Head(t).do \notin {"remove", "remove packages"} =>
                \A s : Doomed(t, s) => Doomed(Tail(t), s)
<1>1. OpsIn(t) = {Head(t)} \cup OpsIn(Tail(t))
  BY FirstOfPlan
<1>2. ASSUME Head(t).do = "stage", Catalogs(Head(t)) PROVE \E y \in OpsIn(Tail(t)) : Catalogs(y)
  <2>1. More(Tail(t)) /\ Pair(Head(t), Head(Tail(t))) /\ Planned(cmd, Tail(t))
    <3>1. Head(t).do \in Firsts
      BY <1>2 DEF Firsts
    <3> QED
      BY <1>2, <3>1, FirstOfPair
  <2>2. Catalogs(Head(Tail(t)))
    BY <1>2, <2>1 DEF Pair, Catalogs, TextOps
  <2>3. OpsIn(Tail(t)) = {Head(Tail(t))} \cup OpsIn(Tail(Tail(t)))
    BY <2>1, FirstOfPlan DEF More
  <2> QED
    BY <2>2, <2>3
<1>3. ASSUME Head(t).do \notin TextOps \/ Head(t).do = "stage", \E y \in OpsIn(t) : Catalogs(y)
      PROVE  \E y \in OpsIn(Tail(t)) : Catalogs(y)
  BY <1>1, <1>2, <1>3 DEF Catalogs
<1>4. ASSUME Head(t).do \notin {"remove", "remove packages"}, NEW s, Doomed(t, s)
      PROVE  Doomed(Tail(t), s)
  BY <1>1, <1>4 DEF Doomed, Dooms
<1> QED
  BY <1>1, <1>3, <1>4

LEMMA StageStep ==
    ASSUME FilesIndInv, NEW p \in Commanders, NEW cmd, NEW t, At(p, cmd, t), Stage(p)
    PROVE  FilesIndInv'
<1> DEFINE h == Head(t)  r == Tail(t)
<1>1. /\ t # <<>> /\ h.do = "stage" /\ tmp' = [tmp EXCEPT ![h.file] = h.content] /\ Continue(p, r)
      /\ UNCHANGED <<config, runtime, folder, text, started, kills, trouble>> /\ latest' = latest
  BY DEF Stage, At, Performs, Current, Rest, FilesKept, Continue
<1>2. /\ Planned(cmd, t)
      /\ "overlapped" \notin trouble => Sound(cmd, t) /\ BodiesThere /\ OthersThere
  BY AtFacts
<1>3. /\ h \in Ops /\ Planned(cmd, r) /\ More(r) /\ Pair(h, Head(r))
      /\ \A x \in OpsIn(r) : x \in OpsIn(t)
      /\ (\E y \in OpsIn(t) : Catalogs(y)) => \E y \in OpsIn(r) : Catalogs(y)
      /\ \A s : Doomed(t, s) => Doomed(r, s)
  <2>1. h.do \in Firsts
    BY <1>1 DEF Firsts
  <2>2. h \in Ops /\ Planned(cmd, r) /\ More(r) /\ Pair(h, Head(r))
    BY <1>1, <1>2, <2>1, FirstOfPlan, FirstOfPair
  <2>3. /\ \A x \in OpsIn(r) : x \in OpsIn(t)
        /\ (\E y \in OpsIn(t) : Catalogs(y)) => \E y \in OpsIn(r) : Catalogs(y)
        /\ \A s : Doomed(t, s) => Doomed(r, s)
    BY <1>1, <1>2, RestHas
  <2> QED
    BY <2>2, <2>3
<1> HIDE DEF r
<1>4. h.file \in Files /\ h.content \in Contents /\ (h.file = "skills" => h.content \subseteq Skills)
  BY <1>1, <1>3, OpFields DEF TextOps
<1>5. DiskTypes'
  BY <1>1, <1>4, TextType DEF FilesIndInv, DiskTypes
<1>6. Prepared(r)'
  <2>1. Head(r).do = "rename" /\ Head(r).file = h.file /\ Head(r).content = h.content
    BY <1>1, <1>3 DEF Pair
  <2>2. tmp'[h.file] = h.content
    BY <1>1, <1>4 DEF FilesIndInv, DiskTypes, Texts
  <2> QED
    BY <2>1, <2>2 DEF Prepared, Ahead
<1>7. Whole(t)
  BY <1>1 DEF Whole, Seconds
<1>8. "overlapped" \notin trouble => Sound(cmd, r)' /\ BodiesThere' /\ OthersThere'
  BY <1>1, <1>2, <1>3, <1>6, <1>7, Replans
<1> QED
  BY <1>1, <1>3, <1>5, <1>8, Goes

\* An operation that only looks at the profile, before the rest.
LEMMA LooksOn ==
    ASSUME FilesIndInv, NEW p \in Commanders, NEW cmd, NEW t, At(p, cmd, t), t # <<>>,
           Head(t).do \notin Seconds \cup Firsts \cup TextOps \cup {"remove packages"},
           Continue(p, Tail(t)), UNCHANGED <<disk, trouble>>
    PROVE  FilesIndInv'
<1> DEFINE h == Head(t)  r == Tail(t)
<1>1. UNCHANGED <<config, tmp, runtime, folder, text, trouble>> /\ latest' = latest
  BY DEF disk, Continue
<1>2. /\ Planned(cmd, t)
      /\ "overlapped" \notin trouble => Sound(cmd, t) /\ BodiesThere /\ OthersThere
  BY AtFacts
<1>3. /\ h \in Ops /\ Planned(cmd, r) /\ Whole(r)
      /\ \A x \in OpsIn(r) : x \in OpsIn(t)
      /\ (\E y \in OpsIn(t) : Catalogs(y)) => \E y \in OpsIn(r) : Catalogs(y)
      /\ \A s : Doomed(t, s) => Doomed(r, s)
  <2>1. h.do # "remove"
    BY DEF Seconds
  <2> QED
    BY <1>2, <2>1, FirstOfPlan, RestHas
<1> HIDE DEF r
<1>4. DiskTypes'
  BY <1>1 DEF FilesIndInv, DiskTypes
<1>5. Whole(t)
  BY DEF Whole
<1>6. Prepared(r)'
  BY <1>3, WholeIsPrepared
<1>7. "overlapped" \notin trouble => Sound(cmd, r)' /\ BodiesThere' /\ OthersThere'
  BY <1>1, <1>2, <1>3, <1>5, <1>6, Replans
<1> QED
  BY <1>1, <1>3, <1>4, <1>7, Goes DEF r

\* A command that ends, whatever it answers, before it changes another file.
LEMMA StopsSound ==
    ASSUME NEW cmd, NEW t, NEW answer \in {"ok", "error", "killed"}, Sound(cmd, t), BodiesThere, OthersThere,
           HistoryTypes, UNCHANGED <<config, text, folder, runtime>>, latest' = [latest EXCEPT !.answer = answer],
           latest.answer = "none", trouble \subseteq trouble',
           \/ t = <<>> /\ trouble' = trouble
           \/ answer = "error" /\ Whole(t) /\ OpsIn(t) = {Head(t)} /\ trouble' = trouble
              /\ Head(t).do \notin {"remove", "remove packages"}
           \/ answer = "killed" /\ trouble' # {} /\ ("torn" \in trouble' \/ ~Ahead(t, "fill"))
    PROVE  Sound(Idle.cmd, <<>>)' /\ BodiesThere' /\ OthersThere'
<1>1. latest'.cmd = latest.cmd /\ latest'.found = latest.found /\ latest'.answer = answer
  BY DEF HistoryTypes
<1>2. BodiesThere' /\ OthersThere'
  BY <1>1 DEF BodiesThere, OthersThere
<1>3. Prepared(<<>>)'
  BY WholeIsPrepared DEF Whole
<1>4. OpsIn(<<>>) = {} /\ \A name : ~Ahead(<<>>, name)
  BY NoOps DEF Ahead
<1>5. t = <<>> \/ answer # "ok"
  OBVIOUS
<1>6. LimitsKept(<<>>)'
  BY <1>1, <1>4, <1>5 DEF Sound, Ordinary, LimitsKept, Keeping
<1>7. "torn" \in trouble' \/ ~Ahead(t, "fill")
  BY <1>4 DEF Whole, Ahead, Seconds
<1>8. TextsThere(<<>>)'
  BY <1>7 DEF Sound, Ordinary, TextsThere
<1>9. ASSUME trouble' = {} PROVE Untroubled(Idle.cmd, <<>>)'
  <2>1. Untroubled(cmd, t) /\ (t = <<>> \/ (Whole(t) /\ OpsIn(t) = {Head(t)}
            /\ Head(t).do \notin {"remove", "remove packages"}))
    BY <1>9 DEF Sound
  <2>2. \A name \in Seconds : ~Ahead(t, name)
    BY <2>1, <1>4 DEF Ahead, Whole
  <2>3. /\ ~Ahead(t, "fill") /\ ~Ahead(t, "put config") /\ ~Ahead(t, "stage body")
        /\ ~Ahead(t, "rename body") /\ ~Ahead(t, "remove")
    BY <2>2 DEF Seconds
  <2>4. Loaded(<<>>)' /\ Packages(<<>>)'
    BY <1>4, <2>1, <2>3, LoadedStays, PackagesStay DEF Untroubled
  <2>5. \A s : ~Doomed(t, s)
    BY <1>4, <2>1 DEF Doomed, Dooms
  <2>6. InCatalog(<<>>)'
    BY <1>4, <2>1, <2>3, <2>5, CatalogStays DEF Untroubled
  <2>7. Made(<<>>)' /\ Imported(Idle.cmd, <<>>)'
    BY <1>4 DEF Made, Imported
  <2> QED
    BY <2>4, <2>6, <2>7 DEF Untroubled
<1> QED
  BY <1>2, <1>3, <1>6, <1>8, <1>9 DEF Sound, Ordinary

\* One that looks and refuses.
LEMMA Refuses ==
    ASSUME FilesIndInv, NEW p \in Commanders, NEW cmd, NEW t, At(p, cmd, t), t # <<>>,
           Head(t).do \in Refusing, Fail(p), UNCHANGED <<config, text, tmp, runtime, folder, trouble>>
    PROVE  FilesIndInv'
<1>1. Planned(cmd, t) /\ ("overlapped" \notin trouble =>
          Sound(cmd, t) /\ BodiesThere /\ OthersThere /\ latest.answer = "none")
  BY AtFacts
<1>2. ~More(Tail(t)) /\ OpsIn(t) = {Head(t)} \cup OpsIn(Tail(t))
  BY <1>1, FirstOfPlan
<1>3. OpsIn(t) = {Head(t)}
  BY <1>2, NoOps DEF More
<1>4. Whole(t) /\ Head(t).do \notin {"remove", "remove packages"}
  BY DEF Whole, Refusing, Seconds
<1>5. HistoryTypes
  BY DEF FilesIndInv
<1>6. End(p, "error") /\ latest' = [latest EXCEPT !.answer = "error"]
  BY DEF Fail, End
<1>7. "overlapped" \notin trouble => Sound(Idle.cmd, <<>>)' /\ BodiesThere' /\ OthersThere'
  BY <1>1, <1>3, <1>4, <1>5, <1>6, StopsSound
<1>8. DiskTypes'
  BY DEF FilesIndInv, DiskTypes
<1> QED
  BY <1>6, <1>7, <1>8, Ends

LEMMA ReloadStep ==
    ASSUME FilesIndInv, NEW p \in Commanders, NEW cmd, NEW t, At(p, cmd, t), ReloadConfig(p) \/ Verify(p)
    PROVE  FilesIndInv'
<1>1. /\ t # <<>> /\ Head(t).do \in {"reload config", "verify"} /\ UNCHANGED <<disk, trouble>>
      /\ Continue(p, Tail(t)) \/ Fail(p)
  BY DEF ReloadConfig, Verify, At, Performs, Current, Rest, Expect
<1>2. Head(t).do \in Refusing /\ Head(t).do \notin Seconds \cup Firsts \cup TextOps \cup {"remove packages"}
  BY <1>1 DEF Refusing, Seconds, Firsts, TextOps
<1>3. UNCHANGED <<config, text, tmp, runtime, folder, trouble>>
  BY <1>1 DEF disk
<1> QED
  BY <1>1, <1>2, <1>3, LooksOn, Refuses

LEMMA AnswerStep ==
    ASSUME FilesIndInv, NEW p \in Commanders, NEW cmd, NEW t, At(p, cmd, t), Answer(p)
    PROVE  FilesIndInv'
<1>1. /\ t = <<>> /\ End(p, "ok") /\ UNCHANGED <<config, text, tmp, runtime, folder, trouble>>
      /\ latest' = [latest EXCEPT !.answer = "ok"]
  BY DEF Answer, At, End, disk
<1>2. "overlapped" \notin trouble => Sound(cmd, t) /\ BodiesThere /\ OthersThere /\ latest.answer = "none"
  BY AtFacts
<1>3. HistoryTypes /\ DiskTypes'
  BY <1>1 DEF FilesIndInv, DiskTypes
<1>4. "overlapped" \notin trouble => Sound(Idle.cmd, <<>>)' /\ BodiesThere' /\ OthersThere'
  BY <1>1, <1>2, <1>3, StopsSound
<1> QED
  BY <1>1, <1>3, <1>4, Ends

LEMMA KillStep ==
    ASSUME FilesIndInv, NEW p \in Commanders, NEW cmd, NEW t, At(p, cmd, t), Kill(p)
    PROVE  FilesIndInv'
<1>1. /\ End(p, "killed") /\ UNCHANGED <<config, text, tmp, runtime, folder>>
      /\ trouble' = trouble \cup {"killed"} \cup (IF cmd.op \in Wholesale THEN {"torn"} ELSE {})
      /\ latest' = [latest EXCEPT !.answer = "killed"]
  BY DEF Kill, At, End, disk
<1>2. /\ Planned(cmd, t)
      /\ "overlapped" \notin trouble =>
            Sound(cmd, t) /\ BodiesThere /\ OthersThere /\ latest.answer = "none"
  BY AtFacts
<1>3. HistoryTypes /\ DiskTypes'
  BY <1>1 DEF FilesIndInv, DiskTypes
<1>4. trouble' # {} /\ trouble \subseteq trouble' /\ ("torn" \in trouble' \/ ~Ahead(t, "fill"))
  <2>1. Ahead(t, "fill") => cmd.op \in Wholesale
    <3>1. t # <<>> => Belongs(cmd, Head(t))
      BY <1>2, FirstOfPlan
    <3> QED
      BY <3>1 DEF Ahead, Belongs
  <2> QED
    BY <1>1, <2>1
<1>5. "overlapped" \notin trouble => Sound(Idle.cmd, <<>>)' /\ BodiesThere' /\ OthersThere'
  BY <1>1, <1>2, <1>3, <1>4, StopsSound
<1> QED
  BY <1>1, <1>3, <1>4, <1>5, Ends

-----------------------------------------------------------------------------
(* The texts                                                               *)

\* The second half: the text of the operation is what the file holds.
LEMMA TextPut ==
    ASSUME NEW cmd, NEW t, Planned(cmd, t), t # <<>>, Head(t).do \in {"rename", "fill"},
           text \in Texts, text' = [text EXCEPT ![Head(t).file] = Head(t).content],
           UNCHANGED <<config, folder, runtime, latest, trouble>>,
           Sound(cmd, t), BodiesThere, OthersThere
    PROVE  Sound(cmd, Tail(t))' /\ BodiesThere' /\ OthersThere'
<1> DEFINE h == Head(t)  r == Tail(t)
<1>1. /\ h \in Ops /\ Planned(cmd, r) /\ OpsIn(t) = {h} \cup OpsIn(r)
      /\ h.do \notin Firsts => Whole(r)
  BY FirstOfPlan
<1>2. \A x \in OpsIn(r) : x \in OpsIn(t)
  BY <1>1
<1>3. \A s : Doomed(t, s) => Doomed(r, s)
  BY RestHas
<1> HIDE DEF r
<1>4. Whole(r) /\ h.do \in TextOps
  BY <1>1 DEF Firsts, TextOps
<1>5. h.file \in Files /\ h.content # {}
  BY <1>1, <1>4, OpFields
<1>6. Prepared(r)'
  BY <1>4, WholeIsPrepared
<1>7. text'[h.file] = h.content /\ \A f \in Files : f # h.file => text'[f] = text[f]
  BY <1>5 DEF Texts
<1>8. TextsThere(r)'
  BY <1>5, <1>7 DEF TextsThere, Ahead, Sound, Ordinary
<1>9. ~Ahead(t, "put config") /\ ~Ahead(t, "stage body") /\ ~Ahead(t, "rename body") /\ ~Ahead(t, "remove")
  BY DEF Ahead
<1>10. LimitsKept(r)'
  BY <1>2, <1>9, LimitsStay DEF Sound, Ordinary
<1>11. ASSUME trouble = {} PROVE Untroubled(cmd, r)'
  <2>1. Untroubled(cmd, t)
    BY <1>11 DEF Sound
  <2>2. Loaded(r)' /\ Packages(r)'
    BY <1>2, <1>9, <2>1, LoadedStays, PackagesStay DEF Untroubled
  <2>3. Imported(cmd, r)'
    BY <1>2, <2>1, ImportedStays DEF Untroubled
  <2>4. Catalogs(h) <=> h.file = "skills"
    BY <1>4 DEF Catalogs
  <2>5. h \in OpsIn(t) /\ "skills" \in Files
    BY <1>1 DEF Files
  <2>6. InCatalog(r)'
    <3>1. \A s : Doomed(r, s)' <=> Doomed(r, s)
      BY DoomedStays
    <3>2. Here' = Here
      BY TreeStays
    <3>3. \A x \in OpsIn(r) : Catalogs(x) => \A s \in Here : s \in x.content \/ Doomed(r, s)
      BY <1>2, <1>3, <2>1 DEF Untroubled, InCatalog
    <3>4. ASSUME NEW s \in Here PROVE s \in text'["skills"] \/ Doomed(r, s)
      <4>1. CASE h.file = "skills"
        BY <1>3, <1>7, <2>1, <2>4, <2>5, <4>1 DEF Untroubled, InCatalog
      <4>2. CASE h.file # "skills"
        BY <1>3, <1>7, <2>1, <2>5, <4>2 DEF Untroubled, InCatalog
      <4> QED
        BY <4>1, <4>2
    <3> QED
      BY <3>1, <3>2, <3>3, <3>4 DEF InCatalog
  <2>7. Made(r)'
    <3> SUFFICES ASSUME NEW x \in OpsIn(r), NEW s \in Skills, Creates(x, s)
                 PROVE  /\ s \in text'["skills"] \/ \E y \in OpsIn(r) : Catalogs(y)
                        /\ \A y \in OpsIn(r) : Catalogs(y) => s \in y.content
      BY DEF Made
    <3>1. /\ s \in text["skills"] \/ \E y \in OpsIn(t) : Catalogs(y)
          /\ \A y \in OpsIn(t) : Catalogs(y) => s \in y.content
      BY <1>2, <2>1 DEF Untroubled, Made
    <3>2. CASE h.file = "skills"
      BY <1>2, <1>7, <2>4, <2>5, <3>1, <3>2
    <3>3. CASE h.file # "skills"
      BY <1>1, <1>7, <2>4, <2>5, <3>1, <3>3
    <3> QED
      BY <3>2, <3>3
  <2> QED
    BY <2>2, <2>3, <2>6, <2>7 DEF Untroubled
<1> QED
  BY <1>6, <1>8, <1>10, <1>11, FoldersStay DEF Sound, Ordinary, r

LEMMA RenameStep ==
    ASSUME FilesIndInv, NEW p \in Commanders, NEW cmd, NEW t, At(p, cmd, t), Rename(p)
    PROVE  FilesIndInv'
<1> DEFINE h == Head(t)  r == Tail(t)
<1>1. /\ t # <<>> /\ h.do = "rename" /\ UNCHANGED <<config, runtime, folder, trouble>>
      /\ IF tmp[h.file] # {}
         THEN /\ text' = [text EXCEPT ![h.file] = tmp[h.file]]
              /\ tmp' = [tmp EXCEPT ![h.file] = {}]
              /\ Continue(p, r) /\ latest' = latest
         ELSE text' = [text EXCEPT ![h.file] = {}] /\ Fail(p) /\ tmp' = tmp
  BY DEF Rename, At, Performs, Current, Rest, FilesKept, Continue
<1>2. /\ Planned(cmd, t)
      /\ "overlapped" \notin trouble => Sound(cmd, t) /\ BodiesThere /\ OthersThere
  BY AtFacts
<1>3. h \in Ops /\ Planned(cmd, r)
  BY <1>1, <1>2, FirstOfPlan
<1> HIDE DEF r
<1>4. h.file \in Files /\ h.content # {}
  BY <1>1, <1>3, OpFields DEF TextOps
<1>5. text \in Texts /\ tmp \in Texts
  BY DEF FilesIndInv, DiskTypes
<1>6. DiskTypes'
  <2>1. text' \in Texts /\ tmp' \in Texts
    <3>1. ASSUME NEW c \in Contents, h.file = "skills" => c \subseteq Skills, NEW u \in Texts
          PROVE  [u EXCEPT ![h.file] = c] \in Texts
      BY <1>4, <3>1, TextType
    <3>2. {} \in Contents /\ {} \subseteq Skills
      BY TextTypes
    <3>3. tmp[h.file] \in Contents /\ (h.file = "skills" => tmp[h.file] \subseteq Skills)
      BY <1>4, <1>5, TextTypes
    <3>4. /\ [text EXCEPT ![h.file] = tmp[h.file]] \in Texts /\ [tmp EXCEPT ![h.file] = {}] \in Texts
          /\ [text EXCEPT ![h.file] = {}] \in Texts
      BY <1>5, <3>1, <3>2, <3>3
    <3> QED
      BY <1>1, <1>5, <3>4
  <2> QED
    BY <1>1, <2>1 DEF FilesIndInv, DiskTypes
<1>7. "overlapped" \notin trouble => tmp[h.file] = h.content
  BY <1>1, <1>2 DEF Sound, Ordinary, Prepared, Ahead
<1>8. CASE tmp[h.file] # {}
  <2>1. "overlapped" \notin trouble => Sound(cmd, r)' /\ BodiesThere' /\ OthersThere'
    BY <1>1, <1>2, <1>5, <1>7, <1>8, TextPut DEF r
  <2> QED
    BY <1>1, <1>3, <1>6, <1>8, <2>1, Goes
<1>9. CASE tmp[h.file] = {}
  <2>1. "overlapped" \in trouble /\ End(p, "error")
    BY <1>1, <1>4, <1>7, <1>9 DEF Fail
  <2> QED
    BY <1>1, <1>6, <2>1, Ends
<1> QED
  BY <1>8, <1>9

LEMMA FillStep ==
    ASSUME FilesIndInv, NEW p \in Commanders, NEW cmd, NEW t, At(p, cmd, t), FillText(p)
    PROVE  FilesIndInv'
<1> DEFINE h == Head(t)  r == Tail(t)
<1>1. /\ t # <<>> /\ h.do = "fill" /\ UNCHANGED <<config, runtime, folder, tmp, trouble>>
      /\ text' = [text EXCEPT ![h.file] = h.content] /\ Continue(p, r) /\ latest' = latest
  BY DEF FillText, At, Performs, Current, Rest, FilesKept, Continue
<1>2. /\ Planned(cmd, t)
      /\ "overlapped" \notin trouble => Sound(cmd, t) /\ BodiesThere /\ OthersThere
  BY AtFacts
<1>3. h \in Ops /\ Planned(cmd, r)
  BY <1>1, <1>2, FirstOfPlan
<1>4. text \in Texts
  BY DEF FilesIndInv, DiskTypes
<1>5. DiskTypes'
  <2>1. h.file \in Files /\ h.content \in Contents /\ (h.file = "skills" => h.content \subseteq Skills)
    BY <1>1, <1>3, OpFields DEF TextOps
  <2>2. text' \in Texts
    BY <1>1, <1>4, <2>1, TextType
  <2> QED
    BY <1>1, <2>2 DEF FilesIndInv, DiskTypes
<1>6. "overlapped" \notin trouble => Sound(cmd, r)' /\ BodiesThere' /\ OthersThere'
  BY <1>1, <1>2, <1>4, TextPut
<1> QED
  BY <1>1, <1>3, <1>5, <1>6, Goes

LEMMA DropStep ==
    ASSUME FilesIndInv, NEW p \in Commanders, NEW cmd, NEW t, At(p, cmd, t), DropText(p)
    PROVE  FilesIndInv'
<1> DEFINE h == Head(t)  r == Tail(t)
<1>1. /\ t # <<>> /\ h.do = "drop" /\ UNCHANGED <<config, runtime, folder, tmp, trouble>>
      /\ text' = [text EXCEPT ![h.file] = {}] /\ Continue(p, r) /\ latest' = latest
  BY DEF DropText, At, Performs, Current, Rest, FilesKept, Continue
<1>2. /\ Planned(cmd, t)
      /\ "overlapped" \notin trouble => Sound(cmd, t) /\ BodiesThere /\ OthersThere
  BY AtFacts
<1>3. /\ h \in Ops /\ Planned(cmd, r) /\ More(r) /\ Pair(h, Head(r)) /\ OpsIn(t) = {h} \cup OpsIn(r)
      /\ OpsIn(r) = {Head(r)} \cup OpsIn(Tail(r))
  <2>1. h.do \in Firsts
    BY <1>1 DEF Firsts
  <2>2. h \in Ops /\ Planned(cmd, r) /\ More(r) /\ Pair(h, Head(r)) /\ OpsIn(t) = {h} \cup OpsIn(r)
    BY <1>1, <1>2, <2>1, FirstOfPlan, FirstOfPair
  <2>3. OpsIn(r) = {Head(r)} \cup OpsIn(Tail(r))
    BY <2>2, FirstOfPlan DEF More
  <2> QED
    BY <2>2, <2>3
<1>4. \A s : Doomed(t, s) => Doomed(r, s)
  BY <1>1, <1>2, RestHas
<1> HIDE DEF r
<1>5. h.file \in Files /\ text \in Texts
  BY <1>1, <1>3, OpFields DEF TextOps, FilesIndInv, DiskTypes
<1>6. DiskTypes'
  <2>1. text' \in Texts
    BY <1>1, <1>5, TextType, TextTypes
  <2> QED
    BY <1>1, <2>1 DEF FilesIndInv, DiskTypes
<1>7. text'[h.file] = {} /\ \A f \in Files : f # h.file => text'[f] = text[f]
  BY <1>1, <1>5 DEF Texts
<1>8. Ahead(r, "fill") /\ Head(r).file = h.file /\ Head(r).do = "fill"
  BY <1>1, <1>3 DEF Pair, Ahead, More
<1>9. ASSUME "overlapped" \notin trouble PROVE Sound(cmd, r)' /\ BodiesThere' /\ OthersThere'
  <2>1. /\ ~Ahead(t, "put config") /\ ~Ahead(t, "stage body") /\ ~Ahead(t, "rename body")
        /\ ~Ahead(t, "remove") /\ ~Ahead(t, "fill")
    BY <1>1 DEF Ahead
  <2>2. Prepared(r)'
    BY <1>8 DEF Prepared, Ahead
  <2>3. TextsThere(r)'
    BY <1>1, <1>2, <1>7, <1>8, <1>9, <2>1 DEF TextsThere, Sound, Ordinary
  <2>4. LimitsKept(r)'
    BY <1>1, <1>2, <1>3, <1>9, <2>1, LimitsStay DEF Sound, Ordinary
  <2>5. ASSUME trouble = {} PROVE Untroubled(cmd, r)'
    <3>1. Untroubled(cmd, t)
      BY <1>2, <1>9, <2>5 DEF Sound
    <3>2. Loaded(r)' /\ Packages(r)'
      BY <1>1, <1>3, <2>1, <3>1, LoadedStays, PackagesStay DEF Untroubled
    <3>3. Imported(cmd, r)'
      BY <1>1, <1>3, <3>1, ImportedStays DEF Untroubled
    <3>4. InCatalog(r)'
      <4>1. \A s : Doomed(r, s)' <=> Doomed(r, s)
        BY <1>1, DoomedStays
      <4>2. Here' = Here /\ Here \subseteq Skills
        BY <1>1, TreeStays DEF Here
      <4>3. \A x \in OpsIn(r) : Catalogs(x) => \A s \in Here : s \in x.content \/ Doomed(r, s)
        BY <1>3, <1>4, <3>1 DEF Untroubled, InCatalog
      <4>4. h.file # "skills" => text'["skills"] = text["skills"]
        BY <1>7 DEF Files
      <4>5. ASSUME NEW s \in Here, h.file # "skills" PROVE s \in text'["skills"] \/ Doomed(r, s)
        BY <1>4, <2>1, <3>1, <4>4, <4>5 DEF Untroubled, InCatalog
      <4> QED
        BY <1>8, <4>1, <4>2, <4>3, <4>5 DEF InCatalog
    <3>5. Made(r)'
      <4> SUFFICES ASSUME NEW x \in OpsIn(r), NEW s \in Skills, Creates(x, s)
                   PROVE  /\ s \in text'["skills"] \/ \E y \in OpsIn(r) : Catalogs(y)
                          /\ \A y \in OpsIn(r) : Catalogs(y) => s \in y.content
        BY DEF Made
      <4>1. /\ s \in text["skills"] \/ \E y \in OpsIn(t) : Catalogs(y)
            /\ \A y \in OpsIn(t) : Catalogs(y) => s \in y.content
        BY <1>3, <3>1 DEF Untroubled, Made
      <4>2. h.file = "skills" => Catalogs(Head(r)) /\ Head(r) \in OpsIn(r)
        BY <1>3, <1>8 DEF Catalogs, TextOps
      <4>3. h.file # "skills" => text'["skills"] = text["skills"] /\ ~Catalogs(h)
        BY <1>7 DEF Files, Catalogs
      <4> QED
        BY <1>3, <4>1, <4>2, <4>3
    <3> QED
      BY <3>2, <3>3, <3>4, <3>5 DEF Untroubled
  <2>6. BodiesThere' /\ OthersThere'
    BY <1>1, <1>2, <1>9, FoldersStay
  <2> QED
    BY <1>1, <2>2, <2>3, <2>4, <2>5, <2>6 DEF Sound, Ordinary
<1> QED
  BY <1>1, <1>3, <1>6, <1>9, Goes

-----------------------------------------------------------------------------
(* The configuration                                                       *)

LEMMA ConfigAside ==
    ASSUME NEW cmd, NEW t, Planned(cmd, t), t # <<>>, Head(t).do \in {"drop config", "put config"},
           UNCHANGED <<text, folder, runtime, latest, trouble>>, Sound(cmd, t), BodiesThere, OthersThere,
           Prepared(Tail(t))', LimitsKept(Tail(t))', trouble = {} => Loaded(Tail(t))'
    PROVE  Sound(cmd, Tail(t))' /\ BodiesThere' /\ OthersThere'
<1>1. ~Ahead(t, "fill") /\ ~Ahead(t, "stage body") /\ ~Ahead(t, "rename body") /\ ~Ahead(t, "remove")
  BY DEF Ahead
<1>2. /\ \A x \in OpsIn(Tail(t)) : x \in OpsIn(t)
      /\ (\E y \in OpsIn(t) : Catalogs(y)) => \E y \in OpsIn(Tail(t)) : Catalogs(y)
      /\ \A s : Doomed(t, s) => Doomed(Tail(t), s)
  BY RestHas DEF TextOps
<1>3. TextsThere(Tail(t))'
  BY <1>1, TextsStay DEF Sound, Ordinary
<1>4. ASSUME trouble = {} PROVE Untroubled(cmd, Tail(t))'
  <2>1. Untroubled(cmd, t)
    BY <1>4 DEF Sound
  <2>2. Packages(Tail(t))'
    BY <1>1, <2>1, PackagesStay DEF Untroubled
  <2>3. InCatalog(Tail(t))'
    BY <1>1, <1>2, <2>1, CatalogStays DEF Untroubled
  <2>4. Made(Tail(t))'
    BY <1>2, <2>1, MadeStays DEF Untroubled
  <2>5. Imported(cmd, Tail(t))'
    BY <1>2, <2>1, ImportedStays DEF Untroubled
  <2> QED
    BY <1>4, <2>2, <2>3, <2>4, <2>5 DEF Untroubled
<1> QED
  BY <1>3, <1>4, FoldersStay DEF Sound, Ordinary

LEMMA DropConfigStep ==
    ASSUME FilesIndInv, NEW p \in Commanders, NEW cmd, NEW t, At(p, cmd, t), DropConfig(p)
    PROVE  FilesIndInv'
<1> DEFINE h == Head(t)  r == Tail(t)
<1>1. /\ t # <<>> /\ h.do = "drop config" /\ UNCHANGED <<text, runtime, folder, tmp, trouble>>
      /\ config' = NoConfig /\ Continue(p, r) /\ latest' = latest
  BY DEF DropConfig, At, Performs, Current, Rest, Continue
<1>2. /\ Planned(cmd, t)
      /\ "overlapped" \notin trouble => Sound(cmd, t) /\ BodiesThere /\ OthersThere
  BY AtFacts
<1>3. h \in Ops /\ Planned(cmd, r) /\ More(r) /\ Pair(h, Head(r)) /\ OpsIn(t) = {h} \cup OpsIn(r)
  <2>1. h.do \in Firsts
    BY <1>1 DEF Firsts
  <2> QED
    BY <1>1, <1>2, <2>1, FirstOfPlan, FirstOfPair
<1> HIDE DEF r
<1>4. Ahead(r, "put config") /\ Head(r).do = "put config"
  BY <1>1, <1>3 DEF Pair, Ahead, More
<1>5. DiskTypes'
  BY <1>1 DEF FilesIndInv, DiskTypes, NoConfig, Settings, Limits
<1>6. Prepared(r)'
  BY <1>4 DEF Prepared, Ahead
<1>7. "overlapped" \notin trouble => LimitsKept(r)' /\ (trouble = {} => Loaded(r)')
  BY <1>1, <1>2, <1>3, <1>4 DEF Sound, Ordinary, Untroubled, LimitsKept, Keeping, Loaded
<1>8. "overlapped" \notin trouble => Sound(cmd, r)' /\ BodiesThere' /\ OthersThere'
  BY <1>1, <1>2, <1>6, <1>7, ConfigAside DEF r
<1> QED
  BY <1>1, <1>3, <1>5, <1>8, Goes

LEMMA PutConfigStep ==
    ASSUME FilesIndInv, NEW p \in Commanders, NEW cmd, NEW t, At(p, cmd, t), PutConfig(p)
    PROVE  FilesIndInv'
<1> DEFINE h == Head(t)  r == Tail(t)
<1>1. /\ t # <<>> /\ h.do = "put config" /\ UNCHANGED <<text, runtime, folder, tmp, trouble>>
      /\ config' = h.config /\ Continue(p, r) /\ latest' = latest
  BY DEF PutConfig, At, Performs, Current, Rest, Continue
<1>2. /\ Planned(cmd, t)
      /\ "overlapped" \notin trouble => Sound(cmd, t) /\ BodiesThere /\ OthersThere
  BY AtFacts
<1>3. h \in Ops /\ Planned(cmd, r) /\ Whole(r) /\ OpsIn(t) = {h} \cup OpsIn(r)
  <2>1. h.do \notin Firsts
    BY <1>1 DEF Firsts
  <2> QED
    BY <1>1, <1>2, <2>1, FirstOfPlan
<1> HIDE DEF r
<1>4. h.config \in Settings
  BY <1>1, <1>3, OpFields
<1>5. DiskTypes'
  BY <1>1, <1>4 DEF FilesIndInv, DiskTypes
<1>6. Prepared(r)'
  BY <1>3, WholeIsPrepared
<1>7. "overlapped" \notin trouble => LimitsKept(r)' /\ (trouble = {} => Loaded(r)')
  BY <1>1, <1>2, <1>3 DEF Sound, Ordinary, Untroubled, LimitsKept, Keeping, Loaded
<1>8. "overlapped" \notin trouble => Sound(cmd, r)' /\ BodiesThere' /\ OthersThere'
  BY <1>1, <1>2, <1>6, <1>7, ConfigAside DEF r
<1> QED
  BY <1>1, <1>3, <1>5, <1>8, Goes

-----------------------------------------------------------------------------
(* The folders                                                             *)

LEMMA FolderChanged ==
    ASSUME folder \in Folders, NEW w \in Trees, NEW s \in Skills, NEW new \in SUBSET Parts,
           folder' = [folder EXCEPT ![w][s] = new]
    PROVE  /\ folder' \in Folders /\ folder'[w][s] = new
           /\ \A v \in Trees, x \in Skills : v # w \/ x # s => folder'[v][x] = folder[v][x]
BY DEF Folders

LEMMA FolderAside ==
    ASSUME NEW cmd, NEW t, Planned(cmd, t), t # <<>>, Head(t).do \in FolderOps,
           UNCHANGED <<config, text, latest, trouble>>, Sound(cmd, t),
           BodiesThere', OthersThere', Prepared(Tail(t))',
           trouble = {} => Packages(Tail(t))' /\ InCatalog(Tail(t))'
    PROVE  Sound(cmd, Tail(t))' /\ BodiesThere' /\ OthersThere'
<1>1. ~Ahead(t, "fill") /\ ~Ahead(t, "put config")
  BY DEF Ahead, FolderOps
<1>2. \A x \in OpsIn(Tail(t)) : x \in OpsIn(t)
  BY RestHas
<1>3. (\E y \in OpsIn(t) : Catalogs(y)) => \E y \in OpsIn(Tail(t)) : Catalogs(y)
  BY RestHas DEF FolderOps, TextOps
<1>4. TextsThere(Tail(t))' /\ LimitsKept(Tail(t))'
  BY <1>1, <1>2, TextsStay, LimitsStay DEF Sound, Ordinary
<1>5. ASSUME trouble = {} PROVE Untroubled(cmd, Tail(t))'
  <2>1. Untroubled(cmd, t)
    BY <1>5 DEF Sound
  <2>2. Loaded(Tail(t))'
    BY <1>1, <1>2, <2>1, LoadedStays DEF Untroubled
  <2>3. Made(Tail(t))'
    BY <1>2, <1>3, <2>1, MadeStays DEF Untroubled
  <2>4. \A x \in OpsIn(Tail(t)) : Follows(Head(t), x)
    BY FirstOfPlan
  <2>5. Imported(cmd, Tail(t))'
    BY <2>4 DEF Imported, Follows, FolderOps
  <2> QED
    BY <1>5, <2>2, <2>3, <2>5 DEF Untroubled
<1> QED
  BY <1>4, <1>5 DEF Sound, Ordinary

\* What is common to the operations on the folder of one skill.
LEMMA FolderOpFacts ==
    ASSUME FilesIndInv, NEW p \in Commanders, NEW cmd, NEW t, At(p, cmd, t), t # <<>>,
           Head(t).do \in FolderOps
    PROVE  /\ Planned(cmd, t) /\ Planned(cmd, Tail(t)) /\ folder \in Folders /\ runtime \in BOOLEAN
           /\ Head(t).skill \in Skills /\ Head(t).where \in Trees /\ "runtime" \in Trees /\ Tree \in Trees
           /\ \A x \in OpsIn(Tail(t)) : Follows(Head(t), x)
           /\ OpsIn(t) = {Head(t)} \cup OpsIn(Tail(t)) /\ Belongs(cmd, Head(t))
           /\ ~runtime => Tree = "legacy" /\ \A s \in Skills : folder["runtime"][s] = {}
           /\ runtime => Tree = "runtime"
           /\ Head(t).do \notin Firsts => Whole(Tail(t))
           /\ Head(t).do \in Firsts => More(Tail(t)) /\ Pair(Head(t), Head(Tail(t)))
           /\ "overlapped" \notin trouble =>
                /\ Sound(cmd, t) /\ BodiesThere /\ OthersThere /\ latest.cmd = cmd
                /\ latest.found.runtime => runtime
<1>1. Planned(cmd, t)
  BY AtFacts
<1>2. Head(t) \in Ops /\ Planned(cmd, Tail(t)) /\ OpsIn(t) = {Head(t)} \cup OpsIn(Tail(t))
  BY <1>1, FirstOfPlan
<1>3. \A x \in OpsIn(Tail(t)) : Follows(Head(t), x)
  BY <1>1, FirstOfPlan
<1>4. Belongs(cmd, Head(t)) /\ (Head(t).do \notin Firsts => Whole(Tail(t)))
  BY <1>1, FirstOfPlan
<1>5. Head(t).do \in Firsts => More(Tail(t)) /\ Pair(Head(t), Head(Tail(t)))
  BY <1>1, FirstOfPair
<1>6. Head(t).skill \in Skills /\ Head(t).where \in Trees
  BY <1>2, OpFields
<1>7. /\ folder \in Folders /\ runtime \in BOOLEAN /\ "runtime" \in Trees /\ Tree \in Trees
      /\ ~runtime => Tree = "legacy" /\ \A s \in Skills : folder["runtime"][s] = {}
      /\ runtime => Tree = "runtime"
  BY DEF FilesIndInv, DiskTypes, Trees, Tree
<1>8. "overlapped" \notin trouble =>
        Sound(cmd, t) /\ BodiesThere /\ OthersThere /\ latest.cmd = cmd /\ (latest.found.runtime => runtime)
  BY AtFacts DEF FilesIndInv, HistoryTypes
<1> QED
  BY <1>1, <1>2, <1>3, <1>4, <1>5, <1>6, <1>7, <1>8

\* A body that stays, and the folders of the other skills.
LEMMA OneFolderTouched ==
    ASSUME NEW cmd \in Cmds, NEW x, NEW skill \in Skills, x.skill = skill,
           Belongs(cmd, x), latest.cmd = cmd, latest' = latest,
           x.do \in FolderOps, NEW w \in Trees, BodiesThere, OthersThere,
           Body \in folder["runtime"][skill] /\ cmd.op \in Saving => Body \in folder'["runtime"][skill],
           \A v \in Trees, s \in Skills : v # w \/ s # skill => folder'[v][s] = folder[v][s]
    PROVE  BodiesThere' /\ OthersThere'
<1>1. "runtime" \in Trees
  BY DEF Trees
<1>2. BodiesThere'
  BY <1>1 DEF BodiesThere
<1>3. cmd.op \in ForOneSkill => skill = cmd.skill
  BY DEF Belongs
<1>4. OthersThere'
  BY <1>1, <1>3 DEF OthersThere
<1> QED
  BY <1>2, <1>4

\* Nothing becomes a folder of the tree that is read, and none of its packages is spoilt.
LEMMA NoNewFolder ==
    ASSUME NEW t, NEW u, UNCHANGED <<text, runtime>>, InCatalog(t), Packages(t), ~Ahead(t, "fill"),
           Here' \subseteq Here,
           \A s \in Here' : Doomed(t, s) => Doomed(u, s),
           \A x \in OpsIn(u) : x \in OpsIn(t),
           \A s \in Here' : Body \in folder'[Tree][s] \/ Unfinished(u, s)'
    PROVE  Packages(u)' /\ InCatalog(u)'
<1>1. Tree' = Tree
  BY DEF Tree
<1>2. \A s : Doomed(u, s)' <=> Doomed(u, s)
  BY <1>1 DEF Doomed, Dooms
<1>3. Packages(u)'
  BY <1>1 DEF Packages
<1>4. \A s \in Here' : s \in text["skills"] \/ Doomed(u, s)
  BY DEF InCatalog
<1>5. \A x \in OpsIn(u) : Catalogs(x) => \A s \in Here' : s \in x.content \/ Doomed(u, s)
  BY DEF InCatalog
<1> QED
  BY <1>2, <1>3, <1>4, <1>5 DEF InCatalog

LEMMA MakeFolderStep ==
    ASSUME FilesIndInv, NEW p \in Commanders, NEW cmd, NEW t, At(p, cmd, t), MakeFolder(p)
    PROVE  FilesIndInv'
<1> DEFINE h == Head(t)  r == Tail(t)  s == h.skill
<1>1. /\ t # <<>> /\ h.do = "mkdir" /\ UNCHANGED <<config, text, tmp, trouble>> /\ latest' = latest
      /\ runtime' = TRUE /\ Continue(p, r)
      /\ folder' = [folder EXCEPT !["runtime"][s] = folder["runtime"][s] \cup {Dir}]
  BY DEF MakeFolder, At, Performs, Current, Rest, FoldersKept, Continue
<1>2. h.do \in FolderOps /\ h.do \in Firsts
  BY <1>1 DEF FolderOps, Firsts
<1>3. /\ Planned(cmd, t) /\ Planned(cmd, r) /\ folder \in Folders /\ s \in Skills /\ "runtime" \in Trees
      /\ \A x \in OpsIn(r) : Follows(h, x)
      /\ OpsIn(t) = {h} \cup OpsIn(r) /\ Belongs(cmd, h) /\ More(r) /\ Pair(h, Head(r))
      /\ ~runtime => Tree = "legacy" /\ \A x \in Skills : folder["runtime"][x] = {}
      /\ runtime => Tree = "runtime"
      /\ "overlapped" \notin trouble =>
            Sound(cmd, t) /\ BodiesThere /\ OthersThere /\ latest.cmd = cmd
  BY <1>1, <1>2, FolderOpFacts
<1>4. cmd \in Cmds
  BY AtFacts
<1> HIDE DEF r
<1>5. folder["runtime"][s] \cup {Dir} \in SUBSET Parts
  BY <1>3 DEF Folders, Parts
<1>6. /\ folder' \in Folders /\ folder'["runtime"][s] = folder["runtime"][s] \cup {Dir}
      /\ \A v \in Trees, x \in Skills : v # "runtime" \/ x # s => folder'[v][x] = folder[v][x]
  BY <1>1, <1>3, <1>5 DEF Folders
<1>7. DiskTypes'
  BY <1>1, <1>6 DEF FilesIndInv, DiskTypes
<1>8. Head(r).do = "stage body" /\ Head(r).skill = s /\ Ahead(r, "stage body")
  BY <1>1, <1>3 DEF Pair, Ahead, More
<1>9. Prepared(r)'
  BY <1>6, <1>8 DEF Prepared, Ahead
<1>10. ASSUME "overlapped" \notin trouble PROVE Sound(cmd, r)' /\ BodiesThere' /\ OthersThere'
  <2>1. BodiesThere' /\ OthersThere'
    BY <1>1, <1>2, <1>3, <1>4, <1>6, <1>10, OneFolderTouched
  <2>2. ASSUME trouble = {} PROVE Packages(r)' /\ InCatalog(r)'
    <3>1. Untroubled(cmd, t)
      BY <1>3, <1>10, <2>2 DEF Sound
    <3>2. Tree' = "runtime"
      BY <1>1 DEF Tree
    <3>3. /\ \A x \in Skills : x \in Here' <=> x = s \/ (x \in Here /\ runtime)
          /\ Here \subseteq Skills
      <4>1. CASE runtime
        BY <1>3, <1>6, <3>2, <4>1 DEF Here
      <4>2. CASE ~runtime
        BY <1>3, <1>6, <3>2, <4>2 DEF Here
      <4> QED
        BY <4>1, <4>2
    <3>4. ~Ahead(t, "stage body") /\ ~Ahead(t, "rename body") /\ ~Ahead(t, "remove") /\ ~Ahead(t, "fill")
      BY <1>1 DEF Ahead
    <3>5. ASSUME NEW x \in Here' PROVE Body \in folder'["runtime"][x] \/ Unfinished(r, x)'
      <4>1. CASE x = s
        BY <1>8, <4>1 DEF Unfinished
      <4>2. CASE x # s
        <5>1. x \in Skills /\ x \in Here /\ runtime /\ Tree = "runtime"
          BY <1>3, <3>3, <3>5, <4>2 DEF Here
        <5>2. Body \in folder["runtime"][x]
          BY <3>1, <3>4, <5>1 DEF Untroubled, Packages, Unfinished
        <5> QED
          BY <1>3, <1>6, <4>2, <5>1, <5>2
      <4> QED
        BY <4>1, <4>2
    <3>6. Packages(r)'
      BY <3>2, <3>5 DEF Packages
    <3>7. \A x \in OpsIn(r) : ~Catalogs(x)
      BY <1>1, <1>3 DEF Follows, Building, Catalogs
    <3>8. \A x \in OpsIn(t) : ~Catalogs(x)
      BY <1>1, <1>3, <3>7 DEF Catalogs, TextOps
    <3>9. s \in text["skills"]
      <4>1. h \in OpsIn(t) /\ Creates(h, s)
        BY <1>1, <1>3 DEF Creates
      <4> QED
        BY <1>3, <3>1, <3>8, <4>1 DEF Untroubled, Made
    <3>10. ASSUME NEW x \in Here' PROVE x \in text["skills"] \/ Doomed(r, x)'
      <4>1. CASE x = s
        BY <3>9, <4>1
      <4>2. CASE x # s
        <5>1. x \in Here /\ runtime /\ Tree = "runtime"
          BY <1>3, <3>3, <3>10, <4>2 DEF Here
        <5>2. x \in text["skills"] \/ Doomed(t, x)
          BY <3>1, <3>4, <5>1 DEF Untroubled, InCatalog
        <5>3. Doomed(t, x) => Doomed(r, x)'
          BY <1>1, <1>3, <3>2, <5>1 DEF Doomed, Dooms
        <5> QED
          BY <5>2, <5>3
      <4> QED
        BY <4>1, <4>2
    <3>11. InCatalog(r)'
      BY <1>1, <3>7, <3>10 DEF InCatalog
    <3> QED
      BY <3>6, <3>11
  <2> QED
    BY <1>1, <1>2, <1>3, <1>9, <1>10, <2>1, <2>2, FolderAside DEF r
<1> QED
  BY <1>1, <1>3, <1>7, <1>10, Goes

\* One skill folder has other parts.
PartIs(w, s, new) ==
    /\ folder' \in Folders /\ folder'[w][s] = new
    /\ \A v \in Trees, x \in Skills : v # w \/ x # s => folder'[v][x] = folder[v][x]

LEMMA PartWritten ==
    ASSUME DiskTypes, UNCHANGED <<config, text, tmp, runtime>>, NEW w \in Trees, NEW s \in Skills,
           NEW new, new \in SUBSET Parts, w = "runtime" /\ ~runtime => new = {},
           folder' = [folder EXCEPT ![w][s] = new]
    PROVE  DiskTypes' /\ PartIs(w, s, new)
<1>1. PartIs(w, s, new)
  BY DEF DiskTypes, Folders, PartIs
<1>2. ASSUME ~runtime, NEW x \in Skills PROVE folder'["runtime"][x] = {}
  <2>1. "runtime" \in Trees /\ folder["runtime"][x] = {}
    BY <1>2 DEF Trees, DiskTypes
  <2>2. CASE w = "runtime" /\ x = s
    BY <1>1, <1>2, <2>2 DEF PartIs
  <2>3. CASE ~(w = "runtime" /\ x = s)
    BY <1>1, <2>1, <2>3 DEF PartIs
  <2> QED
    BY <2>2, <2>3
<1>3. folder' \in Folders
  BY <1>1 DEF PartIs
<1> QED
  BY <1>1, <1>2, <1>3 DEF DiskTypes

LEMMA PartLeaves ==
    ASSUME NEW w \in Trees, NEW s \in Skills, NEW new, PartIs(w, s, new), NEW v \in Trees, NEW x \in Skills,
           NEW part, part \in folder'[v][x]
    PROVE  part \in folder[v][x] \/ (v = w /\ x = s /\ part \in new)
BY DEF PartIs

LEMMA PartStays ==
    ASSUME NEW w \in Trees, NEW s \in Skills, NEW new, PartIs(w, s, new), NEW v \in Trees, NEW x \in Skills,
           NEW part, part \in folder[v][x], v = w /\ x = s => part \in new
    PROVE  part \in folder'[v][x]
BY DEF PartIs

\* What is read of the tree, when one folder lost or gained a part.
LEMMA TreeRead ==
    ASSUME NEW t, NEW u, UNCHANGED <<text, runtime>>, InCatalog(t), Packages(t), ~Ahead(t, "fill"),
           NEW h, h = Head(t), h.do # "remove packages", OpsIn(t) = {h} \cup OpsIn(u),
           NEW w \in Trees, NEW s \in Skills, NEW new, PartIs(w, s, new), Tree \in Trees, s = h.skill,
           Dir \in new => Dir \in folder[w][s],
           h.do = "remove" => w = h.where /\ Dir \notin new,
           Body \in folder[w][s] \/ Ahead(t, "stage body") \/ Ahead(t, "rename body")
             => Body \in new \/ Dir \notin new \/ (w = Tree => Unfinished(u, s)),
           Ahead(t, "stage body") \/ Ahead(t, "rename body") => w = Tree
    PROVE  Packages(u)' /\ InCatalog(u)'
<1>1. Tree' = Tree
  BY SameTree
<1>2. Here' \subseteq Here /\ Here \subseteq Skills
  <2>1. ASSUME NEW x \in Skills, Dir \in folder'[Tree][x] PROVE Dir \in folder[Tree][x]
    <3>1. Dir \in folder[Tree][x] \/ (Tree = w /\ x = s /\ Dir \in new)
      BY <2>1 DEF PartIs
    <3> QED
      BY <3>1
  <2> QED
    BY <1>1, <2>1 DEF Here
<1>3. ASSUME NEW x \in Here' PROVE Dir \in folder'[Tree][x] /\ x \in Skills
  BY <1>1, <1>3 DEF Here
<1>4. folder'[w][s] = new
  BY DEF PartIs
<1>5. ASSUME NEW x \in Here', Doomed(t, x) PROVE Doomed(u, x)
  <2>1. CASE h.do = "remove" /\ h.where = Tree /\ x = s
    BY <1>3, <1>4, <1>5, <2>1
  <2>2. CASE ~Dooms(h, x)
    BY <1>5, <2>2 DEF Doomed
  <2> QED
    BY <2>1, <2>2 DEF Dooms
<1>6. ASSUME NEW x \in Here' PROVE Body \in folder'[Tree][x] \/ Unfinished(u, x)'
  <2>1. x \in Skills /\ (Body \in folder[Tree][x] \/ Unfinished(t, x))
    BY <1>2, <1>6 DEF Packages
  <2>2. Unfinished(t, x) => x = s
    BY DEF Unfinished
  <2>3. CASE x # s
    BY <2>1, <2>2, <2>3, PartStays
  <2>4. CASE x = s /\ w # Tree
    <3>1. ~Ahead(t, "stage body") /\ ~Ahead(t, "rename body")
      BY <2>4
    <3>2. Ahead(t, "remove") => w = h.where
      BY DEF Ahead
    <3>3. ~Unfinished(t, x)
      BY <2>4, <3>1, <3>2 DEF Unfinished
    <3> QED
      BY <2>1, <2>4, <3>3, PartStays
  <2>5. CASE x = s /\ w = Tree
    <3>1. Dir \in new
      BY <1>3, <1>4, <1>6, <2>5
    <3>2. ~Ahead(t, "remove")
      BY <3>1 DEF Ahead
    <3>3. Body \in folder[w][s] \/ Ahead(t, "stage body") \/ Ahead(t, "rename body")
      BY <2>1, <2>5, <3>2 DEF Unfinished
    <3>4. Unfinished(u, s)' <=> Unfinished(u, s)
      BY <1>1 DEF Unfinished
    <3> QED
      BY <1>4, <2>5, <3>1, <3>3, <3>4
  <2> QED
    BY <2>3, <2>4, <2>5
<1>7. \A x \in OpsIn(u) : x \in OpsIn(t)
  OBVIOUS
<1> QED
  BY <1>2, <1>5, <1>6, <1>7, NoNewFolder

\* An operation that leaves every folder a folder and every package but one a package.
LEMMA PartChanged ==
    ASSUME FilesIndInv, NEW p \in Commanders, NEW cmd, NEW t, At(p, cmd, t), t # <<>>,
           NEW h, h = Head(t), NEW s, s = h.skill,
           h.do \in FolderOps \ {"mkdir", "clear"},
           UNCHANGED <<config, text, tmp, runtime, trouble>>, Continue(p, Tail(t)),
           NEW w \in Trees, NEW new, DiskTypes', PartIs(w, s, new),
           Body \in folder[w][s] /\ cmd.op \in Saving => Body \in new,
           "overlapped" \notin trouble =>
             /\ Prepared(Tail(t))'
             /\ Dir \in new => Dir \in folder[w][s]
             /\ h.do = "remove" => w = h.where /\ Dir \notin new
             /\ Body \in folder[w][s] \/ Ahead(t, "stage body") \/ Ahead(t, "rename body")
                => Body \in new \/ Dir \notin new \/ (w = Tree => Unfinished(Tail(t), s))
             /\ Ahead(t, "stage body") \/ Ahead(t, "rename body") => w = Tree
    PROVE  FilesIndInv'
<1> DEFINE r == Tail(t)
<1>1. h.do \in FolderOps /\ latest' = latest
  BY DEF Continue
<1>2. /\ Planned(cmd, t) /\ Planned(cmd, r) /\ s \in Skills /\ OpsIn(t) = {h} \cup OpsIn(r)
      /\ Belongs(cmd, h) /\ Tree \in Trees
      /\ "overlapped" \notin trouble =>
            Sound(cmd, t) /\ BodiesThere /\ OthersThere /\ latest.cmd = cmd
  BY <1>1, FolderOpFacts
<1>3. cmd \in Cmds
  BY AtFacts
<1> HIDE DEF r
<1>4. ASSUME "overlapped" \notin trouble PROVE Sound(cmd, r)' /\ BodiesThere' /\ OthersThere'
  <2>1. BodiesThere' /\ OthersThere'
    <3>1. "runtime" \in Trees
      BY DEF Trees
    <3>2. Body \in folder["runtime"][s] /\ cmd.op \in Saving => Body \in folder'["runtime"][s]
      BY <1>2, <3>1, PartStays
    <3>3. \A v \in Trees, x \in Skills : v # w \/ x # s => folder'[v][x] = folder[v][x]
      BY DEF PartIs
    <3>4. /\ h.skill = s /\ Belongs(cmd, h) /\ latest.cmd = cmd /\ latest' = latest
          /\ h.do \in FolderOps /\ BodiesThere /\ OthersThere /\ s \in Skills
      BY <1>1, <1>2, <1>4
    <3> QED
      BY <1>3, <3>2, <3>3, <3>4, OneFolderTouched
  <2>2. ASSUME trouble = {} PROVE Packages(r)' /\ InCatalog(r)'
    <3>1. InCatalog(t) /\ Packages(t)
      BY <1>2, <1>4, <2>2 DEF Sound, Untroubled
    <3>2. ~Ahead(t, "fill") /\ h.do # "remove packages"
      BY <1>1 DEF Ahead, FolderOps
    <3> QED
      BY <1>2, <1>4, <3>1, <3>2, TreeRead DEF r
  <2> QED
    BY <1>1, <1>2, <1>4, <2>1, <2>2, FolderAside DEF r
<1> QED
  BY <1>2, <1>4, Goes DEF r

\* What was prepared cannot be refused, unless commands overlap.
LEMMA RefusedOverlap ==
    ASSUME FilesIndInv, NEW p \in Commanders, NEW cmd, NEW t, At(p, cmd, t), Fail(p), DiskTypes',
           runtime' = runtime, trouble' = trouble, "overlapped" \in trouble
    PROVE  FilesIndInv'
<1>1. End(p, "error")
  BY DEF Fail
<1> QED
  BY <1>1, Ends

LEMMA StageBodyStep ==
    ASSUME FilesIndInv, NEW p \in Commanders, NEW cmd, NEW t, At(p, cmd, t), StageBody(p)
    PROVE  FilesIndInv'
<1> DEFINE h == Head(t)  r == Tail(t)  s == h.skill
           there == folder["runtime"][s]
           new == IF Dir \in there THEN there \cup {Stray} ELSE there
<1>1. /\ t # <<>> /\ h.do = "stage body" /\ UNCHANGED <<config, text, tmp, runtime, trouble>>
      /\ folder' = [folder EXCEPT !["runtime"][s] = new]
      /\ IF Dir \in there THEN Continue(p, r) ELSE Fail(p)
  BY DEF StageBody, At, Performs, Current, Rest, FoldersKept, Expect
<1>2. h.do \in FolderOps \ {"mkdir", "clear"} /\ h.do \in Firsts
  BY <1>1 DEF FolderOps, Firsts
<1>3. /\ s \in Skills /\ "runtime" \in Trees /\ folder \in Folders /\ More(r) /\ Pair(h, Head(r))
      /\ ~runtime => \A x \in Skills : folder["runtime"][x] = {}
      /\ runtime => Tree = "runtime"
      /\ "overlapped" \notin trouble => Sound(cmd, t)
  BY <1>1, <1>2, FolderOpFacts
<1>4. there \in SUBSET Parts /\ (~runtime => there = {})
  BY <1>3 DEF Folders
<1> HIDE DEF r, there
<1>5. new \in SUBSET Parts /\ (~runtime => new = {})
  BY <1>4 DEF Parts
<1>6. DiskTypes
  BY DEF FilesIndInv
<1>7. DiskTypes' /\ PartIs("runtime", s, new)
  BY <1>1, <1>3, <1>5, <1>6, PartWritten
<1>8. "overlapped" \notin trouble => Dir \in there
  BY <1>1, <1>3 DEF Sound, Ordinary, Prepared, Ahead, there
<1>9. CASE Dir \in there
  <2>1. Head(r).do = "rename body" /\ Head(r).skill = s /\ Ahead(r, "rename body")
    BY <1>1, <1>3 DEF Pair, Ahead, More
  <2>2. folder'["runtime"][s] = new /\ Stray \in new
    BY <1>7, <1>9 DEF PartIs
  <2>3. Prepared(r)'
    BY <2>1, <2>2 DEF Prepared, Ahead
  <2>4. runtime
    BY <1>4, <1>9
  <2>5. /\ Body \in there => Body \in new
        /\ Dir \in new => Dir \in there
        /\ "runtime" = Tree /\ Unfinished(r, s) /\ h.do # "remove"
    BY <1>1, <1>3, <1>9, <2>1, <2>4 DEF Unfinished
  <2> HIDE DEF new, s
  <2> QED
    BY <1>1, <1>2, <1>3, <1>7, <1>9, <2>3, <2>5, PartChanged DEF r, there, s
<1>10. CASE Dir \notin there
  BY <1>1, <1>7, <1>8, <1>10, RefusedOverlap
<1> QED
  BY <1>9, <1>10

LEMMA RenameBodyStep ==
    ASSUME FilesIndInv, NEW p \in Commanders, NEW cmd, NEW t, At(p, cmd, t), RenameBody(p)
    PROVE  FilesIndInv'
<1> DEFINE h == Head(t)  r == Tail(t)  s == h.skill
           there == folder["runtime"][s]
           new == IF Stray \in there THEN (there \ {Stray}) \cup {Body} ELSE there \ {Body}
<1>1. /\ t # <<>> /\ h.do = "rename body" /\ UNCHANGED <<config, text, tmp, runtime, trouble>>
      /\ folder' = [folder EXCEPT !["runtime"][s] = new]
      /\ IF Stray \in there THEN Continue(p, r) ELSE Fail(p)
  BY DEF RenameBody, At, Performs, Current, Rest, FoldersKept, Expect
<1>2. h.do \in FolderOps \ {"mkdir", "clear"} /\ h.do \notin Firsts
  BY <1>1 DEF FolderOps, Firsts
<1>3. /\ s \in Skills /\ "runtime" \in Trees /\ folder \in Folders /\ Whole(r)
      /\ ~runtime => \A x \in Skills : folder["runtime"][x] = {}
      /\ runtime => Tree = "runtime"
      /\ "overlapped" \notin trouble => Sound(cmd, t)
  BY <1>1, <1>2, FolderOpFacts
<1>4. there \in SUBSET Parts /\ (~runtime => there = {})
  BY <1>3 DEF Folders
<1> HIDE DEF r, there
<1>5. new \in SUBSET Parts /\ (~runtime => new = {})
  BY <1>4 DEF Parts
<1>6. DiskTypes
  BY DEF FilesIndInv
<1>7. DiskTypes' /\ PartIs("runtime", s, new)
  BY <1>1, <1>3, <1>5, <1>6, PartWritten
<1>8. "overlapped" \notin trouble => Stray \in there
  BY <1>1, <1>3 DEF Sound, Ordinary, Prepared, Ahead, there
<1>9. CASE Stray \in there
  <2>1. Prepared(r)'
    BY <1>3, WholeIsPrepared
  <2>2. runtime
    BY <1>4, <1>9
  <2>3. /\ Body \in new /\ "runtime" = Tree /\ h.do # "remove"
        /\ Dir \in new => Dir \in there
    BY <1>1, <1>3, <1>9, <2>2 DEF Dir, Body
  <2> HIDE DEF new, s
  <2> QED
    BY <1>1, <1>2, <1>3, <1>7, <1>9, <2>1, <2>3, PartChanged DEF r, there, s
<1>10. CASE Stray \notin there
  BY <1>1, <1>7, <1>8, <1>10, RefusedOverlap
<1> QED
  BY <1>9, <1>10

LEMMA EmptyStep ==
    ASSUME FilesIndInv, NEW p \in Commanders, NEW cmd, NEW t, At(p, cmd, t), EmptyFolder(p)
    PROVE  FilesIndInv'
<1> DEFINE h == Head(t)  r == Tail(t)  s == h.skill  w == h.where
           new == folder[w][s] \cap {Dir}
<1>1. /\ t # <<>> /\ h.do = "empty" /\ UNCHANGED <<config, text, tmp, runtime, trouble>>
      /\ folder' = [folder EXCEPT ![w][s] = new] /\ Continue(p, r)
  BY DEF EmptyFolder, At, Performs, Current, Rest, FoldersKept, Continue
<1>2. h.do \in FolderOps \ {"mkdir", "clear"} /\ h.do \in Firsts
  BY <1>1 DEF FolderOps, Firsts
<1>3. /\ s \in Skills /\ w \in Trees /\ folder \in Folders /\ Belongs(cmd, h) /\ More(r) /\ Pair(h, Head(r))
      /\ ~runtime => \A x \in Skills : folder["runtime"][x] = {}
  BY <1>1, <1>2, FolderOpFacts
<1>4. folder[w][s] \in SUBSET Parts /\ (w = "runtime" /\ ~runtime => folder[w][s] = {})
  BY <1>3 DEF Folders
<1> HIDE DEF r
<1>5. new \in SUBSET Parts /\ (w = "runtime" /\ ~runtime => new = {})
  BY <1>4
<1>6. DiskTypes
  BY DEF FilesIndInv
<1>7. DiskTypes' /\ PartIs(w, s, new)
  BY <1>1, <1>3, <1>5, <1>6, PartWritten
<1>8. Head(r).do = "remove" /\ Head(r).where = w /\ Head(r).skill = s /\ Ahead(r, "remove")
  BY <1>1, <1>3 DEF Pair, Ahead, More
<1>9. Prepared(r)'
  <2>1. folder'[w][s] \subseteq {Dir}
    BY <1>7 DEF PartIs
  <2> QED
    BY <1>8, <2>1 DEF Prepared, Ahead
<1>10. cmd.op \notin Saving
  BY <1>1, <1>3 DEF Belongs
<1>11. /\ Dir \in new => Dir \in folder[w][s]
       /\ h.do # "remove" /\ ~Ahead(t, "stage body") /\ ~Ahead(t, "rename body")
       /\ w = Tree => Unfinished(r, s)
  BY <1>1, <1>8 DEF Unfinished, Ahead
<1> HIDE DEF new, s, w
<1> QED
  BY <1>1, <1>2, <1>3, <1>7, <1>9, <1>10, <1>11, PartChanged DEF r, s

LEMMA RemoveDirStep ==
    ASSUME FilesIndInv, NEW p \in Commanders, NEW cmd, NEW t, At(p, cmd, t), RemoveDir(p)
    PROVE  FilesIndInv'
<1> DEFINE h == Head(t)  r == Tail(t)  s == h.skill  w == h.where
           new == folder[w][s] \ {Dir}
<1>1. /\ t # <<>> /\ h.do = "remove" /\ UNCHANGED <<config, text, tmp, runtime, trouble>>
      /\ folder' = [folder EXCEPT ![w][s] = new]
      /\ IF folder[w][s] \subseteq {Dir} THEN Continue(p, r) ELSE Fail(p)
  BY DEF RemoveDir, At, Performs, Current, Rest, FoldersKept, Expect
<1>2. h.do \in FolderOps \ {"mkdir", "clear"} /\ h.do \notin Firsts
  BY <1>1 DEF FolderOps, Firsts
<1>3. /\ s \in Skills /\ w \in Trees /\ folder \in Folders /\ Belongs(cmd, h) /\ Whole(r)
      /\ ~runtime => \A x \in Skills : folder["runtime"][x] = {}
      /\ "overlapped" \notin trouble => Sound(cmd, t)
  BY <1>1, <1>2, FolderOpFacts
<1>4. folder[w][s] \in SUBSET Parts /\ (w = "runtime" /\ ~runtime => folder[w][s] = {})
  BY <1>3 DEF Folders
<1> HIDE DEF r
<1>5. new \in SUBSET Parts /\ (w = "runtime" /\ ~runtime => new = {})
  BY <1>4
<1>6. DiskTypes
  BY DEF FilesIndInv
<1>7. DiskTypes' /\ PartIs(w, s, new)
  BY <1>1, <1>3, <1>5, <1>6, PartWritten
<1>8. "overlapped" \notin trouble => folder[w][s] \subseteq {Dir}
  BY <1>1, <1>3 DEF Sound, Ordinary, Prepared, Ahead
<1>9. Prepared(r)'
  BY <1>3, WholeIsPrepared
<1>10. cmd.op \notin Saving
  BY <1>1, <1>3 DEF Belongs
<1>11. Dir \notin new /\ ~Ahead(t, "stage body") /\ ~Ahead(t, "rename body")
  BY <1>1 DEF Ahead
<1>12. CASE folder[w][s] \subseteq {Dir}
  <2>1. Continue(p, r)
    BY <1>1, <1>12
  <2> HIDE DEF new, s
  <2> QED
    BY <1>1, <1>2, <1>3, <1>7, <1>9, <1>10, <1>11, <2>1, PartChanged DEF r, s
<1>13. CASE ~(folder[w][s] \subseteq {Dir})
  BY <1>1, <1>7, <1>8, <1>13, RefusedOverlap
<1> QED
  BY <1>12, <1>13

LEMMA PutCompanionStep ==
    ASSUME FilesIndInv, NEW p \in Commanders, NEW cmd, NEW t, At(p, cmd, t), PutCompanion(p)
    PROVE  FilesIndInv'
<1> DEFINE h == Head(t)  r == Tail(t)  s == h.skill
           there == folder["runtime"][s]
           new == IF Body \in there THEN there \cup {Extra} ELSE there
<1>1. /\ t # <<>> /\ h.do = "put file" /\ UNCHANGED <<config, text, tmp, runtime, trouble>>
      /\ folder' = [folder EXCEPT !["runtime"][s] = new]
      /\ IF Body \in there THEN Continue(p, r) ELSE Fail(p)
  BY DEF PutCompanion, At, Performs, Current, Rest, FoldersKept, Expect
<1>2. h.do \in FolderOps \ {"mkdir", "clear"} /\ h.do \notin Firsts /\ h.do \in Refusing
  BY <1>1 DEF FolderOps, Firsts, Refusing
<1>3. /\ s \in Skills /\ "runtime" \in Trees /\ folder \in Folders /\ Whole(r)
      /\ ~runtime => \A x \in Skills : folder["runtime"][x] = {}
  BY <1>1, <1>2, FolderOpFacts
<1>4. there \in SUBSET Parts /\ (~runtime => there = {})
  BY <1>3 DEF Folders
<1>5. CASE Body \in there
  <2> HIDE DEF r, there
  <2>1. new \in SUBSET Parts /\ (~runtime => new = {})
    BY <1>4, <1>5 DEF Parts
  <2>2. DiskTypes
    BY DEF FilesIndInv
  <2>3. DiskTypes' /\ PartIs("runtime", s, new)
    BY <1>1, <1>3, <2>1, <2>2, PartWritten
  <2>4. Prepared(r)'
    BY <1>3, WholeIsPrepared
  <2>5. /\ Body \in new /\ h.do # "remove" /\ ~Ahead(t, "stage body") /\ ~Ahead(t, "rename body")
        /\ Dir \in new => Dir \in there
    BY <1>1, <1>5 DEF Ahead, Dir, Extra
  <2> HIDE DEF new, s
  <2> QED
    BY <1>1, <1>2, <1>3, <1>5, <2>3, <2>4, <2>5, PartChanged DEF r, there, s
<1>6. CASE Body \notin there
  <2>1. folder' = folder /\ Fail(p)
    BY <1>1, <1>3, <1>6 DEF Folders
  <2> QED
    BY <1>1, <1>2, <2>1, Refuses
<1> QED
  BY <1>5, <1>6

LEMMA DropCompanionStep ==
    ASSUME FilesIndInv, NEW p \in Commanders, NEW cmd, NEW t, At(p, cmd, t), DropCompanion(p)
    PROVE  FilesIndInv'
<1> DEFINE h == Head(t)  r == Tail(t)  s == h.skill  w == Tree
           there == folder[w][s]
           new == IF Body \in there THEN there \ {Extra} ELSE there
<1>1. /\ t # <<>> /\ h.do = "drop file" /\ UNCHANGED <<config, text, tmp, runtime, trouble>>
      /\ folder' = [folder EXCEPT ![w][s] = new]
      /\ IF Body \in there /\ Extra \in there THEN Continue(p, r) ELSE Fail(p)
  BY DiskRead DEF DropCompanion, At, Performs, Current, Rest, FoldersKept, Expect, IsPackage
<1>2. h.do \in FolderOps \ {"mkdir", "clear"} /\ h.do \notin Firsts /\ h.do \in Refusing
  BY <1>1 DEF FolderOps, Firsts, Refusing
<1>3. /\ s \in Skills /\ w \in Trees /\ folder \in Folders /\ Whole(r)
      /\ ~runtime => \A x \in Skills : folder["runtime"][x] = {}
  BY <1>1, <1>2, FolderOpFacts
<1>4. there \in SUBSET Parts /\ (w = "runtime" /\ ~runtime => there = {})
  BY <1>3 DEF Folders
<1>5. CASE Body \in there /\ Extra \in there
  <2> HIDE DEF r, there
  <2>1. new \in SUBSET Parts /\ (w = "runtime" /\ ~runtime => new = {})
    BY <1>4, <1>5
  <2>2. DiskTypes
    BY DEF FilesIndInv
  <2>3. PICK v : v = w
    OBVIOUS
  <2>4. DiskTypes' /\ PartIs(v, s, new)
    BY <1>1, <1>3, <2>1, <2>2, <2>3, PartWritten
  <2>5. Prepared(r)'
    BY <1>3, WholeIsPrepared
  <2>6. /\ Body \in new /\ h.do # "remove" /\ ~Ahead(t, "stage body") /\ ~Ahead(t, "rename body")
        /\ Dir \in new => Dir \in there
    BY <1>1, <1>5 DEF Ahead, Body, Extra
  <2> HIDE DEF new, s
  <2> QED
    BY <1>1, <1>2, <1>3, <1>5, <2>3, <2>4, <2>5, <2>6, PartChanged DEF r, there, s
<1>6. CASE ~(Body \in there /\ Extra \in there)
  <2>1. new = there
    BY <1>6
  <2>2. PICK v \in Trees : v = w
    BY <1>3
  <2>3. folder' = [folder EXCEPT ![v][s] = folder[v][s]]
    BY <1>1, <2>1, <2>2
  <2>4. folder' = folder /\ Fail(p)
    <3> HIDE DEF s, w
    <3> QED
      BY <1>1, <1>3, <1>6, <2>3 DEF Folders
  <2> QED
    BY <1>1, <1>2, <2>4, Refuses
<1> QED
  BY <1>5, <1>6

-----------------------------------------------------------------------------
(* Loops, and what a command adds while it runs                            *)

LEMMA TwoPlanned ==
    ASSUME NEW cmd, NEW x \in Ops, NEW y \in Ops, Belongs(cmd, x), Belongs(cmd, y), Follows(x, y),
           Pair(x, y), x.do \in Firsts, x.do \notin Seconds, y.do \in Seconds, y.do \notin Firsts
    PROVE  Planned(cmd, <<x, y>>) /\ Whole(<<x, y>>) /\ OpsIn(<<x, y>>) = {x, y}
<1> DEFINE t == <<x, y>>
<1>1. /\ t \in Seq(Ops) /\ DOMAIN t = {1, 2} /\ t[1] = x /\ t[2] = y
      /\ Head(t) = x /\ OpsIn(t) = {x, y}
  BY TwoOps
<1> HIDE DEF t
<1>2. Paired(t)
  <2> SUFFICES ASSUME NEW i \in {1, 2}
               PROVE  /\ t[i].do \in Firsts => i + 1 \in {1, 2} /\ Pair(t[i], t[i + 1])
                      /\ t[i].do \in Seconds /\ i # 1 => Pair(t[i - 1], t[i])
    BY <1>1 DEF Paired
  <2>1. CASE i = 1
    BY <1>1, <2>1
  <2>2. CASE i = 2
    BY <1>1, <2>2
  <2> QED
    BY <2>1, <2>2
<1>3. Ordered(t)
  BY <1>1 DEF Ordered
<1>4. Belonging(cmd, t)
  BY <1>1 DEF Belonging
<1> QED
  BY <1>1, <1>2, <1>3, <1>4 DEF Planned, Whole, t

LEMMA OnePlanned ==
    ASSUME NEW cmd, NEW x \in Ops, Belongs(cmd, x), x.do \notin Firsts, x.do \notin Seconds
    PROVE  Planned(cmd, <<x>>) /\ Whole(<<x>>) /\ OpsIn(<<x>>) = {x}
<1> DEFINE t == <<x>>
<1>1. t \in Seq(Ops) /\ DOMAIN t = {1} /\ t[1] = x /\ Head(t) = x /\ OpsIn(t) = {x}
  BY OneOp
<1> HIDE DEF t
<1>2. Paired(t) /\ Ordered(t) /\ Belonging(cmd, t)
  BY <1>1 DEF Paired, Ordered, Belonging
<1> QED
  BY <1>1, <1>2 DEF Planned, Whole, t

\* The blocks that plans are made of.
LEMMA TextSaved ==
    ASSUME NEW cmd, NEW f \in Files, NEW c \in Contents \ {{}}, f = "skills" => c \subseteq Skills
    PROVE  /\ Planned(cmd, SaveText(f, c)) /\ Whole(SaveText(f, c))
           /\ OpsIn(SaveText(f, c)) = {TextOp("stage", f, c), TextOp("rename", f, c)}
<1> DEFINE x == TextOp("stage", f, c)  y == TextOp("rename", f, c)
<1>1. x \in Ops /\ y \in Ops
  BY DEF TextOp, Ops, TextOps
<1>2. /\ x.do = "stage" /\ y.do = "rename" /\ x.file = y.file /\ x.content = y.content
  BY DEF TextOp
<1> HIDE DEF x, y
<1>3. Belongs(cmd, x) /\ Belongs(cmd, y)
  BY <1>2 DEF Belongs, Loops, FolderOps
<1>4. Follows(x, y) /\ Pair(x, y)
  BY <1>2 DEF Follows, Pair, Refusing, Building, TextOps
<1>5. x.do \in Firsts /\ x.do \notin Seconds /\ y.do \in Seconds /\ y.do \notin Firsts
  BY <1>2 DEF Firsts, Seconds
<1> QED
  BY <1>1, <1>3, <1>4, <1>5, TwoPlanned DEF SaveText, x, y

LEMMA TextCopied ==
    ASSUME NEW cmd, cmd.op \in Wholesale, NEW f \in Files, NEW c \in Contents \ {{}}, f = "skills" => c \subseteq Skills
    PROVE  /\ Planned(cmd, CopyText(f, c)) /\ Whole(CopyText(f, c))
           /\ OpsIn(CopyText(f, c)) = {TextOp("drop", f, c), TextOp("fill", f, c)}
<1> DEFINE x == TextOp("drop", f, c)  y == TextOp("fill", f, c)
<1>1. x \in Ops /\ y \in Ops
  BY DEF TextOp, Ops, TextOps
<1>2. /\ x.do = "drop" /\ y.do = "fill" /\ x.file = y.file
  BY DEF TextOp
<1> HIDE DEF x, y
<1>3. Belongs(cmd, x) /\ Belongs(cmd, y)
  BY <1>2 DEF Belongs, Loops, FolderOps, Wholesale
<1>4. Follows(x, y) /\ Pair(x, y)
  BY <1>2 DEF Follows, Pair, Refusing, Building, TextOps
<1>5. x.do \in Firsts /\ x.do \notin Seconds /\ y.do \in Seconds /\ y.do \notin Firsts
  BY <1>2 DEF Firsts, Seconds
<1> QED
  BY <1>1, <1>3, <1>4, <1>5, TwoPlanned DEF CopyText, x, y

PutOp(c) == [do |-> "put config", config |-> c]

LEMMA ConfigSaved ==
    ASSUME NEW cmd, NEW c \in Settings
    PROVE  /\ Planned(cmd, SaveConfig(c)) /\ Whole(SaveConfig(c))
           /\ OpsIn(SaveConfig(c)) = {Op("drop config"), PutOp(c)}
<1> DEFINE x == Op("drop config")  y == PutOp(c)
<1>1. x \in Ops /\ y \in Ops
  BY DEF Op, PutOp, Ops
<1>2. x.do = "drop config" /\ y.do = "put config"
  BY DEF Op, PutOp
<1>3. SaveConfig(c) = <<x, y>>
  BY DEF SaveConfig, PutOp
<1> HIDE DEF x, y
<1>4. Belongs(cmd, x) /\ Belongs(cmd, y)
  BY <1>2 DEF Belongs, Loops, FolderOps
<1>5. Follows(x, y) /\ Pair(x, y)
  BY <1>2 DEF Follows, Pair, Refusing, Building, TextOps
<1>6. x.do \in Firsts /\ x.do \notin Seconds /\ y.do \in Seconds /\ y.do \notin Firsts
  BY <1>2 DEF Firsts, Seconds
<1>7. Planned(cmd, <<x, y>>) /\ Whole(<<x, y>>) /\ OpsIn(<<x, y>>) = {x, y}
  BY <1>1, <1>4, <1>5, <1>6, TwoPlanned
<1> QED
  BY <1>3, <1>7 DEF x, y

LEMMA FolderRemoved ==
    ASSUME NEW cmd, cmd.op \notin Saving, NEW w \in Trees, NEW s \in Skills,
           cmd.op \in ForOneSkill => s = cmd.skill
    PROVE  /\ Planned(cmd, RemoveFolder(w, s)) /\ Whole(RemoveFolder(w, s))
           /\ OpsIn(RemoveFolder(w, s)) = {FolderOp("empty", w, s), FolderOp("remove", w, s)}
<1> DEFINE x == FolderOp("empty", w, s)  y == FolderOp("remove", w, s)
<1>1. x \in Ops /\ y \in Ops
  BY DEF FolderOp, Ops, FolderOps
<1>2. /\ x.do = "empty" /\ y.do = "remove" /\ x.where = y.where /\ x.skill = y.skill /\ x.skill = s
  BY DEF FolderOp
<1>3. RemoveFolder(w, s) = <<x, y>>
  BY DEF RemoveFolder
<1> HIDE DEF x, y
<1>4. Belongs(cmd, x) /\ Belongs(cmd, y)
  BY <1>2 DEF Belongs, Loops
<1>5. Follows(x, y) /\ Pair(x, y)
  BY <1>2 DEF Follows, Pair, Refusing, Building, TextOps
<1>6. x.do \in Firsts /\ x.do \notin Seconds /\ y.do \in Seconds /\ y.do \notin Firsts
  BY <1>2 DEF Firsts, Seconds
<1>7. Planned(cmd, <<x, y>>) /\ Whole(<<x, y>>) /\ OpsIn(<<x, y>>) = {x, y}
  BY <1>1, <1>4, <1>5, <1>6, TwoPlanned
<1> QED
  BY <1>3, <1>7 DEF x, y

LEMMA BodyWritten ==
    ASSUME NEW cmd, NEW s \in Skills, cmd.op \in ForOneSkill => s = cmd.skill
    PROVE  /\ Planned(cmd, WriteBody(s)) /\ Whole(WriteBody(s))
           /\ OpsIn(WriteBody(s)) = {FolderOp("mkdir", "runtime", s), FolderOp("stage body", "runtime", s),
                                     FolderOp("rename body", "runtime", s)}
<1> DEFINE x == FolderOp("mkdir", "runtime", s)  y == FolderOp("stage body", "runtime", s)
           z == FolderOp("rename body", "runtime", s)  t == <<x, y, z>>
<1>1. x \in Ops /\ y \in Ops /\ z \in Ops
  BY DEF FolderOp, Ops, FolderOps, Trees
<1>2. /\ x.do = "mkdir" /\ y.do = "stage body" /\ z.do = "rename body"
      /\ x.skill = s /\ y.skill = s /\ z.skill = s
  BY DEF FolderOp
<1>3. WriteBody(s) = t
  BY DEF WriteBody
<1> HIDE DEF x, y, z
<1>4. /\ t \in Seq(Ops) /\ DOMAIN t = {1, 2, 3} /\ t[1] = x /\ t[2] = y /\ t[3] = z /\ Head(t) = x
  BY <1>1
<1> HIDE DEF t
<1>5. OpsIn(t) = {x, y, z}
  BY <1>4 DEF OpsIn
<1>6. Belongs(cmd, x) /\ Belongs(cmd, y) /\ Belongs(cmd, z)
  BY <1>2 DEF Belongs, Loops
<1>7. /\ Follows(x, y) /\ Follows(y, z) /\ Follows(x, z) /\ Pair(x, y) /\ Pair(y, z)
  BY <1>2 DEF Follows, Pair, Refusing, Building, TextOps
<1>8. x.do \notin Seconds /\ z.do \notin Firsts
  BY <1>2 DEF Firsts, Seconds
<1>9. Paired(t)
  <2> SUFFICES ASSUME NEW i \in {1, 2, 3}
               PROVE  /\ t[i].do \in Firsts => i + 1 \in {1, 2, 3} /\ Pair(t[i], t[i + 1])
                      /\ t[i].do \in Seconds /\ i # 1 => Pair(t[i - 1], t[i])
    BY <1>4 DEF Paired
  <2>1. CASE i = 1
    BY <1>4, <1>7, <2>1
  <2>2. CASE i = 2
    BY <1>4, <1>7, <2>2
  <2>3. CASE i = 3
    BY <1>4, <1>7, <1>8, <2>3
  <2> QED
    BY <2>1, <2>2, <2>3
<1>10. Ordered(t)
  BY <1>4, <1>7 DEF Ordered
<1>11. Belonging(cmd, t)
  BY <1>5, <1>6 DEF Belonging
<1>12. Planned(cmd, t) /\ Whole(t)
  BY <1>4, <1>8, <1>9, <1>10, <1>11 DEF Planned, Whole
<1> QED
  BY <1>3, <1>5, <1>12 DEF x, y, z

LEMMA WholeJoined ==
    ASSUME NEW a \in Seq(Ops), NEW b \in Seq(Ops), Whole(a), Whole(b)
    PROVE  Whole(a \o b)
<1>1. CASE a = <<>>
  <2>1. a \o b = b
    BY <1>1
  <2> QED
    BY <2>1
<1>2. CASE a # <<>>
  <2>1. Head(a \o b) = Head(a)
    BY <1>2
  <2> QED
    BY <1>2, <2>1 DEF Whole
<1> QED
  BY <1>1, <1>2

\* One plan after the other.
Joins(c, a, b) == c = a \o b

LEMMA Then ==
    ASSUME NEW cmd, NEW a, NEW b, NEW c, Joins(c, a, b), Planned(cmd, a), Planned(cmd, b), Whole(a), Whole(b),
           \A x \in OpsIn(a), y \in OpsIn(b) : Follows(x, y)
    PROVE  Planned(cmd, c) /\ Whole(c) /\ OpsIn(c) = OpsIn(a) \cup OpsIn(b)
<1>1. a \in Seq(Ops) /\ b \in Seq(Ops)
  BY DEF Planned
<1>2. OpsIn(a \o b) = OpsIn(a) \cup OpsIn(b)
  BY <1>1, Joined
<1>3. Whole(a \o b)
  BY <1>1, WholeJoined
<1>4. Planned(cmd, a \o b)
  BY PlannedJoined
<1> QED
  BY <1>2, <1>3, <1>4 DEF Joins

LEMMA NothingPlanned == ASSUME NEW cmd PROVE Planned(cmd, <<>>) /\ Whole(<<>>) /\ OpsIn(<<>>) = {}
<1>1. <<>> \in Seq(Ops)
  OBVIOUS
<1> QED
  BY <1>1, NoOps DEF Planned, Paired, Ordered, Belonging, Whole

\* What the operations on one folder may be followed by.
Quiet(x) == x.do \notin Refusing /\ x.do \notin Building

LEMMA QuietFollowed ==
    ASSUME NEW x, Quiet(x), NEW y, y.do # "install" PROVE Follows(x, y)
BY DEF Quiet, Follows

LEMMA PackageRemoved ==
    ASSUME NEW cmd, cmd.op \notin Saving, NEW s \in Skills, cmd.op \in ForOneSkill => s = cmd.skill
    PROVE  /\ Planned(cmd, RemovePackage(s)) /\ Whole(RemovePackage(s))
           /\ \A x \in OpsIn(RemovePackage(s)) : x.do \in {"empty", "remove"} /\ x.skill = s
           /\ \A w \in Trees : FolderOp("remove", w, s) \in OpsIn(RemovePackage(s))
<1> DEFINE a == RemoveFolder("runtime", s)  b == RemoveFolder("legacy", s)
<1>1. "runtime" \in Trees /\ "legacy" \in Trees
  BY DEF Trees
<1>2. /\ Planned(cmd, a) /\ Whole(a)
      /\ OpsIn(a) = {FolderOp("empty", "runtime", s), FolderOp("remove", "runtime", s)}
  BY <1>1, FolderRemoved
<1>3. /\ Planned(cmd, b) /\ Whole(b)
      /\ OpsIn(b) = {FolderOp("empty", "legacy", s), FolderOp("remove", "legacy", s)}
  BY <1>1, FolderRemoved
<1> HIDE DEF a, b
<1>4. \A x \in OpsIn(a) \cup OpsIn(b) : x.do \in {"empty", "remove"} /\ x.skill = s
  BY <1>2, <1>3 DEF FolderOp
<1>5. \A x \in OpsIn(a), y \in OpsIn(b) : Follows(x, y)
  BY <1>4 DEF Follows, Refusing, Building
<1>6. Planned(cmd, a \o b) /\ Whole(a \o b) /\ OpsIn(a \o b) = OpsIn(a) \cup OpsIn(b)
  <2>1. Joins(a \o b, a, b)
    BY DEF Joins
  <2> QED
    BY <1>2, <1>3, <1>5, <2>1, Then
<1>7. \A w \in Trees : FolderOp("remove", w, s) \in OpsIn(a \o b)
  BY <1>2, <1>3, <1>6 DEF Trees
<1>8. RemovePackage(s) = a \o b
  BY DEF RemovePackage, a, b
<1> QED
  BY <1>4, <1>6, <1>7, <1>8

\* What a loop does for one skill.
DoneFor(cmd, name, s, b) ==
    /\ Planned(cmd, b) /\ Whole(b)
    /\ \A x \in OpsIn(b) :
         /\ x.do \in {"empty", "remove", "mkdir", "stage body", "rename body"} /\ x.skill = s
         /\ x.do \in Building => name = "write bodies"
    /\ name = "remove packages" => \A w \in Trees : FolderOp("remove", w, s) \in OpsIn(b)

LEMMA EachOne ==
    ASSUME NEW cmd, cmd.op \notin Saving, cmd.op \notin ForOneSkill, NEW s \in Skills, NEW name \in Loops
    PROVE  DoneFor(cmd, name, s, OfEach(name, s))
<1>1. CASE name = "remove packages"
  <2>1. OfEach(name, s) = RemovePackage(s)
    BY <1>1 DEF OfEach
  <2> DEFINE b == RemovePackage(s)
  <2>2. /\ Planned(cmd, b) /\ Whole(b)
        /\ \A x \in OpsIn(b) : x.do \in {"empty", "remove"} /\ x.skill = s
        /\ \A w \in Trees : FolderOp("remove", w, s) \in OpsIn(b)
    BY PackageRemoved
  <2> HIDE DEF b
  <2>3. DoneFor(cmd, name, s, b)
    BY <2>2 DEF DoneFor, Building
  <2> QED
    BY <2>1, <2>3 DEF b
<1>2. CASE name = "remove folders"
  <2>1. OfEach(name, s) = RemoveFolder("runtime", s)
    BY <1>2 DEF OfEach
  <2>2. "runtime" \in Trees
    BY DEF Trees
  <2> DEFINE b == RemoveFolder("runtime", s)
  <2>3. /\ Planned(cmd, b) /\ Whole(b)
        /\ OpsIn(b) = {FolderOp("empty", "runtime", s), FolderOp("remove", "runtime", s)}
    BY <2>2, FolderRemoved
  <2> HIDE DEF b
  <2>4. \A x \in OpsIn(b) : x.do \in {"empty", "remove"} /\ x.skill = s
    BY <2>3 DEF FolderOp
  <2>5. DoneFor(cmd, name, s, b)
    BY <1>2, <2>3, <2>4 DEF DoneFor, Building
  <2> QED
    BY <2>1, <2>5 DEF b
<1>3. CASE name = "write bodies"
  <2>1. OfEach(name, s) = WriteBody(s)
    BY <1>3 DEF OfEach
  <2> DEFINE b == WriteBody(s)
  <2>2. /\ Planned(cmd, b) /\ Whole(b)
        /\ OpsIn(b) = {FolderOp("mkdir", "runtime", s), FolderOp("stage body", "runtime", s),
                       FolderOp("rename body", "runtime", s)}
    BY BodyWritten
  <2> HIDE DEF b
  <2>3. \A x \in OpsIn(b) : x.do \in {"mkdir", "stage body", "rename body"} /\ x.skill = s
    <3> DEFINE x == FolderOp("mkdir", "runtime", s)  y == FolderOp("stage body", "runtime", s)
               z == FolderOp("rename body", "runtime", s)
    <3>1. /\ x.do = "mkdir" /\ y.do = "stage body" /\ z.do = "rename body"
          /\ x.skill = s /\ y.skill = s /\ z.skill = s
      BY DEF FolderOp
    <3>2. OpsIn(b) = {x, y, z}
      BY <2>2
    <3> HIDE DEF x, y, z
    <3> QED
      BY <3>1, <3>2
  <2>4. DoneFor(cmd, name, s, b)
    BY <1>3, <2>2, <2>3 DEF DoneFor
  <2> QED
    BY <2>1, <2>4 DEF b
<1> QED
  BY <1>1, <1>2, <1>3 DEF Loops

LEMMA ForEachStep ==
    ASSUME FilesIndInv, NEW p \in Commanders, NEW cmd, NEW t, At(p, cmd, t), ForEach(p)
    PROVE  FilesIndInv'
<1> DEFINE h == Head(t)  r == Tail(t)  S == h.skills  name == h.do
<1>1. /\ t # <<>> /\ name \in Loops /\ UNCHANGED <<config, text, tmp, runtime, folder, trouble>>
      /\ IF S = {} THEN Continue(p, r)
         ELSE \E s \in S : Continue(p, OfEach(name, s) \o <<Each(name, S \ {s})>> \o r)
  BY DEF ForEach, At, Performs, Current, Rest, disk
<1>2. Planned(cmd, t) /\ ("overlapped" \notin trouble => Sound(cmd, t) /\ BodiesThere /\ OthersThere)
  BY AtFacts
<1>3. h \in Ops /\ Planned(cmd, r) /\ OpsIn(t) = {h} \cup OpsIn(r) /\ Belongs(cmd, h)
  BY <1>1, <1>2, FirstOfPlan
<1>4. Whole(r) /\ \A x \in OpsIn(r) : Follows(h, x)
  BY <1>1, <1>2, FirstOfPlan DEF Loops, Firsts
<1>5. S \in SUBSET Skills
  BY <1>1, <1>3, OpFields
<1>6. /\ name \notin Firsts /\ name \notin Seconds /\ name \notin TextOps /\ name \notin Refusing
      /\ cmd.op \notin Saving /\ cmd.op \notin ForOneSkill /\ name # "install"
      /\ name \notin {"put config", "drop config", "mkdir", "remove"}
  BY <1>1, <1>3 DEF Loops, Firsts, Seconds, TextOps, Refusing, Belongs
<1>7. Whole(t)
  BY <1>6 DEF Whole
<1>8. DiskTypes'
  BY <1>1 DEF FilesIndInv, DiskTypes
<1> HIDE DEF r
<1>9. CASE S = {}
  <2>1. Continue(p, r) /\ latest' = latest
    BY <1>1, <1>9 DEF Continue
  <2>2. Prepared(r)'
    BY <1>4, WholeIsPrepared
  <2>3. \A s \in Skills : Doomed(t, s) => Doomed(r, s)
    BY <1>3, <1>6, <1>9 DEF Doomed, Dooms
  <2>4. \A y \in OpsIn(t) : Catalogs(y) => y \in OpsIn(r)
    BY <1>3, <1>6 DEF Catalogs
  <2>5. "overlapped" \notin trouble => Sound(cmd, r)' /\ BodiesThere' /\ OthersThere'
    BY <1>1, <1>2, <1>3, <1>7, <2>1, <2>2, <2>3, <2>4, Replans
  <2> QED
    BY <1>1, <1>3, <1>8, <2>1, <2>5, Goes
<1>10. ASSUME NEW s \in S, Continue(p, OfEach(name, s) \o <<Each(name, S \ {s})>> \o r) PROVE FilesIndInv'
  <2> DEFINE b == OfEach(name, s)  e == Each(name, S \ {s})  u == b \o <<e>> \o r
  <2>1. s \in Skills /\ latest' = latest /\ Continue(p, u)
    BY <1>5, <1>10 DEF Continue
  <2>2. /\ Planned(cmd, b) /\ Whole(b)
        /\ \A x \in OpsIn(b) : /\ x.do \in {"empty", "remove", "mkdir", "stage body", "rename body"}
                               /\ x.skill = s /\ (x.do \in Building => name = "write bodies")
        /\ name = "remove packages" => \A w \in Trees : FolderOp("remove", w, s) \in OpsIn(b)
    <3>1. DoneFor(cmd, name, s, b)
      BY <1>1, <1>6, <2>1, EachOne
    <3> HIDE DEF b
    <3> QED
      BY <3>1 DEF DoneFor
  <2>3. e \in Ops /\ e.do = name /\ e.skills = S \ {s}
    BY <1>1, <1>5 DEF Each, Ops
  <2> HIDE DEF b, e
  <2>4. Belongs(cmd, e)
    BY <1>1, <1>6, <2>3 DEF Belongs, Loops, FolderOps
  <2>5. Planned(cmd, <<e>>) /\ Whole(<<e>>) /\ OpsIn(<<e>>) = {e}
    BY <1>6, <2>3, <2>4, OnePlanned
  <2>6. \A x \in OpsIn(b), y \in OpsIn(<<e>>) : Follows(x, y)
    BY <1>6, <2>2, <2>3, <2>5 DEF Follows, Refusing
  <2>7. /\ Planned(cmd, b \o <<e>>) /\ Whole(b \o <<e>>)
        /\ OpsIn(b \o <<e>>) = OpsIn(b) \cup {e}
    <3>1. Planned(cmd, b) /\ Whole(b)
      BY <2>2
    <3>2. /\ Planned(cmd, b \o <<e>>) /\ Whole(b \o <<e>>)
          /\ OpsIn(b \o <<e>>) = OpsIn(b) \cup OpsIn(<<e>>)
      <4> DEFINE f == <<e>>
      <4>1. Planned(cmd, f) /\ Whole(f) /\ \A x \in OpsIn(b), y \in OpsIn(f) : Follows(x, y)
        BY <2>5, <2>6
      <4> HIDE DEF f
      <4>2. Planned(cmd, b \o f) /\ Whole(b \o f) /\ OpsIn(b \o f) = OpsIn(b) \cup OpsIn(f)
        <5>1. Joins(b \o f, b, f)
          BY DEF Joins
        <5> QED
          BY <3>1, <4>1, <5>1, Then
      <4> QED
        BY <4>2 DEF f
    <3> QED
      BY <2>5, <3>2
  <2>8. \A y \in OpsIn(r) : y.do # "install" /\ (name = "write bodies" => y.do \notin TextOps)
    BY <1>4, <1>6 DEF Follows, Building
  <2>9. \A x \in OpsIn(b \o <<e>>), y \in OpsIn(r) : Follows(x, y)
    <3> SUFFICES ASSUME NEW x \in OpsIn(b) \cup {e}, NEW y \in OpsIn(r) PROVE Follows(x, y)
      BY <2>7
    <3>1. x.do \notin Refusing
      BY <1>6, <2>2, <2>3 DEF Refusing
    <3>2. x.do \in Building => name = "write bodies"
      BY <1>1, <2>2, <2>3 DEF Building, Loops
    <3> QED
      BY <2>8, <3>1, <3>2 DEF Follows
  <2>10. Planned(cmd, u) /\ Whole(u) /\ OpsIn(u) = (OpsIn(b) \cup {e}) \cup OpsIn(r)
    <3>1. Joins(u, b \o <<e>>, r)
      BY DEF Joins
    <3> HIDE DEF u
    <3> QED
      BY <1>3, <1>4, <2>7, <2>9, <3>1, Then
  <2> HIDE DEF u
  <2>11. Prepared(u)'
    BY <2>10, WholeIsPrepared
  <2>12. \A x \in OpsIn(u) : x.do = "put config" \/ Catalogs(x) \/ x.do = "install" => x \in OpsIn(t)
    BY <1>3, <1>6, <2>2, <2>3, <2>10 DEF Catalogs, TextOps
  <2>13. \A y \in OpsIn(t) : Catalogs(y) => y \in OpsIn(u)
    BY <1>3, <1>6, <2>10 DEF Catalogs
  <2>14. ASSUME NEW x \in Skills, Doomed(t, x) PROVE Doomed(u, x)
    <3>1. PICK y \in OpsIn(t) : Dooms(y, x)
      BY <2>14 DEF Doomed
    <3>2. CASE y \in OpsIn(r)
      BY <2>10, <3>1, <3>2 DEF Doomed
    <3>3. CASE y = h
      <4>1. name = "remove packages" /\ x \in S
        BY <1>6, <3>1, <3>3 DEF Dooms
      <4>2. CASE x = s
        <5>1. Tree \in Trees
          BY DEF Tree, Trees
        <5>2. FolderOp("remove", Tree, s) \in OpsIn(u)
          BY <2>2, <2>10, <4>1, <5>1
        <5>3. Dooms(FolderOp("remove", Tree, s), x)
          BY <4>2 DEF Dooms, FolderOp
        <5> QED
          BY <5>2, <5>3 DEF Doomed
      <4>3. CASE x # s
        <5>1. Dooms(e, x) /\ e \in OpsIn(u)
          BY <2>3, <2>10, <4>1, <4>3 DEF Dooms
        <5> QED
          BY <5>1 DEF Doomed
      <4> QED
        BY <4>2, <4>3
    <3> QED
      BY <1>3, <3>1, <3>2, <3>3
  <2>15. ASSUME NEW x \in OpsIn(u), NEW v \in Skills, Creates(x, v)
         PROVE  \E y \in OpsIn(t) : Creates(y, v)
    <3>1. CASE x \in OpsIn(r)
      BY <1>3, <2>15, <3>1
    <3>2. CASE x \in OpsIn(b) \cup {e}
      <4>1. name = "write bodies" /\ v \in S
        <5>1. CASE x = e
          BY <1>6, <2>3, <2>15, <5>1 DEF Creates
        <5>2. CASE x \in OpsIn(b)
          BY <2>2, <2>15, <5>2 DEF Creates, Building
        <5> QED
          BY <3>2, <5>1, <5>2
      <4>2. Creates(h, v)
        BY <4>1 DEF Creates
      <4> QED
        BY <1>3, <4>2
    <3> QED
      BY <2>10, <3>1, <3>2
  <2>16. "overlapped" \notin trouble => Sound(cmd, u)' /\ BodiesThere' /\ OthersThere'
    BY <1>1, <1>2, <1>7, <2>1, <2>11, <2>12, <2>13, <2>14, <2>15, Replans
  <2> QED
    BY <1>1, <1>8, <2>1, <2>10, <2>16, Goes
<1> QED
  BY <1>1, <1>9, <1>10 DEF r

LEMMA ClearStep ==
    ASSUME FilesIndInv, NEW p \in Commanders, NEW cmd, NEW t, At(p, cmd, t), ClearFolder(p)
    PROVE  FilesIndInv'
<1> DEFINE h == Head(t)  r == Tail(t)  s == h.skill
           target == IF Dir \in folder["runtime"][s] THEN "runtime" ELSE Root(Disk)
           a == RemoveFolder(target, s)
           b == IF target = "legacy" THEN <<>> ELSE RemoveFolder("legacy", s)
           u == a \o b \o r
<1>1. /\ t # <<>> /\ h.do = "clear" /\ UNCHANGED <<disk, trouble>>
      /\ Continue(p, r) \/ Fail(p) \/ Continue(p, u)
  BY DEF ClearFolder, At, Performs, Current, Rest
<1>2. UNCHANGED <<config, text, tmp, runtime, folder, trouble>>
  BY <1>1 DEF disk
<1>3. Planned(cmd, t) /\ ("overlapped" \notin trouble => Sound(cmd, t) /\ BodiesThere /\ OthersThere)
  BY AtFacts
<1>4. h.do \in Refusing /\ h.do \notin Seconds \cup Firsts \cup TextOps \cup {"remove packages"}
  BY <1>1 DEF Refusing, Seconds, Firsts, TextOps
<1>5. h \in Ops /\ Belongs(cmd, h) /\ ~More(r) /\ OpsIn(t) = {h} \cup OpsIn(r)
  BY <1>1, <1>3, <1>4, FirstOfPlan
<1>6. s \in Skills /\ target \in Trees /\ "legacy" \in Trees
  BY <1>1, <1>5, OpFields DEF FolderOps, Root, Trees
<1>7. cmd.op \notin Saving /\ (cmd.op \in ForOneSkill => s = cmd.skill)
  BY <1>1, <1>5 DEF Belongs, FolderOps
<1>8. r = <<>> /\ Planned(cmd, r) /\ Whole(r) /\ OpsIn(r) = {}
  BY <1>5, NothingPlanned DEF More
<1>9. Planned(cmd, a) /\ Whole(a) /\ OpsIn(a) = {FolderOp("empty", target, s), FolderOp("remove", target, s)}
  <2> HIDE DEF target
  <2> QED
    BY <1>6, <1>7, FolderRemoved
<1>10. /\ Planned(cmd, b) /\ Whole(b)
       /\ OpsIn(b) \subseteq {FolderOp("empty", "legacy", s), FolderOp("remove", "legacy", s)}
  <2>1. /\ Planned(cmd, RemoveFolder("legacy", s)) /\ Whole(RemoveFolder("legacy", s))
        /\ OpsIn(RemoveFolder("legacy", s)) = {FolderOp("empty", "legacy", s), FolderOp("remove", "legacy", s)}
    BY <1>6, <1>7, FolderRemoved
  <2>2. CASE target = "legacy"
    <3>1. b = <<>>
      BY <2>2
    <3> QED
      BY <3>1, NothingPlanned
  <2>3. CASE target # "legacy"
    <3>1. b = RemoveFolder("legacy", s)
      BY <2>3
    <3> HIDE DEF b
    <3> QED
      BY <2>1, <3>1
  <2> QED
    BY <2>2, <2>3
<1> HIDE DEF a, b, r, target, u
<1>11. \A x \in OpsIn(a) \cup OpsIn(b) : x.do \in {"empty", "remove"}
  BY <1>9, <1>10 DEF FolderOp
<1>12. \A x \in OpsIn(a), y \in OpsIn(b) : Follows(x, y)
  BY <1>11 DEF Follows, Refusing, Building
<1>13. Planned(cmd, a \o b) /\ Whole(a \o b) /\ OpsIn(a \o b) = OpsIn(a) \cup OpsIn(b)
  <2>1. Joins(a \o b, a, b)
    BY DEF Joins
  <2>2. Planned(cmd, a) /\ Whole(a) /\ Planned(cmd, b) /\ Whole(b)
    BY <1>9, <1>10
  <2> QED
    BY <1>12, <2>1, <2>2, Then
<1>14. Planned(cmd, u) /\ Whole(u) /\ \A x \in OpsIn(u) : x.do \in {"empty", "remove"}
  <2>1. \A x \in OpsIn(a \o b), y \in OpsIn(r) : Follows(x, y)
    BY <1>8
  <2>2. Planned(cmd, u) /\ Whole(u) /\ OpsIn(u) = OpsIn(a \o b) \cup OpsIn(r)
    <3>1. Joins(u, a \o b, r)
      BY DEF Joins, u
    <3> QED
      BY <1>8, <1>13, <2>1, <3>1, Then
  <2> QED
    BY <1>8, <1>11, <1>13, <2>2
<1>15. CASE Continue(p, u)
  <2>1. DiskTypes' /\ latest' = latest
    BY <1>2, <1>15 DEF FilesIndInv, DiskTypes, Continue
  <2>2. PICK w : w = u
    OBVIOUS
  <2>3. Prepared(w)' /\ Whole(t)
    BY <1>4, <1>14, <2>2, WholeIsPrepared DEF Whole
  <2>4. \A x \in OpsIn(w) : x.do # "put config" /\ x.do # "install" /\ ~Catalogs(x) /\ \A v : ~Creates(x, v)
    BY <1>14, <2>2 DEF Catalogs, TextOps, Creates
  <2>5. \A y \in OpsIn(t) : ~Catalogs(y) /\ \A v : ~Dooms(y, v)
    BY <1>1, <1>5, <1>8 DEF Catalogs, TextOps, Dooms
  <2>6. \A v : ~Doomed(t, v)
    BY <2>5 DEF Doomed
  <2>7. "overlapped" \notin trouble => Sound(cmd, w)' /\ BodiesThere' /\ OthersThere'
    BY <1>2, <1>3, <2>1, <2>3, <2>4, <2>5, <2>6, Replans
  <2> QED
    BY <1>2, <1>14, <1>15, <2>1, <2>2, <2>7, Goes
<1> QED
  BY <1>1, <1>2, <1>4, <1>15, LooksOn, Refuses DEF r

-----------------------------------------------------------------------------
(* An import                                                               *)

LEMMA ImportFields ==
    ASSUME NEW cmd \in Cmds, cmd.op = "import"
    PROVE  /\ cmd.declares \in SUBSET Skills /\ cmd.declares # {} /\ cmd.stored \in SUBSET Skills
           /\ cmd.op \in Wholesale /\ cmd.op \notin Saving /\ cmd.op \notin ForOneSkill
BY DEF Cmds, ForOneSkill, Wholesale, Saving

LEMMA LoopPlanned ==
    ASSUME NEW cmd, cmd.op \notin Saving, cmd.op \notin ForOneSkill, NEW name \in Loops, NEW S \in SUBSET Skills
    PROVE  /\ Planned(cmd, <<Each(name, S)>>) /\ Whole(<<Each(name, S)>>)
           /\ OpsIn(<<Each(name, S)>>) = {Each(name, S)}
           /\ Each(name, S).do = name /\ Each(name, S).skills = S
<1> DEFINE x == Each(name, S)
<1>1. x \in Ops /\ x.do = name /\ x.skills = S
  BY DEF Each, Ops
<1> HIDE DEF x
<1>2. Belongs(cmd, x)
  BY <1>1 DEF Belongs, Loops, FolderOps
<1>3. x.do \notin Firsts /\ x.do \notin Seconds
  BY <1>1 DEF Loops, Firsts, Seconds
<1> QED
  BY <1>1, <1>2, <1>3, OnePlanned DEF x

LEMMA TwoInARow == ASSUME NEW S, NEW x \in S, NEW y \in S PROVE <<x, y>> = <<x>> \o <<y>>
<1> DEFINE a == <<x, y>>  b == <<x>> \o <<y>>
<1>1. a \in Seq(S) /\ Len(a) = 2 /\ a[1] = x /\ a[2] = y
  OBVIOUS
<1>2. b \in Seq(S) /\ Len(b) = 2 /\ b[1] = x /\ b[2] = y
  <2>1. <<x>> \in Seq(S) /\ <<y>> \in Seq(S) /\ Len(<<x>>) = 1 /\ Len(<<y>>) = 1
    OBVIOUS
  <2> QED
    BY <2>1
<1> HIDE DEF a, b
<1>3. a = b
  BY <1>1, <1>2
<1> QED
  BY <1>3 DEF a, b

LEMMA WordsAreContent ==
    {Words} \in Contents \ {{}} /\ "prompt" \in Files /\ "skills" \in Files /\ "prompt" # "skills"
BY DEF Contents, Files

LEMMA InstallPlan ==
    ASSUME NEW cmd \in Cmds, cmd.op = "import", config \in Settings
    PROVE  /\ Planned(cmd, InstallOps(cmd)) /\ Whole(InstallOps(cmd))
           /\ \A x \in OpsIn(InstallOps(cmd)) :
                /\ x.do # "install"
                /\ x.do = "put config" => x.config = Preserved(cmd)
                /\ Catalogs(x) => x.content = cmd.declares
                /\ \A s : Creates(x, s) => s \in cmd.stored
           /\ \E x \in OpsIn(InstallOps(cmd)) : Catalogs(x)
<1>1. /\ cmd.declares \in Contents \ {{}} /\ cmd.declares \subseteq Skills /\ cmd.stored \in SUBSET Skills
      /\ cmd.op \in Wholesale /\ cmd.op \notin Saving /\ cmd.op \notin ForOneSkill
  BY ImportFields DEF Contents
<1> DEFINE a == <<Each("remove folders", cmd.stored)>>
           b == CopyText("prompt", {Words})
           c == CopyText("skills", cmd.declares)
           d == IF cmd.config THEN SaveConfig(Preserved(cmd)) ELSE <<>>
           e == <<Each("write bodies", cmd.stored), Op("verify")>>
<1>2. /\ Planned(cmd, a) /\ Whole(a) /\ OpsIn(a) = {Each("remove folders", cmd.stored)}
      /\ \A x \in OpsIn(a) : x.do = "remove folders"
  <2>1. "remove folders" \in Loops
    BY DEF Loops
  <2>2. /\ Planned(cmd, a) /\ Whole(a) /\ OpsIn(a) = {Each("remove folders", cmd.stored)}
        /\ Each("remove folders", cmd.stored).do = "remove folders"
    BY <1>1, <2>1, LoopPlanned
  <2> HIDE DEF a
  <2> QED
    BY <2>2
<1>3. /\ Planned(cmd, b) /\ Whole(b)
      /\ \A x \in OpsIn(b) : x.do \in {"drop", "fill"} /\ x.file = "prompt"
  <2>1. /\ Planned(cmd, b) /\ Whole(b)
        /\ OpsIn(b) = {TextOp("drop", "prompt", {Words}), TextOp("fill", "prompt", {Words})}
    BY <1>1, WordsAreContent, TextCopied
  <2> HIDE DEF b
  <2> QED
    BY <2>1 DEF TextOp
<1>4. /\ Planned(cmd, c) /\ Whole(c) /\ \E x \in OpsIn(c) : Catalogs(x)
      /\ \A x \in OpsIn(c) : x.do \in {"drop", "fill"} /\ x.content = cmd.declares
  <2>1. /\ Planned(cmd, c) /\ Whole(c)
        /\ OpsIn(c) = {TextOp("drop", "skills", cmd.declares), TextOp("fill", "skills", cmd.declares)}
    BY <1>1, WordsAreContent, TextCopied
  <2> HIDE DEF c
  <2>2. /\ \A x \in OpsIn(c) : x.do \in {"drop", "fill"} /\ x.content = cmd.declares /\ x.file = "skills"
    BY <2>1 DEF TextOp
  <2> QED
    BY <2>1, <2>2 DEF Catalogs, TextOps
<1>5. /\ Planned(cmd, d) /\ Whole(d)
      /\ \A x \in OpsIn(d) : /\ x.do \in {"drop config", "put config"}
                             /\ x.do = "put config" => x.config = Preserved(cmd)
  <2>1. Preserved(cmd) \in Settings
    BY DEF Preserved, Bootstrap, Settings, Limits
  <2>2. /\ Planned(cmd, SaveConfig(Preserved(cmd))) /\ Whole(SaveConfig(Preserved(cmd)))
        /\ OpsIn(SaveConfig(Preserved(cmd))) = {Op("drop config"), PutOp(Preserved(cmd))}
    BY <2>1, ConfigSaved
  <2>3. CASE cmd.config
    <3>1. d = SaveConfig(Preserved(cmd))
      BY <2>3
    <3> DEFINE x == Op("drop config")  y == PutOp(Preserved(cmd))
    <3>2. x.do = "drop config" /\ y.do = "put config" /\ y.config = Preserved(cmd)
      BY DEF Op, PutOp
    <3> HIDE DEF d, x, y
    <3>3. Planned(cmd, d) /\ Whole(d) /\ OpsIn(d) = {x, y}
      BY <2>2, <3>1 DEF x, y
    <3> QED
      BY <3>2, <3>3
  <2>4. CASE ~cmd.config
    <3>1. d = <<>>
      BY <2>4
    <3> QED
      BY <3>1, NothingPlanned
  <2> QED
    BY <2>3, <2>4
<1>6. /\ Planned(cmd, e) /\ Whole(e)
      /\ \A x \in OpsIn(e) : \/ x.do = "write bodies" /\ x.skills = cmd.stored
                             \/ x.do = "verify"
  <2> DEFINE x == Each("write bodies", cmd.stored)  y == Op("verify")
  <2>1. x \in Ops /\ y \in Ops /\ x.do = "write bodies" /\ y.do = "verify" /\ x.skills = cmd.stored
    BY <1>1 DEF Each, Op, Ops, Loops
  <2> HIDE DEF x, y
  <2> DEFINE f == <<x>>  g == <<y>>
  <2>2. Belongs(cmd, x) /\ Belongs(cmd, y)
    BY <1>1, <2>1 DEF Belongs, FolderOps
  <2>3. x.do \notin Firsts /\ x.do \notin Seconds /\ y.do \notin Firsts /\ y.do \notin Seconds
    BY <2>1 DEF Firsts, Seconds
  <2>4. /\ Planned(cmd, f) /\ Whole(f) /\ OpsIn(f) = {x}
        /\ Planned(cmd, g) /\ Whole(g) /\ OpsIn(g) = {y}
    BY <2>1, <2>2, <2>3, OnePlanned
  <2>5. e = f \o g
    <3>1. e = <<x, y>>
      BY DEF x, y
    <3> HIDE DEF e
    <3>2. <<x, y>> = <<x>> \o <<y>>
      BY <2>1, TwoInARow
    <3> QED
      BY <3>1, <3>2
  <2>6. Follows(x, y)
    BY <2>1 DEF Follows, Refusing, Building, TextOps
  <2> HIDE DEF f, g, e
  <2>7. Planned(cmd, f \o g) /\ Whole(f \o g) /\ OpsIn(f \o g) = OpsIn(f) \cup OpsIn(g)
    <3>1. Joins(f \o g, f, g)
      BY DEF Joins
    <3> QED
      BY <2>4, <2>6, <3>1, Then
  <2> QED
    BY <2>1, <2>4, <2>5, <2>7
<1>7. InstallOps(cmd) = a \o b \o c \o d \o e
  BY DEF InstallOps
<1> HIDE DEF a, b, c, d, e
<1>8. \A x \in OpsIn(a) \cup OpsIn(b) \cup OpsIn(c) \cup OpsIn(d) :
        x.do \in {"remove folders", "drop", "fill", "drop config", "put config"}
  BY <1>2, <1>3, <1>4, <1>5
<1>9. \A x \in OpsIn(b) \cup OpsIn(c) \cup OpsIn(d) \cup OpsIn(e) : x.do # "install"
  BY <1>3, <1>4, <1>5, <1>6
<1>10. \A x \in OpsIn(a) \cup OpsIn(b) \cup OpsIn(c) \cup OpsIn(d) : Quiet(x)
  BY <1>8 DEF Quiet, Refusing, Building
<1> DEFINE ab == a \o b  abc == ab \o c  abcd == abc \o d
<1>11. Planned(cmd, ab) /\ Whole(ab) /\ OpsIn(ab) = OpsIn(a) \cup OpsIn(b)
  <2>1. \A x \in OpsIn(a), y \in OpsIn(b) : Follows(x, y)
    BY <1>9, <1>10, QuietFollowed
  <2> QED
    <3>1. Joins(ab, a, b)
      BY DEF Joins
    <3> HIDE DEF ab
    <3> QED
      BY <1>2, <1>3, <2>1, <3>1, Then
<1> HIDE DEF ab
<1>12. Planned(cmd, abc) /\ Whole(abc) /\ OpsIn(abc) = OpsIn(ab) \cup OpsIn(c)
  <2>1. \A x \in OpsIn(ab), y \in OpsIn(c) : Follows(x, y)
    BY <1>9, <1>10, <1>11, QuietFollowed
  <2>2. Planned(cmd, c) /\ Whole(c)
    BY <1>4
  <2>3. Planned(cmd, ab) /\ Whole(ab)
    BY <1>11
  <2>4. Joins(abc, ab, c)
    BY DEF Joins
  <2> HIDE DEF abc
  <2> QED
    BY <2>1, <2>2, <2>3, <2>4, Then
<1> HIDE DEF abc
<1>13. Planned(cmd, abcd) /\ Whole(abcd) /\ OpsIn(abcd) = OpsIn(abc) \cup OpsIn(d)
  <2> HIDE DEF abcd
  <2>1. \A x \in OpsIn(abc), y \in OpsIn(d) : Follows(x, y)
    BY <1>9, <1>10, <1>11, <1>12, QuietFollowed
  <2>2. Planned(cmd, d) /\ Whole(d)
    BY <1>5
  <2>3. Planned(cmd, abc) /\ Whole(abc)
    BY <1>12
  <2>4. Joins(abcd, abc, d)
    BY DEF Joins, abcd
  <2> QED
    BY <2>1, <2>2, <2>3, <2>4, Then
<1> HIDE DEF abcd
<1>14. /\ Planned(cmd, InstallOps(cmd)) /\ Whole(InstallOps(cmd))
       /\ OpsIn(InstallOps(cmd)) = OpsIn(abcd) \cup OpsIn(e)
  <2>1. \A x \in OpsIn(abcd), y \in OpsIn(e) : Follows(x, y)
    BY <1>9, <1>10, <1>11, <1>12, <1>13, QuietFollowed
  <2>2. Planned(cmd, abcd \o e) /\ Whole(abcd \o e) /\ OpsIn(abcd \o e) = OpsIn(abcd) \cup OpsIn(e)
    <3>1. Planned(cmd, e) /\ Whole(e)
      BY <1>6
    <3>2. Planned(cmd, abcd) /\ Whole(abcd)
      BY <1>13
    <3>3. Joins(abcd \o e, abcd, e)
      BY DEF Joins
    <3> QED
      BY <2>1, <3>1, <3>2, <3>3, Then
  <2> QED
    BY <1>7, <2>2 DEF ab, abc, abcd
<1>15. ASSUME NEW x \in OpsIn(InstallOps(cmd))
       PROVE  /\ x.do # "install"
              /\ x.do = "put config" => x.config = Preserved(cmd)
              /\ Catalogs(x) => x.content = cmd.declares
              /\ \A s : Creates(x, s) => s \in cmd.stored
  <2> USE DEF Catalogs, TextOps, Creates
  <2>1. CASE x \in OpsIn(a)
    BY <1>2, <2>1
  <2>2. CASE x \in OpsIn(b)
    BY <1>3, <2>2
  <2>3. CASE x \in OpsIn(c)
    BY <1>4, <2>3
  <2>4. CASE x \in OpsIn(d)
    BY <1>5, <2>4
  <2>5. CASE x \in OpsIn(e)
    BY <1>6, <2>5
  <2> QED
    BY <1>11, <1>12, <1>13, <1>14, <1>15, <2>1, <2>2, <2>3, <2>4, <2>5
<1> QED
  BY <1>4, <1>11, <1>12, <1>13, <1>14, <1>15

LEMMA InstallStep ==
    ASSUME FilesIndInv, NEW p \in Commanders, NEW cmd, NEW t, At(p, cmd, t), Install(p)
    PROVE  FilesIndInv'
<1> DEFINE h == Head(t)  u == InstallOps(cmd)
<1>1. /\ t # <<>> /\ h.do = "install" /\ UNCHANGED <<config, text, tmp, runtime, folder, trouble>>
      /\ Continue(p, u) \/ Fail(p)
  BY DEF Install, At, Performs, Current, disk
<1>2. /\ cmd \in Cmds /\ Planned(cmd, t)
      /\ "overlapped" \notin trouble =>
           Sound(cmd, t) /\ BodiesThere /\ OthersThere /\ latest.cmd = cmd /\ latest.answer = "none"
  BY AtFacts
<1>3. h.do \in Refusing /\ h.do \notin Seconds
  BY <1>1 DEF Refusing, Seconds
<1>4. Belongs(cmd, h) /\ ~More(Tail(t)) /\ OpsIn(t) = {h} \cup OpsIn(Tail(t))
  BY <1>1, <1>2, <1>3, FirstOfPlan
<1>5. OpsIn(t) = {h} /\ cmd.op = "import"
  BY <1>1, <1>4, NoOps DEF More, Belongs
<1>6. config \in Settings
  BY DEF FilesIndInv, DiskTypes
<1>7. /\ Planned(cmd, u) /\ Whole(u)
      /\ \A x \in OpsIn(u) :
           /\ x.do # "install"
           /\ x.do = "put config" => x.config = Preserved(cmd)
           /\ Catalogs(x) => x.content = cmd.declares
           /\ \A s : Creates(x, s) => s \in cmd.stored
      /\ \E x \in OpsIn(u) : Catalogs(x)
  BY <1>2, <1>5, <1>6, InstallPlan
<1>8. /\ Preserved(cmd).there /\ Preserved(cmd).resolves
      /\ cmd.keep /\ cmd.live => Preserved(cmd).limits = config.limits
  BY DEF Preserved, Bootstrap
<1>9. CASE Continue(p, u)
  <2>1. PICK w : w = u
    OBVIOUS
  <2> HIDE DEF u
  <2>2. DiskTypes' /\ latest' = latest
    BY <1>1, <1>9 DEF FilesIndInv, DiskTypes, Continue
  <2>3. ASSUME "overlapped" \notin trouble PROVE Sound(cmd, w)' /\ BodiesThere' /\ OthersThere'
    <3>1. BodiesThere' /\ OthersThere'
      BY <1>1, <1>2, <2>2, <2>3, FoldersStay
    <3>2. Prepared(w)'
      BY <1>7, <2>1, WholeIsPrepared
    <3>3. \A name \in Seconds : ~Ahead(t, name)
      BY <1>3 DEF Ahead
    <3>4. /\ ~Ahead(t, "fill") /\ ~Ahead(t, "put config") /\ ~Ahead(t, "stage body")
          /\ ~Ahead(t, "rename body") /\ ~Ahead(t, "remove")
      BY <3>3 DEF Seconds
    <3>5. TextsThere(w)'
      BY <1>1, <1>2, <2>3, <3>4, TextsStay DEF Sound, Ordinary
    <3>6. Keeping => config.limits = latest.found.config.limits
      BY <1>2, <2>3, <3>4 DEF Sound, Ordinary, LimitsKept
    <3>7. Keeping => \A x \in OpsIn(w) : x.do = "put config" => x.config.limits = config.limits
      BY <1>2, <1>7, <1>8, <2>1, <2>3 DEF Keeping
    <3>8. LimitsKept(w)'
      BY <1>1, <2>2, <3>6, <3>7 DEF LimitsKept, Keeping
    <3>9. ASSUME trouble = {} PROVE Untroubled(cmd, w)'
      <4>1. Untroubled(cmd, t)
        BY <1>2, <2>3, <3>9 DEF Sound
      <4>2. Loaded(w)'
        BY <1>1, <1>7, <1>8, <2>1, <3>4, <4>1 DEF Untroubled, Loaded
      <4>3. Packages(w)'
        BY <1>1, <3>4, <4>1, PackagesStay DEF Untroubled
      <4>4. Here \subseteq cmd.declares /\ cmd.stored \subseteq cmd.declares
        BY <1>1, <1>5, <4>1 DEF Untroubled, Imported
      <4>5. \A s : ~Doomed(t, s)
        BY <1>1, <1>5 DEF Doomed, Dooms
      <4>6. Here' = Here
        BY <1>1, TreeStays
      <4>7. InCatalog(w)'
        BY <1>1, <1>7, <2>1, <3>4, <4>1, <4>4, <4>5, <4>6 DEF Untroubled, InCatalog
      <4>8. Made(w)'
        BY <1>7, <2>1, <4>4 DEF Made
      <4>9. Imported(cmd, w)'
        BY <1>7, <2>1 DEF Imported
      <4> QED
        BY <4>2, <4>3, <4>7, <4>8, <4>9 DEF Untroubled
    <3> QED
      BY <1>1, <3>1, <3>2, <3>5, <3>8, <3>9 DEF Sound, Ordinary
  <2> QED
    BY <1>1, <1>7, <1>9, <2>1, <2>2, <2>3, Goes
<1> QED
  BY <1>1, <1>3, <1>9, Refuses

-----------------------------------------------------------------------------
(* The beginning of a command                                              *)

\* What a plan must be to be begun where nothing troubles the profile.
Fits(cmd, plan) ==
    /\ \A x \in OpsIn(plan) : x.do = "put config" => x.config.there /\ x.config.resolves
    /\ \A x \in OpsIn(plan) : Catalogs(x) => \A s \in Here : s \in x.content \/ Doomed(plan, s)
    /\ Made(plan) /\ Imported(cmd, plan)

LEMMA IdleFacts ==
    /\ Idle \in [cmd : Cmds, todo : Seq(Ops)] /\ Idle.cmd.op = "none" /\ Idle.todo = <<>>
    /\ Planned(Idle.cmd, <<>>) /\ Idle.cmd \in Cmds
<1>1. Idle.cmd \in Cmds /\ Idle.cmd.op = "none" /\ Idle.todo = <<>> /\ <<>> \in Seq(Ops)
  BY DEF Idle, Cmds
<1>2. Idle \in [cmd : Cmds, todo : Seq(Ops)]
  BY <1>1 DEF Idle
<1> QED
  BY <1>1, <1>2, NothingPlanned

\* What the profile holds before a command that is alone.
LEMMA Alone ==
    ASSUME FilesIndInv, "overlapped" \notin trouble, Running = {}
    PROVE  /\ TextsThere(<<>>) /\ (trouble = {} => Untroubled(Idle.cmd, <<>>))
           /\ ~Ahead(<<>>, "fill") /\ ~Ahead(<<>>, "put config") /\ ~Ahead(<<>>, "stage body")
           /\ ~Ahead(<<>>, "rename body") /\ ~Ahead(<<>>, "remove") /\ \A s : ~Doomed(<<>>, s)
<1>1. \A name : ~Ahead(<<>>, name)
  BY DEF Ahead
<1>2. \A s : ~Doomed(<<>>, s)
  BY NoOps DEF Doomed
<1>3. Sound(Idle.cmd, <<>>)
  BY DEF FilesIndInv, OneByOne
<1> QED
  BY <1>1, <1>2, <1>3 DEF Sound, Ordinary

LEMMA Begins ==
    ASSUME FilesIndInv, NEW p \in Commanders, NEW cmd \in Cmds, cmd.op # "none", NEW allowed, NEW plan,
           Begin(p, cmd, allowed, plan), allowed => Planned(cmd, plan) /\ Whole(plan),
           cmd.op = "import" /\ cmd.keep /\ cmd.live => \A x \in OpsIn(plan) : x.do # "put config",
           Untroubled(Idle.cmd, <<>>) /\ ~KnownBreaker(cmd, Disk) /\ allowed => Fits(cmd, plan)
    PROVE  FilesIndInv'
<1> DEFINE new == IF allowed THEN [cmd |-> cmd, todo |-> plan] ELSE Idle
<1>1. /\ p \notin Running /\ process' = [process EXCEPT ![p] = new]
      /\ UNCHANGED <<config, text, tmp, runtime, folder>>
      /\ latest' = [cmd |-> cmd, found |-> Disk, answer |-> IF allowed THEN "none" ELSE "error"]
  BY DEF Begin, disk
<1>2. /\ trouble \subseteq trouble' /\ (Running # {} => "overlapped" \in trouble')
      /\ (trouble' = {} => trouble = {} /\ ~KnownBreaker(cmd, Disk))
      /\ ("torn" \in trouble' => "torn" \in trouble)
  BY DEF Begin
<1>3. DiskTypes'
  BY <1>1 DEF FilesIndInv, DiskTypes
<1>4. HistoryTypes'
  <2>1. Disk \in Disks /\ Disk.runtime = runtime
    BY DEF Disk, Disks, FilesIndInv, DiskTypes
  <2> QED
    BY <1>1, <2>1 DEF HistoryTypes
<1>5. /\ process \in [Commanders -> [cmd : Cmds, todo : Seq(Ops)]]
      /\ \A q \in Commanders : Planned(process[q].cmd, process[q].todo) /\ (q \notin Running => process[q] = Idle)
  BY DEF FilesIndInv, Plans
<1>6. new \in [cmd : Cmds, todo : Seq(Ops)] /\ (allowed => new.cmd = cmd /\ new.todo = plan) /\ (~allowed => new = Idle)
  BY IdleFacts DEF Planned
<1>7. /\ process' \in [Commanders -> [cmd : Cmds, todo : Seq(Ops)]] /\ process'[p] = new
      /\ \A q \in Commanders : q # p => process'[q] = process[q]
  <2> HIDE DEF new
  <2> QED
    BY <1>1, <1>5, <1>6
<1> HIDE DEF new
<1>8. Running' = IF allowed THEN Running \cup {p} ELSE Running
  <2>1. ASSUME NEW q \in Commanders, q # p PROVE q \in Running' <=> q \in Running
    BY <1>7, <2>1 DEF Running
  <2>2. p \in Running' <=> allowed
    BY <1>6, <1>7, IdleFacts DEF Running
  <2> QED
    BY <1>1, <2>1, <2>2 DEF Running
<1>9. Plans'
  <2> SUFFICES ASSUME NEW q \in Commanders
               PROVE  /\ Planned(process'[q].cmd, process'[q].todo)
                      /\ q \notin Running' => process'[q] = Idle
    BY <1>7 DEF Plans
  <2>1. CASE q = p
    BY <1>6, <1>7, <1>8, <2>1, IdleFacts
  <2>2. CASE q # p
    BY <1>5, <1>7, <1>8, <2>2
  <2> QED
    BY <2>1, <2>2
<1>10. ASSUME "overlapped" \notin trouble' PROVE OneByOne'
  <2>1. Running = {} /\ "overlapped" \notin trouble
    BY <1>2, <1>10
  <2>2. BodiesThere' /\ OthersThere'
    BY <1>1 DEF BodiesThere, OthersThere, Disk
  <2>3. \A u : TextsThere(u)'
    BY <1>1, <1>2, <2>1, Alone DEF TextsThere
  <2>4. /\ latest'.cmd = cmd /\ latest'.found.config = config /\ (~allowed => latest'.answer = "error")
        /\ (allowed => latest'.answer = "none")
    BY <1>1 DEF Disk
  <2>5. trouble' = {} => Untroubled(Idle.cmd, <<>>) /\ ~KnownBreaker(cmd, Disk)
    BY <1>2, <2>1, Alone
  <2>6. Here' = Here /\ Tree' = Tree
    BY <1>1, TreeStays
  <2>7. Whole(<<>>)
    BY NothingPlanned
  <2>8. CASE allowed
    <3>1. Prepared(plan)'
      BY <2>8, WholeIsPrepared
    <3>2. LimitsKept(plan)'
      BY <1>1, <2>4 DEF LimitsKept, Keeping
    <3>3. ASSUME trouble' = {} PROVE Untroubled(cmd, plan)'
      <4>1. Untroubled(Idle.cmd, <<>>) /\ Fits(cmd, plan)
        BY <2>5, <2>8, <3>3
      <4>2. Loaded(plan)'
        BY <1>1, <2>1, <4>1, Alone DEF Fits, Untroubled, Loaded
      <4>3. Packages(plan)'
        BY <1>1, <2>1, <4>1, Alone, PackagesStay DEF Untroubled
      <4>4. \A s : Doomed(plan, s)' <=> Doomed(plan, s)
        BY <1>1, DoomedStays
      <4>5. InCatalog(plan)'
        BY <1>1, <2>1, <2>6, <4>1, <4>4, Alone DEF Fits, Untroubled, InCatalog
      <4>6. Made(plan)'
        BY <1>1, <4>1 DEF Fits, Made
      <4>7. Imported(cmd, plan)'
        BY <2>6, <4>1 DEF Fits, Imported
      <4> QED
        BY <4>2, <4>3, <4>5, <4>6, <4>7 DEF Untroubled
    <3>4. Sound(cmd, plan)'
      BY <2>3, <3>1, <3>2, <3>3 DEF Sound, Ordinary
    <3>5. Running' = {p} /\ process'[p].cmd = cmd /\ process'[p].todo = plan
      BY <1>6, <1>7, <1>8, <2>1, <2>8
    <3> QED
      BY <2>2, <2>4, <2>8, <3>4, <3>5 DEF OneByOne
  <2>9. CASE ~allowed
    <3>1. Prepared(<<>>)'
      BY <2>7, WholeIsPrepared
    <3>2. LimitsKept(<<>>)'
      BY <2>4, <2>9, NoOps DEF LimitsKept
    <3>3. ASSUME trouble' = {} PROVE Untroubled(Idle.cmd, <<>>)'
      <4>1. Untroubled(Idle.cmd, <<>>)
        BY <2>5, <3>3
      <4>2. Loaded(<<>>)'
        BY <1>1, <2>1, <4>1, Alone, NoOps DEF Untroubled, Loaded
      <4>3. Packages(<<>>)'
        BY <1>1, <2>1, <4>1, Alone, PackagesStay DEF Untroubled
      <4>4. InCatalog(<<>>)'
        BY <1>1, <2>1, <2>6, <4>1, Alone, NoOps DEF Untroubled, InCatalog
      <4>5. Made(<<>>)' /\ Imported(Idle.cmd, <<>>)'
        BY NoOps DEF Made, Imported
      <4> QED
        BY <4>2, <4>3, <4>4, <4>5 DEF Untroubled
    <3>4. Sound(Idle.cmd, <<>>)'
      BY <2>3, <3>1, <3>2, <3>3 DEF Sound, Ordinary
    <3>5. Running' = {}
      BY <1>8, <2>1, <2>9
    <3> QED
      BY <2>2, <3>4, <3>5 DEF OneByOne
  <2> QED
    BY <2>8, <2>9
<1> QED
  BY <1>3, <1>4, <1>9, <1>10 DEF FilesIndInv

\* A plan that declares no skill and makes no folder.
LEMMA PlainFits ==
    ASSUME NEW cmd, NEW plan,
           \A x \in OpsIn(plan) : x.do # "install" /\ ~Catalogs(x) /\ \A s : ~Creates(x, s),
           \A x \in OpsIn(plan) : x.do = "put config" => x.config.there /\ x.config.resolves
    PROVE  Fits(cmd, plan)
BY DEF Fits, Made, Imported

LEMMA ConfigReady ==
    ASSUME NEW cmd, NEW c \in Settings
    PROVE  /\ Planned(cmd, SaveConfig(c)) /\ Whole(SaveConfig(c))
           /\ \A x \in OpsIn(SaveConfig(c)) :
                /\ x.do \in {"drop config", "put config"} /\ (x.do = "put config" => x.config = c)
<1> DEFINE x == Op("drop config")  y == PutOp(c)
<1>1. Planned(cmd, SaveConfig(c)) /\ Whole(SaveConfig(c)) /\ OpsIn(SaveConfig(c)) = {x, y}
  BY ConfigSaved
<1>2. x.do = "drop config" /\ y.do = "put config" /\ y.config = c
  BY DEF Op, PutOp
<1> HIDE DEF x, y
<1> QED
  BY <1>1, <1>2

LEMMA SetLimitsStep ==
    ASSUME FilesIndInv, NEW p \in Commanders, SetLimits(p)
    PROVE  FilesIndInv'
<1>1. PICK to \in Limits : Begin(p, [op |-> "limits"], Profile, SaveConfig([config EXCEPT !.limits = to]))
  BY DEF SetLimits
<1> DEFINE cmd == [op |-> "limits"]  c == [config EXCEPT !.limits = to]  plan == SaveConfig(c)
<1>2. c \in Settings /\ c.there = config.there /\ c.resolves = config.resolves
  BY DEF FilesIndInv, DiskTypes, Settings
<1>3. cmd \in Cmds /\ cmd.op = "limits"
  BY DEF Cmds
<1>4. Begin(p, cmd, Profile, plan)
  BY <1>1
<1> HIDE DEF c, cmd
<1>5. /\ Planned(cmd, plan) /\ Whole(plan)
      /\ \A x \in OpsIn(plan) :
           /\ x.do \in {"drop config", "put config"} /\ (x.do = "put config" => x.config = c)
  BY <1>2, ConfigReady
<1> HIDE DEF plan
<1>6. Profile => Fits(cmd, plan)
  <2>1. Profile => c.there /\ c.resolves
    BY <1>2, DiskRead DEF Profile
  <2>2. \A x \in OpsIn(plan) : x.do # "install" /\ ~Catalogs(x) /\ \A s : ~Creates(x, s)
    BY <1>5 DEF Catalogs, TextOps, Creates
  <2> QED
    BY <1>5, <2>1, <2>2, PlainFits
<1> QED
  BY <1>3, <1>4, <1>5, <1>6, Begins

LEMMA AppendJoins ==
    ASSUME NEW S, NEW s \in Seq(S), NEW e \in S PROVE Append(s, e) = s \o <<e>>
<1> DEFINE a == Append(s, e)  b == s \o <<e>>
<1>1. <<e>> \in Seq(S) /\ Len(<<e>>) = 1 /\ <<e>>[1] = e
  OBVIOUS
<1>2. a \in Seq(S) /\ Len(a) = Len(s) + 1 /\ \A i \in 1 .. Len(s) + 1 : a[i] = IF i <= Len(s) THEN s[i] ELSE e
  OBVIOUS
<1>3. Len(s) \in Nat /\ Len(b) = Len(s) + 1 /\ b \in Seq(S)
  BY <1>1
<1>4. \A i \in 1 .. Len(s) + 1 : b[i] = IF i <= Len(s) THEN s[i] ELSE e
  BY <1>1, <1>3
<1> HIDE DEF a, b
<1>5. a = b
  BY <1>2, <1>3, <1>4
<1> QED
  BY <1>5 DEF a, b

LEMMA SetAccessStep ==
    ASSUME FilesIndInv, NEW p \in Commanders, SetAccess(p)
    PROVE  FilesIndInv'
<1>1. PICK resolves \in BOOLEAN :
        Begin(p, [op |-> "access", resolves |-> resolves], Profile,
              Append(SaveConfig([config EXCEPT !.resolves = resolves]), Op("reload config")))
  BY DEF SetAccess
<1> DEFINE cmd == [op |-> "access", resolves |-> resolves]  c == [config EXCEPT !.resolves = resolves]
           a == SaveConfig(c)  e == Op("reload config")  plan == a \o <<e>>
<1>2. c \in Settings /\ c.there = config.there /\ c.resolves = resolves
  BY DEF FilesIndInv, DiskTypes, Settings
<1>3. cmd \in Cmds /\ cmd.op = "access" /\ (KnownBreaker(cmd, Disk) \/ resolves)
  BY DEF Cmds, KnownBreaker
<1>4. e \in Ops /\ e.do = "reload config"
  BY DEF Op, Ops
<1> HIDE DEF c, e
<1>5. /\ Planned(cmd, a) /\ Whole(a)
      /\ \A x \in OpsIn(a) :
           /\ x.do \in {"drop config", "put config"} /\ (x.do = "put config" => x.config = c)
  BY <1>2, ConfigReady
<1>6. Begin(p, cmd, Profile, plan)
  <2>1. a \in Seq(Ops)
    BY <1>5 DEF Planned
  <2> HIDE DEF a
  <2>2. Append(a, e) = a \o <<e>>
    BY <1>4, <2>1, AppendJoins
  <2>3. Begin(p, cmd, Profile, Append(a, e))
    BY <1>1 DEF a, c, e
  <2> QED
    BY <2>2, <2>3
<1> HIDE DEF a, cmd
<1>7. Planned(cmd, <<e>>) /\ Whole(<<e>>) /\ OpsIn(<<e>>) = {e}
  <2>1. Belongs(cmd, e)
    BY <1>3, <1>4 DEF Belongs, FolderOps, Loops, ForOneSkill
  <2>2. e.do \notin Firsts /\ e.do \notin Seconds
    BY <1>4 DEF Firsts, Seconds
  <2> QED
    BY <1>4, <2>1, <2>2, OnePlanned
<1> DEFINE g == <<e>>
<1>8. Planned(cmd, g) /\ Whole(g) /\ OpsIn(g) = {e}
  BY <1>7
<1> HIDE DEF g
<1>9. Planned(cmd, a \o g) /\ Whole(a \o g) /\ OpsIn(a \o g) = OpsIn(a) \cup OpsIn(g)
  <2>1. \A x \in OpsIn(a), y \in OpsIn(g) : Follows(x, y)
    BY <1>4, <1>5, <1>8 DEF Follows, Refusing, Building
  <2>2. Planned(cmd, a) /\ Whole(a) /\ Planned(cmd, g) /\ Whole(g)
    BY <1>5, <1>8
  <2>3. Joins(a \o g, a, g)
    BY DEF Joins
  <2> QED
    BY <2>1, <2>2, <2>3, Then
<1>10. /\ Planned(cmd, plan) /\ Whole(plan)
       /\ \A x \in OpsIn(plan) : /\ x.do \in {"drop config", "put config", "reload config"}
                                 /\ x.do = "put config" => x.config = c
  BY <1>4, <1>5, <1>8, <1>9 DEF g
<1> HIDE DEF plan
<1>11. Profile /\ resolves => Fits(cmd, plan)
  <2>1. Profile => c.there
    BY <1>2, DiskRead DEF Profile
  <2>2. \A x \in OpsIn(plan) : x.do # "install" /\ ~Catalogs(x) /\ \A s : ~Creates(x, s)
    BY <1>10 DEF Catalogs, TextOps, Creates
  <2> QED
    BY <1>2, <1>10, <2>1, <2>2, PlainFits
<1> QED
  BY <1>3, <1>6, <1>10, <1>11, Begins

LEMMA TextReady ==
    ASSUME NEW cmd, NEW f \in Files, NEW c \in Contents, c # {}, f = "skills" => c \subseteq Skills
    PROVE  /\ Planned(cmd, SaveText(f, c)) /\ Whole(SaveText(f, c))
           /\ \A x \in OpsIn(SaveText(f, c)) : x.do \in {"stage", "rename"} /\ x.file = f /\ x.content = c
           /\ \E x \in OpsIn(SaveText(f, c)) : x.do \in TextOps /\ x.file = f
<1> DEFINE x == TextOp("stage", f, c)  y == TextOp("rename", f, c)
<1>1. Planned(cmd, SaveText(f, c)) /\ Whole(SaveText(f, c)) /\ OpsIn(SaveText(f, c)) = {x, y}
  BY TextSaved
<1>2. /\ x.do = "stage" /\ y.do = "rename" /\ x.file = f /\ y.file = f /\ x.content = c /\ y.content = c
  BY DEF TextOp
<1> HIDE DEF x, y
<1> QED
  BY <1>1, <1>2 DEF TextOps

LEMMA SetPromptStep ==
    ASSUME FilesIndInv, NEW p \in Commanders, SetPrompt(p)
    PROVE  FilesIndInv'
<1> DEFINE cmd == [op |-> "prompt"]  plan == SaveText("prompt", {Words})
<1>1. Begin(p, cmd, Profile, plan)
  BY DEF SetPrompt
<1>2. cmd \in Cmds /\ cmd.op = "prompt"
  BY DEF Cmds
<1> HIDE DEF cmd
<1>3. /\ Planned(cmd, plan) /\ Whole(plan)
      /\ \A x \in OpsIn(plan) : x.do \in {"stage", "rename"} /\ x.file = "prompt"
  <2>1. {Words} \in Contents /\ {Words} # {} /\ "prompt" \in Files /\ "prompt" # "skills"
    BY WordsAreContent
  <2> DEFINE c == {Words}
  <2>2. c \in Contents /\ c # {}
    BY <2>1
  <2> HIDE DEF c
  <2>3. /\ Planned(cmd, SaveText("prompt", c)) /\ Whole(SaveText("prompt", c))
        /\ \A x \in OpsIn(SaveText("prompt", c)) : x.do \in {"stage", "rename"} /\ x.file = "prompt"
    BY <2>1, <2>2, TextReady
  <2> QED
    BY <2>3 DEF c
<1> HIDE DEF plan
<1>4. Fits(cmd, plan)
  <2>1. \A x \in OpsIn(plan) : x.do # "install" /\ ~Catalogs(x) /\ (\A s : ~Creates(x, s)) /\ x.do # "put config"
    BY <1>3 DEF Catalogs, TextOps, Creates
  <2> QED
    BY <2>1, PlainFits
<1> QED
  BY <1>1, <1>2, <1>3, <1>4, Begins

LEMMA CatalogFacts ==
    ASSUME Catalog PROVE Here \subseteq text["skills"]
BY DiskRead DEF Catalog, Declared, Disk

LEMMA AddSkillStep ==
    ASSUME FilesIndInv, NEW p \in Commanders, AddSkill(p)
    PROVE  FilesIndInv'
<1>1. PICK s \in Skills : Begin(p, [op |-> "add"], Catalog /\ s \notin text["skills"],
                                SaveText("skills", text["skills"] \cup {s}))
  BY DEF AddSkill
<1> DEFINE cmd == [op |-> "add"]  c == text["skills"] \cup {s}  plan == SaveText("skills", c)
           allowed == Catalog /\ s \notin text["skills"]
<1>2. cmd \in Cmds /\ cmd.op = "add" /\ Begin(p, cmd, allowed, plan)
  BY <1>1 DEF Cmds
<1>3. c \in Contents /\ c \subseteq Skills /\ c # {} /\ text["skills"] \subseteq c
  BY WordsAreContent DEF FilesIndInv, DiskTypes, Texts, Contents
<1> HIDE DEF cmd, c
<1>4. /\ Planned(cmd, plan) /\ Whole(plan)
      /\ \A x \in OpsIn(plan) : x.do \in {"stage", "rename"} /\ x.content = c
  BY <1>3, WordsAreContent, TextReady
<1> HIDE DEF plan
<1>5. allowed => Fits(cmd, plan)
  BY <1>3, <1>4, CatalogFacts DEF Fits, Made, Imported, Catalogs, Creates
<1> HIDE DEF allowed
<1> QED
  BY <1>2, <1>4, <1>5, Begins

LEMMA BodyReady ==
    ASSUME NEW cmd, NEW s \in Skills, cmd.op \in ForOneSkill => s = cmd.skill
    PROVE  /\ Planned(cmd, WriteBody(s)) /\ Whole(WriteBody(s))
           /\ \A x \in OpsIn(WriteBody(s)) : x.do \in {"mkdir", "stage body", "rename body"} /\ x.skill = s
<1> DEFINE x == FolderOp("mkdir", "runtime", s)  y == FolderOp("stage body", "runtime", s)
           z == FolderOp("rename body", "runtime", s)
<1>1. Planned(cmd, WriteBody(s)) /\ Whole(WriteBody(s)) /\ OpsIn(WriteBody(s)) = {x, y, z}
  BY BodyWritten
<1>2. /\ x.do = "mkdir" /\ y.do = "stage body" /\ z.do = "rename body"
      /\ x.skill = s /\ y.skill = s /\ z.skill = s
  BY DEF FolderOp
<1> HIDE DEF x, y, z
<1> QED
  BY <1>1, <1>2

\* An operation on one folder that stands alone.
LEMMA OneFolder ==
    ASSUME NEW cmd, NEW x \in [do : {"clear", "put file", "drop file"}, where : Trees, skill : Skills],
           cmd.op \notin Saving \/ x.do # "clear", cmd.op \in ForOneSkill => x.skill = cmd.skill
    PROVE  Planned(cmd, <<x>>) /\ Whole(<<x>>) /\ OpsIn(<<x>>) = {x}
<1>1. x \in Ops /\ x.do \in {"clear", "put file", "drop file"}
  BY DEF Ops, FolderOps
<1>2. Belongs(cmd, x)
  BY <1>1 DEF Belongs, Loops
<1>3. x.do \notin Firsts /\ x.do \notin Seconds
  BY <1>1 DEF Firsts, Seconds
<1> QED
  BY <1>1, <1>2, <1>3, OnePlanned

LEMMA SetBodyStep ==
    ASSUME FilesIndInv, NEW p \in Commanders, SetBody(p)
    PROVE  FilesIndInv'
<1>1. PICK s \in Skills : Begin(p, [op |-> "body", skill |-> s], Has(s), WriteBody(s))
  BY DEF SetBody
<1> DEFINE cmd == [op |-> "body", skill |-> s]  plan == WriteBody(s)
<1>2. cmd \in Cmds /\ cmd.op = "body" /\ cmd.skill = s /\ Begin(p, cmd, Has(s), plan)
  BY <1>1 DEF Cmds, ForOneSkill
<1> HIDE DEF cmd
<1>3. /\ Planned(cmd, plan) /\ Whole(plan)
      /\ \A x \in OpsIn(plan) : x.do \in {"mkdir", "stage body", "rename body"} /\ x.skill = s
  BY <1>2, BodyReady
<1> HIDE DEF plan
<1>4. \A x \in OpsIn(plan) :
        /\ x.do # "install" /\ x.do # "put config" /\ ~Catalogs(x)
        /\ \A v : Creates(x, v) => v = s
  BY <1>3 DEF Catalogs, TextOps, Creates
<1>5. Has(s) => s \in text["skills"]
  BY DEF Has
<1>6. Has(s) => Fits(cmd, plan)
  BY <1>4, <1>5 DEF Fits, Made, Imported
<1> QED
  BY <1>2, <1>3, <1>6, Begins

LEMMA OneFolderStep ==
    ASSUME FilesIndInv, NEW p \in Commanders, ClearBody(p) \/ PutFile(p) \/ RemoveFile(p)
    PROVE  FilesIndInv'
<1>1. ASSUME NEW s \in Skills, NEW o \in {"clear", "file"}, NEW name \in {"clear", "put file", "drop file"},
             name = "clear" => o = "clear",
             Begin(p, [op |-> o, skill |-> s], Has(s), <<FolderOp(name, "runtime", s)>>)
      PROVE  FilesIndInv'
  <2> DEFINE cmd == [op |-> o, skill |-> s]  x == FolderOp(name, "runtime", s)  plan == <<x>>
  <2>1. cmd \in Cmds /\ cmd.op = o /\ cmd.skill = s
    BY DEF Cmds, ForOneSkill
  <2>2. Begin(p, cmd, Has(s), plan)
    BY <1>1
  <2> HIDE DEF cmd
  <2>3. cmd.op # "none" /\ cmd.op # "import" /\ (name = "clear" => cmd.op \notin Saving)
    BY <1>1, <2>1 DEF Saving
  <2>4. /\ x \in [do : {"clear", "put file", "drop file"}, where : Trees, skill : Skills]
        /\ x.do = name /\ x.skill = s
    BY DEF FolderOp, Trees
  <2> HIDE DEF x
  <2>5. Planned(cmd, plan) /\ Whole(plan) /\ OpsIn(plan) = {x}
    BY <2>1, <2>3, <2>4, OneFolder
  <2> HIDE DEF plan
  <2>6. \A y \in OpsIn(plan) : y.do # "install" /\ y.do # "put config" /\ ~Catalogs(y) /\ \A v : ~Creates(y, v)
    BY <2>4, <2>5 DEF Catalogs, TextOps, Creates
  <2>7. Fits(cmd, plan)
    BY <2>6, PlainFits
  <2> QED
    BY <2>1, <2>2, <2>3, <2>5, <2>7, Begins
<1> QED
  BY <1>1 DEF ClearBody, PutFile, RemoveFile

LEMMA RemoveSkillStep ==
    ASSUME FilesIndInv, NEW p \in Commanders, RemoveSkill(p)
    PROVE  FilesIndInv'
<1>1. PICK s \in Skills : Begin(p, [op |-> "remove", skill |-> s], Has(s) /\ text["skills"] # {s},
                                SaveText("skills", text["skills"] \ {s}) \o RemovePackage(s))
  BY DEF RemoveSkill
<1> DEFINE cmd == [op |-> "remove", skill |-> s]  c == text["skills"] \ {s}
           a == SaveText("skills", c)  b == RemovePackage(s)  plan == a \o b
           allowed == Has(s) /\ text["skills"] # {s}
<1>2. cmd \in Cmds /\ cmd.op = "remove" /\ cmd.skill = s /\ Begin(p, cmd, allowed, plan)
  BY <1>1 DEF Cmds, ForOneSkill
<1>3. c \in Contents /\ c \subseteq Skills /\ (allowed => c # {} /\ Here \subseteq c \cup {s})
  <2>1. c \in Contents /\ c \subseteq Skills
    BY WordsAreContent DEF FilesIndInv, DiskTypes, Texts, Contents
  <2>2. ASSUME allowed PROVE c # {} /\ Here \subseteq c \cup {s}
    BY <2>2, CatalogFacts DEF Has
  <2> QED
    BY <2>1, <2>2
<1> HIDE DEF cmd, c, a, b, allowed
<1>4. /\ Planned(cmd, b) /\ Whole(b)
      /\ \A x \in OpsIn(b) : x.do \in {"empty", "remove"} /\ x.skill = s
      /\ \A w \in Trees : FolderOp("remove", w, s) \in OpsIn(b)
  <2>1. cmd.op \notin Saving
    BY <1>2 DEF Saving
  <2> QED
    BY <1>2, <2>1, PackageRemoved DEF b
<1>5. ASSUME allowed PROVE Planned(cmd, plan) /\ Whole(plan) /\ Fits(cmd, plan)
  <2>1. /\ Planned(cmd, a) /\ Whole(a)
        /\ \A x \in OpsIn(a) : x.do \in {"stage", "rename"} /\ x.content = c
    BY <1>3, <1>5, WordsAreContent, TextReady DEF a
  <2>2. \A x \in OpsIn(a), y \in OpsIn(b) : Follows(x, y)
    BY <1>4, <2>1 DEF Follows, Refusing, Building
  <2>3. Planned(cmd, plan) /\ Whole(plan) /\ OpsIn(plan) = OpsIn(a) \cup OpsIn(b)
    <3>1. Planned(cmd, a) /\ Whole(a) /\ Planned(cmd, b) /\ Whole(b)
      BY <1>4, <2>1
    <3>2. Joins(plan, a, b)
      BY DEF Joins
    <3> HIDE DEF plan
    <3> QED
      BY <2>2, <3>1, <3>2, Then
  <2>4. Doomed(plan, s)
    <3>1. Tree \in Trees /\ FolderOp("remove", Tree, s) \in OpsIn(plan)
      BY <1>4, <2>3 DEF Tree, Trees
    <3>2. Dooms(FolderOp("remove", Tree, s), s)
      BY DEF Dooms, FolderOp
    <3> QED
      BY <3>1, <3>2 DEF Doomed
  <2>5. \A x \in OpsIn(plan) :
           /\ x.do \in {"stage", "rename", "empty", "remove"}
           /\ x.do \in {"stage", "rename"} => x.content = c
    BY <1>4, <2>1, <2>3
  <2> HIDE DEF plan
  <2>6. Made(plan) /\ Imported(cmd, plan)
    BY <2>5 DEF Made, Imported, Creates
  <2>7. \A x \in OpsIn(plan) : Catalogs(x) => \A v \in Here : v \in x.content \/ Doomed(plan, v)
    <3>1. \A x \in OpsIn(plan) : Catalogs(x) => x.content = c
      BY <2>5 DEF Catalogs, TextOps
    <3>2. \A v \in Here : v \in c \/ v = s
      BY <1>3, <1>5
    <3> QED
      BY <2>4, <3>1, <3>2
  <2> QED
    BY <2>3, <2>5, <2>6, <2>7 DEF Fits
<1> HIDE DEF plan
<1> QED
  BY <1>2, <1>5, Begins

LEMMA ReplaceSkillsStep ==
    ASSUME FilesIndInv, NEW p \in Commanders, ReplaceSkills(p)
    PROVE  FilesIndInv'
<1> DEFINE Begun(S, s, how) ==
      Begin(p, [op |-> "replace", skill |-> s], Catalog,
            SaveText("skills", S) \o <<Each("remove packages", text["skills"] \ S)>>
            \o IF how = "set" THEN WriteBody(s) ELSE <<FolderOp("clear", "runtime", s)>>)
<1>1. PICK S \in (SUBSET Skills) \ {{}} : \E s \in S : \E how \in {"set", "clear"} : Begun(S, s, how)
  BY DEF ReplaceSkills
<1>2. PICK s \in S : \E how \in {"set", "clear"} : Begun(S, s, how)
  BY <1>1
<1>3. PICK how \in {"set", "clear"} : Begun(S, s, how)
  BY <1>2
<1> DEFINE cmd == [op |-> "replace", skill |-> s]  gone == text["skills"] \ S
           a == SaveText("skills", S)  e == Each("remove packages", gone)  b == <<e>>
           d == IF how = "set" THEN WriteBody(s) ELSE <<FolderOp("clear", "runtime", s)>>
           plan == (a \o b) \o d
<1>4. S \in SUBSET Skills /\ S # {} /\ s \in Skills
  OBVIOUS
<1>5. cmd \in Cmds /\ cmd.op = "replace" /\ Begin(p, cmd, Catalog, plan)
  BY <1>3, <1>4 DEF Cmds
<1> HIDE DEF cmd
<1>6. cmd.op \notin Saving /\ cmd.op \notin ForOneSkill
  BY <1>5 DEF Saving, ForOneSkill
<1>7. /\ Planned(cmd, a) /\ Whole(a)
      /\ \A x \in OpsIn(a) : x.do \in {"stage", "rename"} /\ x.content = S
      /\ \E x \in OpsIn(a) : Catalogs(x)
  <2>1. S \in Contents /\ S \subseteq Skills
    BY <1>4 DEF Contents
  <2> QED
    BY <1>4, <2>1, WordsAreContent, TextReady DEF Catalogs
<1>8. /\ Planned(cmd, b) /\ Whole(b) /\ OpsIn(b) = {e} /\ e.do = "remove packages"
      /\ \A v \in text["skills"] \ S : v \in e.skills
  <2>1. "remove packages" \in Loops
    BY DEF Loops
  <2>2. text["skills"] \subseteq Skills
    BY WordsAreContent DEF FilesIndInv, DiskTypes, Texts, Contents
  <2>3. gone \in SUBSET Skills
    BY <2>2
  <2> HIDE DEF gone
  <2>4. /\ Planned(cmd, <<e>>) /\ Whole(<<e>>) /\ OpsIn(<<e>>) = {e}
        /\ e.do = "remove packages" /\ e.skills = gone
    BY <1>6, <2>1, <2>3, LoopPlanned
  <2>5. \A v \in text["skills"] \ S : v \in gone
    BY DEF gone
  <2> HIDE DEF e
  <2> QED
    BY <2>4, <2>5
<1>9. /\ Planned(cmd, d) /\ Whole(d)
      /\ \A x \in OpsIn(d) : x.do \in {"mkdir", "stage body", "rename body", "clear"} /\ x.skill = s
  <2>1. CASE how = "set"
    <3>1. /\ Planned(cmd, WriteBody(s)) /\ Whole(WriteBody(s))
          /\ \A x \in OpsIn(WriteBody(s)) : x.do \in {"mkdir", "stage body", "rename body"} /\ x.skill = s
      BY <1>4, <1>6, BodyReady
    <3>2. d = WriteBody(s)
      BY <2>1
    <3> HIDE DEF d
    <3> QED
      BY <3>1, <3>2
  <2>2. CASE how # "set"
    <3> DEFINE f == FolderOp("clear", "runtime", s)
    <3>1. /\ f \in [do : {"clear", "put file", "drop file"}, where : Trees, skill : Skills]
          /\ f.do = "clear" /\ f.skill = s
      BY <1>4 DEF FolderOp, Trees
    <3>2. d = <<f>>
      BY <2>2
    <3> HIDE DEF d, f
    <3>3. Planned(cmd, <<f>>) /\ Whole(<<f>>) /\ OpsIn(<<f>>) = {f}
      BY <1>6, <3>1, OneFolder
    <3> QED
      BY <3>1, <3>2, <3>3
  <2> QED
    BY <2>1, <2>2
<1> HIDE DEF a, b, d, e, gone
<1>10. Planned(cmd, a \o b) /\ Whole(a \o b) /\ OpsIn(a \o b) = OpsIn(a) \cup OpsIn(b)
  <2>1. \A x \in OpsIn(a), y \in OpsIn(b) : Follows(x, y)
    BY <1>7, <1>8 DEF Follows, Refusing, Building
  <2>2. Planned(cmd, a) /\ Whole(a) /\ Planned(cmd, b) /\ Whole(b)
    BY <1>7, <1>8
  <2>3. Joins(a \o b, a, b)
    BY DEF Joins
  <2> QED
    BY <2>1, <2>2, <2>3, Then
<1> DEFINE ab == a \o b
<1>11. ab = a \o b
  OBVIOUS
<1> HIDE DEF ab
<1>12. Planned(cmd, plan) /\ Whole(plan) /\ OpsIn(plan) = OpsIn(a) \cup OpsIn(b) \cup OpsIn(d)
  <2>1. \A x \in OpsIn(ab), y \in OpsIn(d) : Follows(x, y)
    BY <1>7, <1>8, <1>9, <1>10, <1>11 DEF Follows, Refusing, Building
  <2>2. Planned(cmd, ab) /\ Whole(ab) /\ Planned(cmd, d) /\ Whole(d)
    BY <1>9, <1>10, <1>11
  <2>3. Planned(cmd, ab \o d) /\ Whole(ab \o d) /\ OpsIn(ab \o d) = OpsIn(ab) \cup OpsIn(d)
    <3>1. Joins(ab \o d, ab, d)
      BY DEF Joins
    <3> QED
      BY <2>1, <2>2, <3>1, Then
  <2> QED
    BY <1>10, <1>11, <2>3
<1> HIDE DEF plan
<1>13. ASSUME NEW x \in OpsIn(plan)
       PROVE  /\ x.do # "install" /\ x.do # "put config"
              /\ Catalogs(x) => x.content = S
              /\ \A v : Creates(x, v) => v = s
  <2> USE DEF Catalogs, TextOps, Creates
  <2>1. CASE x \in OpsIn(a)
    BY <1>7, <2>1
  <2>2. CASE x \in OpsIn(b)
    BY <1>8, <2>2
  <2>3. CASE x \in OpsIn(d)
    BY <1>9, <2>3
  <2> QED
    BY <1>12, <2>1, <2>2, <2>3
<1>14. Catalog => Fits(cmd, plan)
  <2> SUFFICES ASSUME Catalog PROVE Fits(cmd, plan)
    OBVIOUS
  <2>1. \A v \in Here : v \in S \/ Doomed(plan, v)
    <3> SUFFICES ASSUME NEW v \in Here, v \notin S PROVE Doomed(plan, v)
      OBVIOUS
    <3>1. v \in e.skills /\ e \in OpsIn(plan)
      BY <1>8, <1>12, CatalogFacts
    <3> QED
      BY <1>8, <3>1 DEF Doomed, Dooms
  <2>2. Made(plan)
    <3>1. \E y \in OpsIn(plan) : Catalogs(y)
      BY <1>7, <1>12
    <3>2. \A y \in OpsIn(plan) : Catalogs(y) => s \in y.content
      BY <1>13
    <3>3. \A x \in OpsIn(plan), v \in Skills : Creates(x, v) => v = s
      BY <1>13
    <3> QED
      BY <3>1, <3>2, <3>3 DEF Made
  <2>3. Imported(cmd, plan)
    BY <1>13 DEF Imported
  <2> QED
    BY <1>13, <2>1, <2>2, <2>3 DEF Fits
<1> QED
  BY <1>5, <1>12, <1>14, Begins

LEMMA ImportBegins ==
    ASSUME FilesIndInv, NEW p \in Commanders, Import(p)
    PROVE  FilesIndInv'
<1> DEFINE first == IF config.there THEN <<>> ELSE SaveConfig(Bootstrap)
           command(S, P, with, keep) ==
             [op |-> "import", declares |-> S, stored |-> P, config |-> with,
              keep |-> keep, live |-> config.there]
           may(how) == how = "force" \/ Blank \/ (how = "settings only" /\ config.there)
           plan == first \o <<Op("install")>>
           asked(S, P, with, keep, how) ==
             /\ how = "settings only" => ~with
             /\ keep => with
             /\ Begin(p, command(S, P, with, keep), may(how), plan)
<1>1. PICK S \in (SUBSET Skills) \ {{}} :
        \E P \in {{}, S} : \E with, keep \in BOOLEAN : \E how \in {"plain", "force", "settings only"} :
          asked(S, P, with, keep, how)
  BY DEF Import
<1>2. PICK P \in {{}, S} :
        \E with, keep \in BOOLEAN : \E how \in {"plain", "force", "settings only"} :
          asked(S, P, with, keep, how)
  BY <1>1
<1>3. PICK with \in BOOLEAN, keep \in BOOLEAN, how \in {"plain", "force", "settings only"} :
        Begin(p, command(S, P, with, keep), may(how), plan)
  BY <1>2
<1>4. S \in (SUBSET Skills) \ {{}} /\ P \in SUBSET Skills /\ P \subseteq S /\ config.there \in BOOLEAN
  BY DEF FilesIndInv, DiskTypes, Settings
<1>5. PICK cmd : cmd = command(S, P, with, keep)
  OBVIOUS
<1>6. cmd \in Cmds /\ cmd.op = "import" /\ cmd.declares = S /\ cmd.stored = P /\ cmd.live = config.there
  BY <1>4, <1>5 DEF Cmds
<1>7. PICK allowed : allowed = may(how)
  OBVIOUS
<1> HIDE DEF command, may
<1>8. Begin(p, cmd, allowed, plan)
  BY <1>3, <1>5, <1>7
<1> DEFINE e == Op("install")  g == <<e>>
<1>9. Planned(cmd, g) /\ Whole(g) /\ OpsIn(g) = {e} /\ e.do = "install"
  <2>1. e \in Ops /\ e.do = "install"
    BY DEF Op, Ops
  <2> HIDE DEF e
  <2>2. Belongs(cmd, e)
    BY <1>6, <2>1 DEF Belongs, Saving, ForOneSkill
  <2>3. e.do \notin Firsts /\ e.do \notin Seconds
    BY <2>1 DEF Firsts, Seconds
  <2> QED
    BY <2>1, <2>2, <2>3, OnePlanned
<1>10. /\ Planned(cmd, first) /\ Whole(first)
       /\ \A x \in OpsIn(first) :
            /\ x.do \in {"drop config", "put config"} /\ ~config.there
            /\ x.do = "put config" => x.config = Bootstrap
  <2>1. CASE config.there
    <3>1. first = <<>>
      BY <2>1
    <3> QED
      BY <3>1, NothingPlanned
  <2>2. CASE ~config.there
    <3>1. first = SaveConfig(Bootstrap)
      BY <2>2
    <3>2. Bootstrap \in Settings
      BY DEF Bootstrap, Settings, Limits
    <3> HIDE DEF first
    <3> QED
      BY <2>2, <3>1, <3>2, ConfigReady
  <2> QED
    BY <2>1, <2>2
<1> HIDE DEF first, e
<1>11. \A x \in OpsIn(first), y \in OpsIn(g) : Follows(x, y)
  BY <1>9, <1>10 DEF Follows, Refusing, Building
<1> HIDE DEF g
<1>12. Planned(cmd, first \o g) /\ Whole(first \o g) /\ OpsIn(first \o g) = OpsIn(first) \cup OpsIn(g)
  <2>1. Planned(cmd, first) /\ Whole(first) /\ Planned(cmd, g) /\ Whole(g)
    BY <1>9, <1>10
  <2> QED
    <3>1. Joins(first \o g, first, g)
      BY DEF Joins
    <3> QED
      BY <1>11, <2>1, <3>1, Then
<1>13. Planned(cmd, plan) /\ Whole(plan) /\ OpsIn(plan) = OpsIn(first) \cup {e}
  BY <1>9, <1>12 DEF g, e
<1> HIDE DEF plan
<1>14. \A x \in OpsIn(plan) :
         /\ x.do \in {"drop config", "put config", "install"}
         /\ x.do = "put config" => x.config = Bootstrap /\ ~config.there
  BY <1>9, <1>10, <1>13
<1>15. ASSUME ~KnownBreaker(cmd, Disk) PROVE Fits(cmd, plan)
  <2>1. Here \subseteq S
    BY <1>6, <1>15, DiskRead DEF KnownBreaker
  <2>2. Made(plan)
    BY <1>14 DEF Made, Creates
  <2>3. Imported(cmd, plan)
    BY <1>4, <1>6, <2>1 DEF Imported
  <2>4. Bootstrap.there /\ Bootstrap.resolves
    BY DEF Bootstrap
  <2>5. \A x \in OpsIn(plan) : ~Catalogs(x)
    BY <1>14 DEF Catalogs, TextOps
  <2> QED
    BY <1>14, <2>2, <2>3, <2>4, <2>5 DEF Fits
<1>16. cmd.op = "import" /\ cmd.keep /\ cmd.live => \A x \in OpsIn(plan) : x.do # "put config"
  BY <1>6, <1>14
<1> QED
  BY <1>6, <1>8, <1>13, <1>15, <1>16, Begins

LEMMA InitBegins ==
    ASSUME FilesIndInv, NEW p \in Commanders, InitProfile(p)
    PROVE  FilesIndInv'
<1> DEFINE cmd == [op |-> "init"]  a == CopyText("prompt", {Words})  b == CopyText("skills", Template)
           d == SaveConfig(Bootstrap)  plan == (a \o b) \o d
<1>1. PICK force \in BOOLEAN : Begin(p, cmd, force \/ Blank, plan)
  BY DEF InitProfile
<1>2. PICK allowed : allowed = (force \/ Blank)
  OBVIOUS
<1>3. Begin(p, cmd, allowed, plan)
  BY <1>1, <1>2
<1>4. cmd \in Cmds /\ cmd.op = "init" /\ cmd.op \in Wholesale
  BY DEF Cmds, Wholesale
<1> HIDE DEF cmd
<1>5. /\ Planned(cmd, a) /\ Whole(a)
      /\ \A x \in OpsIn(a) : x.do \in {"drop", "fill"} /\ x.file = "prompt"
  <2>1. /\ Planned(cmd, a) /\ Whole(a)
        /\ OpsIn(a) = {TextOp("drop", "prompt", {Words}), TextOp("fill", "prompt", {Words})}
    BY <1>4, WordsAreContent, TextCopied
  <2> HIDE DEF a
  <2> QED
    BY <2>1 DEF TextOp
<1>6. /\ Planned(cmd, b) /\ Whole(b)
      /\ \A x \in OpsIn(b) : x.do \in {"drop", "fill"} /\ x.content = Template
  <2>1. Template \in Contents \ {{}} /\ Template \subseteq Skills
    BY ProfileAssumption DEF Contents
  <2>2. /\ Planned(cmd, b) /\ Whole(b)
        /\ OpsIn(b) = {TextOp("drop", "skills", Template), TextOp("fill", "skills", Template)}
    BY <1>4, <2>1, WordsAreContent, TextCopied
  <2> HIDE DEF b
  <2> QED
    BY <2>2 DEF TextOp
<1>7. /\ Planned(cmd, d) /\ Whole(d)
      /\ \A x \in OpsIn(d) : /\ x.do \in {"drop config", "put config"}
                             /\ x.do = "put config" => x.config = Bootstrap
  <2>1. Bootstrap \in Settings
    BY DEF Bootstrap, Settings, Limits
  <2> QED
    BY <2>1, ConfigReady
<1> HIDE DEF a, b, d
<1> DEFINE ab == a \o b
<1>8. Planned(cmd, ab) /\ Whole(ab) /\ OpsIn(ab) = OpsIn(a) \cup OpsIn(b)
  <2>1. \A x \in OpsIn(a), y \in OpsIn(b) : Follows(x, y)
    BY <1>5, <1>6 DEF Follows, Refusing, Building
  <2>2. Planned(cmd, a) /\ Whole(a) /\ Planned(cmd, b) /\ Whole(b)
    BY <1>5, <1>6
  <2>3. Joins(ab, a, b)
    BY DEF Joins
  <2> HIDE DEF ab
  <2> QED
    BY <2>1, <2>2, <2>3, Then
<1>9. plan = ab \o d
  OBVIOUS
<1> HIDE DEF ab, plan
<1>10. Planned(cmd, plan) /\ Whole(plan) /\ OpsIn(plan) = OpsIn(ab) \cup OpsIn(d)
  <2>1. \A x \in OpsIn(ab), y \in OpsIn(d) : Follows(x, y)
    BY <1>5, <1>6, <1>7, <1>8 DEF Follows, Refusing, Building
  <2>2. Planned(cmd, ab) /\ Whole(ab) /\ Planned(cmd, d) /\ Whole(d)
    BY <1>7, <1>8
  <2>3. Planned(cmd, ab \o d) /\ Whole(ab \o d) /\ OpsIn(ab \o d) = OpsIn(ab) \cup OpsIn(d)
    <3>1. Joins(ab \o d, ab, d)
      BY DEF Joins
    <3> QED
      BY <2>1, <2>2, <3>1, Then
  <2> QED
    BY <1>9, <2>3
<1>11. \A x \in OpsIn(plan) :
         /\ x.do \in {"drop", "fill", "drop config", "put config"}
         /\ x.do = "put config" => x.config = Bootstrap
         /\ Catalogs(x) => x.content = Template
  <2> USE DEF Catalogs, TextOps
  <2>1. \A x \in OpsIn(a) : ~Catalogs(x)
    BY <1>5, WordsAreContent
  <2>2. \A x \in OpsIn(d) : ~Catalogs(x)
    BY <1>7
  <2> HIDE DEF Catalogs, TextOps
  <2> QED
    BY <1>5, <1>6, <1>7, <1>8, <1>10, <2>1, <2>2
<1>12. ASSUME ~KnownBreaker(cmd, Disk) PROVE Fits(cmd, plan)
  <2>1. Here \subseteq Template
    BY <1>4, <1>12, DiskRead DEF KnownBreaker
  <2>2. Made(plan)
    BY <1>11 DEF Made, Creates
  <2>3. Imported(cmd, plan)
    BY <1>11 DEF Imported
  <2>4. Bootstrap.there /\ Bootstrap.resolves
    BY DEF Bootstrap
  <2> QED
    BY <1>11, <2>1, <2>2, <2>3, <2>4 DEF Fits
<1> QED
  BY <1>3, <1>4, <1>10, <1>12, Begins

-----------------------------------------------------------------------------
(* The invariant                                                           *)

LEMMA FilesBegin ==
    ASSUME ProfileInit PROVE FilesIndInv
<1>1. /\ config = [Bootstrap EXCEPT !.limits = "tuned"]
      /\ text = [f \in Files |-> IF f = "prompt" THEN {Words} ELSE Skills]
      /\ tmp = [f \in Files |-> {}]
      /\ process = [p \in Commanders |-> Idle]
      /\ latest = [cmd |-> Idle.cmd, found |-> Disk, answer |-> "none"]
      /\ trouble = {}
  BY DEF ProfileInit
<1>2. PICK there \in [Skills -> {{}, {Dir, Body}, {Dir, Body, Extra}}], older \in BOOLEAN :
        /\ runtime = ~older
        /\ folder = [w \in {"runtime", "legacy"} |->
                        IF older = (w = "legacy") THEN there ELSE [s \in Skills |-> {}]]
  BY DEF ProfileInit
<1>3. config \in Settings /\ config.there /\ config.resolves
  BY <1>1 DEF Bootstrap, Settings, Limits
<1>4. text \in Texts /\ tmp \in Texts /\ text["skills"] = Skills /\ \A f \in Files : text[f] # {}
  <2>1. Skills # {}
    BY ProfileAssumption
  <2>2. text \in [Files -> Contents] /\ tmp \in [Files -> Contents]
    BY <1>1 DEF Contents
  <2>3. text["skills"] = Skills /\ tmp["skills"] = {}
    BY <1>1 DEF Files
  <2>4. \A f \in Files : text[f] # {}
    BY <1>1, <2>1
  <2> QED
    BY <2>2, <2>3, <2>4 DEF Texts
<1>5. /\ folder \in Folders /\ runtime \in BOOLEAN
      /\ folder[Tree] = there
      /\ ~runtime => \A s \in Skills : folder["runtime"][s] = {}
  <2>1. there \in [Skills -> SUBSET Parts] /\ [s \in Skills |-> {}] \in [Skills -> SUBSET Parts]
    BY DEF Parts
  <2>2. CASE older
    <3>1. ~runtime /\ folder = [w \in {"runtime", "legacy"} |-> IF w = "legacy" THEN there ELSE [s \in Skills |-> {}]]
      BY <1>2, <2>2
    <3>2. folder["legacy"] = there /\ folder["runtime"] = [s \in Skills |-> {}]
      BY <3>1
    <3>3. folder \in Folders
      BY <2>1, <3>1 DEF Folders, Trees
    <3>4. \A s \in Skills : folder["runtime"][s] = {}
      BY <3>2
    <3>5. Tree = "legacy"
      BY <3>1 DEF Tree
    <3> QED
      BY <1>2, <3>2, <3>3, <3>4, <3>5
  <2>3. CASE ~older
    <3>1. runtime = TRUE /\ folder = [w \in {"runtime", "legacy"} |-> IF w # "legacy" THEN there ELSE [s \in Skills |-> {}]]
      BY <1>2, <2>3
    <3>2. folder["runtime"] = there
      BY <3>1
    <3>3. folder \in Folders
      BY <2>1, <3>1 DEF Folders, Trees
    <3> QED
      BY <3>1, <3>2, <3>3 DEF Tree
  <2> QED
    BY <2>2, <2>3
<1>6. DiskTypes
  BY <1>3, <1>4, <1>5 DEF DiskTypes
<1>7. HistoryTypes /\ latest.cmd.op = "none" /\ latest.found = Disk
  <2>1. Disk \in Disks /\ Disk.runtime = runtime
    BY <1>3, <1>4, <1>5 DEF Disk, Disks
  <2> QED
    BY <1>1, <2>1, IdleFacts DEF HistoryTypes
<1>8. Plans /\ Running = {}
  <2>1. \A p \in Commanders : process[p] = Idle
    BY <1>1
  <2>2. process \in [Commanders -> [cmd : Cmds, todo : Seq(Ops)]]
    BY <1>1, IdleFacts
  <2>3. Running = {}
    BY <2>1, IdleFacts DEF Running
  <2> QED
    BY <2>1, <2>2, <2>3, IdleFacts DEF Plans
<1>9. Sound(Idle.cmd, <<>>)
  <2>1. \A name : ~Ahead(<<>>, name)
    BY DEF Ahead
  <2>2. Prepared(<<>>) /\ TextsThere(<<>>)
    BY <1>4, <2>1 DEF Prepared, TextsThere
  <2>3. LimitsKept(<<>>)
    BY <1>7 DEF LimitsKept, Keeping
  <2>4. Loaded(<<>>)
    BY <1>3, NoOps DEF Loaded
  <2>5. Packages(<<>>)
    BY <1>5 DEF Packages, Here, Dir, Body
  <2>6. InCatalog(<<>>)
    BY <1>4, NoOps DEF InCatalog, Here
  <2>7. Made(<<>>) /\ Imported(Idle.cmd, <<>>)
    BY NoOps DEF Made, Imported
  <2> QED
    BY <2>2, <2>3, <2>4, <2>5, <2>6, <2>7 DEF Sound, Ordinary, Untroubled
<1>10. BodiesThere /\ OthersThere
  BY <1>7 DEF BodiesThere, OthersThere, Saving, ForOneSkill
<1> QED
  BY <1>6, <1>7, <1>8, <1>9, <1>10 DEF FilesIndInv, OneByOne

LEMMA OperationsKeep ==
    ASSUME FilesIndInv, NEW p \in Commanders, Operations(p) \/ Kill(p)
    PROVE  FilesIndInv'
<1>1. p \in Running
  <2>1. ASSUME NEW name, Performs(p, name) PROVE p \in Running
    BY <2>1 DEF Performs
  <2>2. Operations(p) => p \in Running
    BY <2>1 DEF Operations, Stage, Rename, DropText, FillText, DropConfig, PutConfig, ReloadConfig, MakeFolder,
       StageBody, RenameBody, ClearFolder, EmptyFolder, RemoveDir, PutCompanion, DropCompanion, ForEach,
       Install, Verify, Answer
  <2> QED
    BY <2>2 DEF Kill
<1>2. PICK cmd, t : At(p, cmd, t)
  BY <1>1, AtCommand
<1> QED
  BY <1>2, StageStep, RenameStep, DropStep, FillStep, DropConfigStep, PutConfigStep, ReloadStep, MakeFolderStep,
     StageBodyStep, RenameBodyStep, ClearStep, EmptyStep, RemoveDirStep, PutCompanionStep, DropCompanionStep,
     ForEachStep, InstallStep, AnswerStep, KillStep
     DEF Operations

LEMMA CommandsBegin ==
    ASSUME FilesIndInv, NEW p \in Commanders, Commands(p)
    PROVE  FilesIndInv'
BY SetLimitsStep, SetAccessStep, SetPromptStep, AddSkillStep, RemoveSkillStep, ReplaceSkillsStep, SetBodyStep,
   OneFolderStep, ImportBegins, InitBegins
   DEF Commands

LEMMA FilesRest ==
    ASSUME FilesIndInv, UNCHANGED profileVars
    PROVE  FilesIndInv'
<1>1. UNCHANGED <<config, text, tmp, runtime, folder, process, latest, trouble>>
  BY DEF profileVars
<1>2. DiskTypes' /\ HistoryTypes' /\ BodiesThere' = BodiesThere /\ OthersThere' = OthersThere
  BY <1>1 DEF FilesIndInv, DiskTypes, HistoryTypes, BodiesThere, OthersThere
<1>3. Running' = Running /\ Plans'
  BY <1>1 DEF FilesIndInv, Plans, Running
<1>4. ASSUME NEW cmd, NEW t, Sound(cmd, t) PROVE Sound(cmd, t)'
  <2>1. Here' = Here /\ Tree' = Tree /\ \A s : Doomed(t, s)' <=> Doomed(t, s)
    BY <1>1, TreeStays, DoomedStays
  <2>2. Ordinary(t)'
    BY <1>1, <1>4 DEF Sound, Ordinary, Prepared, TextsThere, LimitsKept, Keeping
  <2>3. Untroubled(cmd, t) => Loaded(t)' /\ Made(t)' /\ Imported(cmd, t)'
    BY <1>1, <2>1 DEF Untroubled, Loaded, Made, Imported
  <2>4. Untroubled(cmd, t) => Packages(t)' /\ InCatalog(t)'
    BY <1>1, <2>1 DEF Untroubled, Packages, Unfinished, InCatalog
  <2> QED
    BY <1>1, <1>4, <2>2, <2>3, <2>4 DEF Sound, Untroubled
<1>5. OneByOne => OneByOne'
  BY <1>1, <1>2, <1>3, <1>4 DEF OneByOne
<1> QED
  BY <1>1, <1>2, <1>3, <1>5 DEF FilesIndInv

LEMMA FilesStep ==
    ASSUME FilesIndInv, [ProfileNext]_profileVars
    PROVE  FilesIndInv'
<1>1. CASE ProfileNext
  BY <1>1, CommandsBegin, OperationsKeep DEF ProfileNext
<1>2. CASE UNCHANGED profileVars
  BY <1>2, FilesRest
<1> QED
  BY <1>1, <1>2

(* Whatever commands run on a profile, killed or not: what their operations *)
(* left belong together, and where none overlapped the files are those the  *)
(* operations so far make.                                                  *)
THEOREM FilesInvariant == ProfileConfigSpec => []FilesIndInv
<1>1. ProfileConfigInit => FilesIndInv
  BY FilesBegin DEF ProfileConfigInit
<1>2. FilesIndInv /\ [ProfileConfigNext]_profileConfigVars => FilesIndInv'
  BY FilesStep, FilesRest DEF ProfileConfigNext, profileConfigVars
<1> QED
  BY <1>1, <1>2, PTL DEF ProfileConfigSpec

(* Commands that are not killed, do not overlap and are none of those of    *)
(* KnownBreaker leave a profile that loads, whatever they answer, for any   *)
(* skills and any number of commands (commands/config, cli/skill.rs).       *)
THEOREM ProfileStaysUsable == ProfileConfigSpec => []UsableUnlessTroubled
<1>1. FilesIndInv => UsableUnlessTroubled
  <2> SUFFICES ASSUME FilesIndInv, Running = {}, trouble = {} PROVE Usable(Disk)
    BY DEF UsableUnlessTroubled
  <2>1. TextsThere(<<>>) /\ Untroubled(Idle.cmd, <<>>) /\ \A s : ~Doomed(<<>>, s)
    BY Alone
  <2>2. \A name : ~Ahead(<<>>, name)
    BY DEF Ahead
  <2>3. LoadsConfig(Disk)
    BY <2>1, <2>2, DiskRead DEF Untroubled, Loaded
  <2>4. \A f \in Files : text[f] # {}
    BY <2>1, <2>2 DEF TextsThere
  <2>5. \A s \in Here : Body \in folder[Tree][s] /\ s \in text["skills"]
    BY <2>1, <2>2 DEF Untroubled, Packages, Unfinished, InCatalog
  <2>6. /\ Root(Disk) = Tree /\ Stored(Disk) = Here /\ Disk.text = text /\ Disk.folder = folder
    BY DiskRead DEF Disk
  <2> QED
    BY <2>3, <2>4, <2>5, <2>6 DEF Usable, LoadsSettings, Declared, IsPackage
<1> QED
  BY <1>1, FilesInvariant, PTL

(* A killed command loses no text but those it replaces wholesale and no    *)
(* body but the one it removes, a command for one skill leaves what is read *)
(* of the others, and an import that says nothing of the limits keeps them. *)
THEOREM CommandsKeepTheRest == ProfileConfigSpec => []CommandsKeep
<1>1. FilesIndInv => CommandsKeep
  <2> SUFFICES ASSUME FilesIndInv PROVE CommandsKeep
    OBVIOUS
  <2> SUFFICES ASSUME "overlapped" \notin trouble PROVE CommandsKeep
    BY DEF CommandsKeep, KillKeepsSaved, OthersKept, TunedKept
  <2>1. OneByOne
    BY DEF FilesIndInv
  <2>2. ASSUME "torn" \notin trouble, \A p \in Running : process[p].cmd.op \notin Wholesale, NEW f \in Files
        PROVE  text[f] # {}
    <3>1. CASE Running = {}
      BY <2>2, <3>1, Alone DEF TextsThere
    <3>2. CASE Running # {}
      <4>1. PICK p \in Commanders : p \in Running
        BY <3>2 DEF Running
      <4>2. PICK cmd, t : At(p, cmd, t)
        BY <4>1, AtCommand
      <4>3. Sound(cmd, t) /\ Planned(cmd, t) /\ cmd.op \notin Wholesale
        BY <2>2, <4>1, <4>2, AtFacts DEF At
      <4>4. ~Ahead(t, "fill")
        <5> SUFFICES ASSUME Ahead(t, "fill") PROVE FALSE
          OBVIOUS
        <5>1. t # <<>> /\ Head(t).do = "fill"
          BY DEF Ahead
        <5>2. Belongs(cmd, Head(t))
          BY <4>3, <5>1, FirstOfPlan
        <5> QED
          BY <4>3, <5>1, <5>2 DEF Belongs
      <4> QED
        BY <2>2, <4>3, <4>4 DEF Sound, Ordinary, TextsThere
    <3> QED
      BY <3>1, <3>2
  <2>3. KillKeepsSaved
    BY <2>1, <2>2 DEF KillKeepsSaved, OneByOne, BodiesThere, Saving
  <2>4. OthersKept
    <3> SUFFICES ASSUME NEW s \in Skills, latest.cmd.op \in ForOneSkill, latest.cmd.skill # s, latest.found.runtime
                 PROVE  folder[Root(Disk)][s] = latest.found.folder["runtime"][s]
      BY DEF OthersKept, ForOneSkill
    <3>1. runtime /\ Tree = "runtime"
      BY DEF FilesIndInv, HistoryTypes, Tree
    <3>2. folder["runtime"][s] = latest.found.folder["runtime"][s]
      BY <2>1 DEF OneByOne, OthersThere
    <3> QED
      BY <3>1, <3>2, DiskRead
  <2>5. TunedKept
    <3> SUFFICES ASSUME Keeping, latest.answer = "ok" PROVE config.limits = latest.found.config.limits
      BY DEF TunedKept, Keeping
    <3>1. Running = {}
      BY <2>1 DEF OneByOne, Running
    <3>2. LimitsKept(<<>>) /\ ~Ahead(<<>>, "put config")
      BY <2>1, <3>1 DEF OneByOne, Sound, Ordinary, Ahead
    <3> QED
      BY <3>2 DEF LimitsKept
  <2> QED
    BY <2>3, <2>4, <2>5 DEF CommandsKeep
<1> QED
  BY <1>1, FilesInvariant, PTL
=============================================================================
