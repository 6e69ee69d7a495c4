---------------------------- MODULE ConfigForms ----------------------------
(***************************************************************************)
(* The configuration document of a profile and the ways it is edited: the  *)
(* whole document fetched and put back by the studio's forms, with its     *)
(* secrets scrubbed (commands/config/document.rs, redact.rs), the sections *)
(* edited by `kbshff config ...`, and the `.env` file beside it            *)
(* (commands/config/secret.rs, commands/dotenv_file.rs).  A command that   *)
(* edits the document loads it, changes it and saves it in one step: what  *)
(* a kill between its file operations does is the subject of ProfileFiles. *)
(* A form is the view a browser got some time ago: other commands run      *)
(* between its GET and its PUT.  The writers of `.env` overlap.            *)
(***************************************************************************)
EXTENDS Naturals, Sequences, FiniteSets, SequencesExt

CONSTANTS
    Names,        \* names of MCP servers
    Reserved,     \* those of them that are names of built-in servers
    Keys,         \* names of environment variables and of headers
    Secrets,      \* non-empty values
    Writers,      \* commands that write `.env` at the same time
    Forms,        \* browsers that hold a fetched document
    MaxEdits   \* bound on the commands of a behaviour

\* A secret is a text: neither nothing, nor the mark the forms show for one.
\* There is a name a variable can have.
ASSUME FormsAssumption ==
    /\ Reserved \subseteq Names /\ Keys # {}
    /\ Secrets # {} /\ Secrets \cap {"absent", "{set: true}", ""} = {}
    /\ MaxEdits \in Nat

VARIABLES
    document,      \* the parsed agent-config.yaml
    host,        \* the folders and files of the host that the policy may name
    form,        \* form[f]: the document f holds, <<>> before its first GET
    dotenv,      \* the lines of `.env`
    writer,      \* writer[w]: the secret w writes and the lines it has read
    acked,       \* ghost: the value of the last acknowledged `secret set`
    spoilt,      \* ghost: writers overlapped, or one was killed while writing
    commands     \* commands so far

formVars == <<document, host, form, dotenv, writer, acked, spoilt, commands>>

None == "absent"
Marker == "{set: true}"
NoEntries == [k \in Keys |-> None]

-----------------------------------------------------------------------------
(* What a document may be *)

(* A stored server.  entries are its env (stdio) or its headers (http);     *)
(* extra says that args or a working directory are set.                     *)
Stdio(n, e, x) == [name |-> n, kind |-> "stdio", entries |-> e, auth |-> None, extra |-> x, timeout |-> 1]
Http(n, e, a) == [name |-> n, kind |-> "http", entries |-> e, auth |-> a, extra |-> FALSE, timeout |-> 1]

(* config/mod.rs validate, the rules that tie sections to one another *)
BillingServerKnown(c) ==
    c.billing.server # None => \E s \in c.mcp : s.name = c.billing.server
DedicatedBilling(c) ==
    c.billing.server # None =>
        /\ \E s \in c.mcp : s.name = c.billing.server
        /\ c.billing.server \notin c.handlers

ServersValid(c) ==
    /\ \A s, t \in c.mcp : s.name = t.name => s = t
    /\ \A s \in c.mcp : s.timeout > 0

SectionsValid(c) ==
    /\ c.keyEnv \/ c.key # None
    /\ c.tokens > 0
    /\ c.cost # None => c.cost = c.billing.currency
    /\ c.shaped

(* access/mod.rs validate_access_config: the rules that need no file system *)
BuiltinsValid(b) ==
    /\ \A i \in DOMAIN b : b[i] \in {"home.read", "home.write", "home.run"}
    /\ IsInjective(b)

ProgramsValid(p) ==
    /\ \A i, j \in DOMAIN p : p[i].alias = p[j].alias => i = j
    /\ \A i \in DOMAIN p : p[i].alias # "" /\ p[i].env # "LD_PRELOAD"

GrantsAreDefault(a) ==
    a.builtins = <<>> /\ a.grants = {} /\ a.root = None /\ a.programs = <<>>

AccessValid(c) ==
    LET a == c.access IN
    /\ \A s \in c.mcp : s.name \notin Reserved
    /\ a.mode # None
    /\ a.mode = "legacy" => GrantsAreDefault(a)
    /\ a.mode = "strict" =>
           /\ BuiltinsValid(a.builtins)
           /\ a.grants \subseteq {"in", "out/sub", "."}
           /\ ProgramsValid(a.programs)

Valid(c) == DedicatedBilling(c) /\ ServersValid(c) /\ SectionsValid(c) /\ AccessValid(c)

(* access/mod.rs resolve_access_policy: what the policy names exists and is *)
(* of the right type, and the workspace is outside the protected store.     *)
Resolves(a) ==
    a.mode = "legacy" \/
        /\ a.root # None => a.root \in host /\ a.root # "protected"
        /\ \A i \in DOMAIN a.programs : a.programs[i].alias \in host

(* config/safety.rs *)
Safe(c) == c.key = None

Loads == Valid(document) /\ Resolves(document.access)

-----------------------------------------------------------------------------
(* The document as a form sees it *)

Shown(entries) == [k \in Keys |-> IF entries[k] \in Secrets THEN Marker ELSE None]

(* A server on the wire: what the form of a server can set. *)
ServerView(s) ==
    [name |-> s.name, tag |-> s.kind,
     command |-> s.kind = "stdio", url |-> s.kind = "http",
     env |-> IF s.kind = "stdio" THEN Shown(s.entries) ELSE NoEntries,
     headers |-> IF s.kind = "http" THEN Shown(s.entries) ELSE NoEntries,
     auth |-> IF s.auth = None THEN None ELSE Marker,
     extra |-> s.extra, timeout |-> s.timeout]

View(c) == [c EXCEPT !.key = None, !.mcp = {ServerView(s) : s \in c.mcp}]

MarkersOf(r) == {k \in Keys : Marker \in {r.env[k], r.headers[k]}}
HasMarker(r) == MarkersOf(r) # {} \/ r.auth = Marker

(* redact.rs restore_mcp_secrets.  Only the map of the transport the stored *)
(* server has is restored; what is left is refused when it is parsed.       *)
RestorableAlways(entries, previous) == TRUE
Restorable(entries, previous) == \A k \in Keys : entries[k] = Marker => previous[k] # None

Restored(entries, previous) ==
    [k \in Keys |-> IF entries[k] = Marker THEN previous[k] ELSE entries[k]]

RestoreServer(r, p) ==
    IF p.kind = "stdio" THEN [r EXCEPT !.env = Restored(@, p.entries)]
    ELSE [r EXCEPT !.headers = Restored(@, p.entries),
                   !.auth = IF @ = Marker THEN p.auth ELSE @]

Previous(r) == {p \in document.mcp : p.name = r.name}

ServerMerges(r) ==
    IF Previous(r) = {} THEN ~HasMarker(r)
    ELSE \A p \in Previous(r) :
            Restorable(IF p.kind = "stdio" THEN r.env ELSE r.headers, p.entries)

MergedServer(r) ==
    IF Previous(r) = {} THEN r ELSE RestoreServer(r, CHOOSE p \in Previous(r) : TRUE)

(* config/mod.rs McpServerConfig::try_from, on the merged server *)
KindOf(r) ==
    IF r.tag # None THEN r.tag
    ELSE IF r.url = r.command THEN "unknown"
    ELSE IF r.url THEN "http" ELSE "stdio"

Parses(r) ==
    /\ ~HasMarker(r)
    /\ KindOf(r) = "stdio" => r.command /\ ~r.url /\ r.headers = NoEntries /\ r.auth = None
    /\ KindOf(r) = "http" => r.url /\ ~r.command /\ r.env = NoEntries /\ ~r.extra
    /\ KindOf(r) \in {"stdio", "http"}

Parsed(r) ==
    [name |-> r.name, kind |-> KindOf(r),
     entries |-> IF KindOf(r) = "stdio" THEN r.env ELSE r.headers,
     auth |-> r.auth, extra |-> r.extra, timeout |-> r.timeout]

(* redact.rs merge_config_put *)
MergedKey(doc, clear) ==
    IF clear THEN None ELSE IF doc.key \in {None, ""} THEN document.key ELSE doc.key

Merges(doc) == \A r \in doc.mcp : ServerMerges(r) /\ Parses(MergedServer(r))

Merged(doc, clear) ==
    [doc EXCEPT !.key = MergedKey(doc, clear),
                !.mcp = {Parsed(MergedServer(r)) : r \in doc.mcp}]

(* What a person does to the form of a server before the form is sent *)
ServerEdits(r) ==
    {[r EXCEPT !.name = n] : n \in Names}
    \cup {[r EXCEPT !.env[k] = v] : k \in Keys, v \in Secrets \cup {Marker, None}}
    \cup {[r EXCEPT !.headers[k] = v] : k \in Keys, v \in {Marker, None}}
    \cup {[r EXCEPT !.tag = IF @ = "stdio" THEN "http" ELSE "stdio",
                    !.command = ~@, !.url = ~@, !.extra = FALSE]}
    \cup {[r EXCEPT !.tag = None, !.url = TRUE], [r EXCEPT !.timeout = 0]}

ServersEdited(servers) ==
    {servers \ {r} : r \in servers}
    \cup UNION {{(servers \ {r}) \cup {e} : e \in ServerEdits(x)} : r \in servers, x \in servers}

FormEdits(doc) ==
    {doc, [doc EXCEPT !.tokens = 2]} \cup {[doc EXCEPT !.key = s] : s \in Secrets \cup {""}}
    \cup {[doc EXCEPT !.mcp = m] : m \in ServersEdited(doc.mcp)}

-----------------------------------------------------------------------------
(* Commands on the document *)

Issue == commands < MaxEdits /\ commands' = commands + 1

(* common.rs save_profile_config: validated, checked for safety, written *)
Save(c) ==
    /\ document' = IF Valid(c) /\ Safe(c) THEN c ELSE document
    /\ UNCHANGED <<host, form, dotenv, writer, acked, spoilt>>

(* document.rs Get, behind api.rs get_config *)
Get(f) ==
    /\ Issue /\ Loads
    /\ form' = [form EXCEPT ![f] = <<View(document)>>]
    /\ UNCHANGED <<document, host, dotenv, writer, acked, spoilt>>

(* document.rs Set, behind api.rs put_config *)
Put(f, doc, clear) ==
    /\ Issue /\ Loads /\ Merges(doc)
    /\ Save(Merged(doc, clear))

(* mcp.rs build_server: what `mcp add` and `mcp set` make of their flags *)
Buildable(s, command, url, env, headers, extra) ==
    /\ command # url
    /\ command => headers = NoEntries
    /\ url => env = NoEntries /\ ~extra

Built(n, command, env, headers, extra, timeout) ==
    [IF command THEN Stdio(n, env, extra) ELSE Http(n, headers, None) EXCEPT !.timeout = timeout]

McpAdd(n, command, entries) ==
    /\ Issue /\ Loads
    /\ \A s \in document.mcp : s.name # n
    /\ Save([document EXCEPT !.mcp = @ \cup
            {IF command THEN Stdio(n, entries, FALSE) ELSE Http(n, entries, None)}])

(* mcp.rs Set: the server is rebuilt from its fields and the flags; the     *)
(* OAuth settings are not among them.                                       *)
Rebuilt(s, flag, timeout) ==
    LET env == IF s.kind = "http" \/ flag = "url" THEN NoEntries ELSE s.entries
        headers == IF s.kind = "http" THEN s.entries ELSE NoEntries
        command == flag = "command" \/ (flag = None /\ s.kind = "stdio")
        extra == s.extra /\ flag # "url"
    IN [fits |-> Buildable(s, command, ~command, env, headers, extra),
        server |-> Built(s.name, command, env, headers, extra, timeout)]

McpSet(s, flag, timeout) ==
    LET new == Rebuilt(s, flag, timeout) IN
    /\ Issue /\ Loads
    /\ new.fits
    /\ Save([document EXCEPT !.mcp = (@ \ {s}) \cup {new.server}])

McpRemove(s) ==
    /\ Issue /\ Loads
    /\ Save([document EXCEPT !.mcp = @ \ {s}])

(* billing.rs: one field, or the section from a file *)
BillingSet(currency, server) ==
    /\ Issue /\ Loads
    /\ Save([document EXCEPT !.billing = [currency |-> currency, server |-> server]])

(* event_mcp.rs: validate_shape, then the section is replaced *)
EventSet(handlers, shaped) ==
    /\ Issue /\ shaped /\ Loads
    /\ Save([document EXCEPT !.handlers = handlers, !.shaped = shaped])

LimitsSet(tokens, cost) ==
    /\ Issue /\ Loads
    /\ Save([document EXCEPT !.tokens = tokens, !.cost = cost])

ProviderSet(keyEnv) ==
    /\ Issue /\ Loads
    /\ Save([document EXCEPT !.keyEnv = keyEnv])

(* access.rs Set saves a policy that is valid, whether or not it resolves *)
AccessSet(a) ==
    /\ Issue /\ Loads
    /\ Save([document EXCEPT !.access = a])

BuiltinsAdd(t) ==
    /\ Issue /\ Loads
    /\ Save([document EXCEPT !.access.builtins = IF t \in ToSet(@) THEN @ ELSE Append(@, t)])

BuiltinsRemove(t) ==
    /\ Issue /\ Loads
    /\ t \in ToSet(document.access.builtins)
    /\ Save([document EXCEPT !.access.builtins = SelectSeq(@, LAMBDA b : b # t)])

(* External: a folder or a program of the host goes away (one of them: the  *)
(* bound of the model)                                                      *)
Host == {"shared", "protected", "git"}
Vanish(p) ==
    /\ host = Host /\ p # "protected"
    /\ host' = host \ {p}
    /\ UNCHANGED <<document, form, dotenv, writer, acked, spoilt, commands>>

-----------------------------------------------------------------------------
(* The `.env` file *)

Line(k, v) == [name |-> k, value |-> v]
Comment == Line("#", "")
ValueIn(lines, k) ==
    LET found == {i \in DOMAIN lines : lines[i].name = k}
    IN IF found = {} THEN None ELSE lines[Min(found)].value

(* dotenv_file.rs upsert_env_var: every line of the key is replaced *)
Upserted(lines, k, v) ==
    LET replaced == [i \in DOMAIN lines |-> IF lines[i].name = k THEN Line(k, v) ELSE lines[i]]
    IN IF \E i \in DOMAIN lines : lines[i].name = k THEN replaced ELSE Append(replaced, Line(k, v))

AtRest == [at |-> "idle", key |-> None, value |-> None, lines |-> <<>>]
Writing == {w \in Writers : writer[w].at # "idle"}

(* secret.rs: the profile is loaded, the value is not empty, `.env` is read *)
SecretSet(w, k, v) ==
    /\ Issue /\ Loads
    /\ writer[w] = AtRest /\ v # ""
    /\ writer' = [writer EXCEPT ![w] = [at |-> "read", key |-> k, value |-> v, lines |-> dotenv]]
    /\ spoilt' = (spoilt \/ Writing # {})
    /\ UNCHANGED <<document, host, form, dotenv, acked>>

(* fs::write truncates the file ... *)
TruncateEnv(w) ==
    /\ writer[w].at = "read"
    /\ dotenv' = <<>>
    /\ writer' = [writer EXCEPT ![w].at = "truncated"]
    /\ UNCHANGED <<document, host, form, acked, spoilt, commands>>

(* ... and fills it, and the command answers *)
FillEnv(w) ==
    /\ writer[w].at = "truncated"
    /\ dotenv' = Upserted(writer[w].lines, writer[w].key, writer[w].value)
    /\ acked' = [acked EXCEPT ![writer[w].key] = writer[w].value]
    /\ writer' = [writer EXCEPT ![w] = AtRest]
    /\ UNCHANGED <<document, host, form, spoilt, commands>>

(* The studio drops the request: its child is killed *)
KillWriter(w) ==
    /\ w \in Writing
    /\ spoilt' = (spoilt \/ writer[w].at = "truncated")
    /\ writer' = [writer EXCEPT ![w] = AtRest]
    /\ UNCHANGED <<document, host, form, dotenv, acked, commands>>

-----------------------------------------------------------------------------
Policy(b, g, r, p) == [mode |-> "strict", builtins |-> b, grants |-> g, root |-> r, programs |-> p]
Minimal == Policy(<<"home.read">>, {"in"}, None, <<>>)
Git == [alias |-> "git", env |-> "PATH"]
Policies ==
    {Minimal, [Minimal EXCEPT !.mode = "legacy"], [Policy(<<>>, {}, None, <<>>) EXCEPT !.mode = "legacy"],
     [Minimal EXCEPT !.mode = None],
     Policy(<<"home.read", "home.read">>, {"in"}, None, <<>>), Policy(<<>>, {"../up"}, None, <<>>),
     Policy(<<>>, {"."}, "shared", <<>>), Policy(<<>>, {"in"}, "protected", <<>>),
     Policy(<<"home.run">>, {"in"}, None, <<Git>>),
     Policy(<<"home.run">>, {"in"}, None, <<Git, Git>>),
     Policy(<<"home.run">>, {"in"}, None, <<[Git EXCEPT !.env = "LD_PRELOAD"]>>)}

Document(key, servers, billing) ==
    [key |-> key, keyEnv |-> key = None, mcp |-> servers, tokens |-> 1, cost |-> None,
     billing |-> [currency |-> "usd", server |-> billing], handlers |-> {}, shaped |-> TRUE,
     access |-> Minimal]

(* Documents a person has written and that load *)
Written ==
    LET n == CHOOSE x \in Names \ Reserved : TRUE
        k == CHOOSE x \in Keys : TRUE
        v == CHOOSE x \in Secrets : TRUE
        full == [NoEntries EXCEPT ![k] = v]
    IN {Document(None, {Stdio(n, full, TRUE)}, n),
        Document(None, {Http(n, [x \in Keys |-> IF x = k THEN v ELSE ""], v)}, None),
        Document(v, {Http(n, NoEntries, v)}, None)}

FormsInit ==
    /\ document \in Written
    /\ host = Host
    /\ form = [f \in Forms |-> <<>>]
    /\ LET k == CHOOSE x \in Keys : TRUE
           v == CHOOSE x \in Secrets : TRUE
       IN dotenv = <<Line(k, v), Comment, Line(k, "")>>
    /\ acked = [x \in Keys |-> ValueIn(dotenv, x)]
    /\ writer = [w \in Writers |-> AtRest]
    /\ spoilt = FALSE
    /\ commands = 0

PutBack(f) == form[f] # <<>> /\ \E doc \in FormEdits(form[f][1]), clear \in BOOLEAN : Put(f, doc, clear)
EditMcp ==
    \/ \E n \in Names, command \in BOOLEAN, k \in Keys, v \in Secrets :
          McpAdd(n, command, [NoEntries EXCEPT ![k] = v])
    \/ \E s \in document.mcp : \/ \E flag \in {None, "command", "url"}, t \in 0..2 : McpSet(s, flag, t)
                             \/ McpRemove(s)
EditSections ==
    \/ \E cur \in {"usd", "eur"}, s \in Names \cup {None} : BillingSet(cur, s)
    \/ \E hs \in SUBSET Names, ok \in BOOLEAN : EventSet(hs, ok)
    \/ \E t \in 0..2, cost \in {None, "usd"} : LimitsSet(t, cost)
    \/ \E b \in BOOLEAN : ProviderSet(b)
EditAccess ==
    \/ \E a \in Policies : AccessSet(a)
    \/ \E t \in {"home.read", "home.write", "web.fetch"} : BuiltinsAdd(t) \/ BuiltinsRemove(t)
WriteEnv(w) ==
    \/ \E k \in Keys, v \in Secrets \cup {""} : SecretSet(w, k, v)
    \/ TruncateEnv(w) \/ FillEnv(w) \/ KillWriter(w)

FormsNext ==
    \/ \E f \in Forms : Get(f) \/ PutBack(f)
    \/ EditMcp \/ EditSections \/ EditAccess
    \/ \E p \in host : Vanish(p)
    \/ \E w \in Writers : WriteEnv(w)

FormsSpec == FormsInit /\ [][FormsNext]_formVars

-----------------------------------------------------------------------------
(* Properties *)

(* Whatever was edited since the form was fetched, a marker in an accepted  *)
(* put stands for the value stored now under the same server and key: it is *)
(* never stored itself, never emptied and never another entry's value.  The *)
(* inline key leaves the document by an explicit clear only.                *)
MarkersStand(doc) ==
    \A r \in doc.mcp : HasMarker(r) =>
        \E p \in document.mcp, q \in document'.mcp :
            /\ p.name = r.name /\ q.name = r.name
            /\ \A k \in MarkersOf(r) : q.entries[k] = p.entries[k] /\ q.entries[k] # None
            /\ r.auth = Marker => q.auth = p.auth

PutKeeps ==
    \A f \in Forms : form[f] # <<>> =>
        (document' # document =>
            \A doc \in FormEdits(form[f][1]), clear \in BOOLEAN :
                (Merges(doc) /\ document' = Merged(doc, clear)) => MarkersStand(doc))

(* Only a put changes the secrets of a server that keeps its transport: a   *)
(* command on one section or server leaves them, `mcp set` those of the     *)
(* server it rebuilds included.                                             *)
EditKeeps ==
    \A p \in document.mcp, q \in document'.mcp :
        (p.name = q.name /\ p.kind = q.kind /\ q.entries # p.entries) =>
            \E f \in Forms : PutBack(f)

SecretsKept == [][PutKeeps /\ EditKeeps]_formVars

(* The stored document never holds a marker, never bills through a server   *)
(* that is gone or that hosts event handlers, never prices its limit in     *)
(* another currency, and gains no inline key: no sequence of accepted       *)
(* edits of single sections reaches such a document.                        *)
DocumentSound ==
    /\ \A s \in document.mcp : Marker \notin {s.auth} \cup {s.entries[k] : k \in Keys}
    /\ document.billing.server \in {None} \cup ({s.name : s \in document.mcp} \ document.handlers)
    /\ document.cost \in {None, document.billing.currency}
    /\ document.key # None => document \in Written

(* What an acknowledged `secret set` stored is what the first line of that  *)
(* key says (later lines do not count when the file is loaded), unless two  *)
(* writers overlapped or one was killed while it wrote.                     *)
AckedIsStored ==
    (Writing = {} /\ ~spoilt) => \A k \in Keys : ValueIn(dotenv, k) = acked[k]

(* What the files of a profile keep between commands. *)
FormsSound == DocumentSound /\ AckedIsStored
=============================================================================
