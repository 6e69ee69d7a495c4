----------------------------- MODULE AgentTurn -----------------------------
(***************************************************************************)
(* The wiring of an agent turn: the profile is loaded, refused or accepted *)
(* step by step, the MCP servers are connected one after the other, the    *)
(* tools the model may call are compiled, and the engine runs on them      *)
(* until it ends.  A process of `run` has one turn, one of `acp` or `a2a`  *)
(* many, which share the tracing of the process.  `check` and              *)
(* `config tools effective` foretell from the same files what a turn will  *)
(* be allowed to call.                                                     *)
(*                                                                         *)
(* The loop of the engine is AgentRun, a server's actor McpActor; here a   *)
(* turn runs, calls tools and ends.                                        *)
(***************************************************************************)
EXTENDS Naturals, SequencesExt

CONSTANTS
    Turns,       \* the sessions that run turns in this process
    MaxTurns,    \* bound: turns begun
    MaxEdits     \* bound: edits of the log directory

ASSUME TurnAssumption == MaxTurns \in Nat /\ MaxEdits \in Nat

VARIABLES
    profile,     \* the configuration and the settings on disk
    offers,      \* what each MCP server answers to tools/list
    tracing,     \* the log directory tracing was initialised for
    at,          \* per turn: idle, the step of its start-up, running or over
    cfg,         \* per turn: the profile as it was loaded
    pending,     \* per turn: positions of the servers still to connect
    met,         \* per turn: the servers of its registry
    child,       \* per turn: the live servers and what they are for
    callable,    \* per turn: the effective tools
    refused,     \* per turn: why it did not start
    interrupted, \* per turn: its token is cancelled
    last,        \* per turn: the last call, whose it was and what became of it
    report,      \* what `check` and `config tools effective` said last
    begun, edits

turnVars == <<profile, offers, tracing, at, cfg, pending, met, child, callable, refused,
              interrupted, last, report, begun, edits>>
startUp == <<cfg, pending, met, child, callable, refused, last>>
world == <<profile, offers, report, edits>>

T(s, n) == [server |-> s, name |-> n]
NoTool == T("", "")
BuiltinTools == {T("home", "read"), T("home", "run"), T("profile", "read_skill")}
SkillReaders == {T("profile", "read_skill")}
Servers == {"docs", "price", "home"}
Dotted == "find.all"
ToolsOf(S) == UNION {{T(s, n) : n \in offers[s]} : s \in S}
AllTools == BuiltinTools \cup ToolsOf(Servers) \cup {T("docs", "gone")}
BuiltinServers == {x.server : x \in BuiltinTools}

----------------------------------------------------------------------------
(* What a profile is accepted for *)

\* Unique server names, none of a built-in, and a server for billing only.
McpAllowed(p) ==
    /\ IsInjective(p.mcp)
    /\ Range(p.mcp) \cap BuiltinServers = {}
    /\ p.billing # NoTool =>
          /\ p.billing.server \in Range(p.mcp)
          /\ \A x \in p.handlers : x.server # p.billing.server

\* load_config, as every command does it.
Loads(p) == McpAllowed(p)

\* The safety check that saving and running make, and `check` does not.
Safe(p) == p.key # "inline"

KeyResolves(p) == p.key # "none"
LogDirResolves(p) == p.log # "database"

RegularOfAll(p) == DOMAIN p.mcp

\* The positions of the servers to connect: the server billing calls is not the model's.
Regular(p) == {i \in DOMAIN p.mcp : p.billing = NoTool \/ p.mcp[i] # p.billing.server}

NamesParse(tools) == \A x \in tools : x.name # Dotted

\* EffectiveToolPolicy::compile, and the skill readers a profile with folders gets.
Compiled(p, discovered) ==
    (BuiltinTools \cap p.builtins \cap p.skills) \cup (discovered \cap p.skills)
    \cup (IF p.packages THEN SkillReaders ELSE {})

----------------------------------------------------------------------------
(* The start-up of a turn, in the order of run_agent_prompt *)

Go(t, step) == at' = [at EXCEPT ![t] = step]

\* An error drops what was set up so far, the registry included.
Refuse(t, why) ==
    /\ Go(t, "over")
    /\ refused' = [refused EXCEPT ![t] = why]

Begin(t) ==
    /\ at[t] \in {"idle", "over"} /\ child[t] = {} /\ begun < MaxTurns
    /\ begun' = begun + 1
    /\ Go(t, "load")
    /\ met' = [met EXCEPT ![t] = {}]
    /\ callable' = [callable EXCEPT ![t] = {}]
    /\ refused' = [refused EXCEPT ![t] = "no"]
    /\ interrupted' = [interrupted EXCEPT ![t] = FALSE]
    /\ last' = [last EXCEPT ![t] = [who |-> "none", tool |-> NoTool, how |-> "none"]]
    /\ UNCHANGED <<world, tracing, cfg, pending, child>>

\* load_config, the overrides of the command line, validate again, the safety check.
Load(t) ==
    /\ at[t] = "load"
    /\ cfg' = [cfg EXCEPT ![t] = profile]
    /\ IF ~Loads(profile) THEN Refuse(t, "configuration")
       ELSE IF ~Safe(profile) THEN Refuse(t, "inline key")
       ELSE Go(t, "arguments") /\ UNCHANGED refused
    /\ UNCHANGED <<world, tracing, pending, met, child, callable, interrupted, last, begun>>

\* The history to resume, the prompt and the run id.
Arguments(t) ==
    /\ at[t] = "arguments"
    /\ \/ Go(t, "tracing") /\ UNCHANGED refused
       \/ Refuse(t, "arguments")
    /\ UNCHANGED <<world, tracing, cfg, pending, met, child, callable, interrupted, last, begun>>

\* init_tracing: the subscriber of the process keeps the directory it was given first.
TracingFits(dir) == tracing \in {"none", dir}

Trace(t) ==
    /\ at[t] = "tracing"
    /\ LET dir == cfg[t].log
       IN IF ~LogDirResolves(cfg[t]) THEN Refuse(t, "log directory") /\ UNCHANGED tracing
          ELSE IF ~TracingFits(dir) THEN Refuse(t, "log moved") /\ UNCHANGED tracing
          ELSE /\ tracing' = IF tracing = "none" THEN dir ELSE tracing
               /\ Go(t, "settings") /\ UNCHANGED refused
    /\ UNCHANGED <<world, cfg, pending, met, child, callable, interrupted, last, begun>>

ReadSettings(t) ==
    /\ at[t] = "settings"
    /\ IF profile.settings = "ok" THEN Go(t, "files") /\ UNCHANGED refused ELSE Refuse(t, "settings")
    /\ UNCHANGED <<world, tracing, cfg, pending, met, child, callable, interrupted, last, begun>>

\* The input files, the home directory, the workspace; then the servers to connect.
OpenFiles(t) ==
    /\ at[t] = "files"
    /\ \/ /\ Go(t, "connect")
          /\ pending' = [pending EXCEPT ![t] = Regular(cfg[t])]
          /\ UNCHANGED refused
       \/ Refuse(t, "files") /\ UNCHANGED pending
    /\ UNCHANGED <<world, tracing, cfg, met, child, callable, interrupted, last, begun>>

Starts(t, use, s) == child' = [child EXCEPT ![t] = @ \cup {<<use, s>>}]

\* One server after the other, as they are listed; the first that fails ends the turn.
Connect(t) ==
    /\ at[t] = "connect"
    /\ \E i \in pending[t] :
          /\ \A j \in pending[t] : i <= j
          /\ \/ /\ Starts(t, "model", cfg[t].mcp[i])
                /\ met' = [met EXCEPT ![t] = @ \cup {cfg[t].mcp[i]}]
                /\ pending' = [pending EXCEPT ![t] = @ \ {i}]
                /\ UNCHANGED <<at, refused>>
             \/ Refuse(t, "server") /\ UNCHANGED <<child, met, pending>>
    /\ UNCHANGED <<world, tracing, cfg, callable, interrupted, last, begun>>

\* The names are parsed, the policy compiled, the event handlers bound.
Compile(t) ==
    /\ at[t] = "connect" /\ pending[t] = {}
    /\ LET discovered == ToolsOf(met[t])
       IN IF ~NamesParse(discovered) THEN Refuse(t, "tool name") /\ UNCHANGED callable
          ELSE IF ~(cfg[t].handlers \subseteq discovered)
          THEN Refuse(t, "event target") /\ UNCHANGED callable
          ELSE /\ callable' = [callable EXCEPT ![t] = Compiled(cfg[t], discovered)]
               /\ Go(t, "billing") /\ UNCHANGED refused
    /\ UNCHANGED <<world, tracing, cfg, pending, met, child, interrupted, last, begun>>

\* A billing server that does not answer is done without; a bad catalog is not.
ConnectBilling(t) ==
    /\ at[t] = "billing"
    /\ \/ cfg[t].billing # NoTool /\ Starts(t, "billing", cfg[t].billing.server)
       \/ UNCHANGED child
    /\ IF cfg[t].catalog = "bad" THEN Refuse(t, "catalog") ELSE Go(t, "provider") /\ UNCHANGED refused
    /\ UNCHANGED <<world, tracing, cfg, pending, met, callable, interrupted, last, begun>>

OpenProvider(t) ==
    /\ at[t] = "provider"
    /\ IF KeyResolves(cfg[t]) THEN Go(t, "running") /\ UNCHANGED refused ELSE Refuse(t, "key")
    /\ UNCHANGED <<world, tracing, cfg, pending, met, child, callable, interrupted, last, begun>>

----------------------------------------------------------------------------
(* Calls of a running turn, and its end *)

\* call_discovered_tool of a registry and the request of the server's actor.
Reaches(t, use, S, x) ==
    IF x.server \notin S THEN "unknown server"
    ELSE IF x.name \notin offers[x.server] THEN "unknown tool"
    ELSE IF interrupted[t] THEN "cancelled"
    ELSE IF <<use, x.server>> \in child[t] THEN "served" ELSE "closed"

\* The policy first, then the built-in handlers by server name, then the registry.
Dispatch(t, x) ==
    IF x \notin callable[t] THEN "denied"
    ELSE IF x.server \in BuiltinServers
         THEN IF x \in BuiltinTools THEN "served" ELSE "unknown tool"
    ELSE Reaches(t, "model", met[t], x)

Called(t, who, x, how) ==
    /\ at[t] = "running"
    /\ last' = [last EXCEPT ![t] = [who |-> who, tool |-> x, how |-> how]]
    /\ UNCHANGED <<world, tracing, at, cfg, pending, met, child, callable, refused,
                   interrupted, begun>>

ModelCall(t) == \E x \in AllTools : Called(t, "model", x, Dispatch(t, x))
EventCall(t) == \E x \in cfg[t].handlers : Called(t, "event", x, Reaches(t, "model", met[t], x))

\* McpCostResolver, when its server came up and offers the tool.
BillingCall(t) ==
    LET x == cfg[t].billing
    IN x # NoTool /\ Called(t, "billing", x, Reaches(t, "billing", {x.server}, x))

EngineEnds(t) ==
    /\ at[t] = "running"
    /\ Go(t, "over")
    /\ UNCHANGED <<world, tracing, startUp, interrupted, begun>>

\* The first interrupt cancels the token; the start-up does not look at it.
Interrupt(t) ==
    /\ at[t] \notin {"idle", "over"} /\ ~interrupted[t]
    /\ interrupted' = [interrupted EXCEPT ![t] = TRUE]
    /\ UNCHANGED <<world, tracing, at, startUp, begun>>

ActorStopsOnCancel(t) == interrupted[t]

\* Dropping the registry closes the channel of every actor, as the token does.
ActorStops(t) == at[t] = "over" \/ interrupted[t]

ActorEnds(t) == \E c \in child[t] :
    /\ ActorStops(t)
    /\ child' = [child EXCEPT ![t] = @ \ {c}]
    /\ UNCHANGED <<world, tracing, at, cfg, pending, met, callable, refused, interrupted,
                   last, begun>>

ServerDies(t) == \E c \in child[t] :
    /\ at[t] = "running"
    /\ child' = [child EXCEPT ![t] = @ \ {c}]
    /\ UNCHANGED <<world, tracing, at, cfg, pending, met, callable, refused, interrupted,
                   last, begun>>

----------------------------------------------------------------------------
(* The commands that foretell a turn, and the edit of a configuration *)

NoReport == [there |-> FALSE, passed |-> FALSE, parsed |-> FALSE, of |-> <<>>,
             check |-> {}, effective |-> {}]

PassesByServers(p, up) == KeyResolves(p) /\ up = Range(p.mcp)

\* Every item of the report: `check` goes on after a failed one.
Passes(p, up) ==
    /\ KeyResolves(p) /\ LogDirResolves(p) /\ p.settings = "ok" /\ p.catalog # "bad"
    /\ up = Range(p.mcp)
    /\ p.billing # NoTool => p.billing.name \in offers[p.billing.server]

\* Both ask all servers, the one for billing too; one bad name hides all MCP tools from `check`.
Check == \E up \in SUBSET Range(profile.mcp) :
    /\ at \in [Turns -> {"idle", "over"}] /\ Loads(profile)
    /\ LET found == ToolsOf(up)
           skilled == IF profile.settings = "ok" THEN profile
                      ELSE [profile EXCEPT !.skills = {}, !.packages = FALSE]
       IN report' = [there |-> TRUE, passed |-> Passes(profile, up), parsed |-> NamesParse(found),
                     of |-> profile,
                     check |-> Compiled(skilled, IF NamesParse(found) THEN found ELSE {}),
                     effective |-> Compiled(skilled, found)]
    /\ UNCHANGED <<profile, offers, tracing, at, startUp, interrupted, begun, edits>>

MoveLogs ==
    /\ edits < MaxEdits /\ profile.log # "database"
    /\ edits' = edits + 1
    /\ profile' = [profile EXCEPT !.log = IF @ = "logs" THEN "other logs" ELSE "logs"]
    /\ UNCHANGED <<offers, tracing, at, startUp, interrupted, report, begun>>

----------------------------------------------------------------------------

Wirings ==
    [mcp : {<<"docs">>, <<"docs", "price">>, <<"home">>, <<"docs", "docs">>},
     billing : {NoTool, T("price", "quote"), T("docs", "find")},
     handlers : {{}, {T("docs", "find")}, {T("price", "quote")}, {T("docs", "gone")}},
     skills : {{T("docs", "find"), T("price", "quote"), T("home", "read"), T("home", "run"),
                T("home", "find")}},
     builtins : {{T("home", "read")}, {T("home", "read"), T("home", "run")}},
     packages : BOOLEAN,
     key : {"env", "inline", "none"}, log : {"logs", "database"},
     settings : {"ok", "bad"}, catalog : {"ok", "bad"}]

\* At most one thing of a profile is unsound, and then nothing else varies that matters less.
Profiles == {p \in Wirings :
    LET unsound == {f \in {"key", "log", "settings", "catalog"} : p[f] \notin {"env", "logs", "ok"}}
    IN \/ unsound = {} /\ (p.packages <=> T("home", "run") \in p.builtins)
       \/ Cardinality(unsound) = 1 /\ p.packages /\ T("home", "run") \in p.builtins}

TurnInit ==
    /\ profile \in Profiles
    /\ offers \in {[s \in Servers |-> IF s = "price" THEN {"quote"} \cup more ELSE {"find"}] :
                       more \in {{}, {Dotted}}}
    /\ tracing = "none"
    /\ at = [t \in Turns |-> "idle"]
    /\ cfg = [t \in Turns |-> profile]
    /\ pending = [t \in Turns |-> {}]
    /\ met = [t \in Turns |-> {}]
    /\ child = [t \in Turns |-> {}]
    /\ callable = [t \in Turns |-> {}]
    /\ refused = [t \in Turns |-> "no"]
    /\ interrupted = [t \in Turns |-> FALSE]
    /\ last = [t \in Turns |-> [who |-> "none", tool |-> NoTool, how |-> "none"]]
    /\ report = NoReport
    /\ begun = 0 /\ edits = 0

Wires(t) ==
    \/ Load(t) \/ Arguments(t) \/ Trace(t) \/ ReadSettings(t) \/ OpenFiles(t)
    \/ Connect(t) \/ Compile(t) \/ ConnectBilling(t) \/ OpenProvider(t)

Calls(t) == ModelCall(t) \/ EventCall(t) \/ BillingCall(t)

TurnNext ==
    \/ \E t \in Turns :
          Begin(t) \/ Wires(t) \/ Calls(t) \/ EngineEnds(t) \/ Interrupt(t)
          \/ ActorEnds(t) \/ ServerDies(t)
    \/ Check \/ MoveLogs

\* Every step of the start-up has a deadline or fails, the engine ends (Termination of
\* AgentRun), and the actors are tasks of the runtime.
TurnFairness == \A t \in Turns :
    WF_turnVars(Wires(t)) /\ WF_turnVars(EngineEnds(t)) /\ WF_turnVars(ActorEnds(t))

TurnSpec == TurnInit /\ [][TurnNext]_turnVars /\ TurnFairness

----------------------------------------------------------------------------

\* The model can call what it is told of, and nothing else: an effective tool is never
\* unknown where it is dispatched to, and no call of the model or of a handler reaches
\* the server that bills.
ToolsAreServed == \A t \in Turns :
    /\ at[t] = "running" =>
          \A x \in callable[t] : Dispatch(t, x) \in {"served", "closed", "cancelled"}
    /\ last[t].how = "served" /\ last[t].who # "billing" =>
          cfg[t].billing = NoTool \/ last[t].tool.server # cfg[t].billing.server

\* What `check` lists after it passed is what a turn of the same profile may call, the
\* tools of the billing server aside, and `config tools effective` says the same; such a
\* turn is not refused for what `check` looked at.
CheckForetells == \A t \in Turns :
    report.passed /\ at[t] \notin {"idle", "load"} /\ cfg[t] = report.of =>
        /\ refused[t] \notin {"configuration", "log directory", "settings", "catalog", "key"}
        /\ at[t] = "running" =>
              LET billed(x) == cfg[t].billing # NoTool /\ x.server = cfg[t].billing.server
              IN /\ {x \in report.effective : ~billed(x)} = callable[t]
                 /\ report.parsed => report.check = report.effective

\* The turns of a process write their traces where their configuration says.
OneTraceFile == \A t \in Turns :
    at[t] \in {"settings", "files", "connect", "billing", "provider", "running"}
        => tracing = cfg[t].log

\* What the wiring keeps in every turn of a process.
TurnSound == ToolsAreServed /\ OneTraceFile

\* A turn that begins ends, whatever step refuses it or interrupts it, and leaves no
\* server process behind.
TurnsLeaveNothing == \A t \in Turns :
    at[t] = "load" ~> at[t] = "over" /\ child[t] = {}
=============================================================================
