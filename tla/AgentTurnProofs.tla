-------------------------- MODULE AgentTurnProofs --------------------------
(***************************************************************************)
(* Proofs about the wiring of the turns of a process.                      *)
(*                                                                         *)
(* The invariant says what each turn has settled at each step of its       *)
(* start-up (Wired): which profile it was accepted for, which servers it   *)
(* has met, what it may call; what a refusal says of the profile           *)
(* (RefusalShape); and what a report that passed says of the profile it    *)
(* looked at (ReportShape).  The two of them never meet in a step: that    *)
(* the report foretells the turn follows from what each says of the same   *)
(* profile.                                                                *)
(***************************************************************************)
EXTENDS AgentTurn, TLAPS

Names == {"", "docs", "price", "home", "profile", "find", "quote", "gone", "read", "run",
          "read_skill", Dotted}
Tools == [server : Names, name : Names]
LogDirs == {"logs", "other logs", "database"}
Stages == {"idle", "load", "arguments", "tracing", "settings", "files", "connect", "billing",
           "provider", "running", "over"}
Reasons == {"no", "configuration", "inline key", "arguments", "log directory", "log moved",
            "settings", "files", "server", "tool name", "event target", "catalog", "key"}
LastCalls ==
    [who : {"none", "model", "event", "billing"}, tool : Tools,
     how : {"none", "denied", "unknown server", "unknown tool", "cancelled", "closed", "served"}]

\* What the proofs need of a profile: any servers, any tools, any answers of the disk.
Layouts ==
    [mcp : Seq(Names), billing : Tools, handlers : SUBSET Tools, skills : SUBSET Tools,
     builtins : SUBSET Tools, packages : BOOLEAN, key : {"env", "inline", "none"}, log : LogDirs,
     settings : {"ok", "bad"}, catalog : {"ok", "bad"}]

TurnTypeOK ==
    /\ profile \in Layouts
    /\ offers \in [Servers -> SUBSET Names]
    /\ tracing \in LogDirs \cup {"none"}
    /\ at \in [Turns -> Stages]
    /\ cfg \in [Turns -> Layouts]
    /\ pending \in [Turns -> SUBSET Nat]
    /\ met \in [Turns -> SUBSET Names]
    /\ child \in [Turns -> SUBSET ({"model", "billing"} \X Names)]
    /\ callable \in [Turns -> SUBSET Tools]
    /\ refused \in [Turns -> Reasons]
    /\ interrupted \in [Turns -> BOOLEAN]
    /\ last \in [Turns -> LastCalls]
    /\ begun \in Nat /\ edits \in Nat

\* The servers at these positions of a profile.
ServersAt(p, I) == {p.mcp[i] : i \in I}

Before == {"load", "arguments", "tracing", "settings", "files"}
Wiring == {"billing", "provider", "running"}

\* What turn t has settled at the step it is at.
Wired(t) ==
    /\ at[t] \notin {"idle", "load", "over"} => Loads(cfg[t])
    /\ at[t] \in Before => met[t] = {}
    /\ at[t] = "connect" => /\ pending[t] \subseteq Regular(cfg[t])
                            /\ met[t] = ServersAt(cfg[t], Regular(cfg[t]) \ pending[t])
    /\ at[t] \in Wiring => /\ met[t] = ServersAt(cfg[t], Regular(cfg[t]))
                           /\ callable[t] = Compiled(cfg[t], ToolsOf(met[t]))

\* A refusal for what a command can look at beforehand is true of the profile.
RefusalShape(t) ==
    /\ cfg[t].settings = profile.settings
    /\ at[t] \in {"idle", "load"} => refused[t] = "no"
    /\ refused[t] = "configuration" => ~Loads(cfg[t])
    /\ refused[t] = "log directory" => ~LogDirResolves(cfg[t])
    /\ refused[t] = "settings" => cfg[t].settings # "ok"
    /\ refused[t] = "catalog" => cfg[t].catalog = "bad"
    /\ refused[t] = "key" => ~KeyResolves(cfg[t])

\* No call of the model or of a handler has reached the server that bills.
Unbilled(t) ==
    /\ at[t] \in {"idle"} \cup Before => last[t].how = "none"
    /\ last[t].how = "served" /\ last[t].who # "billing" =>
          cfg[t].billing = NoTool \/ last[t].tool.server # cfg[t].billing.server

\* A report that passed is true of the profile it is about.
ReportShape ==
    report.passed =>
        LET p == report.of
        IN /\ Loads(p) /\ KeyResolves(p) /\ LogDirResolves(p)
           /\ p.settings = "ok" /\ p.catalog # "bad"
           /\ report.effective = Compiled(p, ToolsOf(Range(p.mcp)))
           /\ report.parsed => report.check = report.effective

TurnShape(t) == Wired(t) /\ RefusalShape(t) /\ Unbilled(t)

TurnIndInv ==
    TurnTypeOK /\ ReportShape /\ OneTraceFile /\ \A t \in Turns : TurnShape(t)

-----------------------------------------------------------------------------
(* Which tools a turn may call                                             *)

\* The servers that are not for billing are all servers but that one.
LEMMA RegularServers ==
    ASSUME NEW p \in Layouts
    PROVE  /\ Regular(p) \subseteq Nat
           /\ ServersAt(p, Regular(p))
                = {s \in Range(p.mcp) : p.billing = NoTool \/ s # p.billing.server}
<1>1. p.mcp \in Seq(Names)
  BY DEF Layouts
<1> QED
  BY <1>1 DEF Regular, ServersAt, Range

\* A tool of a set of servers has one of them and a name it offers.
LEMMA ToolOfServer ==
    ASSUME NEW S, NEW x
    PROVE  x \in ToolsOf(S) <=> \E s \in S : \E n \in offers[s] : x = T(s, n)
BY DEF ToolsOf

\* A built-in tool is of a built-in server.
LEMMA BuiltinOf == \A x \in BuiltinTools \cup SkillReaders : x.server \in BuiltinServers /\ x \in BuiltinTools
BY DEF BuiltinTools, SkillReaders, BuiltinServers, T

\* What a turn may call is what the commands list, the tools of billing's server aside.
LEMMA BillingAside ==
    ASSUME NEW p \in Layouts, Loads(p)
    PROVE  {x \in Compiled(p, ToolsOf(Range(p.mcp))) :
                ~(p.billing # NoTool /\ x.server = p.billing.server)}
             = Compiled(p, ToolsOf(ServersAt(p, Regular(p))))
<1> DEFINE billed(x) == p.billing # NoTool /\ x.server = p.billing.server
           R == ServersAt(p, Regular(p))
<1>1. R = {s \in Range(p.mcp) : p.billing = NoTool \/ s # p.billing.server}
  BY RegularServers
<1>2. \A x \in BuiltinTools \cup SkillReaders : ~billed(x)
  BY BuiltinOf DEF Loads, McpAllowed
<1>3. \A s, n : T(s, n).server = s
  BY DEF T
<1>4. \A x : x \in ToolsOf(R) <=> x \in ToolsOf(Range(p.mcp)) /\ ~billed(x)
  BY <1>1, <1>3, ToolOfServer
<1> HIDE DEF R, billed
<1>5. {x \in Compiled(p, ToolsOf(Range(p.mcp))) : ~billed(x)} = Compiled(p, ToolsOf(R))
  BY <1>2, <1>4 DEF Compiled
<1> QED
  BY <1>5 DEF R, billed

\* A running turn serves what it may call: from a built-in handler, or from a server it
\* has met and that offers the tool, which is not the one that bills.
LEMMA Callable ==
    ASSUME TurnTypeOK, NEW t \in Turns, Wired(t), at[t] = "running", NEW x \in callable[t]
    PROVE  /\ x \in BuiltinTools \/ (x.server \in met[t] /\ x.name \in offers[x.server])
           /\ x \in BuiltinTools <=> x.server \in BuiltinServers
           /\ cfg[t].billing = NoTool \/ x.server # cfg[t].billing.server
<1>1. cfg[t] \in Layouts /\ Loads(cfg[t])
  BY DEF TurnTypeOK, Wired
<1>2. /\ callable[t] = Compiled(cfg[t], ToolsOf(met[t]))
      /\ met[t] = {s \in Range(cfg[t].mcp) :
                      cfg[t].billing = NoTool \/ s # cfg[t].billing.server}
  BY <1>1, RegularServers DEF Wired, Wiring
<1>3. Range(cfg[t].mcp) \cap BuiltinServers = {}
      /\ (cfg[t].billing # NoTool => cfg[t].billing.server \in Range(cfg[t].mcp))
  BY <1>1 DEF Loads, McpAllowed
<1>4. CASE x \in BuiltinTools
  BY <1>3, <1>4, BuiltinOf
<1>5. CASE x \notin BuiltinTools
  <2>1. x \in ToolsOf(met[t])
    BY <1>2, <1>5, BuiltinOf DEF Compiled
  <2>2. x.server \in met[t] /\ x.name \in offers[x.server]
    BY <2>1, ToolOfServer DEF T
  <2> QED
    BY <1>2, <1>3, <1>5, <2>2
<1> QED
  BY <1>4, <1>5

-----------------------------------------------------------------------------
(* TurnIndInv is inductive                                                 *)

\* What the shape of a turn is about.
Own(t) == <<at[t], cfg[t], pending[t], met[t], callable[t], refused[t], last[t]>>

\* A step of one turn that keeps its types and its shape keeps the invariant, the others
\* being as they were.
LEMMA TurnStep ==
    ASSUME TurnIndInv, NEW t \in Turns, TurnTypeOK', TurnShape(t)',
           UNCHANGED <<profile, offers, report>>,
           \A u \in Turns \ {t} : UNCHANGED Own(u),
           OneTraceFile'
    PROVE  TurnIndInv'
<1>1. ReportShape'
  BY DEF TurnIndInv, ReportShape, Compiled, ToolsOf
<1>2. ASSUME NEW u \in Turns \ {t} PROVE TurnShape(u)'
  <2>1. TurnShape(u) /\ UNCHANGED Own(u)
    BY <1>2 DEF TurnIndInv
  <2>2. Wired(u)'
    BY <2>1 DEF TurnShape, Wired, Own, Compiled, ToolsOf, Regular, ServersAt, Loads, McpAllowed
  <2>3. RefusalShape(u)' /\ Unbilled(u)'
    BY <2>1 DEF TurnShape, RefusalShape, Unbilled, Own
  <2> QED
    BY <2>2, <2>3 DEF TurnShape
<1> QED
  BY <1>1, <1>2 DEF TurnIndInv

\* A turn that is not past init_tracing, or stays past it with the same profile.
LEMMA TracesKept ==
    ASSUME TurnIndInv, NEW t \in Turns, UNCHANGED tracing,
           \A u \in Turns \ {t} : UNCHANGED Own(u),
           \/ at'[t] \in {"idle", "load", "arguments", "tracing", "over"}
           \/ at[t] \notin {"idle", "load", "arguments", "tracing", "over"} /\ cfg'[t] = cfg[t]
    PROVE  OneTraceFile'
<1>1. at[t] \in Stages
  BY DEF TurnIndInv, TurnTypeOK
<1> QED
  BY <1>1 DEF TurnIndInv, OneTraceFile, Own, Stages

\* A turn that goes on or is refused keeps its types.
LEMMA GoesOrRefused ==
    ASSUME TurnTypeOK, NEW t \in Turns, NEW step \in Stages, NEW why \in Reasons,
           Refuse(t, why) \/ (Go(t, step) /\ refused' \in [Turns -> Reasons])
    PROVE  at' \in [Turns -> Stages] /\ refused' \in [Turns -> Reasons]
<1>1. "over" \in Stages
  BY DEF Stages
<1> QED
  BY <1>1 DEF TurnTypeOK, Refuse, Go

\* A turn begins, unless the last one of its session has left a server behind.
LEMMA BeginStep == ASSUME TurnIndInv, NEW t \in Turns, Begin(t) PROVE TurnIndInv'
<1>1. TurnTypeOK /\ TurnShape(t)
  BY DEF TurnIndInv
<1>2. /\ at'[t] = "load" /\ met'[t] = {} /\ callable'[t] = {} /\ refused'[t] = "no"
      /\ last'[t].how = "none" /\ cfg'[t] = cfg[t] /\ UNCHANGED <<world, tracing>>
      /\ \A u \in Turns \ {t} : UNCHANGED Own(u)
  BY <1>1 DEF Begin, Go, TurnTypeOK, Own, world
<1>3. TurnTypeOK'
  <2>1. at' \in [Turns -> Stages]
    BY <1>1 DEF Begin, Go, TurnTypeOK, Stages
  <2>2. NoTool \in Tools
    BY DEF NoTool, T, Tools, Names
  <2>3. last' \in [Turns -> LastCalls]
    BY <1>1, <2>2 DEF Begin, TurnTypeOK, LastCalls
  <2>4. met' \in [Turns -> SUBSET Names] /\ callable' \in [Turns -> SUBSET Tools]
    BY <1>1 DEF Begin, TurnTypeOK
  <2>6. refused' \in [Turns -> Reasons]
    BY <1>1 DEF Begin, TurnTypeOK, Reasons
  <2>7. begun' \in Nat
    BY <1>1 DEF Begin, TurnTypeOK
  <2>5. interrupted' \in [Turns -> BOOLEAN]
    BY <1>1, Zenon DEF Begin, TurnTypeOK
  <2> QED
    BY <1>1, <2>1, <2>3, <2>4, <2>5, <2>6, <2>7 DEF Begin, TurnTypeOK, world
<1>4. TurnShape(t)'
  BY <1>1, <1>2 DEF TurnShape, Wired, RefusalShape, Unbilled, Before, Wiring, world
<1> QED
  BY <1>2, <1>3, <1>4, TurnStep, TracesKept DEF world

\* The profile is read, accepted or refused.
LEMMA LoadStep == ASSUME TurnIndInv, NEW t \in Turns, Load(t) PROVE TurnIndInv'
<1>1. TurnTypeOK /\ TurnShape(t) /\ at[t] = "load"
  BY DEF TurnIndInv, Load
<1>2. /\ cfg'[t] = profile /\ met'[t] = {} /\ last'[t].how = "none"
      /\ UNCHANGED <<profile, offers, report, tracing>>
      /\ \A u \in Turns \ {t} : UNCHANGED Own(u)
      /\ \/ at'[t] = "over" /\ refused'[t] = "configuration" /\ ~Loads(profile)
         \/ at'[t] = "over" /\ refused'[t] = "inline key"
         \/ at'[t] = "arguments" /\ refused'[t] = "no" /\ Loads(profile)
  BY <1>1 DEF Load, Refuse, Go, TurnTypeOK, TurnShape, Wired, RefusalShape, Unbilled, Own, world,
     Before
<1>3. TurnTypeOK'
  <2>1. at' \in [Turns -> Stages] /\ refused' \in [Turns -> Reasons]
    <3>1. \E why \in Reasons : Refuse(t, why) \/ (Go(t, "arguments") /\ UNCHANGED refused)
      BY DEF Load, Reasons
    <3>2. "arguments" \in Stages
      BY DEF Stages
    <3> QED
      BY <1>1, <3>1, <3>2, GoesOrRefused DEF TurnTypeOK
  <2>2. cfg' \in [Turns -> Layouts]
    BY <1>1 DEF Load, TurnTypeOK
  <2> QED
    BY <1>1, <2>1, <2>2 DEF Load, TurnTypeOK, world
<1>4. TurnShape(t)'
  BY <1>1, <1>2 DEF TurnShape, Wired, RefusalShape, Unbilled, Before, Wiring, Loads, McpAllowed
<1> QED
  BY <1>2, <1>3, <1>4, TurnStep, TracesKept

\* The steps between the profile and the servers that only go on or refuse.
LEMMA PlainStep ==
    ASSUME TurnIndInv, NEW t \in Turns,
           Arguments(t) \/ ReadSettings(t) \/ ConnectBilling(t) \/ OpenProvider(t)
    PROVE  TurnIndInv'
<1>1. TurnTypeOK /\ TurnShape(t)
  BY DEF TurnIndInv
<1>2. /\ UNCHANGED <<profile, offers, report, tracing>>
      /\ \A u \in Turns \ {t} : UNCHANGED Own(u)
      /\ cfg'[t] = cfg[t] /\ met'[t] = met[t] /\ callable'[t] = callable[t] /\ last'[t] = last[t]
      /\ at[t] \in {"arguments", "settings", "billing", "provider"}
  BY <1>1 DEF Arguments, ReadSettings, ConnectBilling, OpenProvider, Starts, Refuse, Go,
     TurnTypeOK, Own, world
<1>3. \/ at'[t] = "over" /\ refused'[t] = "arguments"
      \/ at'[t] = "over" /\ refused'[t] = "settings" /\ profile.settings # "ok"
      \/ at'[t] = "over" /\ refused'[t] = "catalog" /\ cfg[t].catalog = "bad"
      \/ at'[t] = "over" /\ refused'[t] = "key" /\ ~KeyResolves(cfg[t])
      \/ /\ refused'[t] = refused[t]
         /\ <<at[t], at'[t]>> \in {<<"arguments", "tracing">>, <<"settings", "files">>,
                                   <<"billing", "provider">>, <<"provider", "running">>}
  BY <1>1 DEF Arguments, ReadSettings, ConnectBilling, OpenProvider, Refuse, Go, TurnTypeOK
<1>4. TurnTypeOK'
  <2>1. child' \in [Turns -> SUBSET ({"model", "billing"} \X Names)]
    <3>1. cfg[t].billing.server \in Names
      BY <1>1 DEF TurnTypeOK, Layouts, Tools
    <3>2. UNCHANGED child \/ Starts(t, "billing", cfg[t].billing.server)
      BY DEF Arguments, ReadSettings, ConnectBilling, OpenProvider
    <3> QED
      BY <1>1, <3>1, <3>2 DEF TurnTypeOK, Starts
  <2>2. at' \in [Turns -> Stages] /\ refused' \in [Turns -> Reasons]
    <3>1. \E why \in Reasons, step \in {"tracing", "files", "provider", "running"} :
              Refuse(t, why) \/ (Go(t, step) /\ UNCHANGED refused)
      BY DEF Arguments, ReadSettings, ConnectBilling, OpenProvider, Reasons
    <3>2. {"tracing", "files", "provider", "running"} \subseteq Stages
      BY DEF Stages
    <3> QED
      BY <1>1, <3>1, <3>2, GoesOrRefused DEF TurnTypeOK
  <2> QED
    BY <1>1, <2>1, <2>2 DEF Arguments, ReadSettings, ConnectBilling, OpenProvider, TurnTypeOK, world
<1>5. TurnShape(t)'
  <2>1. Wired(t)'
    BY <1>1, <1>2, <1>3 DEF TurnShape, Wired, Before, Wiring, Loads, McpAllowed, Regular,
       ServersAt, Compiled, ToolsOf
  <2>2. RefusalShape(t)'
    BY <1>1, <1>2, <1>3, ZenonT(30) DEF TurnShape, RefusalShape, KeyResolves, LogDirResolves, Loads,
       McpAllowed
  <2>3. Unbilled(t)'
    BY <1>1, <1>2, <1>3 DEF TurnShape, Unbilled, Before
  <2> QED
    BY <2>1, <2>2, <2>3 DEF TurnShape
<1> QED
  BY <1>2, <1>3, <1>4, <1>5, TurnStep, TracesKept
\* init_tracing: the first turn that comes so far fixes the directory of the process.
LEMMA TraceStep == ASSUME TurnIndInv, NEW t \in Turns, Trace(t) PROVE TurnIndInv'
<1>1. TurnTypeOK /\ TurnShape(t) /\ at[t] = "tracing" /\ cfg[t].log \in LogDirs
  BY DEF TurnIndInv, Trace, TurnTypeOK, Layouts
<1>2. /\ UNCHANGED <<profile, offers, report>>
      /\ \A u \in Turns \ {t} : UNCHANGED Own(u)
      /\ cfg'[t] = cfg[t] /\ met'[t] = met[t] /\ callable'[t] = callable[t] /\ last'[t] = last[t]
      /\ \/ at'[t] = "over" /\ refused'[t] = "log directory" /\ ~LogDirResolves(cfg[t])
            /\ UNCHANGED tracing
         \/ at'[t] = "over" /\ refused'[t] = "log moved" /\ UNCHANGED tracing
         \/ /\ at'[t] = "settings" /\ refused'[t] = refused[t]
            /\ tracing \in {"none", cfg[t].log} /\ tracing' = cfg[t].log
  BY <1>1 DEF Trace, TracingFits, Refuse, Go, TurnTypeOK, Own, world
<1>3. TurnTypeOK'
  <2>1. at' \in [Turns -> Stages] /\ refused' \in [Turns -> Reasons]
    <3>1. \E why \in Reasons : Refuse(t, why) \/ (Go(t, "settings") /\ UNCHANGED refused)
      BY DEF Trace, Reasons
    <3>2. "settings" \in Stages
      BY DEF Stages
    <3> QED
      BY <1>1, <3>1, <3>2, GoesOrRefused DEF TurnTypeOK
  <2>2. tracing' \in LogDirs \cup {"none"}
    BY <1>1, <1>2 DEF TurnTypeOK
  <2> QED
    BY <1>1, <2>1, <2>2 DEF Trace, TurnTypeOK, world
<1>4. TurnShape(t)'
  <2>1. Wired(t)'
    BY <1>1, <1>2 DEF TurnShape, Wired, Before, Wiring, Loads, McpAllowed
  <2>2. RefusalShape(t)' /\ Unbilled(t)'
    BY <1>1, <1>2 DEF TurnShape, RefusalShape, Unbilled, Before, KeyResolves, LogDirResolves,
       Loads, McpAllowed
  <2> QED
    BY <2>1, <2>2 DEF TurnShape
<1>5. OneTraceFile'
  <2>1. CASE UNCHANGED tracing
    BY <1>1, <1>2, <2>1 DEF TurnIndInv, OneTraceFile, Own
  <2>2. CASE tracing = "none" /\ tracing' = cfg[t].log /\ at'[t] = "settings"
    <3>1. \A u \in Turns : cfg[u].log # "none"
      BY <1>1 DEF TurnTypeOK, Layouts, LogDirs
    <3> QED
      BY <1>1, <1>2, <2>2, <3>1 DEF TurnIndInv, OneTraceFile, Own
  <2> QED
    BY <1>2, <2>1, <2>2
<1> QED
  BY <1>2, <1>3, <1>4, <1>5, TurnStep

\* The files are there: the servers to connect are those that are not for billing.
LEMMA OpenFilesStep == ASSUME TurnIndInv, NEW t \in Turns, OpenFiles(t) PROVE TurnIndInv'
<1>1. TurnTypeOK /\ TurnShape(t) /\ at[t] = "files" /\ cfg[t] \in Layouts
  BY DEF TurnIndInv, OpenFiles, TurnTypeOK
<1>2. /\ UNCHANGED <<profile, offers, report, tracing>>
      /\ \A u \in Turns \ {t} : UNCHANGED Own(u)
      /\ cfg'[t] = cfg[t] /\ met'[t] = {} /\ callable'[t] = callable[t] /\ last'[t] = last[t]
      /\ \/ at'[t] = "connect" /\ pending'[t] = Regular(cfg[t]) /\ refused'[t] = refused[t]
         \/ at'[t] = "over" /\ refused'[t] = "files"
  BY <1>1 DEF OpenFiles, Refuse, Go, TurnTypeOK, TurnShape, Wired, Before, Own, world
<1>3. TurnTypeOK'
  <2>1. at' \in [Turns -> Stages] /\ refused' \in [Turns -> Reasons]
    <3>1. \E why \in Reasons : Refuse(t, why) \/ (Go(t, "connect") /\ UNCHANGED refused)
      BY DEF OpenFiles, Reasons
    <3>2. "connect" \in Stages
      BY DEF Stages
    <3> QED
      BY <1>1, <3>1, <3>2, GoesOrRefused DEF TurnTypeOK
  <2>2. pending' \in [Turns -> SUBSET Nat]
    BY <1>1, RegularServers DEF OpenFiles, TurnTypeOK
  <2> QED
    BY <1>1, <2>1, <2>2 DEF OpenFiles, TurnTypeOK, world
<1>4. TurnShape(t)'
  <2>1. Wired(t)'
    BY <1>1, <1>2 DEF TurnShape, Wired, Before, Wiring, Loads, McpAllowed, ServersAt, Regular
  <2>2. RefusalShape(t)' /\ Unbilled(t)'
    BY <1>1, <1>2 DEF TurnShape, RefusalShape, Unbilled, Before, KeyResolves, LogDirResolves,
       Loads, McpAllowed
  <2> QED
    BY <2>1, <2>2 DEF TurnShape
<1> QED
  BY <1>1, <1>2, <1>3, <1>4, TurnStep, TracesKept

\* A server is connected and met, or ends the turn.
LEMMA ConnectStep == ASSUME TurnIndInv, NEW t \in Turns, Connect(t) PROVE TurnIndInv'
<1>1. TurnTypeOK /\ TurnShape(t) /\ at[t] = "connect" /\ cfg[t] \in Layouts
  BY DEF TurnIndInv, Connect, TurnTypeOK
<1>2. PICK i \in pending[t] :
        \/ /\ Starts(t, "model", cfg[t].mcp[i])
           /\ met' = [met EXCEPT ![t] = @ \cup {cfg[t].mcp[i]}]
           /\ pending' = [pending EXCEPT ![t] = @ \ {i}]
           /\ UNCHANGED <<at, refused>>
        \/ Refuse(t, "server") /\ UNCHANGED <<child, met, pending>>
  BY DEF Connect
<1>3. i \in Regular(cfg[t]) /\ i \in DOMAIN cfg[t].mcp /\ cfg[t].mcp[i] \in Names
  BY <1>1, <1>2 DEF TurnShape, Wired, Regular, Layouts
<1>4. /\ UNCHANGED <<profile, offers, report, tracing, cfg, callable, last>>
      /\ \A u \in Turns \ {t} : UNCHANGED Own(u)
      /\ \/ /\ at'[t] = "connect" /\ refused'[t] = refused[t]
            /\ pending'[t] = pending[t] \ {i} /\ met'[t] = met[t] \cup {cfg[t].mcp[i]}
         \/ at'[t] = "over" /\ refused'[t] = "server"
  BY <1>1, <1>2 DEF Connect, Refuse, Go, TurnTypeOK, Own, world
<1>5. TurnTypeOK'
  <2>1. at' \in [Turns -> Stages] /\ refused' \in [Turns -> Reasons]
    <3>1. CASE UNCHANGED <<at, refused>>
      BY <1>1, <3>1 DEF TurnTypeOK
    <3>2. CASE Refuse(t, "server")
      <4>1. "server" \in Reasons /\ "over" \in Stages
        BY DEF Reasons, Stages
      <4> QED
        BY <1>1, <3>2, <4>1, GoesOrRefused
    <3> QED
      BY <1>2, <3>1, <3>2
  <2>2. /\ pending' \in [Turns -> SUBSET Nat] /\ met' \in [Turns -> SUBSET Names]
    BY <1>1, <1>2, <1>3 DEF TurnTypeOK
  <2>3. child' \in [Turns -> SUBSET ({"model", "billing"} \X Names)]
    BY <1>1, <1>2, <1>3 DEF TurnTypeOK, Starts
  <2> QED
    BY <1>1, <2>1, <2>2, <2>3 DEF Connect, TurnTypeOK, world
<1>6. TurnShape(t)'
  <2>1. CASE at'[t] = "over"
    BY <1>1, <1>4, <2>1 DEF TurnShape, Wired, RefusalShape, Unbilled, Before, Wiring
  <2>2. CASE at'[t] = "connect"
    <3>1. /\ refused'[t] = refused[t] /\ pending'[t] = pending[t] \ {i}
          /\ met'[t] = met[t] \cup {cfg[t].mcp[i]}
      BY <1>4, <2>2
    <3>2. Wired(t)'
      BY <1>1, <1>2, <1>3, <1>4, <2>2, <3>1 DEF TurnShape, Wired, Before, Wiring, ServersAt, Regular
    <3>3. RefusalShape(t)' /\ Unbilled(t)'
      BY <1>1, <1>4, <2>2, <3>1 DEF TurnShape, RefusalShape, Unbilled, Before
    <3> QED
      BY <3>2, <3>3 DEF TurnShape
  <2> QED
    BY <1>4, <2>1, <2>2
<1> QED
  BY <1>1, <1>4, <1>5, <1>6, TurnStep, TracesKept

\* The policy is compiled from what the servers answered.
LEMMA CompileStep == ASSUME TurnIndInv, NEW t \in Turns, Compile(t) PROVE TurnIndInv'
<1>1. /\ TurnTypeOK /\ TurnShape(t) /\ at[t] = "connect" /\ pending[t] = {}
      /\ cfg[t] \in Layouts
  BY DEF TurnIndInv, Compile, TurnTypeOK
<1>2. /\ UNCHANGED <<profile, offers, report, tracing>>
      /\ \A u \in Turns \ {t} : UNCHANGED Own(u)
      /\ cfg'[t] = cfg[t] /\ met'[t] = met[t] /\ last'[t] = last[t]
      /\ \/ at'[t] = "over" /\ refused'[t] \in {"tool name", "event target"}
         \/ /\ at'[t] = "billing" /\ refused'[t] = refused[t]
            /\ callable'[t] = Compiled(cfg[t], ToolsOf(met[t]))
  BY <1>1 DEF Compile, Refuse, Go, TurnTypeOK, Own, world
<1>3. TurnTypeOK'
  <2>1. at' \in [Turns -> Stages] /\ refused' \in [Turns -> Reasons]
    <3>1. \E why \in Reasons : Refuse(t, why) \/ (Go(t, "billing") /\ UNCHANGED refused)
      BY DEF Compile, Reasons
    <3>2. "billing" \in Stages
      BY DEF Stages
    <3> QED
      BY <1>1, <3>1, <3>2, GoesOrRefused DEF TurnTypeOK
  <2>2. callable' \in [Turns -> SUBSET Tools]
    <3>1. Compiled(cfg[t], ToolsOf(met[t])) \subseteq Tools
      <4>1. cfg[t].skills \subseteq Tools
        BY <1>1 DEF Layouts
      <4>2. SkillReaders \subseteq Tools
        BY DEF SkillReaders, T, Tools, Names
      <4> QED
        BY <4>1, <4>2 DEF Compiled
    <3> QED
      BY <1>1, <3>1 DEF Compile, TurnTypeOK
  <2> QED
    BY <1>1, <2>1, <2>2 DEF Compile, TurnTypeOK, world
<1>4. TurnShape(t)'
  <2>1. Wired(t)'
    <3>1. Regular(cfg[t]) \ pending[t] = Regular(cfg[t])
      BY <1>1
    <3>2. ToolsOf(met[t])' = ToolsOf(met[t])
      <4>1. offers' = offers /\ met'[t] = met[t]
        BY <1>2
      <4> QED
        BY <4>1 DEF ToolsOf
    <3> QED
      BY <1>1, <1>2, <3>1, <3>2 DEF TurnShape, Wired, Before, Wiring, Loads, McpAllowed
  <2>2. RefusalShape(t)' /\ Unbilled(t)'
    BY <1>1, <1>2 DEF TurnShape, RefusalShape, Unbilled, Before
  <2> QED
    BY <2>1, <2>2 DEF TurnShape
<1> QED
  BY <1>1, <1>2, <1>3, <1>4, TurnStep, TracesKept

\* A call that is answered is answered by a server that is not for billing.
LEMMA CallStep == ASSUME TurnIndInv, NEW t \in Turns, Calls(t) PROVE TurnIndInv'
<1>1. TurnTypeOK /\ TurnShape(t) /\ cfg[t] \in Layouts
  BY DEF TurnIndInv, TurnTypeOK
<1> DEFINE Unharmed(call) ==
        call.how = "served" /\ call.who # "billing" =>
            cfg[t].billing = NoTool \/ call.tool.server # cfg[t].billing.server
<1>2. PICK call \in LastCalls : Called(t, call.who, call.tool, call.how) /\ Unharmed(call)
  <2>1. \A use, S, x : Reaches(t, use, S, x) \in
            {"unknown server", "unknown tool", "cancelled", "closed", "served"}
    BY DEF Reaches
  <2>2. ASSUME NEW who \in {"model", "event", "billing"}, NEW x \in Tools,
               NEW how \in {"denied", "unknown server", "unknown tool", "cancelled", "closed", "served"},
               Called(t, who, x, how),
               how = "served" /\ who # "billing" =>
                   cfg[t].billing = NoTool \/ x.server # cfg[t].billing.server
        PROVE  \E call \in LastCalls : Called(t, call.who, call.tool, call.how) /\ Unharmed(call)
    <3>1. [who |-> who, tool |-> x, how |-> how] \in LastCalls
      BY DEF LastCalls
    <3> QED
      BY <2>2, <3>1
  <2>3. ASSUME ModelCall(t)
        PROVE  \E call \in LastCalls : Called(t, call.who, call.tool, call.how) /\ Unharmed(call)
    <3>1. PICK x \in AllTools : Called(t, "model", x, Dispatch(t, x))
      BY <2>3 DEF ModelCall
    <3>2. x \in Tools
      <4>1. BuiltinTools \subseteq Tools /\ T("docs", "gone") \in Tools
        BY DEF BuiltinTools, T, Tools, Names
      <4>2. ASSUME x \in ToolsOf(Servers) PROVE x \in Tools
        <5>1. PICK s \in Servers : \E n \in offers[s] : x = T(s, n)
          BY <4>2, ToolOfServer
        <5>2. s \in Names /\ offers[s] \subseteq Names
          BY <1>1, <5>1 DEF TurnTypeOK, Servers, Names
        <5> QED
          BY <5>1, <5>2 DEF T, Tools
      <4> QED
        BY <3>1, <4>1, <4>2 DEF AllTools
    <3>3. Dispatch(t, x) \in {"denied", "unknown server", "unknown tool", "cancelled", "closed", "served"}
      BY <2>1 DEF Dispatch
    <3>4. Dispatch(t, x) = "served" =>
              cfg[t].billing = NoTool \/ x.server # cfg[t].billing.server
      <4>1. at[t] = "running" /\ Wired(t)
        BY <1>1, <3>1 DEF Called, TurnShape
      <4>2. x \in callable[t] => cfg[t].billing = NoTool \/ x.server # cfg[t].billing.server
        BY <1>1, <4>1, Callable
      <4> QED
        BY <4>2 DEF Dispatch
    <3> QED
      BY <2>2, <3>1, <3>2, <3>3, <3>4
  <2>4. ASSUME EventCall(t)
        PROVE  \E call \in LastCalls : Called(t, call.who, call.tool, call.how) /\ Unharmed(call)
    <3>1. PICK x \in cfg[t].handlers : Called(t, "event", x, Reaches(t, "model", met[t], x))
      BY <2>4 DEF EventCall
    <3>2. x \in Tools
      BY <1>1, <3>1 DEF Layouts
    <3>3. Reaches(t, "model", met[t], x) = "served" =>
              cfg[t].billing = NoTool \/ x.server # cfg[t].billing.server
      <4>1. met[t] = ServersAt(cfg[t], Regular(cfg[t]))
        BY <1>1, <3>1 DEF Called, TurnShape, Wired, Wiring
      <4>2. x.server \in met[t] => cfg[t].billing = NoTool \/ x.server # cfg[t].billing.server
        BY <1>1, <4>1, RegularServers
      <4> QED
        BY <4>2 DEF Reaches
    <3> QED
      BY <2>1, <2>2, <3>1, <3>2, <3>3
  <2>5. ASSUME BillingCall(t)
        PROVE  \E call \in LastCalls : Called(t, call.who, call.tool, call.how) /\ Unharmed(call)
    <3>1. cfg[t].billing \in Tools
      BY <1>1 DEF Layouts
    <3> QED
      BY <2>1, <2>2, <2>5, <3>1 DEF BillingCall
  <2> QED
    BY <2>3, <2>4, <2>5 DEF Calls
<1>3. /\ UNCHANGED <<profile, offers, report, tracing>> /\ at[t] = "running"
      /\ \A u \in Turns \ {t} : UNCHANGED Own(u)
      /\ UNCHANGED <<at, cfg, met, pending, callable, refused>>
      /\ last'[t] = call
  BY <1>1, <1>2 DEF LastCalls, Called, TurnTypeOK, Own, world
<1>4. TurnTypeOK'
  <2>1. last' \in [Turns -> LastCalls]
    <3>1. last' = [last EXCEPT ![t] = [who |-> call.who, tool |-> call.tool, how |-> call.how]]
      BY <1>2 DEF Called
    <3>2. [who |-> call.who, tool |-> call.tool, how |-> call.how] \in LastCalls
      BY <1>2 DEF LastCalls
    <3> QED
      BY <1>1, <3>1, <3>2 DEF TurnTypeOK
  <2> QED
    BY <1>1, <1>2, <2>1 DEF Called, TurnTypeOK, world
<1>5. TurnShape(t)'
  <2>1. Wired(t)'
    <3>1. ToolsOf(met[t])' = ToolsOf(met[t])
      <4>1. offers' = offers /\ met' = met
        BY <1>3
      <4> QED
        BY <4>1 DEF ToolsOf
    <3> QED
      BY <1>1, <1>3, <3>1 DEF TurnShape, Wired, Before, Wiring
  <2>3. RefusalShape(t)'
    BY <1>1, <1>3 DEF TurnShape, RefusalShape
  <2>2. Unbilled(t)'
    BY <1>1, <1>2, <1>3 DEF Unbilled, Before
  <2> QED
    BY <2>1, <2>2, <2>3 DEF TurnShape
<1> QED
  BY <1>3, <1>4, <1>5, TurnStep, TracesKept
\* The engine ends, the user interrupts, a server's actor or process ends.
LEMMA EndStep ==
    ASSUME TurnIndInv, NEW t \in Turns,
           EngineEnds(t) \/ Interrupt(t) \/ ActorEnds(t) \/ ServerDies(t)
    PROVE  TurnIndInv'
<1>1. TurnTypeOK /\ TurnShape(t)
  BY DEF TurnIndInv
<1>2. /\ UNCHANGED <<profile, offers, report, tracing>>
      /\ UNCHANGED <<cfg, pending, met, callable, refused, last, begun, edits>>
  BY DEF EngineEnds, Interrupt, ActorEnds, ServerDies, world, startUp
<1>3. /\ \A u \in Turns \ {t} : at'[u] = at[u]
      /\ at'[t] = at[t] \/ at'[t] = "over"
      /\ at' \in [Turns -> Stages]
  <2>1. UNCHANGED at \/ at' = [at EXCEPT ![t] = "over"]
    BY DEF EngineEnds, Interrupt, ActorEnds, ServerDies, Go
  <2>2. "over" \in Stages
    BY DEF Stages
  <2> QED
    BY <1>1, <2>1, <2>2 DEF TurnTypeOK
<1>4. child' \in [Turns -> SUBSET ({"model", "billing"} \X Names)]
  <2>1. \/ UNCHANGED child
        \/ \E c \in child[t] : child' = [child EXCEPT ![t] = @ \ {c}]
    BY DEF EngineEnds, Interrupt, ActorEnds, ServerDies, startUp
  <2> QED
    BY <1>1, <2>1 DEF TurnTypeOK
<1>5. interrupted' \in [Turns -> BOOLEAN]
  <2>1. UNCHANGED interrupted \/ interrupted' = [interrupted EXCEPT ![t] = TRUE]
    BY DEF EngineEnds, Interrupt, ActorEnds, ServerDies
  <2> QED
    BY <1>1, <2>1, Zenon DEF TurnTypeOK
<1>6. TurnTypeOK'
  BY <1>1, <1>2, <1>3, <1>4, <1>5 DEF TurnTypeOK
<1>7. \A u \in Turns \ {t} : UNCHANGED Own(u)
  BY <1>2, <1>3 DEF Own
<1>8. TurnShape(t)'
  <2>1. ToolsOf(met[t])' = ToolsOf(met[t])
    BY <1>2 DEF ToolsOf
  <2>2. Wired(t)'
    BY <1>1, <1>2, <1>3, <2>1 DEF TurnShape, Wired, Before, Wiring
  <2>3. RefusalShape(t)' /\ Unbilled(t)'
    BY <1>1, <1>2, <1>3 DEF TurnShape, RefusalShape, Unbilled, Before
  <2> QED
    BY <2>2, <2>3 DEF TurnShape
<1>9. OneTraceFile'
  BY <1>2, <1>3 DEF TurnIndInv, OneTraceFile
<1> QED
  BY <1>2, <1>6, <1>7, <1>8, <1>9, TurnStep

\* A step that leaves every turn as it was keeps what they have settled.
LEMMA TurnsStay ==
    ASSUME TurnIndInv, TurnTypeOK', ReportShape', UNCHANGED <<offers, tracing>>,
           profile'.settings = profile.settings,
           UNCHANGED <<at, cfg, pending, met, callable, refused, last>>
    PROVE  TurnIndInv'
<1>1. ASSUME NEW u \in Turns PROVE TurnShape(u)'
  <2>1. TurnShape(u)
    BY DEF TurnIndInv
  <2>2. ToolsOf(met[u])' = ToolsOf(met[u])
    BY DEF ToolsOf
  <2>3. Wired(u)'
    BY <2>1, <2>2 DEF TurnShape, Wired, Before, Wiring
  <2>4. RefusalShape(u)' /\ Unbilled(u)'
    BY <2>1 DEF TurnShape, RefusalShape, Unbilled, Before
  <2> QED
    BY <2>3, <2>4 DEF TurnShape
<1>2. OneTraceFile'
  BY DEF TurnIndInv, OneTraceFile
<1> QED
  BY <1>1, <1>2 DEF TurnIndInv

\* `check` and `config tools effective` look at the profile and the servers.
LEMMA CheckStep == ASSUME TurnIndInv, Check PROVE TurnIndInv'
<1>1. PICK up \in SUBSET Range(profile.mcp) :
        LET found == ToolsOf(up)
            skilled == IF profile.settings = "ok" THEN profile
                       ELSE [profile EXCEPT !.skills = {}, !.packages = FALSE]
        IN report' = [there |-> TRUE, passed |-> Passes(profile, up), parsed |-> NamesParse(found),
                      of |-> profile,
                      check |-> Compiled(skilled, IF NamesParse(found) THEN found ELSE {}),
                      effective |-> Compiled(skilled, found)]
  BY DEF Check
<1>2. /\ UNCHANGED <<profile, offers, tracing, begun, edits, interrupted>>
      /\ UNCHANGED <<at, cfg, pending, met, child, callable, refused, last>>
  BY DEF Check, startUp
<1>3. Loads(profile)
  BY DEF Check
<1>4. ReportShape'
  <2>1. SUFFICES ASSUME report'.passed PROVE ReportShape'
    BY DEF ReportShape
  <2>2. Passes(profile, up)
    BY <1>1, <2>1
  <2>3. profile.settings = "ok" /\ up = Range(profile.mcp)
    BY <2>2 DEF Passes
  <2>4. /\ report'.of = profile /\ report'.parsed = NamesParse(ToolsOf(up))
        /\ report'.effective = Compiled(profile, ToolsOf(up))
        /\ NamesParse(ToolsOf(up)) => report'.check = Compiled(profile, ToolsOf(up))
    BY <1>1, <2>3
  <2>5. (ToolsOf(Range(profile.mcp)))' = ToolsOf(up)
    BY <1>2, <2>3 DEF ToolsOf
  <2>6. Compiled(profile, ToolsOf(up)) = Compiled(report.of, ToolsOf(Range(report.of.mcp)))'
    BY <1>2, <2>3, <2>4, <2>5 DEF Compiled, ToolsOf
  <2> QED
    BY <1>3, <2>2, <2>4, <2>6 DEF ReportShape, Passes
<1>5. TurnTypeOK'
  BY <1>2 DEF TurnIndInv, TurnTypeOK
<1> QED
  BY <1>2, <1>4, <1>5, TurnsStay

\* An edit of the log directory.
LEMMA MoveLogsStep == ASSUME TurnIndInv, MoveLogs PROVE TurnIndInv'
<1>1. /\ UNCHANGED <<offers, tracing, report, begun, interrupted>>
      /\ UNCHANGED <<at, cfg, pending, met, child, callable, refused, last>>
  BY DEF MoveLogs, startUp
<1>2. /\ profile' = [profile EXCEPT !.log = IF @ = "logs" THEN "other logs" ELSE "logs"]
      /\ profile \in Layouts
  BY DEF MoveLogs, TurnIndInv, TurnTypeOK
<1>3. profile' \in Layouts /\ profile'.settings = profile.settings
  BY <1>2 DEF Layouts, LogDirs
<1>4. TurnTypeOK'
  <2>1. edits \in Nat /\ edits' = edits + 1
    BY DEF MoveLogs, TurnIndInv, TurnTypeOK
  <2>2. edits' \in Nat
    BY <2>1
  <2> QED
    BY <1>1, <1>3, <2>2 DEF TurnIndInv, TurnTypeOK
<1>5. ReportShape'
  BY <1>1 DEF TurnIndInv, ReportShape, Compiled, ToolsOf
<1> QED
  BY <1>1, <1>3, <1>4, <1>5, TurnsStay

\* No turn has begun and nothing was reported.
LEMMA TurnInitIndInv == TurnInit => TurnIndInv
<1> SUFFICES ASSUME TurnInit PROVE TurnIndInv
  OBVIOUS
<1>1. profile \in Layouts
  <2>1. profile \in Wirings
    BY DEF TurnInit, Profiles
  <2>2. {<<"docs">>, <<"docs", "price">>, <<"home">>, <<"docs", "docs">>} \subseteq Seq(Names)
    BY DEF Names
  <2>3. /\ {NoTool, T("price", "quote"), T("docs", "find")} \subseteq Tools
        /\ {T("docs", "gone"), T("home", "read"), T("home", "run"), T("home", "find")} \subseteq Tools
    BY DEF NoTool, T, Tools, Names
  <2> DEFINE H == {{}, {T("docs", "find")}, {T("price", "quote")}, {T("docs", "gone")}}
             K == {{T("docs", "find"), T("price", "quote"), T("home", "read"), T("home", "run"),
                    T("home", "find")}}
             B == {{T("home", "read")}, {T("home", "read"), T("home", "run")}}
  <2>4. H \subseteq SUBSET Tools /\ K \subseteq SUBSET Tools /\ B \subseteq SUBSET Tools
    BY <2>3
  <2>5. {"logs", "database"} \subseteq LogDirs
    BY DEF LogDirs
  <2> HIDE DEF H, K, B
  <2>6. profile \in [mcp : {<<"docs">>, <<"docs", "price">>, <<"home">>, <<"docs", "docs">>},
                     billing : {NoTool, T("price", "quote"), T("docs", "find")},
                     handlers : H, skills : K, builtins : B, packages : BOOLEAN,
                     key : {"env", "inline", "none"}, log : {"logs", "database"},
                     settings : {"ok", "bad"}, catalog : {"ok", "bad"}]
    BY <2>1 DEF Wirings, H, K, B
  <2> QED
    BY <2>2, <2>3, <2>4, <2>5, <2>6 DEF Layouts
<1>2. offers \in [Servers -> SUBSET Names]
  BY DEF TurnInit, Names, Dotted
<1>3. TurnTypeOK
  <2>1. NoTool \in Tools
    BY DEF NoTool, T, Tools, Names
  <2>2. last \in [Turns -> LastCalls]
    BY <2>1 DEF TurnInit, LastCalls
  <2> QED
    BY <1>1, <1>2, <2>2 DEF TurnInit, TurnTypeOK, Stages, Reasons
<1>4. ReportShape
  BY DEF TurnInit, ReportShape, NoReport
<1>5. OneTraceFile
  BY DEF TurnInit, OneTraceFile
<1>6. ASSUME NEW t \in Turns PROVE TurnShape(t)
  BY DEF TurnInit, TurnShape, Wired, RefusalShape, Unbilled, Before, Wiring
<1> QED
  BY <1>3, <1>4, <1>5, <1>6 DEF TurnIndInv

LEMMA TurnNextIndInv == TurnIndInv /\ [TurnNext]_turnVars => TurnIndInv'
<1> SUFFICES ASSUME TurnIndInv, [TurnNext]_turnVars PROVE TurnIndInv'
  OBVIOUS
<1>1. ASSUME NEW t \in Turns, Begin(t) PROVE TurnIndInv'
  BY <1>1, BeginStep
<1>2. ASSUME NEW t \in Turns, Wires(t) PROVE TurnIndInv'
  BY <1>2, LoadStep, PlainStep, TraceStep, OpenFilesStep, ConnectStep, CompileStep DEF Wires
<1>3. ASSUME NEW t \in Turns, Calls(t) PROVE TurnIndInv'
  BY <1>3, CallStep
<1>4. ASSUME NEW t \in Turns, EngineEnds(t) \/ Interrupt(t) \/ ActorEnds(t) \/ ServerDies(t)
      PROVE  TurnIndInv'
  BY <1>4, EndStep
<1>5. CASE Check
  BY <1>5, CheckStep
<1>6. CASE MoveLogs
  BY <1>6, MoveLogsStep
<1>7. CASE UNCHANGED turnVars
  <2>1. /\ UNCHANGED <<profile, offers, tracing, report, begun, edits, interrupted>>
        /\ UNCHANGED <<at, cfg, pending, met, child, callable, refused, last>>
    BY <1>7 DEF turnVars
  <2>2. TurnTypeOK'
    BY <2>1 DEF TurnIndInv, TurnTypeOK
  <2>3. ReportShape'
    BY <2>1 DEF TurnIndInv, ReportShape, Compiled, ToolsOf
  <2> QED
    BY <2>1, <2>2, <2>3, TurnsStay
<1> QED
  BY <1>1, <1>2, <1>3, <1>4, <1>5, <1>6, <1>7 DEF TurnNext

THEOREM TurnInvariant == TurnSpec => []TurnIndInv
BY TurnInitIndInv, TurnNextIndInv, PTL DEF TurnSpec

-----------------------------------------------------------------------------
(* The properties                                                          *)

\* The wiring of every turn of a process (run_agent_prompt): a running turn serves every
\* tool it may call, no call of the model or of an event handler reaches the server that
\* bills, and the process writes its traces where the turn's configuration says.
THEOREM TurnsAreSound == TurnSpec => []TurnSound
<1>1. TurnIndInv => TurnSound
  <2> SUFFICES ASSUME TurnIndInv PROVE ToolsAreServed
    BY DEF TurnSound, TurnIndInv
  <2>1. ASSUME NEW t \in Turns, at[t] = "running", NEW x \in callable[t]
        PROVE  Dispatch(t, x) \in {"served", "closed", "cancelled"}
    <3>1. /\ x \in BuiltinTools \/ (x.server \in met[t] /\ x.name \in offers[x.server])
          /\ x \in BuiltinTools <=> x.server \in BuiltinServers
      BY <2>1, Callable DEF TurnIndInv, TurnShape
    <3> QED
      BY <2>1, <3>1 DEF Dispatch, Reaches
  <2>2. \A t \in Turns : Unbilled(t)
    BY DEF TurnIndInv, TurnShape
  <2> QED
    BY <2>1, <2>2 DEF ToolsAreServed, Unbilled
<1> QED
  BY <1>1, TurnInvariant, PTL

\* What `check` and `config tools effective` say of a profile that passed is true of every
\* turn that runs with it, and none is refused for what `check` looked at.
THEOREM CheckIsRight == TurnSpec => []CheckForetells
<1>1. TurnIndInv => CheckForetells
  <2> SUFFICES ASSUME TurnIndInv, NEW t \in Turns, report.passed, at[t] \notin {"idle", "load"},
                      cfg[t] = report.of
               PROVE  /\ refused[t] \notin {"configuration", "log directory", "settings", "catalog", "key"}
                      /\ at[t] = "running" =>
                           LET billed(x) == cfg[t].billing # NoTool /\ x.server = cfg[t].billing.server
                           IN /\ {x \in report.effective : ~billed(x)} = callable[t]
                              /\ report.parsed => report.check = report.effective
    BY DEF CheckForetells
  <2>1. /\ cfg[t] \in Layouts /\ Wired(t) /\ RefusalShape(t) /\ ReportShape
    BY DEF TurnIndInv, TurnShape, TurnTypeOK
  <2>2. /\ Loads(cfg[t]) /\ KeyResolves(cfg[t]) /\ LogDirResolves(cfg[t])
        /\ cfg[t].settings = "ok" /\ cfg[t].catalog # "bad"
        /\ report.effective = Compiled(cfg[t], ToolsOf(Range(cfg[t].mcp)))
        /\ report.parsed => report.check = report.effective
    BY <2>1 DEF ReportShape
  <2>3. refused[t] \notin {"configuration", "log directory", "settings", "catalog", "key"}
    BY <2>1, <2>2 DEF RefusalShape
  <2>4. at[t] = "running" =>
          callable[t] = Compiled(cfg[t], ToolsOf(ServersAt(cfg[t], Regular(cfg[t]))))
    BY <2>1 DEF Wired, Wiring
  <2>5. {x \in Compiled(cfg[t], ToolsOf(Range(cfg[t].mcp))) :
            ~(cfg[t].billing # NoTool /\ x.server = cfg[t].billing.server)}
          = Compiled(cfg[t], ToolsOf(ServersAt(cfg[t], Regular(cfg[t]))))
    BY <2>1, <2>2, BillingAside
  <2> QED
    BY <2>2, <2>3, <2>4, <2>5
<1> QED
  BY <1>1, TurnInvariant, PTL
=============================================================================
