---------------------------- MODULE McpServers ----------------------------
(***************************************************************************)
(* Model checking of what an MCP server needs: the actor of a stdio server *)
(* (McpActor), the Streamable HTTP client with its tokens (McpHttp) and    *)
(* the event stream of one of its answers (SseStream).  They share no      *)
(* state: a behaviour is one of them, the others do not begin.             *)
(***************************************************************************)
EXTENDS McpActor, McpHttp, SseStream

VARIABLE part  \* the component that moves

mcpVars == <<clientVars, httpVars, sseVars, part>>

McpInit ==
    /\ part \in {"stdio", "http", "stream"} /\ ActorInit /\ HttpInit /\ SseInit
    /\ part # "stream" => ending = LF
    /\ part # "http" => ~server.guarded /\ ~server.sessions /\ ~server.legacy

McpNext ==
    \/ part = "stdio" /\ ActorNext /\ UNCHANGED <<httpVars, sseVars, part>>
    \/ part = "http" /\ HttpNext /\ UNCHANGED <<clientVars, sseVars, part>>
    \/ part = "stream" /\ SseNext /\ UNCHANGED <<clientVars, httpVars, part>>

McpSpec == McpInit /\ [][McpNext]_mcpVars /\ ActorFairness /\ HttpFairness

=============================================================================
