---------------------------- MODULE McpHttp ----------------------------
(***************************************************************************)
(* The Streamable HTTP client of an MCP server (src/mcp/http_client.rs)    *)
(* with its OAuth helper (oauth.rs).                                       *)
(*                                                                         *)
(* A client belongs to one kbshff process; the actor of registry.rs gives  *)
(* it one request at a time.  Several processes of an agent share the      *)
(* token store, a file, and the authorization server.                      *)
(*                                                                         *)
(* stage is the frame of the call stack a client is in: connect and reinit *)
(* are initialize(), first and again the two request_once() of request().  *)
(* step is the await it is at.  Header texts, URLs and bodies are left     *)
(* out: an answer is one of the outcomes the code tells apart.  A grant    *)
(* of the authorization server is a number and stands for both its tokens. *)
(***************************************************************************)
EXTENDS Integers, FiniteSets

CONSTANTS
    Clients,    \* kbshff processes that use the server
    Resumes,    \* resumptions of one SSE stream (3 in the code)
    MaxCalls,   \* bound of the model: calls of one process
    MaxStarts,  \* bound of the model: starts of one process
    MaxGrants   \* bound of the model: grants of the authorization server

ASSUME HttpBounds == Resumes \in Nat /\ MaxCalls \in Nat /\ MaxStarts \in Nat /\ MaxGrants \in Nat

VARIABLES
    client,  \* the McpHttpClient of each process
    server,  \* what the MCP server is like; fixed
    good,    \* grants whose access token the MCP server takes
    fresh,   \* grants whose refresh token the authorization server takes
    wide,    \* grants with the scope that a step-up asks for
    issued,  \* grants made so far
    store    \* the token store: unset in the configuration, or a file

auth == <<good, fresh, wide, issued>>
httpVars == <<client, server, auth, store>>

Grants == 1..MaxGrants
Tokens == [access : 0..MaxGrants, refresh : 0..MaxGrants]  \* 0: none, or cleared
NoTokens == [access |-> 0, refresh |-> 0]

Torn == [state |-> "torn", tokens |-> NoTokens]
Saved(tokens) == [state |-> "saved", tokens |-> tokens]

Stages == {"off", "connect", "idle", "first", "reinit", "again"}
Steps == {"rest", "post", "stream", "resume", "refresh", "login", "persist", "probe", "notify"}

ClientStates ==
    [stage : Stages, step : Steps,
     tried : BOOLEAN,                        \* initialize() is at its last request_once()
     session : {"none", "live", "dead"},     \* the Mcp-Session-Id held; dead: dropped by the server
     legacy : BOOLEAN,                       \* legacy_message_url is set
     tokens : Tokens, pending : Tokens,      \* the token set, and one that is being persisted
     via : {"refresh", "login"}, scope : BOOLEAN,
     resumes : 0..Resumes, calls : 0..MaxCalls, starts : 0..MaxStarts,
     ran : Nat,                              \* history: runs of the tool for this call
     cause : {"none", "expired", "challenge", "resume"},  \* history: why it is sent again
     rejected : SUBSET (0..MaxGrants)]       \* history: access tokens challenged for this call

Stopped ==
    [stage |-> "off", step |-> "rest", tried |-> FALSE, session |-> "none", legacy |-> FALSE,
     tokens |-> NoTokens, pending |-> NoTokens, via |-> "refresh", scope |-> FALSE,
     resumes |-> 0, calls |-> 0, starts |-> 0,
     ran |-> 0, cause |-> "none", rejected |-> {}]

HttpTypeOK ==
    /\ client \in [Clients -> ClientStates]
    /\ server \in [guarded : BOOLEAN, auth : BOOLEAN, sessions : BOOLEAN, legacy : BOOLEAN]
    /\ good \subseteq Grants /\ fresh \subseteq Grants /\ wide \subseteq Grants
    /\ issued \in 0..MaxGrants
    /\ store \in [state : {"unset", "absent", "torn", "saved"}, tokens : Tokens]

HttpInit ==
    /\ client = [c \in Clients |-> Stopped]
    /\ server \in [guarded : BOOLEAN, auth : BOOLEAN, sessions : BOOLEAN, legacy : BOOLEAN]
    /\ server.guarded \/ ~server.auth
    /\ ~server.legacy \/ ~server.sessions
    /\ good = {} /\ fresh = {} /\ wide = {} /\ issued = 0
    /\ store \in [state : {"unset", "absent"}, tokens : {NoTokens}]

-----------------------------------------------------------------------------
(* Ends of a request, in the frame the client is in.                       *)

InInitialize(c) == client[c].stage \in {"connect", "reinit"}

OffState(k) == [Stopped EXCEPT !.starts = k.starts, !.calls = k.calls,
                               !.ran = k.ran, !.cause = k.cause]

\* The call, or connect(), returns.  A run whose connect() fails does not start.
DoneState(k, ok) ==
    IF k.stage = "connect" /\ ~ok THEN OffState(k)
    ELSE [k EXCEPT !.stage = "idle", !.step = "rest", !.tried = FALSE, !.pending = NoTokens,
                   !.via = "refresh", !.scope = FALSE, !.resumes = 0, !.rejected = {}]

Becomes(c, k) == client' = [client EXCEPT ![c] = k]

Fails(c) == Becomes(c, DoneState(client[c], FALSE))

\* request() answers a challenge once with handle_unauthorized(), and so does
\* initialize(); without [auth], and the second time, the challenge is the result.
Challenged(c, scoped, why) ==
    LET k == client[c]
        noted == [k EXCEPT !.rejected = @ \cup {k.tokens.access}]
    IN  IF k.stage = "again" \/ k.tried \/ ~server.auth
        THEN Fails(c)
        ELSE Becomes(c, [noted EXCEPT
                 !.scope = scoped, !.resumes = 0,
                 !.cause = IF k.stage = "first" THEN why ELSE @,
                 !.tokens.access = IF scoped THEN 0 ELSE @,
                 !.step = IF ~scoped /\ k.tokens.refresh # 0 THEN "refresh" ELSE "login"])

\* A protocol error of the first initialize request may read like a 400, 404 or 405.
Refused(c, looksLegacy) ==
    IF InInitialize(c) /\ ~client[c].tried /\ looksLegacy
    THEN client' = [client EXCEPT ![c].step = "probe"]
    ELSE Fails(c)

\* The JSON-RPC answer is there.
Answered(c, outcome, after) ==
    \/ /\ outcome = "result"
       /\ Becomes(c, IF InInitialize(c) THEN [after EXCEPT !.step = "notify"]
                     ELSE DoneState(after, TRUE))
    \/ outcome = "error" /\ Becomes(c, DoneState(after, FALSE))
    \/ /\ outcome = "error" /\ InInitialize(c) /\ ~after.tried
       /\ Becomes(c, [after EXCEPT !.step = "probe"])

-----------------------------------------------------------------------------
(* Start, calls, shutdown.                                                 *)

\* McpOAuth::new reads the store once; a torn one is ignored.
Start(c) ==
    /\ client[c].stage = "off" /\ client[c].starts < MaxStarts
    /\ client' = [client EXCEPT ![c] =
           [Stopped EXCEPT !.stage = "connect", !.step = "post",
                           !.starts = client[c].starts + 1, !.calls = client[c].calls,
                           !.tokens = IF server.auth THEN store.tokens ELSE NoTokens]]
    /\ UNCHANGED <<server, auth, store>>

BeginCall(c) ==
    /\ client[c].stage = "idle" /\ client[c].calls < MaxCalls
    /\ client' = [client EXCEPT ![c].stage = "first", ![c].step = "post", ![c].calls = @ + 1,
                                ![c].ran = 0, ![c].cause = "none", ![c].rejected = {}]
    /\ UNCHANGED <<server, auth, store>>

\* shutdown() deletes the session and forgets it whatever the answer is.
Shutdown(c) ==
    /\ client[c].stage = "idle"
    /\ Becomes(c, OffState(client[c]))
    /\ UNCHANGED <<server, auth, store>>

\* The process ends: killed, or its runtime dropped.  tokio::fs::write truncates
\* the store before it writes.
Crash(c) ==
    /\ client[c].stage # "off"
    /\ Becomes(c, OffState(client[c]))
    /\ \/ UNCHANGED store
       \/ client[c].step = "persist" /\ store.state # "unset" /\ store' = Torn
    /\ UNCHANGED <<server, auth>>

-----------------------------------------------------------------------------
(* request_once(): one POST and its outcomes.                              *)

Admits(c) == ~server.guarded \/ client[c].tokens.access \in good

\* The server has an endpoint and a session for this request.
Serves(c) ==
    /\ server.legacy => client[c].legacy
    /\ InInitialize(c) \/ ~server.sessions \/ client[c].session = "live"

\* The state after a POST; the server has run the tool in it, or not.
Posted(c, executed) ==
    [client[c] EXCEPT !.ran = IF InInitialize(c) \/ ~executed THEN @ ELSE @ + 1]

AtPost(c) == client[c].step = "post" /\ UNCHANGED <<server, auth, store>>

\* Faulty variant: a lost answer is repeated like an expired session.
PostLostRepeated(c) ==
    /\ AtPost(c)
    /\ \E executed \in {FALSE, Admits(c) /\ Serves(c)} :
          Becomes(c, IF client[c].stage = "first"
                     THEN [Posted(c, executed) EXCEPT !.stage = "again"]
                     ELSE DoneState(Posted(c, executed), FALSE))

\* A transport error, or the timeout of post_json() or of the body: whether the
\* server has run the tool is not known, and the request is not repeated.
PostLost(c) ==
    /\ AtPost(c)
    /\ \E executed \in {FALSE, Admits(c) /\ Serves(c)} :
          Becomes(c, DoneState(Posted(c, executed), FALSE))

\* 401, or 403 with insufficient_scope.
PostChallenged(c) ==
    /\ AtPost(c)
    /\ \/ ~Admits(c) /\ Challenged(c, FALSE, "challenge")
       \/ server.guarded /\ Admits(c) /\ client[c].tokens.access \notin wide
          /\ Challenged(c, TRUE, "challenge")

\* Faulty variant: the repeated request gets the same treatment again.
PostExpiredAgain(c) ==
    /\ AtPost(c) /\ Admits(c) /\ client[c].session = "dead"
    /\ client' = [client EXCEPT ![c].session = "none", ![c].stage = "reinit",
                                ![c].tried = FALSE, ![c].cause = "expired"]

\* 404 while a session is held: request() forgets it and initializes anew, once.
PostExpired(c) ==
    /\ AtPost(c) /\ Admits(c) /\ client[c].session = "dead"
    /\ IF client[c].stage = "first"
       THEN client' = [client EXCEPT ![c].session = "none", ![c].stage = "reinit",
                                     ![c].tried = FALSE, ![c].cause = "expired"]
       ELSE Fails(c)

\* Any other status that is no success, a call without a session included.
PostRefused(c) ==
    /\ AtPost(c) /\ Admits(c) /\ client[c].session # "dead"
    /\ \E looksLegacy \in BOOLEAN : Refused(c, looksLegacy)

\* Success: the session header is kept; the answer is in the body or in a stream.
PostAccepted(c) ==
    /\ AtPost(c) /\ Admits(c) /\ Serves(c) /\ client[c].session # "dead"
    /\ LET session == IF server.sessions THEN "live" ELSE client[c].session
           after == [Posted(c, TRUE) EXCEPT !.session = session]
       IN  \/ Becomes(c, [after EXCEPT !.step = "stream", !.resumes = Resumes])
           \/ \E outcome \in {"result", "error"} : Answered(c, outcome, after)

-----------------------------------------------------------------------------
(* read_sse_until(): the stream, its resumptions, its deadline.            *)

AtStream(c) == client[c].step = "stream" /\ UNCHANGED <<server, auth, store>>

StreamAnswers(c) ==
    /\ AtStream(c)
    /\ \E outcome \in {"result", "error"} : Answered(c, outcome, client[c])

\* The stream ends or breaks before the answer.
StreamCut(c) ==
    /\ AtStream(c)
    /\ IF client[c].resumes = 0 THEN Fails(c)
       ELSE client' = [client EXCEPT ![c].step = "resume", ![c].resumes = @ - 1]

StreamDeadline(c) == AtStream(c) /\ Fails(c)

\* GET with Last-Event-ID.  A challenge goes up to request(), which posts again
\* although the server has taken the call; an expired session does not.
Resume(c) ==
    /\ client[c].step = "resume" /\ UNCHANGED <<server, auth, store>>
    /\ \/ Admits(c) /\ client[c].session # "dead"
          /\ client' = [client EXCEPT ![c].step = "stream"]
       \/ ~Admits(c) /\ Challenged(c, FALSE, "resume")
       \/ Fails(c)

-----------------------------------------------------------------------------
(* initialize(): the notification, and the legacy HTTP+SSE probe.          *)

NotifyInitialized(c) ==
    /\ client[c].step = "notify" /\ UNCHANGED <<server, auth, store>>
    /\ \/ /\ Admits(c) /\ client[c].session # "dead"
          /\ Becomes(c, IF client[c].stage = "connect" THEN DoneState(client[c], TRUE)
                        ELSE [client[c] EXCEPT !.stage = "again", !.step = "post",
                                               !.tried = FALSE])
       \/ Fails(c)

\* The endpoint event is looked for when the stream has ended; a legacy server
\* that holds it open lets the 30 seconds pass.  Then initialize is posted again.
ProbeLegacy(c) ==
    /\ client[c].step = "probe" /\ UNCHANGED <<server, auth, store>>
    /\ \/ /\ server.legacy /\ Admits(c)
          /\ client' = [client EXCEPT ![c].legacy = TRUE, ![c].step = "post", ![c].tried = TRUE]
       \/ Fails(c)

-----------------------------------------------------------------------------
(* OAuth: refresh_tokens(), authorize_interactive(), persist_tokens().     *)

\* handle_unauthorized() has returned Ok: the request is posted again.
RecoveredState(k) ==
    [k EXCEPT !.step = "post", !.pending = NoTokens, !.via = "refresh", !.scope = FALSE,
              !.stage = IF @ = "first" THEN "again" ELSE @,
              !.tried = @ \/ k.stage # "first"]

GiveUpRefresh(c) == client' = [client EXCEPT ![c].step = "login"]

\* Discovery, client resolution or the exchange fails; the authorization server
\* may have used the refresh token up before the answer was lost.
RefreshFails(c) ==
    /\ client[c].step = "refresh" /\ GiveUpRefresh(c)
    /\ fresh' \in {fresh, fresh \ {client[c].tokens.refresh}}
    /\ UNCHANGED <<server, good, wide, issued, store>>

\* The grant is the next number; a rotating server replaces the refresh token,
\* any other leaves the old one in use.
RefreshGranted(c) ==
    LET old == client[c].tokens.refresh
        new == issued + 1
    IN  /\ client[c].step = "refresh" /\ old \in fresh /\ issued < MaxGrants
        /\ issued' = new /\ good' = good \cup {new}
        /\ wide' = IF old \in wide THEN wide \cup {new} ELSE wide
        /\ \E rotates \in BOOLEAN :
              /\ fresh' = IF rotates THEN (fresh \ {old}) \cup {new} ELSE fresh
              /\ client' = [client EXCEPT ![c].step = "persist", ![c].via = "refresh",
                     ![c].pending = [access |-> new, refresh |-> IF rotates THEN new ELSE old]]
        /\ UNCHANGED <<server, store>>

LoginFails(c) ==
    /\ client[c].step = "login" /\ Fails(c)
    /\ UNCHANGED <<server, auth, store>>

\* The browser came back with a code and the exchange was granted.  An answer
\* without a refresh token keeps the one at hand.
LoginGranted(c) ==
    LET new == issued + 1 IN
    /\ client[c].step = "login" /\ issued < MaxGrants
    /\ issued' = new /\ good' = good \cup {new}
    /\ wide' = IF client[c].scope THEN wide \cup {new} ELSE wide
    /\ \E refreshable \in BOOLEAN :
          /\ fresh' = IF refreshable THEN fresh \cup {new} ELSE fresh
          /\ client' = [client EXCEPT ![c].step = "persist", ![c].via = "login",
                 ![c].pending = [access |-> new,
                                 refresh |-> IF refreshable THEN new ELSE client[c].tokens.refresh]]
    /\ UNCHANGED <<server, store>>

\* The store first, then the memory.
PersistTokens(c) ==
    LET k == client[c] IN
    /\ k.step = "persist"
    /\ store' = IF store.state = "unset" THEN store ELSE Saved(k.pending)
    /\ Becomes(c, RecoveredState([k EXCEPT !.tokens = k.pending]))
    /\ UNCHANGED <<server, auth>>

\* The directory, the write or the permissions fail.  The refresh is then given
\* up for a login, though the authorization server has made the grant.
PersistFails(c) ==
    /\ client[c].step = "persist" /\ store.state # "unset"
    /\ store' \in {store, Torn, Saved(client[c].pending)}
    /\ IF client[c].via = "refresh"
       THEN client' = [client EXCEPT ![c].step = "login", ![c].pending = NoTokens]
       ELSE Fails(c)
    /\ UNCHANGED <<server, auth>>

-----------------------------------------------------------------------------
(* The MCP server forgets a session; a grant runs out or is revoked.       *)

ExpireSession(c) ==
    /\ client[c].session = "live"
    /\ client' = [client EXCEPT ![c].session = "dead"]
    /\ UNCHANGED <<server, auth, store>>

RevokeAccess ==
    /\ \E n \in good : good' = good \ {n}
    /\ UNCHANGED <<client, server, fresh, wide, issued, store>>

-----------------------------------------------------------------------------
(* Other processes with the same store, as far as they are not in Clients. *)

\* One of them logs in, or refreshes with a token it has read from the store.
OthersGrant ==
    LET new == issued + 1 IN
    /\ server.auth /\ issued < MaxGrants
    /\ issued' = new /\ good' = good \cup {new}
    /\ fresh' \in {fresh \cup {new}, (fresh \ {store.tokens.refresh}) \cup {new}}
    /\ UNCHANGED <<client, server, wide, store>>

\* It writes a grant, later ones overtaken or not, or is killed over it.
OthersSave ==
    /\ server.auth /\ store.state # "unset"
    /\ \/ store' = Torn
       \/ \E n \in 1..issued : store' = Saved([access |-> n, refresh |-> n])
    /\ UNCHANGED <<client, server, auth>>

-----------------------------------------------------------------------------
RequestStep(c) ==
    \/ PostLost(c) \/ PostChallenged(c) \/ PostExpired(c) \/ PostRefused(c) \/ PostAccepted(c)
    \/ StreamAnswers(c) \/ StreamCut(c) \/ StreamDeadline(c) \/ Resume(c)
    \/ NotifyInitialized(c) \/ ProbeLegacy(c)

OAuthStep(c) ==
    \/ RefreshFails(c) \/ RefreshGranted(c) \/ LoginFails(c) \/ LoginGranted(c)
    \/ PersistTokens(c) \/ PersistFails(c)

HttpNext ==
    \/ \E c \in Clients :
          \/ RequestStep(c) \/ OAuthStep(c)
          \/ Start(c) \/ BeginCall(c) \/ Shutdown(c) \/ Crash(c) \/ ExpireSession(c)
    \/ RevokeAccess \/ OthersGrant \/ OthersSave

\* Every await of a request has a timeout (post_json, the client's own, the
\* stream's deadline, 300 seconds for the browser), so a client moves on.
HttpFairness == \A c \in Clients : WF_httpVars(RequestStep(c) \/ OAuthStep(c))

HttpSpec == HttpInit /\ [][HttpNext]_httpVars /\ HttpFairness

-----------------------------------------------------------------------------
(* Properties.                                                             *)

\* The tool of a call runs at most twice, and a second time only when
\* the stream of its first run was cut and its resumption was challenged: a
\* lost answer, an expired session and a rejected token never repeat a call
\* that has run (McpHttpClient::request).
AtMostTwice ==
    /\ HttpTypeOK
    /\ \A c \in Clients :
          /\ client[c].ran <= 2
          /\ client[c].ran = 2 => client[c].cause = "resume"

\* A request that is sent again after a challenge carries another access token
\* than the one that was rejected, whatever refreshes, logins, failures to
\* persist and other processes came in between (recover_access_token).
RejectedNotResent ==
    \A c \in Clients :
        client[c].step = "post" /\ (client[c].stage = "again" \/ client[c].tried) =>
            client[c].tokens.access \notin client[c].rejected

\* What the retries of a call keep.
RetriesSound == AtMostTwice /\ RejectedNotResent

\* connect() and every call return, whatever server, browser and file system do.
HttpCallsReturn ==
    \A c \in Clients :
        client[c].stage \notin {"off", "idle"} ~> client[c].stage \in {"off", "idle"}

=============================================================================
