------------------------------ MODULE McpCalls ------------------------------
(***************************************************************************)
(* What McpRegistry promises the callers of a stdio server, whatever pipes,*)
(* framing and child do behind it: calls are served one at a time, a caller*)
(* gets the answer to its own call or an error, at most once and only while*)
(* it waits, and may leave whenever it likes without disturbing the others.*)
(* McpActor implements it.                                                 *)
(***************************************************************************)
CONSTANTS
    Calls,      \* the calls made on the registry
    Nobody      \* no call

VARIABLES
    got,        \* what each caller has got
    serving     \* the call the server is asked about, or Nobody

callsVars == <<got, serving>>

CallsInit == got = [c \in Calls |-> "none"] /\ serving = Nobody

Tell(c, what) == got' = [got EXCEPT ![c] = what]

\* A call on a cancelled run is refused at once.
Ask(c) == got[c] = "none" /\ Tell(c, "waiting") /\ UNCHANGED serving
RefuseCall(c) == got[c] = "none" /\ Tell(c, "error") /\ UNCHANGED serving

\* A caller that waits is told of a cancellation or of the end of the actor,
\* or goes away; the server may be at its call all the same.
BreakOff(c) == got[c] = "waiting" /\ Tell(c, "error") /\ UNCHANGED serving
Leave(c) == got[c] = "waiting" /\ Tell(c, "gone") /\ UNCHANGED serving

Serve(c) == serving = Nobody /\ serving' = c /\ UNCHANGED got

\* Who has left is told nothing.
Finish(c) ==
    /\ serving = c /\ serving' = Nobody
    /\ IF got[c] = "waiting" THEN \E what \in {"answer", "error"} : Tell(c, what)
       ELSE UNCHANGED got

CallsNext ==
    \E c \in Calls :
        Ask(c) \/ RefuseCall(c) \/ BreakOff(c) \/ Leave(c) \/ Serve(c) \/ Finish(c)

CallsSpec == CallsInit /\ [][CallsNext]_callsVars

=============================================================================
