---------------------------- MODULE RunServices ----------------------------
(***************************************************************************)
(* Model checking of what surrounds the engine: the chain of handlers of a *)
(* stage, the audit file its rows go to, and two hosts that start runs,    *)
(* the Studio and the A2A server.  They meet only through the engine, by   *)
(* what RunContract promises of it: a behaviour is one of them, the others *)
(* do not begin, and nothing that one of them owes is enabled before.      *)
(***************************************************************************)
EXTENDS EventMcp, AuditSink, StudioJobs, A2aTasks

VARIABLE service  \* the one that runs

serviceVars == <<chainVars, auditVars, studioVars, taskVars, service>>

ServicesInit ==
    /\ service \in {"chain", "sink", "studio", "a2a"}
    /\ ChainInit
    /\ service # "chain" => ~runToken /\ current = CHOOSE p \in Payloads : TRUE
    /\ SinkInit /\ StudioInit /\ TasksInit

ServicesNext ==
    \/ service = "chain" /\ ChainNext
       /\ UNCHANGED <<auditVars, studioVars, taskVars, service>>
    \/ service = "sink" /\ SinkNext
       /\ UNCHANGED <<chainVars, studioVars, taskVars, service>>
    \/ service = "studio" /\ StudioNext
       /\ UNCHANGED <<chainVars, auditVars, taskVars, service>>
    \/ service = "a2a" /\ TasksNext
       /\ UNCHANGED <<chainVars, auditVars, studioVars, service>>

ServicesSpec ==
    /\ ServicesInit /\ [][ServicesNext]_serviceVars
    /\ ChainFairness /\ SinkFairness /\ StudioFairness /\ TasksFairness

=============================================================================
