--------------------------- MODULE RunContract ---------------------------
(***************************************************************************)
(* What one agent run promises to whoever started it: the CLI, an ACP      *)
(* client, an A2A executor or the Studio.  The caller sees a stream of     *)
(* AgentEvents and, at the end, one RunOutput.                             *)
(*                                                                         *)
(*   - tool calls are announced one at a time and each announced call is   *)
(*     finished before the next one, or the end, is announced;             *)
(*   - a run that ends with a verdict other than Error closes its stream   *)
(*     with a usage summary, a run that ends with Error closes it silently *)
(*     (src/agent/loop/engine.rs, run and run_inner);                      *)
(*   - the verdict is given once and nothing is announced after it.        *)
(*                                                                         *)
(* AgentRun implements this specification.                                 *)
(***************************************************************************)

VARIABLES
    stream,     \* "live", or how the event stream was closed
    callOpen,   \* a ToolStart was sent and its ToolFinish was not
    verdict     \* RunOutput.stop_reason, "none" until the run returns

contractVars == <<stream, callOpen, verdict>>

ContractInit ==
    /\ stream = "live"
    /\ callOpen = FALSE
    /\ verdict = "none"

OpenCall ==
    /\ stream = "live"
    /\ ~callOpen
    /\ callOpen' = TRUE
    /\ UNCHANGED <<stream, verdict>>

CloseCall ==
    /\ stream = "live"
    /\ callOpen
    /\ callOpen' = FALSE
    /\ UNCHANGED <<stream, verdict>>

Conclude ==
    /\ stream = "live"
    /\ ~callOpen
    /\ stream' = "summarised"
    /\ verdict' \in {"GoalReached", "LimitReached"}
    /\ UNCHANGED callOpen

Abandon ==
    /\ stream = "live"
    /\ ~callOpen
    /\ stream' = "abandoned"
    /\ verdict' = "Error"
    /\ UNCHANGED callOpen

ContractNext == OpenCall \/ CloseCall \/ Conclude \/ Abandon

ContractSpec == ContractInit /\ [][ContractNext]_contractVars

==========================================================================
