--------------------------- MODULE AcpSessions ---------------------------
(***************************************************************************)
(* The ACP agent on stdio (src/acp/server.rs, src/acp/map.rs): a bounded   *)
(* table of sessions, and prompts that run the engine once each while      *)
(* their updates are forwarded to the client.                              *)
(*                                                                         *)
(* session/new and session/cancel are handled where they arrive;           *)
(* session/prompt is spawned, so a cancellation that arrives after it may  *)
(* be handled before it.  A slot holds the RunCancel of the last prompt    *)
(* that took its turn in the session.  What the engine does is AgentRun.   *)
(*                                                                         *)
(* Assumed: the client stays connected (the agent exits on end of input).  *)
(***************************************************************************)
EXTENDS Naturals, Sequences, FiniteSets, SequencesExt

CONSTANTS
    MaxCreated,   \* bound: sessions created
    MaxPrompts,   \* bound: prompts sent
    MaxSessions,  \* MAX_ACTIVE_SESSIONS
    MaxUpdates    \* bound: the updates of a run, its usage summary aside

ASSUME AcpAssumption ==
    /\ MaxSessions \in Nat \ {0}
    /\ MaxCreated \in Nat /\ MaxPrompts \in Nat /\ MaxUpdates \in Nat

\* session_seq numbers the sessions; prompts are numbered as they arrive.
Sessions == 1..MaxCreated
Prompts == 1..MaxPrompts
NoPrompt == 0

VARIABLES
    slots,      \* the sessions of the table
    held,       \* the prompt whose RunCancel is in the slot of each session
    recent,     \* the sessions created so far, in the order of touched_seq
    phase,      \* where handle_prompt is for each prompt
    of,         \* the session each prompt names
    uses,       \* the prompt whose RunCancel each prompt runs with
    fired,      \* the prompts whose RunCancel is cancelled
    sent,       \* the events of the run, in order
    forwarded,  \* how many of them were sent on as session/update
    forwarder,  \* the forwarding task: on or broken
    verdict,    \* what run_agent_prompt returned and is not answered yet;
                \* an Err answers as an Error
    answer,     \* the stop reason of the PromptResponse, "none" before it
    shared,     \* history: another prompt of the session was outstanding
    heard,      \* history: cancelled in its session while it had its turn
    due         \* history: the deadline of the run of this prompt came

table == <<slots, held, recent>>
updates == <<sent, forwarded, forwarder>>
turnHistory == <<shared, heard, due>>
acpVars == <<table, phase, of, uses, fired, updates, verdict, answer, turnHistory>>

Turn == {"taken", "running", "returned"}
Outstanding(p) == phase[p] \in Turn \cup {"queued"}

AcpTypeOK ==
    /\ slots \subseteq Sessions
    /\ held \in [Sessions -> Prompts \cup {NoPrompt}]
    /\ recent \in Seq(Sessions) /\ slots \subseteq ToSet(recent)
    /\ phase \in [Prompts -> Turn \cup {"unsent", "queued", "answered"}]
    /\ of \in [Prompts -> Sessions \cup {NoPrompt}]
    /\ uses \in [Prompts -> Prompts]
    /\ fired \subseteq Prompts
    /\ \A p \in Prompts :
         /\ \A i \in 1..Len(sent[p]) : sent[p][i] \in {"plain", "cut", "usage"}
         /\ forwarded[p] \in 0..Len(sent[p])
    /\ forwarder \in [Prompts -> {"on", "broken"}]
    /\ verdict \in [Prompts -> {"none", "GoalReached", "LimitReached", "Error"}]
    /\ answer \in [Prompts -> {"none", "Invalid", "EndTurn", "MaxTokens", "Refusal", "Cancelled"}]

AcpInit ==
    /\ slots = {} /\ held = [s \in Sessions |-> NoPrompt] /\ recent = << >>
    /\ phase = [p \in Prompts |-> "unsent"]
    /\ of = [p \in Prompts |-> NoPrompt]
    /\ uses = [p \in Prompts |-> p]
    /\ fired = {}
    /\ sent = [p \in Prompts |-> << >>] /\ forwarded = [p \in Prompts |-> 0]
    /\ forwarder = [p \in Prompts |-> "on"]
    /\ verdict = [p \in Prompts |-> "none"] /\ answer = [p \in Prompts |-> "none"]
    /\ shared = [p \in Prompts |-> FALSE] /\ heard = [p \in Prompts |-> FALSE]
    /\ due = [p \in Prompts |-> FALSE]

Moves(p, from, to) == phase[p] = from /\ phase' = [phase EXCEPT ![p] = to]

LastUse(s) == SelectLastInSeq(recent, LAMBDA o : o = s)

\* next_touch_seq is taken with the table locked: the newest number.
Touch(s) ==
    recent' = Append(IF LastUse(s) = 0 THEN recent ELSE RemoveAt(recent, LastUse(s)), s)

-----------------------------------------------------------------------------
(* session/new: insert and evict with the table locked.                    *)

LeastRecent(s) ==
    CHOOSE o \in slots \ {s} : \A x \in slots \ {s} : LastUse(o) <= LastUse(x)

\* The evicted slot takes its RunCancel along; the run goes on.
Inserted(s) ==
    IF Cardinality(slots \cup {s}) > MaxSessions
    THEN (slots \cup {s}) \ {LeastRecent(s)}
    ELSE slots \cup {s}

NewSession(s) ==
    /\ s = Len(recent) + 1
    /\ Touch(s)
    /\ slots' = Inserted(s)
    /\ UNCHANGED <<held, phase, of, uses, fired, updates, verdict, answer, turnHistory>>

-----------------------------------------------------------------------------
(* session/prompt: spawned, then handle_prompt.                            *)

\* A prompt may name a session that is unknown or was evicted.
Receive(p, s) ==
    /\ \A q \in Prompts : q < p => phase[q] # "unsent"
    /\ Moves(p, "unsent", "queued")
    /\ of' = [of EXCEPT ![p] = s]
    /\ LET rivals == {q \in Prompts \ {p} : of[q] = s /\ Outstanding(q)}
       IN  shared' = [q \in Prompts |->
                        shared[q] \/ q \in rivals \/ (q = p /\ rivals # {})]
    /\ UNCHANGED <<table, uses, fired, updates, verdict, answer, heard, due>>

RefuseUnknown(p) ==
    /\ of[p] \notin slots
    /\ Moves(p, "queued", "answered")
    /\ answer' = [answer EXCEPT ![p] = "Invalid"]
    /\ UNCHANGED <<table, of, uses, fired, updates, verdict, turnHistory>>

\* Faulty variant: the RunCancel of the previous turn is used again.
TakeTurnReuses(p) ==
    /\ of[p] \in slots
    /\ Moves(p, "queued", "taken")
    /\ LET kept == IF held[of[p]] = NoPrompt THEN p ELSE held[of[p]]
       IN  held' = [held EXCEPT ![of[p]] = kept] /\ uses' = [uses EXCEPT ![p] = kept]
    /\ Touch(of[p])
    /\ UNCHANGED <<slots, of, fired, updates, verdict, answer, turnHistory>>

\* A fresh RunCancel replaces the one in the slot, before the prompt is looked
\* at: also a prompt that is refused takes the slot from a running one.
TakeTurn(p) ==
    /\ of[p] \in slots
    /\ Moves(p, "queued", "taken")
    /\ held' = [held EXCEPT ![of[p]] = p]
    /\ uses' = [uses EXCEPT ![p] = p]
    /\ Touch(of[p])
    /\ UNCHANGED <<slots, of, fired, updates, verdict, answer, turnHistory>>

\* No text, no project root, or no such agent.
RefuseInvalid(p) ==
    /\ Moves(p, "taken", "answered")
    /\ answer' = [answer EXCEPT ![p] = "Invalid"]
    /\ UNCHANGED <<table, of, uses, fired, updates, verdict, turnHistory>>

StartRun(p) ==
    /\ Moves(p, "taken", "running")
    /\ UNCHANGED <<table, of, uses, fired, updates, verdict, answer, turnHistory>>

\* The events of the run: a "cut" one is a ToolFinish whose preview would end
\* inside a character, every other one is "plain".
Emit(p) ==
    /\ phase[p] = "running" /\ Len(sent[p]) < MaxUpdates
    /\ \E e \in {"plain", "cut"} : sent' = [sent EXCEPT ![p] = Append(@, e)]
    /\ UNCHANGED <<table, phase, of, uses, fired, forwarded, forwarder, verdict, answer, turnHistory>>

\* A run that reached its goal or a limit closes its stream with its usage
\* (RunContract).  The return drops the sender.
RunReturns(p) ==
    /\ Moves(p, "running", "returned")
    /\ \E v \in {"GoalReached", "LimitReached", "Error"} :
         /\ verdict' = [verdict EXCEPT ![p] = v]
         /\ sent' = IF v \in {"GoalReached", "LimitReached"}
                    THEN [sent EXCEPT ![p] = Append(@, "usage")] ELSE sent
    /\ UNCHANGED <<table, of, uses, fired, forwarded, forwarder, answer, turnHistory>>

Waiting(p) == forwarder[p] = "on" /\ forwarded[p] < Len(sent[p])

Forward(p) ==
    /\ Waiting(p) /\ sent[p][forwarded[p] + 1] # "cut"
    /\ forwarded' = [forwarded EXCEPT ![p] = @ + 1]
    /\ UNCHANGED <<table, phase, of, uses, fired, sent, forwarder, verdict, answer, turnHistory>>

\* json_preview slices at byte 4000: inside a character that is a panic, which
\* ends the forwarding task.  What the run emits from then on is ignored.
ForwarderPanics(p) ==
    /\ Waiting(p) /\ sent[p][forwarded[p] + 1] = "cut"
    /\ forwarder' = [forwarder EXCEPT ![p] = "broken"]
    /\ UNCHANGED <<table, phase, of, uses, fired, sent, forwarded, verdict, answer, turnHistory>>

\* Faulty variant: the answer waits for the updates, not for the task.
ForwarderCounted(p) == forwarded[p] = Len(sent[p])

\* forward.await: the task ends with the channel, or with its panic.
ForwarderEnded(p) == ~Waiting(p)

StopReason(p) ==
    IF uses[p] \in fired THEN "Cancelled"
    ELSE IF verdict[p] = "GoalReached" THEN "EndTurn"
    ELSE IF verdict[p] = "LimitReached" THEN "MaxTokens" ELSE "Refusal"

\* is_cancelled is read after the run and its updates.  A cancellation between
\* that and the response is one that came after the response.
Respond(p) ==
    /\ ForwarderEnded(p)
    /\ Moves(p, "returned", "answered")
    /\ answer' = [answer EXCEPT ![p] = StopReason(p)]
    /\ verdict' = [verdict EXCEPT ![p] = "none"]
    /\ UNCHANGED <<table, of, uses, fired, updates, turnHistory>>

-----------------------------------------------------------------------------
(* session/cancel and the deadline of a run.                               *)

CancelSession(s) ==
    /\ s \in slots
    /\ fired' = fired \cup ({held[s]} \ {NoPrompt})
    /\ heard' = [p \in Prompts |->
                   heard[p] \/ (of[p] = s /\ phase[p] \in Turn)]
    /\ UNCHANGED <<table, phase, of, uses, updates, verdict, answer, shared, due>>

DeadlineFires(p) ==
    /\ phase[p] \in {"running", "returned"} /\ uses[p] \notin fired
    /\ fired' = fired \cup {uses[p]}
    /\ due' = [due EXCEPT ![p] = TRUE]
    /\ UNCHANGED <<table, phase, of, uses, updates, verdict, answer, shared, heard>>

-----------------------------------------------------------------------------

PromptStep(p) ==
    \/ RefuseUnknown(p) \/ TakeTurn(p) \/ StartRun(p)
    \/ Respond(p)

ForwarderStep(p) == Forward(p) \/ ForwarderPanics(p)

AcpNext ==
    \/ \E s \in Sessions : NewSession(s) \/ CancelSession(s)
    \/ \E p \in Prompts :
         \/ \E s \in Sessions : Receive(p, s)
         \/ PromptStep(p) \/ RefuseInvalid(p)
         \/ Emit(p) \/ RunReturns(p) \/ ForwarderStep(p) \/ DeadlineFires(p)

\* Tokio schedules the handler, the forwarder and the sleeper.  Of a run only
\* this is assumed: it returns once its token is cancelled (Termination of
\* AgentRun).
AcpFairness ==
    \A p \in Prompts :
        /\ WF_acpVars(PromptStep(p)) /\ WF_acpVars(ForwarderStep(p))
        /\ WF_acpVars(DeadlineFires(p))
        /\ WF_acpVars(uses[p] \in fired /\ RunReturns(p))

AcpSpec == AcpInit /\ [][AcpNext]_acpVars /\ AcpFairness

-----------------------------------------------------------------------------
(* Properties.                                                             *)

\* A prompt is answered Cancelled only if the client cancelled its session
\* during its own turn, or its own deadline came: nothing is left over from
\* the turns before it.
CancelledHasCause ==
    \A p \in Prompts : answer[p] = "Cancelled" => heard[p] \/ due[p]

\* A cancellation that finds the only outstanding prompt of its session at
\* work is what that prompt is answered with, whatever its run returns.
CancelIsAnswered ==
    \A p \in Prompts :
        heard[p] /\ ~shared[p] => answer[p] \in {"none", "Cancelled", "Invalid"}

\* The updates of a turn come before its answer, all of them, unless the
\* forwarding task has failed.
UpdatesBeforeAnswer ==
    \A p \in Prompts :
        phase[p] = "answered" /\ forwarder[p] = "on" =>
            forwarded[p] = Len(sent[p])

\* The table is bounded, and a session is forgotten only for sessions that
\* were all used after it (evict_lru_session_if_needed).
ForgottenIsOldest ==
    /\ Cardinality(slots) <= MaxSessions
    /\ \A s \in ToSet(recent) \ slots, o \in slots : LastUse(s) < LastUse(o)

\* What the table and the turns keep at every await (handle_prompt).
TableInv ==
    /\ AcpTypeOK /\ ForgottenIsOldest
    /\ CancelledHasCause /\ CancelIsAnswered /\ UpdatesBeforeAnswer

\* Every prompt is answered, a failed forwarding task included.
PromptsAnswered == \A p \in Prompts : phase[p] = "queued" ~> phase[p] = "answered"

\* CONTRACT.md, stream contract: each completed ACP prompt emits a final
\* agent message with token count and known cost.
UsageIsAnnounced ==
    \A p \in Prompts : phase[p] = "answered" /\ answer[p] \in {"EndTurn", "MaxTokens"} =>
        \E i \in 1..forwarded[p] : sent[p][i] = "usage"

=============================================================================
