---------------------------- MODULE Conversation ----------------------------
(***************************************************************************)
(* What a run says to the model and what it keeps of it: the seed of the   *)
(* conversation and the attached files (context.rs, engine.rs              *)
(* initial_messages), the reply parsed into a directive (directive.rs), the*)
(* window sent to the provider and the history kept for the transcript,    *)
(* both pruned (history.rs), the slot of pinned files that is refreshed    *)
(* every turn (engine.rs upsert_pinned_message), and the transcript on     *)
(* disk, from which a later run resumes (logging/chat_history.rs).         *)
(* Why a run stops is the subject of AgentRun: here it may stop wherever   *)
(* the loop looks.  A message is its role, its origin, the number of the   *)
(* thing it says and its length in characters.                             *)
(***************************************************************************)
EXTENDS Naturals, Sequences, SequencesExt

CONSTANTS
    MaxTail,      \* provider.history.max_tail_messages
    MaxChars,     \* provider.history.max_chars
    FileLimit,    \* MAX_INPUT_FILE_CHARS of context.rs
    MaxSaid,      \* bound on the things said
    MaxRuns       \* bound on the runs

ASSUME ConversationAssumption ==
    MaxTail \in Nat \ {0} /\ MaxChars \in Nat \ {0} /\ FileLimit \in Nat

VARIABLES
    messages,    \* the window of the run
    history,     \* full_history: what the run will write to the transcript
    transcript,  \* chat_history.json: absent, torn or its messages
    turn,        \* where the run is: its stage, calls left, pinned files or not
    memo,        \* the length of the pinned files in the home
    said,        \* ghost: everything said in this conversation
    kept,        \* ghost: what had been said when the transcript was written
    spoken,      \* how many things have been said
    runs         \* how many runs have started

conversationVars ==
    <<messages, history, transcript, turn, memo, said, kept, spoken, runs>>

-----------------------------------------------------------------------------
(* Pruning: history.rs *)

Message(role, origin, n, size) == [role |-> role, origin |-> origin, n |-> n, size |-> size]
Prefix == 2
TotalSize(ms) ==
    LET upto[i \in 0 .. Len(ms)] == IF i = 0 THEN 0 ELSE upto[i - 1] + ms[i].size
    IN upto[Len(ms)]
WithoutOldest(ms, prefix, k) == SubSeq(ms, 1, prefix) \o SubSeq(ms, prefix + k + 1, Len(ms))

PrunedByCount(ms, prefix) ==
    IF Len(ms) <= prefix + MaxTail THEN ms
    ELSE WithoutOldest(ms, prefix, Len(ms) - prefix - MaxTail)

(* The loop of prune_by_char_budget: the oldest turns go one by one until   *)
(* the rest fits; a single one left is cut to what the prefix leaves, or    *)
(* goes too when it leaves nothing.                                         *)
PrunedByChars(ms, prefix) ==
    LET tail == Len(ms) - prefix
        fits(k) == TotalSize(WithoutOldest(ms, prefix, k)) <= MaxChars
        left == MaxChars - TotalSize(SubSeq(ms, 1, prefix))
    IN IF tail <= 0 THEN ms
       ELSE IF \E k \in 0..(tail - 1) : fits(k)
         THEN WithoutOldest(ms, prefix, CHOOSE k \in 0..(tail - 1) : fits(k) /\ \A j \in 0..(k - 1) : ~fits(j))
       ELSE IF left > 0 THEN Append(SubSeq(ms, 1, prefix), [Last(ms) EXCEPT !.size = left])
       ELSE SubSeq(ms, 1, prefix)

Pruned(ms, prefix) == PrunedByChars(PrunedByCount(ms, prefix), prefix)

(* push_message: both lists grow and the history is pruned; the caller      *)
(* prunes the window after the last of what it pushes                       *)
Recorded(ms, m) == Pruned(Append(ms, m), Prefix)
Push(m) ==
    /\ messages' = Pruned(Append(messages, m), Prefix + (IF turn.pinned THEN 1 ELSE 0))
    /\ history' = Recorded(history, m)
    /\ said' = Append(said, m)
    /\ spoken' = spoken + 1
PushBoth(m, next) ==
    /\ messages' = Pruned(messages \o <<m, next>>, Prefix + (IF turn.pinned THEN 1 ELSE 0))
    /\ history' = Recorded(Recorded(history, m), next)
    /\ said' = said \o <<m, next>>
    /\ spoken' = spoken + 2

-----------------------------------------------------------------------------
(* The attached files: context.rs build_input_files_context *)

(* Paths given with --files: the file each leads to, its length, and        *)
(* whether it is within the input roots and readable as text.               *)
Paths == [plain  |-> [file |-> "a", size |-> 1, allowed |-> TRUE, text |-> TRUE],
          linked |-> [file |-> "a", size |-> 1, allowed |-> TRUE, text |-> TRUE],
          long   |-> [file |-> "b", size |-> FileLimit + 5, allowed |-> TRUE, text |-> TRUE],
          away   |-> [file |-> "c", size |-> 1, allowed |-> FALSE, text |-> TRUE],
          binary |-> [file |-> "d", size |-> 1, allowed |-> TRUE, text |-> FALSE]]

Readable(paths) == \A i \in DOMAIN paths : Paths[paths[i]].allowed /\ Paths[paths[i]].text

(* A long file is cut; one that an earlier path led to adds nothing. *)
Sections(paths) ==
    [i \in DOMAIN paths |->
        LET path == Paths[paths[i]] IN
        [size |-> IF \E j \in 1 .. i - 1 : Paths[paths[j]].file = path.file THEN 0
                  ELSE IF path.size > FileLimit THEN FileLimit ELSE path.size]]

GoalSize(prompt, paths) == prompt + TotalSize(Sections(paths))

-----------------------------------------------------------------------------
(* A reply of the model: directive.rs parse_directive *)

(* writes: for each tool call that is a home.write, where its text is; rest:*)
(* what follows the JSON object.                                            *)
Replies ==
    [object : {TRUE}, writes : {<<>>, <<"content">>, <<"raw">>, <<"raw", "raw">>, <<"both">>, <<"odd">>},
     others : 0..1, rest : {"nothing", "text", "file", "file cut off"}, done : BOOLEAN]
    \cup [object : {FALSE}, writes : {<<>>}, others : {0}, rest : {"nothing"}, done : {FALSE}]

RawWrites(reply) == SelectSeq(reply.writes, LAMBDA w : w = "raw")

(* attach_raw_body: one raw write takes the file after the object; without  *)
(* one nothing may follow it.                                               *)
Accepted(reply) ==
    /\ reply.object
    /\ \A i \in DOMAIN reply.writes : reply.writes[i] \notin {"both", "odd"}
    /\ \/ RawWrites(reply) = <<>> /\ reply.rest = "nothing"
       \/ Len(RawWrites(reply)) = 1 /\ reply.rest = "file"

CallCount(reply) == Len(reply.writes) + reply.others

-----------------------------------------------------------------------------
(* The run *)

Ready == turn.stage = "none"
Stage(s) == turn' = [turn EXCEPT !.stage = s]

ResumeReads == transcript.state = "whole" /\ transcript.messages # <<>>

(* engine.rs initial_messages and apply_current_system_prompt *)
Seeded(system, goal, resumed) ==
    IF resumed = <<>> THEN <<system, goal>>
    ELSE LET base == IF resumed[1].role = "system" THEN [resumed EXCEPT ![1] = system]
                     ELSE <<system>> \o resumed
         IN IF goal.size = 0 THEN base ELSE Append(base, goal)

(* A run starts, fresh or from the transcript; its prompt is optional then. *)
(* A file that may not be read refuses the run before anything is said.     *)
StartRun(resume, prompt, paths, pinned) ==
    LET system == Message("system", "system", runs + 1, 1)
        size == IF prompt = 0 THEN 0 ELSE GoalSize(prompt, paths)
        goal == Message("user", "goal", spoken + 1, size)
    IN
    /\ Ready /\ runs < MaxRuns /\ spoken < MaxSaid
    /\ Readable(paths)
    /\ IF resume THEN ResumeReads ELSE prompt > 0
    /\ messages' = Seeded(system, goal, IF resume THEN transcript.messages ELSE <<>>)
    /\ history' = messages'
    /\ said' = (IF resume THEN kept ELSE <<>>) \o (IF size = 0 THEN <<>> ELSE <<goal>>)
    /\ spoken' = spoken + (IF size = 0 THEN 0 ELSE 1)
    /\ turn' = [stage |-> "top", calls |-> 0, done |-> FALSE, pinned |-> pinned, first |-> TRUE]
    /\ runs' = runs + 1
    /\ UNCHANGED <<transcript, memo, kept>>

(* The agent or somebody else rewrites a pinned file *)
WriteMemo(size) ==
    /\ turn.stage = "asked" /\ turn.pinned
    /\ memo # size /\ memo' = size
    /\ UNCHANGED <<messages, history, transcript, turn, said, kept, spoken, runs>>

(* engine.rs upsert_pinned_message: replace the slot or make room for it.   *)
(* insert(2) needs two messages to be there.                                *)
(* Inserted is the mistake of making room every turn.                       *)
Inserted(ms, m) == SubSeq(ms, 1, Prefix) \o <<m>> \o SubSeq(ms, Prefix + 1, Len(ms))

PinnedPut(ms, m) ==
    IF Len(ms) > Prefix /\ ms[Prefix + 1].origin = "pinned" THEN [ms EXCEPT ![Prefix + 1] = m]
    ELSE SubSeq(ms, 1, Prefix) \o <<m>> \o SubSeq(ms, Prefix + 1, Len(ms))

Refreshed ==
    IF turn.pinned THEN PinnedPut(messages, Message("user", "pinned", 0, memo)) ELSE messages

(* The top of the loop: the slot is refreshed and the provider is asked.    *)
(* What the handlers of context.before_model make of the window is a copy.  *)
Ask ==
    /\ turn.stage = "top" /\ spoken < MaxSaid
    /\ messages' = Refreshed
    /\ Stage("asked")
    /\ UNCHANGED <<history, transcript, memo, said, kept, spoken, runs>>

(* A reply that does not parse is replaced by a note and answered *)
ReplyRejected(reply) ==
    /\ turn.stage = "asked" /\ ~Accepted(reply)
    /\ PushBoth(Message("assistant", "rejected", spoken + 1, 1), Message("user", "error", spoken + 2, 1))
    /\ turn' = [turn EXCEPT !.stage = "top", !.first = FALSE]
    /\ UNCHANGED <<transcript, memo, kept, runs>>

(* The JSON object enters the history, a raw file after it does not *)
ReplyAccepted(reply, size) ==
    LET m == Message("assistant", "directive", spoken + 1, size) IN
    /\ turn.stage = "asked" /\ Accepted(reply)
    /\ messages' = Append(messages, m)
    /\ history' = Recorded(history, m)
    /\ said' = Append(said, m) /\ spoken' = spoken + 1
    /\ turn' = [turn EXCEPT !.stage = "calls", !.calls = CallCount(reply), !.done = reply.done, !.first = FALSE]
    /\ UNCHANGED <<transcript, memo, kept, runs>>

CallAnswered(size) ==
    /\ turn.stage = "calls" /\ turn.calls > 0
    /\ Push(Message("user", "result", spoken + 1, size))
    /\ turn' = [turn EXCEPT !.calls = @ - 1]
    /\ UNCHANGED <<transcript, memo, kept, runs>>

TurnOver ==
    /\ turn.stage = "calls" /\ turn.calls = 0 /\ ~turn.done
    /\ messages' = Pruned(messages, Prefix + (IF turn.pinned THEN 1 ELSE 0))
    /\ Stage("top")
    /\ UNCHANGED <<history, transcript, memo, said, kept, spoken, runs>>

(* A limit, a cancellation, a failure of the provider or a handler, or the  *)
(* done flag ends the run, which writes its transcript: fs::write truncates *)
(* the old one first.                                                       *)
RunOver ==
    /\ turn.stage \in {"top", "asked"} \/ (turn.stage = "calls" /\ (turn.calls > 0 \/ turn.done))
    /\ messages' = <<>>
    /\ transcript' = [state |-> "torn", messages |-> <<>>]
    /\ Stage("writing")
    /\ UNCHANGED <<history, memo, said, kept, spoken, runs>>

TranscriptWritten ==
    /\ turn.stage = "writing"
    /\ transcript' = [state |-> "whole", messages |-> history]
    /\ kept' = said
    /\ history' = <<>> /\ said' = <<>>
    /\ Stage("none")
    /\ UNCHANGED <<messages, memo, spoken, runs>>

(* The process is killed *)
RunKilled ==
    /\ ~Ready
    /\ messages' = <<>> /\ history' = <<>> /\ said' = <<>>
    /\ Stage("none")
    /\ UNCHANGED <<transcript, memo, kept, spoken, runs>>

ConversationInit ==
    /\ messages = <<>> /\ history = <<>>
    /\ transcript = [state |-> "absent", messages |-> <<>>]
    /\ turn = [stage |-> "none", calls |-> 0, done |-> FALSE, pinned |-> FALSE, first |-> FALSE]
    /\ memo = 1
    /\ said = <<>> /\ kept = <<>> /\ spoken = 0 /\ runs = 0

ConversationNext ==
    \/ \E resume \in BOOLEAN, prompt \in 0..1, pinned \in BOOLEAN,
          paths \in {<<>>, <<"plain", "linked">>, <<"long">>, <<"away">>, <<"binary">>} :
          StartRun(resume, prompt, paths, pinned)
    \/ \E size \in {1, 3} : WriteMemo(size) \/ CallAnswered(size)
    \/ Ask \/ TurnOver \/ RunOver \/ TranscriptWritten \/ RunKilled
    \/ \E reply \in Replies : ReplyRejected(reply) \/ ReplyAccepted(reply, 1)

ConversationSpec == ConversationInit /\ [][ConversationNext]_conversationVars

-----------------------------------------------------------------------------
(* Properties *)

(* m stands for s: the same message, its end possibly cut off *)
IsCutOf(m, s) == [m EXCEPT !.size = 0] = [s EXCEPT !.size = 0] /\ m.size <= s.size

(* ms holds the end of what was said, in order and without a gap *)
IsTailOf(ms, all) ==
    /\ Len(ms) <= Len(all)
    /\ \A i \in DOMAIN ms : IsCutOf(ms[i], all[Len(all) - Len(ms) + i])

(* The window the provider is asked with begins with the system prompt of   *)
(* this run and the goal the conversation began with, then has one pinned   *)
(* slot with the present text when files are pinned and none otherwise, and *)
(* then the end of what was said without a gap: through pruning, resuming   *)
(* and crashes.                                                             *)
WindowSound ==
    turn.stage = "asked" =>
        LET fixed == Prefix + (IF turn.pinned THEN 1 ELSE 0) IN
        /\ messages[1].origin = "system" /\ messages[1].n = runs
        /\ messages[2] = said[1]
        /\ turn.pinned => messages[3].origin = "pinned"
        /\ IsTailOf(SubSeq(messages, fixed + 1, Len(messages)), Tail(said))

(* From the second request of a run on the window keeps to the history      *)
(* budget, the slot of the pinned files aside, unless its prefix alone      *)
(* exceeds it.                                                              *)
WindowFits ==
    (turn.stage = "asked" /\ ~turn.first) =>
        /\ Len(messages) <= Prefix + MaxTail + (IF turn.pinned THEN 1 ELSE 0)
        /\ \/ TotalSize(messages) - (IF turn.pinned THEN messages[3].size ELSE 0) <= MaxChars
           \/ TotalSize(SubSeq(messages, 1, Prefix)) > MaxChars

(* A transcript that can be read begins with a system prompt and the goal   *)
(* of its conversation and holds the end of what was said without a gap; it *)
(* holds the last thing said unless the prefix takes the whole budget.      *)
TranscriptSound ==
    transcript.state = "whole" =>
        LET ms == transcript.messages IN
        /\ Len(ms) >= Prefix /\ ms[1].origin = "system" /\ ms[2] = kept[1]
        /\ IsTailOf(SubSeq(ms, Prefix + 1, Len(ms)), Tail(kept))
        /\ \/ Len(ms) > Prefix \/ Len(kept) = 1
           \/ TotalSize(ms) >= MaxChars

ConversationSound == WindowSound /\ WindowFits /\ TranscriptSound
=============================================================================
