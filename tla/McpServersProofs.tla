-------------------------- MODULE McpServersProofs --------------------------
(***************************************************************************)
(* Theorems about the clients of MCP servers.                              *)
(*                                                                         *)
(* McpActor, for any calls, channel and pipe: ActorInv, and that the actor *)
(* implements McpCalls.  The framing argument is a count: a rest of a      *)
(* frame without its head (Orphan) is owed to one timeout, and spoils one  *)
(* request.  It needs the order of the pieces in the pipe (FrameShape) and *)
(* that no call is served twice (ServedOnce).                              *)
(*                                                                         *)
(* McpHttp, for any processes, calls and grants: RetriesSound.  How often  *)
(* a tool can have run follows from the frame of the call (Ran, Framed);   *)
(* that a rejected token is not sent again follows from the numbers of the *)
(* grants: none is known before it is made (Known).                        *)
(*                                                                         *)
(* SseStream, for any stream, chunks and limit: EventsWhateverChunks.      *)
(* Between two events the block that the parser would take next and the    *)
(* reference grow alike (Quietly); where a blank line ends an event both   *)
(* begin again (EventEnds).  What is kept between two chunks is the text   *)
(* from the last such place on (Kept), so the loop of push() goes from one *)
(* such place to the next (DrainSound).                                    *)
(***************************************************************************)
EXTENDS McpServers, FiniteSetTheorems, WellFoundedInduction, TLAPS

AtWork == {"writing", "reading"}

\* Each call passes the channel at most once, and is served at most once.
ServedOnce ==
    /\ \A i \in 1..Len(queue) :
          queue[i] # serving /\ queue[i] \notin expired \cup garbled
    /\ \A i, j \in 1..Len(queue) : queue[i] = queue[j] => i = j
    /\ \A c \in Calls : caller[c] \in {"idle", "sending"} =>
          /\ \A i \in 1..Len(queue) : queue[i] # c
          /\ c # serving /\ c \notin expired \cup garbled
    /\ actor \in AtWork => serving \in Calls /\ serving \notin expired \cup garbled
    /\ actor \notin AtWork \cup {"gone"} => serving = Nobody

\* The rest of a frame comes right after its head, and is still to come while the
\* child is at it.
FrameShape ==
    /\ \A i \in 2..Len(stdout) : stdout[i].part = "tail" => stdout[i - 1].part = "head"
    /\ half # Nobody /\ stdout # <<>> => stdout[Len(stdout)].part = "head"
    /\ partial => actor \in {"reading", "gone"}

\* The rest of a frame whose head was dropped will be read.
Orphan ==
    /\ ~partial
    /\ IF stdout = <<>> THEN half # Nobody /\ child = "up" ELSE stdout[1].part = "tail"

SpoiltCount ==
    /\ IsFiniteSet(expired) /\ IsFiniteSet(garbled)
    /\ Cardinality(garbled) + (IF Orphan THEN 1 ELSE 0) <= Cardinality(expired)

\* From the start of the server to its end.
Lifecycle ==
    /\ registry = "connecting" => child = "none" /\ actor = "none"
    /\ child = "none" => half = Nobody /\ stdout = <<>>
    /\ actor = "killing" => child = "killed"
    /\ late \in {0, 1} /\ (late = 1 => token /\ actor # "checked")

ActorIndInv == ActorInv /\ ServedOnce /\ FrameShape /\ SpoiltCount /\ Lifecycle

-----------------------------------------------------------------------------
(* Types.                                                                  *)

\* What the ends of a sequence are, and the lengths.
LEMMA SeqFacts ==
    ASSUME NEW S, NEW s \in Seq(S)
    PROVE  /\ Len(s) \in Nat
           /\ \A i \in 1..Len(s) : s[i] \in S
           /\ \A x \in S : /\ Append(s, x) \in Seq(S) /\ Len(Append(s, x)) = Len(s) + 1
                           /\ Append(s, x)[Len(s) + 1] = x
                           /\ \A i \in 1..Len(s) : Append(s, x)[i] = s[i]
           /\ s # <<>> => /\ Len(s) > 0 /\ Head(s) \in S /\ Head(s) = s[1]
                          /\ Tail(s) \in Seq(S) /\ Len(Tail(s)) = Len(s) - 1
                          /\ \A i \in 1..(Len(s) - 1) : Tail(s)[i] = s[i + 1]
OBVIOUS

\* The steps that end in an answer of the actor.
Replies == WriteFails \/ ReadPiece \/ ReadsEof \/ WaitTimesOut

\* What Reply leaves, for a result that is a refusal or the call it serves.
LEMMA ReplyTypes ==
    ASSUME ActorTypeOK, serving \in Calls, NEW result \in Refusals \cup {serving}, Reply(result)
    PROVE  /\ caller' \in [Calls -> {"idle", "sending", "queued", "done", "abandoned"}]
           /\ outcome' \in [Calls -> Calls \cup Refusals]
           /\ MatchedReply => MatchedReply'
<1> USE DEF ActorTypeOK
<1>1. CASE caller[serving] = "queued"
  <2>1. /\ caller' = [caller EXCEPT ![serving] = "done"]
        /\ outcome' = [outcome EXCEPT ![serving] = result]
    BY <1>1 DEF Reply, Settled
  <2>2. result \in Calls \cup Refusals /\ (result \in Calls => result = serving)
    BY RefusalsAssumption
  <2> QED
    BY <2>1, <2>2 DEF MatchedReply
<1>2. CASE caller[serving] # "queued"
  BY <1>2 DEF Reply, callers, MatchedReply
<1> QED
  BY <1>1, <1>2

\* What a piece of a frame makes of the request that is served: an answer to it,
\* a failure, or nothing.
LEMMA PieceRead ==
    ASSUME ActorTypeOK, ServedOnce, ReadPiece
    PROVE  /\ actor = "reading" /\ serving \in Calls /\ stdout # <<>> /\ stdout' = Tail(stdout)
           /\ UNCHANGED <<queue, token, registry, child, stdin, todo, half, expired, late>>
           /\ \/ /\ stdout[1].part = "whole" \/ (stdout[1].part = "tail" /\ partial)
                 /\ Reply(serving) /\ UNCHANGED garbled
              \/ /\ stdout[1].part = "whole" \/ (stdout[1].part = "tail" /\ partial)
                 /\ partial' = FALSE /\ UNCHANGED <<callers, actor, serving, garbled>>
              \/ /\ stdout[1].part = "tail" /\ ~partial
                 /\ Reply("failed") /\ garbled' = garbled \cup {serving}
              \/ /\ stdout[1].part = "head" /\ partial' = TRUE
                 /\ UNCHANGED <<callers, actor, serving, garbled>>
<1>1. actor = "reading" /\ serving \in Calls /\ stdout # <<>> /\ stdout' = Tail(stdout)
  BY DEF ReadPiece, ServedOnce, AtWork
<1>2. Head(stdout) = stdout[1]
  BY <1>1, SeqFacts DEF ActorTypeOK
<1>3. UNCHANGED <<queue, token, registry, child, stdin, todo, half, expired, late>>
  BY DEF ReadPiece, FrameOf, RestOfFrame, Reply, Settled
<1>4. CASE stdout[1].part = "tail" /\ ~partial
  BY <1>1, <1>2, <1>3, <1>4 DEF ReadPiece, RestOfFrame
<1>5. CASE ~(stdout[1].part = "tail" /\ ~partial) /\ partial' = TRUE /\ stdout[1].part = "head"
  BY <1>1, <1>2, <1>3, <1>5 DEF ReadPiece, callers
<1> QED
  BY <1>1, <1>2, <1>3, <1>4, <1>5 DEF ReadPiece, RestOfFrame, FrameOf, callers

\* The other replies are failures and timeouts.
LEMMA OtherReplies ==
    ASSUME ActorTypeOK, ServedOnce, WriteFails \/ ReadsEof \/ WaitTimesOut
    PROVE  /\ actor \in AtWork /\ serving \in Calls
           /\ Reply("failed") \/ Reply("timeout")
           /\ UNCHANGED <<pipes, garbled, late>>
BY DEF WriteFails, ReadsEof, WaitTimesOut, ServedOnce, AtWork, clientHistory

\* What the child writes is appended to the pipe.
LEMMA WritesPieces ==
    ASSUME stdout \in Seq(Pieces), NEW c \in Calls, NEW piece \in {"whole", "head", "tail"},
           Writes(c, piece)
    PROVE  /\ stdout' \in Seq(Pieces) /\ Len(stdout') = Len(stdout) + 1
           /\ stdout'[Len(stdout) + 1].part = piece
           /\ \A i \in 1..Len(stdout) : stdout'[i] = stdout[i]
<1>1. [of |-> c, part |-> piece] \in Pieces
  BY DEF Pieces
<1> QED
  BY <1>1, SeqFacts DEF Writes

\* Types, and that an answer goes to the call it is for.
LEMMA ActorTypeStep ==
    ASSUME ActorTypeOK, MatchedReply, ServedOnce, ActorNext
    PROVE  ActorTypeOK' /\ MatchedReply'
<1> DEFINE Goal == ActorTypeOK' /\ MatchedReply'
<1> USE RefusalsAssumption, SizesAssumption
    DEF callers, actorVars, pipes, clientHistory, CallerOnly, ChildOnly
<1>1. CASE Connected
  BY <1>1 DEF Connected, ActorTypeOK, MatchedReply
<1>2. CASE Cancel \/ Close \/ JoinEnds \/ JoinTimesOut
  BY <1>2, ZenonT(30) DEF Cancel, Close, JoinEnds, JoinTimesOut, ActorTypeOK, MatchedReply
<1>3. CASE PollToken \/ CancelNoticed \/ NothingToTake \/ ChannelClosed
  BY <1>3 DEF PollToken, CancelNoticed, NothingToTake, ChannelClosed, ActorMoves,
     ActorTypeOK, MatchedReply
<1>4. CASE ChildReaped \/ GraceTimesOut \/ KillAwaited \/ RuntimeDropped
  BY <1>4 DEF ChildReaped, GraceTimesOut, KillAwaited, RuntimeDropped, ActorEnds,
     ActorTypeOK, MatchedReply
<1>5. CASE TakeRequest
  <2>1. queue' \in Seq(Calls) /\ Len(queue') <= QueueSize /\ serving' \in Calls
    BY <1>5, SeqFacts DEF TakeRequest, ActorTypeOK
  <2>2. late' \in Nat
    BY <1>5 DEF TakeRequest, ActorTypeOK
  <2> QED
    BY <1>5, <2>1, <2>2 DEF TakeRequest, ActorTypeOK, MatchedReply
<1>6. CASE WriteRequest
  <2>1. serving \in Calls
    BY <1>6 DEF WriteRequest, ServedOnce, AtWork
  <2>2. stdin' \in Seq(Calls) /\ Len(stdin') <= PipeRoom
    BY <1>6, <2>1, SeqFacts DEF WriteRequest, ActorTypeOK
  <2> QED
    BY <1>6, <2>2 DEF WriteRequest, ActorTypeOK, MatchedReply
<1>7. CASE WriteFails \/ ReadsEof \/ WaitTimesOut
  <2>1. expired' \subseteq Calls
    BY <1>7, OtherReplies DEF WriteFails, ReadsEof, WaitTimesOut, ActorTypeOK
  <2>2. /\ caller' \in [Calls -> {"idle", "sending", "queued", "done", "abandoned"}]
        /\ outcome' \in [Calls -> Calls \cup Refusals]
        /\ MatchedReply'
    <3>1. "failed" \in Refusals /\ "timeout" \in Refusals
      BY DEF Refusals
    <3> QED
      BY <1>7, <3>1, OtherReplies, ReplyTypes
  <2> QED
    BY <1>7, <2>1, <2>2, OtherReplies DEF Reply, ActorTypeOK
<1>8. CASE ReadPiece
  <2>1. stdout' \in Seq(Pieces)
    <3>1. stdout \in Seq(Pieces) /\ stdout # <<>> /\ stdout' = Tail(stdout)
      BY <1>8, PieceRead DEF ActorTypeOK
    <3> QED
      BY <3>1, SeqFacts
  <2>2. garbled' \subseteq Calls
    BY <1>8, PieceRead DEF ActorTypeOK
  <2>3. CASE Reply(serving) \/ Reply("failed")
    <3>1. /\ caller' \in [Calls -> {"idle", "sending", "queued", "done", "abandoned"}]
          /\ outcome' \in [Calls -> Calls \cup Refusals]
          /\ MatchedReply'
      <4>1. "failed" \in Refusals
        BY DEF Refusals
      <4> QED
        BY <1>8, <2>3, <4>1, PieceRead, ReplyTypes
    <3> QED
      BY <1>8, <2>1, <2>2, <2>3, <3>1, PieceRead DEF Reply, ActorTypeOK
  <2>4. CASE UNCHANGED <<caller, outcome, actor, serving, garbled>> /\ partial' \in BOOLEAN
    BY <1>8, <2>1, <2>4, PieceRead DEF ActorTypeOK, MatchedReply
  <2> QED
    BY <1>8, <2>3, <2>4, PieceRead
<1>9. ASSUME NEW c \in Calls, Issue(c) PROVE Goal
  BY <1>9, SMTT(30) DEF Issue, Settled, ActorTypeOK, MatchedReply, Refusals
<1>10. ASSUME NEW c \in Calls, Send(c) PROVE Goal
  <2>1. queue' \in Seq(Calls) /\ Len(queue') <= QueueSize
    BY <1>10, SeqFacts DEF Send, ActorTypeOK
  <2> QED
    BY <1>10, <2>1 DEF Send, ActorTypeOK, MatchedReply
<1>11. ASSUME NEW c \in Calls, CallerCancelled(c) \/ CallerClosedOut(c) PROVE Goal
  BY <1>11, SMTT(30) DEF CallerCancelled, CallerClosedOut, Settled, ActorTypeOK, MatchedReply, Refusals
<1>12. ASSUME NEW c \in Calls, Abandon(c) PROVE Goal
  BY <1>12 DEF Abandon, ActorTypeOK, MatchedReply
<1>13. ASSUME NEW c \in Calls, ChildAnswers(c) PROVE Goal
  <2>1. stdout' \in Seq(Pieces)
    BY <1>13, WritesPieces DEF ChildAnswers, ActorTypeOK
  <2> QED
    BY <1>13, <2>1 DEF ChildAnswers, ActorTypeOK, MatchedReply
<1>14. CASE ChildExits
  BY <1>14 DEF ChildExits, ActorTypeOK, MatchedReply
<1>15. CASE ChildReads
  <2>1. stdin' \in Seq(Calls) /\ Len(stdin') <= PipeRoom /\ todo' \subseteq Calls
    BY <1>15, SeqFacts DEF ChildReads, ActorTypeOK
  <2> QED
    BY <1>15, <2>1 DEF ChildReads, ActorTypeOK, MatchedReply
<1>16. CASE ChildFinishes
  <2>1. stdout' \in Seq(Pieces)
    BY <1>16, WritesPieces DEF ChildFinishes, ActorTypeOK
  <2> QED
    BY <1>16, <2>1 DEF ChildFinishes, ActorTypeOK, MatchedReply
<1> QED
  BY <1>1, <1>2, <1>3, <1>4, <1>5, <1>6, <1>7, <1>8, <1>9, <1>10, <1>11, <1>12,
     <1>13, <1>14, <1>15, <1>16 DEF ActorNext, ActorStep, CallerStep

-----------------------------------------------------------------------------
(* Each call is served once.                                               *)

\* After a reply the actor serves nobody, and the callers that are still to send
\* are those that were.
LEMMA ReplyServes ==
    ASSUME ActorTypeOK, ServedOnce, actor \in AtWork, NEW result, Reply(result)
    PROVE  /\ actor' = "listening" /\ serving' = Nobody /\ queue' = queue
           /\ \A c \in Calls : caller'[c] \in {"idle", "sending"} =>
                 caller[c] \in {"idle", "sending"}
BY DEF ActorTypeOK, Reply, Settled, callers

\* The channel keeps calls that are not served yet, each once.
LEMMA ServedStep ==
    ASSUME ActorTypeOK, ServedOnce, Lifecycle, ActorNext PROVE ServedOnce'
<1> USE DEF callers, actorVars, pipes, clientHistory, CallerOnly, ChildOnly, AtWork
<1>1. CASE Connected \/ PollToken \/ CancelNoticed \/ NothingToTake \/ ChannelClosed
  BY <1>1 DEF Connected, PollToken, CancelNoticed, NothingToTake, ChannelClosed, ActorMoves,
     ServedOnce, Lifecycle
<1>2. CASE Cancel \/ Close \/ JoinEnds \/ JoinTimesOut \/ ChildExits \/ ChildReads \/ ChildFinishes
  BY <1>2 DEF Cancel, Close, JoinEnds, JoinTimesOut, ChildExits, ChildReads, ChildFinishes, ServedOnce
<1>3. CASE ChildReaped \/ GraceTimesOut \/ KillAwaited \/ RuntimeDropped
  BY <1>3 DEF ChildReaped, GraceTimesOut, KillAwaited, RuntimeDropped, ActorEnds, ServedOnce
<1>4. CASE TakeRequest
  <2>1. /\ queue # <<>> /\ serving' = queue[1] /\ queue[1] \in Calls
        /\ Len(queue') = Len(queue) - 1
        /\ \A i \in 1..Len(queue') : i + 1 \in 1..Len(queue) /\ queue'[i] = queue[i + 1]
        /\ 1 \in 1..Len(queue) /\ actor' = "writing"
    BY <1>4, SeqFacts DEF TakeRequest, ActorTypeOK
  <2>2. UNCHANGED <<caller, expired, garbled>>
    BY <1>4 DEF TakeRequest
  <2>3. \A i \in 1..Len(queue') :
            queue'[i] # serving' /\ queue'[i] \notin expired \cup garbled
    BY <2>1 DEF ServedOnce
  <2>4. \A i, j \in 1..Len(queue') : queue'[i] = queue'[j] => i = j
    <3> SUFFICES ASSUME NEW i \in 1..Len(queue'), NEW j \in 1..Len(queue'),
                        queue'[i] = queue'[j]
                 PROVE  i = j
      OBVIOUS
    <3>1. i + 1 = j + 1
      BY <2>1 DEF ServedOnce
    <3> QED
      BY <3>1
  <2>5. \A c \in Calls : caller[c] \in {"idle", "sending"} =>
            /\ \A i \in 1..Len(queue') : queue'[i] # c
            /\ c # serving' /\ c \notin expired \cup garbled
    BY <2>1 DEF ServedOnce
  <2>6. serving' \in Calls /\ serving' \notin expired \cup garbled
    BY <2>1 DEF ServedOnce
  <2> QED
    BY <2>1, <2>2, <2>3, <2>4, <2>5, <2>6 DEF ServedOnce
<1>5. CASE WriteRequest
  BY <1>5 DEF WriteRequest, ServedOnce
<1>6. CASE WriteFails \/ ReadsEof \/ WaitTimesOut
  <2>1. /\ actor' = "listening" /\ serving' = Nobody /\ queue' = queue /\ garbled' = garbled
        /\ \A c \in Calls : caller'[c] \in {"idle", "sending"} =>
              caller[c] \in {"idle", "sending"}
    BY <1>6, OtherReplies, ReplyServes
  <2>2. serving \in Calls /\ expired' \subseteq expired \cup {serving}
    BY <1>6, OtherReplies DEF WriteFails, ReadsEof, WaitTimesOut
  <2>3. \A i \in 1..Len(queue) : queue[i] # Nobody
    BY NobodyAssumption, SeqFacts DEF ActorTypeOK
  <2> QED
    BY <2>1, <2>2, <2>3, NobodyAssumption DEF ServedOnce
<1>7. CASE ReadPiece
  <2>1. CASE UNCHANGED <<callers, actor, serving, garbled>>
    BY <1>7, <2>1, PieceRead DEF ServedOnce
  <2>2. CASE /\ Reply(serving) \/ Reply("failed")
             /\ garbled' \subseteq garbled \cup {serving}
    <3>1. /\ actor' = "listening" /\ serving' = Nobody /\ queue' = queue
          /\ \A c \in Calls : caller'[c] \in {"idle", "sending"} =>
                caller[c] \in {"idle", "sending"}
      BY <1>7, <2>2, PieceRead, ReplyServes
    <3>2. \A i \in 1..Len(queue) : queue[i] # Nobody
      BY NobodyAssumption, SeqFacts DEF ActorTypeOK
    <3> QED
      BY <1>7, <2>2, <3>1, <3>2, PieceRead, NobodyAssumption DEF ServedOnce
  <2> QED
    BY <1>7, <2>1, <2>2, PieceRead
<1>8. ASSUME NEW c \in Calls, Issue(c) PROVE ServedOnce'
  BY <1>8 DEF Issue, Settled, ActorTypeOK, ServedOnce
<1>9. ASSUME NEW c \in Calls, Send(c) PROVE ServedOnce'
  <2>1. /\ Len(queue') = Len(queue) + 1 /\ queue'[Len(queue) + 1] = c /\ Len(queue) \in Nat
        /\ \A i \in 1..Len(queue) : queue'[i] = queue[i]
    BY <1>9, SeqFacts DEF Send, ActorTypeOK
  <2>2. /\ UNCHANGED <<serving, actor, expired, garbled>> /\ caller[c] = "sending"
        /\ \A d \in Calls : caller'[d] \in {"idle", "sending"} =>
              d # c /\ caller[d] \in {"idle", "sending"}
    BY <1>9 DEF Send, ActorTypeOK
  <2>3. /\ c # serving /\ c \notin expired \cup garbled
        /\ \A i \in 1..Len(queue) : queue[i] # c
    BY <2>2 DEF ServedOnce
  <2>4. \A i \in 1..Len(queue') : i \in 1..Len(queue) \/ i = Len(queue) + 1
    BY <2>1
  <2>5. /\ \A i \in 1..Len(queue') :
              queue'[i] # serving' /\ queue'[i] \notin expired' \cup garbled'
        /\ \A i, j \in 1..Len(queue') : queue'[i] = queue'[j] => i = j
    BY <2>1, <2>2, <2>3, <2>4 DEF ServedOnce
  <2>6. \A d \in Calls : caller'[d] \in {"idle", "sending"} =>
            /\ \A i \in 1..Len(queue') : queue'[i] # d
            /\ d # serving' /\ d \notin expired' \cup garbled'
    BY <2>1, <2>2, <2>4 DEF ServedOnce
  <2> QED
    BY <2>2, <2>5, <2>6 DEF ServedOnce
<1>10. ASSUME NEW c \in Calls, CallerCancelled(c) \/ CallerClosedOut(c) \/ Abandon(c)
       PROVE ServedOnce'
  BY <1>10 DEF CallerCancelled, CallerClosedOut, Abandon, Settled, ActorTypeOK, ServedOnce
<1>11. ASSUME NEW c \in Calls, ChildAnswers(c) PROVE ServedOnce'
  BY <1>11 DEF ChildAnswers, ServedOnce
<1> QED
  BY <1>1, <1>2, <1>3, <1>4, <1>5, <1>6, <1>7, <1>8, <1>9, <1>10, <1>11
  DEF ActorNext, ActorStep, CallerStep

-----------------------------------------------------------------------------
(* Frames.                                                                 *)

\* The child writes a head and then its rest, with nothing in between, and the
\* actor keeps a head only while it reads.
LEMMA FrameStep == ASSUME ActorTypeOK, ServedOnce, FrameShape, Lifecycle, ActorNext PROVE FrameShape'
<1> USE DEF callers, actorVars, pipes, clientHistory, CallerOnly, ChildOnly
<1>1. CASE Connected \/ PollToken \/ CancelNoticed \/ NothingToTake \/ ChannelClosed
  BY <1>1 DEF Connected, PollToken, CancelNoticed, NothingToTake, ChannelClosed, ActorMoves,
     FrameShape, Lifecycle
<1>2. CASE Cancel \/ Close \/ JoinEnds \/ JoinTimesOut \/ ChildExits \/ ChildReads
  BY <1>2 DEF Cancel, Close, JoinEnds, JoinTimesOut, ChildExits, ChildReads, FrameShape
<1>3. CASE ChildReaped \/ GraceTimesOut \/ KillAwaited \/ RuntimeDropped
  BY <1>3 DEF ChildReaped, GraceTimesOut, KillAwaited, RuntimeDropped, ActorEnds, FrameShape
<1>4. CASE TakeRequest \/ WriteRequest
  BY <1>4 DEF TakeRequest, WriteRequest, FrameShape
<1>5. CASE WriteFails \/ ReadsEof \/ WaitTimesOut
  <2>1. UNCHANGED <<stdout, half>> /\ partial' = FALSE
    BY <1>5, OtherReplies DEF Reply
  <2> QED
    BY <2>1 DEF FrameShape
<1>6. CASE ReadPiece
  <2>1. stdout \in Seq(Pieces) /\ stdout # <<>> /\ stdout' = Tail(stdout) /\ half' = half
    BY <1>6, PieceRead DEF ActorTypeOK
  <2>2. /\ Len(stdout) \in Nat \ {0} /\ Len(stdout') = Len(stdout) - 1
        /\ \A i \in 1..Len(stdout') : stdout'[i] = stdout[i + 1]
        /\ stdout' \in Seq(Pieces)
    BY <2>1, SeqFacts
  <2>3. ASSUME NEW i \in 2..Len(stdout'), stdout'[i].part = "tail"
        PROVE  stdout'[i - 1].part = "head"
    <3>1. stdout'[i] = stdout[i + 1] /\ stdout'[i - 1] = stdout[i] /\ i + 1 \in 2..Len(stdout)
      BY <2>2
    <3> QED
      BY <2>3, <3>1 DEF FrameShape
  <2>4. ASSUME half # Nobody, stdout' # <<>> PROVE stdout'[Len(stdout')].part = "head"
    <3>1. stdout'[Len(stdout')] = stdout[Len(stdout)]
      BY <2>2, <2>4, SeqFacts
    <3> QED
      BY <2>1, <2>4, <3>1 DEF FrameShape
  <2>5. partial' => actor' = "reading"
    BY <1>6, PieceRead DEF Reply
  <2> QED
    BY <2>1, <2>3, <2>4, <2>5 DEF FrameShape
<1>7. ASSUME NEW c \in Calls, Issue(c) \/ Send(c) \/ CallerCancelled(c) \/ CallerClosedOut(c)
                              \/ Abandon(c)
      PROVE FrameShape'
  BY <1>7 DEF Issue, Send, CallerCancelled, CallerClosedOut, Abandon, FrameShape
<1>8. ASSUME NEW c \in Calls, NEW piece \in {"whole", "head", "tail"}, Writes(c, piece),
             half = Nobody <=> piece # "tail", half' # Nobody <=> piece = "head",
             UNCHANGED <<partial, actor>>
      PROVE FrameShape'
  <2>1. stdout \in Seq(Pieces) /\ Len(stdout) \in Nat
    BY SeqFacts DEF ActorTypeOK
  <2>2. /\ Len(stdout') = Len(stdout) + 1
        /\ stdout'[Len(stdout) + 1].part = piece
        /\ \A i \in 1..Len(stdout) : stdout'[i] = stdout[i]
    BY <1>8, <2>1, WritesPieces
  <2>3. ASSUME NEW i \in 2..Len(stdout'), stdout'[i].part = "tail"
        PROVE  stdout'[i - 1].part = "head"
    <3>1. CASE i = Len(stdout) + 1
      <4>1. half # Nobody /\ stdout # <<>> /\ i - 1 = Len(stdout) /\ i - 1 \in 1..Len(stdout)
        BY <1>8, <2>1, <2>2, <2>3, <3>1
      <4> QED
        BY <2>2, <4>1 DEF FrameShape
    <3>2. CASE i \in 2..Len(stdout)
      BY <2>1, <2>2, <2>3, <3>2 DEF FrameShape
    <3> QED
      BY <2>1, <2>2, <3>1, <3>2
  <2> QED
    BY <1>8, <2>1, <2>2, <2>3 DEF FrameShape
<1>9. ASSUME NEW c \in Calls, ChildAnswers(c) PROVE FrameShape'
  BY <1>8, <1>9, NobodyAssumption DEF ChildAnswers
<1>10. CASE ChildFinishes
  <2>1. half \in Calls
    BY <1>10 DEF ChildFinishes, ActorTypeOK
  <2> QED
    BY <1>8, <1>10, <2>1 DEF ChildFinishes
<1> QED
  BY <1>1, <1>2, <1>3, <1>4, <1>5, <1>6, <1>7, <1>9, <1>10
  DEF ActorNext, ActorStep, CallerStep

\* The server starts once, ends once, and the actor takes no second request after
\* the cancellation.
LEMMA LifecycleStep ==
    ASSUME ActorTypeOK, ServedOnce, Lifecycle, ActorNext PROVE Lifecycle'
<1> USE DEF callers, actorVars, pipes, clientHistory, CallerOnly, ChildOnly, Lifecycle
<1>1. CASE Connected \/ PollToken \/ CancelNoticed \/ NothingToTake \/ ChannelClosed
  BY <1>1 DEF Connected, PollToken, CancelNoticed, NothingToTake, ChannelClosed, ActorMoves
<1>2. CASE Cancel \/ Close \/ JoinEnds \/ JoinTimesOut \/ ChildExits
  BY <1>2 DEF Cancel, Close, JoinEnds, JoinTimesOut, ChildExits
<1>3. CASE ChildReaped \/ GraceTimesOut \/ KillAwaited \/ RuntimeDropped
  BY <1>3 DEF ChildReaped, GraceTimesOut, KillAwaited, RuntimeDropped, ActorEnds
<1>4. CASE TakeRequest \/ WriteRequest
  BY <1>4 DEF TakeRequest, WriteRequest
<1>5. CASE WriteFails \/ ReadsEof \/ WaitTimesOut
  BY <1>5, OtherReplies DEF Reply, AtWork
<1>6. CASE ReadPiece
  BY <1>6, PieceRead DEF Reply
<1>7. ASSUME NEW c \in Calls, Issue(c) \/ Send(c) \/ CallerCancelled(c) \/ CallerClosedOut(c)
                              \/ Abandon(c)
      PROVE Lifecycle'
  BY <1>7 DEF Issue, Send, CallerCancelled, CallerClosedOut, Abandon
<1>8. ASSUME NEW c \in Calls, ChildAnswers(c) PROVE Lifecycle'
  BY <1>8 DEF ChildAnswers
<1>9. CASE ChildReads \/ ChildFinishes
  BY <1>9 DEF ChildReads, ChildFinishes
<1> QED
  BY <1>1, <1>2, <1>3, <1>4, <1>5, <1>6, <1>7, <1>8, <1>9
  DEF ActorNext, ActorStep, CallerStep

\* Only a timeout leaves a rest behind, one at most.
LEMMA OrphanMade ==
    ASSUME ActorTypeOK, ServedOnce, FrameShape, Lifecycle, ActorNext, ~WaitTimesOut
    PROVE  /\ expired' = expired
           /\ Orphan' => Orphan /\ garbled' = garbled
           /\ garbled' # garbled => Orphan /\ garbled' = garbled \cup {serving}
<1> DEFINE Goal == /\ expired' = expired
                   /\ Orphan' => Orphan /\ garbled' = garbled
                   /\ garbled' # garbled => Orphan /\ garbled' = garbled \cup {serving}
<1> USE DEF callers, actorVars, pipes, clientHistory, CallerOnly, ChildOnly
<1>1. CASE Connected \/ PollToken \/ CancelNoticed \/ NothingToTake \/ ChannelClosed
  BY <1>1 DEF Connected, PollToken, CancelNoticed, NothingToTake, ChannelClosed, ActorMoves,
     Orphan, Lifecycle
<1>2. CASE Cancel \/ Close \/ JoinEnds \/ JoinTimesOut \/ ChildExits \/ ChildReads
  BY <1>2 DEF Cancel, Close, JoinEnds, JoinTimesOut, ChildExits, ChildReads, Orphan
<1>3. CASE ChildReaped \/ GraceTimesOut \/ KillAwaited \/ RuntimeDropped
  BY <1>3 DEF ChildReaped, GraceTimesOut, KillAwaited, RuntimeDropped, ActorEnds, Orphan
<1>4. CASE TakeRequest \/ WriteRequest
  BY <1>4 DEF TakeRequest, WriteRequest, Orphan
<1>5. CASE WriteFails
  <2>1. ~partial
    BY <1>5 DEF WriteFails, FrameShape
  <2> QED
    BY <1>5, <2>1 DEF WriteFails, Reply, Orphan
<1>6. CASE ReadsEof
  BY <1>6 DEF ReadsEof, Reply, Orphan
<1>7. CASE ReadPiece
  <2>1. stdout \in Seq(Pieces) /\ stdout # <<>> /\ stdout' = Tail(stdout) /\ half' = half
    BY <1>7, PieceRead DEF ActorTypeOK
  <2>2. /\ Len(stdout) \in Nat \ {0} /\ Len(stdout') = Len(stdout) - 1 /\ stdout' \in Seq(Pieces)
        /\ \A i \in 1..Len(stdout') : stdout'[i] = stdout[i + 1]
    BY <2>1, SeqFacts
  <2>3. ASSUME stdout[1].part # "head" PROVE ~Orphan'
    <3>1. CASE stdout' = <<>>
      <4>1. Len(stdout) = 1
        BY <2>2, <3>1
      <4> QED
        BY <2>1, <2>3, <3>1, <4>1 DEF FrameShape, Orphan
    <3>2. CASE stdout' # <<>>
      <4>1. Len(stdout) > 1 /\ stdout'[1] = stdout[2]
        BY <2>2, <3>2, SeqFacts
      <4>2. stdout[2].part # "tail"
        BY <2>2, <2>3, <4>1 DEF FrameShape
      <4> QED
        BY <3>2, <4>1, <4>2 DEF Orphan
    <3> QED
      BY <3>1, <3>2
  <2>4. stdout[1].part = "head" => ~Orphan'
    BY <1>7, PieceRead DEF Orphan
  <2>5. expired' = expired
    BY <1>7, PieceRead
  <2>6. garbled' # garbled => Orphan /\ garbled' = garbled \cup {serving}
    BY <1>7, PieceRead DEF Orphan
  <2> QED
    BY <2>3, <2>4, <2>5, <2>6
<1>8. ASSUME NEW c \in Calls, Issue(c) \/ Send(c) \/ CallerCancelled(c) \/ CallerClosedOut(c)
                              \/ Abandon(c)
      PROVE Goal
  BY <1>8 DEF Issue, Send, CallerCancelled, CallerClosedOut, Abandon, Orphan
<1>9. ASSUME NEW c \in Calls, NEW piece \in {"whole", "head", "tail"}, Writes(c, piece),
             half = Nobody <=> piece # "tail", child = "up",
             UNCHANGED <<partial, child, expired, garbled>>
      PROVE Goal
  <2>1. stdout \in Seq(Pieces) /\ Len(stdout) \in Nat /\ (stdout # <<>> => 1 \in 1..Len(stdout))
    BY SeqFacts DEF ActorTypeOK
  <2>2. /\ Len(stdout') = Len(stdout) + 1 /\ stdout' # <<>>
        /\ stdout'[Len(stdout) + 1].part = piece
        /\ \A i \in 1..Len(stdout) : stdout'[i] = stdout[i]
    BY <1>9, <2>1, WritesPieces
  <2>3. CASE stdout = <<>>
    BY <1>9, <2>1, <2>2, <2>3 DEF Orphan
  <2>4. CASE stdout # <<>>
    BY <1>9, <2>1, <2>2, <2>4 DEF Orphan
  <2> QED
    BY <2>3, <2>4
<1>10. ASSUME NEW c \in Calls, ChildAnswers(c) PROVE Goal
  BY <1>9, <1>10 DEF ChildAnswers
<1>11. CASE ChildFinishes
  <2>1. half \in Calls
    BY <1>11 DEF ChildFinishes, ActorTypeOK
  <2> QED
    BY <1>9, <1>11, <2>1 DEF ChildFinishes
<1> QED
  BY <1>1, <1>2, <1>3, <1>4, <1>5, <1>6, <1>7, <1>8, <1>10, <1>11
  DEF ActorNext, ActorStep, CallerStep

\* A timeout pays for the rest it leaves; a rest that is read spoils one request.
LEMMA SpoiltStep ==
    ASSUME ActorTypeOK, ServedOnce, FrameShape, Lifecycle, SpoiltCount, ActorNext
    PROVE  SpoiltCount'
<1>1. Cardinality(expired) \in Nat /\ Cardinality(garbled) \in Nat
  BY FS_CardinalityType DEF SpoiltCount
<1>2. CASE WaitTimesOut
  <2>1. /\ expired' = expired \cup {serving} /\ serving \notin expired /\ garbled' = garbled
    BY <1>2, OtherReplies DEF WaitTimesOut, ServedOnce, AtWork
  <2>2. IsFiniteSet(expired') /\ Cardinality(expired') = Cardinality(expired) + 1
    BY <2>1, FS_AddElement DEF SpoiltCount
  <2> QED
    BY <1>1, <2>1, <2>2 DEF SpoiltCount
<1>3. CASE ~WaitTimesOut /\ garbled' = garbled
  BY <1>1, <1>3, OrphanMade DEF SpoiltCount
<1>4. CASE ~WaitTimesOut /\ garbled' # garbled
  <2>1. expired' = expired /\ garbled' = garbled \cup {serving} /\ Orphan /\ ~Orphan'
    BY <1>4, OrphanMade
  <2>2. /\ IsFiniteSet(garbled') /\ Cardinality(garbled') \in Nat
        /\ Cardinality(garbled') <= Cardinality(garbled) + 1
    <3>1. /\ IsFiniteSet(garbled')
          /\ Cardinality(garbled') = IF serving \in garbled THEN Cardinality(garbled)
                                     ELSE Cardinality(garbled) + 1
      BY <2>1, FS_AddElement DEF SpoiltCount
    <3> QED
      BY <1>1, <3>1
  <2> QED
    BY <1>1, <2>1, <2>2 DEF SpoiltCount
<1> QED
  BY <1>2, <1>3, <1>4

-----------------------------------------------------------------------------
(* The invariant.                                                          *)

\* The client starts with no call, no frame and the child it spawned.
LEMMA InitActorIndInv == ActorInit => ActorIndInv
<1> SUFFICES ASSUME ActorInit PROVE ActorIndInv
  OBVIOUS
<1> USE DEF ActorInit
<1>1. ActorTypeOK
  <2>1. /\ queue \in Seq(Calls) /\ stdin \in Seq(Calls) /\ stdout \in Seq(Pieces)
        /\ Len(queue) <= QueueSize /\ Len(stdin) <= PipeRoom
    BY SizesAssumption
  <2> QED
    BY <2>1 DEF ActorTypeOK, Refusals
<1>2. ServedOnce /\ FrameShape /\ Lifecycle
  BY NobodyAssumption DEF ServedOnce, FrameShape, Lifecycle, AtWork
<1>3. ~Orphan
  BY DEF Orphan
<1>4. SpoiltCount /\ OneSpoiltPerTimeout
  BY <1>3, FS_EmptySet DEF SpoiltCount, OneSpoiltPerTimeout
<1>5. ChildNotLeft /\ OneLateTake /\ MatchedReply
  BY RefusalsAssumption DEF ChildNotLeft, OneLateTake, MatchedReply, Refusals
<1> QED
  BY <1>1, <1>2, <1>4, <1>5 DEF ActorIndInv, ActorInv

\* The actor ends after its child did, or kills it.
LEMMA ChildStep ==
    ASSUME ActorTypeOK, ServedOnce, Lifecycle, ChildNotLeft, ActorNext PROVE ChildNotLeft'
<1> USE DEF callers, actorVars, pipes, clientHistory, CallerOnly, ChildOnly, ChildNotLeft
<1>1. CASE Connected \/ PollToken \/ CancelNoticed \/ NothingToTake \/ ChannelClosed
  BY <1>1 DEF Connected, PollToken, CancelNoticed, NothingToTake, ChannelClosed, ActorMoves
<1>2. CASE Cancel \/ Close \/ JoinEnds \/ JoinTimesOut \/ ChildExits \/ ChildReads \/ ChildFinishes
  BY <1>2 DEF Cancel, Close, JoinEnds, JoinTimesOut, ChildExits, ChildReads, ChildFinishes
<1>3. CASE ChildReaped \/ GraceTimesOut \/ KillAwaited \/ RuntimeDropped
  BY <1>3 DEF ChildReaped, GraceTimesOut, KillAwaited, RuntimeDropped, ActorEnds, Lifecycle
<1>4. CASE TakeRequest \/ WriteRequest
  BY <1>4 DEF TakeRequest, WriteRequest
<1>5. CASE WriteFails \/ ReadsEof \/ WaitTimesOut
  BY <1>5, OtherReplies DEF Reply
<1>6. CASE ReadPiece
  BY <1>6, PieceRead DEF Reply
<1>7. ASSUME NEW c \in Calls, Issue(c) \/ Send(c) \/ CallerCancelled(c) \/ CallerClosedOut(c)
                              \/ Abandon(c)
      PROVE ChildNotLeft'
  BY <1>7 DEF Issue, Send, CallerCancelled, CallerClosedOut, Abandon
<1>8. ASSUME NEW c \in Calls, ChildAnswers(c) PROVE ChildNotLeft'
  BY <1>8 DEF ChildAnswers
<1> QED
  BY <1>1, <1>2, <1>3, <1>4, <1>5, <1>6, <1>7, <1>8 DEF ActorNext, ActorStep, CallerStep

\* Every step of the actor, of the callers and of the child keeps the invariant.
LEMMA ActorIndStep == ActorIndInv /\ [ActorNext]_clientVars => ActorIndInv'
<1> SUFFICES ASSUME ActorIndInv, [ActorNext]_clientVars PROVE ActorIndInv'
  OBVIOUS
<1> USE DEF ActorIndInv, ActorInv
<1>1. CASE ActorNext
  <2>1. ActorTypeOK' /\ MatchedReply'
    BY <1>1, ActorTypeStep
  <2>2. ServedOnce' /\ FrameShape' /\ Lifecycle' /\ SpoiltCount'
    BY <1>1, ServedStep, FrameStep, LifecycleStep, SpoiltStep
  <2>3. ChildNotLeft'
    BY <1>1, ChildStep
  <2>4. OneLateTake'
    BY <2>2 DEF Lifecycle, OneLateTake
  <2>5. OneSpoiltPerTimeout'
    <3>1. Cardinality(expired)' \in Nat /\ Cardinality(garbled)' \in Nat
      BY <2>2, FS_CardinalityType DEF SpoiltCount
    <3> QED
      BY <2>2, <3>1 DEF SpoiltCount, OneSpoiltPerTimeout
  <2> QED
    BY <2>1, <2>2, <2>3, <2>4, <2>5
<1>2. CASE UNCHANGED clientVars
  BY <1>2 DEF clientVars, callers, actorVars, pipes, clientHistory, ActorTypeOK, ChildNotLeft,
     OneLateTake, MatchedReply, OneSpoiltPerTimeout, ServedOnce, FrameShape, SpoiltCount, Orphan,
     Lifecycle, AtWork
<1> QED
  BY <1>1, <1>2

\* An answer goes to the call it is for, a timeout spoils at most one request,
\* at most one request is taken after the cancellation, and the actor leaves no
\* child behind (spawn_actor, read_ndjson_line_bytes, shutdown_stdio_child).
THEOREM ActorInvariant == ActorSpec => []ActorInv
<1>1. ActorInit => ActorIndInv
  BY InitActorIndInv
<1>2. ActorIndInv /\ [ActorNext]_clientVars => ActorIndInv'
  BY ActorIndStep
<1>3. ActorIndInv => ActorInv
  BY DEF ActorIndInv
<1> QED
  BY <1>1, <1>2, <1>3, PTL DEF ActorSpec

-----------------------------------------------------------------------------
(* The actor implements McpCalls.                                          *)

\* What the callers have got, as a function.
Gets == [c \in Calls |-> Got(c)]

\* The callers have got what they had as long as nothing settles or leaves.
LEMMA GotSame ==
    ASSUME UNCHANGED callers PROVE Gets' = Gets
BY DEF Gets, Got, callers

\* A caller that settles or leaves changes what it has got itself, and no other's.
LEMMA GotOne ==
    ASSUME ActorTypeOK, NEW c \in Calls,
           \A d \in Calls \ {c} : caller'[d] = caller[d] /\ outcome'[d] = outcome[d]
    PROVE  Gets' = [Gets EXCEPT ![c] = Got(c)']
BY DEF Gets, Got

\* Reply is Finish: the caller that is served gets its answer or an error, if it
\* still waits.
LEMMA ReplyIsFinish ==
    ASSUME ActorTypeOK, ServedOnce, actor \in AtWork,
           NEW result \in {"failed", "timeout"} \cup {serving}, Reply(result)
    PROVE  Promise!Finish(serving)
<1>1. PICK c \in Calls : c = serving /\ caller[c] \notin {"idle", "sending"}
  BY DEF ServedOnce
<1>2. serving' = Nobody
  BY DEF Reply
<1>3. CASE caller[c] = "queued"
  <2>1. /\ caller' = [caller EXCEPT ![c] = "done"] /\ outcome' = [outcome EXCEPT ![c] = result]
    BY <1>1, <1>3 DEF Reply, Settled
  <2>2. Got(c) = "waiting" /\ Got(c)' \in {"answer", "error"}
    <3>1. caller'[c] = "done" /\ outcome'[c] = result
      BY <2>1 DEF ActorTypeOK
    <3>2. result # c => result \in Refusals
      BY <1>1 DEF Refusals
    <3> QED
      BY <1>3, <3>1, <3>2 DEF Got
  <2>3. Gets' = [Gets EXCEPT ![c] = Got(c)']
    <3>1. \A d \in Calls \ {c} : caller'[d] = caller[d] /\ outcome'[d] = outcome[d]
      BY <2>1 DEF ActorTypeOK
    <3> QED
      BY <3>1, GotOne
  <2> QED
    BY <1>1, <1>2, <2>2, <2>3 DEF Promise!Finish, Promise!Tell, Gets
<1>4. CASE caller[c] # "queued"
  <2>1. Gets' = Gets
    BY <1>1, <1>4, GotSame DEF Reply
  <2>2. Got(c) # "waiting"
    BY <1>1, <1>4 DEF Got
  <2> QED
    BY <1>1, <1>2, <2>1, <2>2 DEF Promise!Finish, Gets
<1> QED
  BY <1>3, <1>4

\* Every step of the actor, its callers, its pipes and its child is a step of
\* McpCalls or changes nothing there.
LEMMA PromiseStep ==
    ActorIndInv /\ [ActorNext]_clientVars => [Promise!CallsNext]_(Promise!callsVars)
<1> SUFFICES ASSUME ActorIndInv, [ActorNext]_clientVars
             PROVE  Promise!CallsNext \/ UNCHANGED <<Gets, serving>>
  BY DEF Promise!callsVars, Gets
<1> USE DEF ActorIndInv, ActorInv
<1> USE DEF callers, actorVars, pipes, clientHistory, CallerOnly, ChildOnly
<1>1. CASE Connected \/ PollToken \/ CancelNoticed \/ NothingToTake \/ ChannelClosed
  BY <1>1, GotSame DEF Connected, PollToken, CancelNoticed, NothingToTake, ChannelClosed, ActorMoves
<1>2. CASE Cancel \/ Close \/ JoinEnds \/ JoinTimesOut \/ ChildExits \/ ChildReads \/ ChildFinishes
  BY <1>2, GotSame DEF Cancel, Close, JoinEnds, JoinTimesOut, ChildExits, ChildReads, ChildFinishes
<1>3. CASE ChildReaped \/ GraceTimesOut \/ KillAwaited \/ RuntimeDropped \/ WriteRequest
  BY <1>3, GotSame DEF ChildReaped, GraceTimesOut, KillAwaited, RuntimeDropped, ActorEnds, WriteRequest
<1>4. CASE TakeRequest
  <2>1. serving = Nobody /\ serving' \in Calls
    BY <1>4, SeqFacts DEF TakeRequest, ServedOnce, AtWork, ActorTypeOK
  <2>2. Gets' = Gets
    BY <1>4, GotSame DEF TakeRequest
  <2>3. Promise!Serve(serving')
    BY <2>1, <2>2 DEF Promise!Serve, Gets
  <2> QED
    BY <2>1, <2>3 DEF Promise!CallsNext
<1>5. CASE WriteFails \/ ReadsEof \/ WaitTimesOut
  <2>1. Promise!Finish(serving) /\ serving \in Calls
    BY <1>5, OtherReplies, ReplyIsFinish
  <2> QED
    BY <2>1 DEF Promise!CallsNext
<1>6. CASE ReadPiece
  <2>1. serving \in Calls /\ actor \in AtWork
    BY <1>6, PieceRead DEF AtWork
  <2>2. CASE UNCHANGED <<callers, serving>>
    BY <2>2, GotSame
  <2>3. CASE Reply(serving) \/ Reply("failed")
    <3>1. Promise!Finish(serving)
      BY <2>1, <2>3, ReplyIsFinish
    <3> QED
      BY <2>1, <3>1 DEF Promise!CallsNext
  <2> QED
    BY <1>6, <2>2, <2>3, PieceRead
<1>7. ASSUME NEW c \in Calls, Issue(c) PROVE Promise!CallsNext
  <2>1. Got(c) = "none" /\ Got(c)' \in {"waiting", "error"} /\ UNCHANGED serving
    BY <1>7, RefusalsAssumption DEF Issue, Settled, Got, ActorTypeOK, Refusals
  <2>2. Gets' = [Gets EXCEPT ![c] = Got(c)']
    BY <1>7, GotOne DEF Issue, Settled, ActorTypeOK
  <2>3. Promise!Ask(c) \/ Promise!RefuseCall(c)
    BY <2>1, <2>2 DEF Promise!Ask, Promise!RefuseCall, Promise!Tell, Gets
  <2> QED
    BY <2>3 DEF Promise!CallsNext
<1>8. ASSUME NEW c \in Calls, Send(c) PROVE UNCHANGED <<Gets, serving>>
  <2>1. Got(c)' = Got(c) /\ UNCHANGED serving
    BY <1>8 DEF Send, Got, ActorTypeOK
  <2>2. Gets' = [Gets EXCEPT ![c] = Got(c)']
    BY <1>8, GotOne DEF Send, ActorTypeOK
  <2> QED
    BY <2>1, <2>2 DEF Gets
<1>9. ASSUME NEW c \in Calls, CallerCancelled(c) \/ CallerClosedOut(c) \/ Abandon(c)
      PROVE Promise!CallsNext
  <2>1. Got(c) = "waiting" /\ Got(c)' \in {"error", "gone"} /\ UNCHANGED serving
    BY <1>9, RefusalsAssumption
    DEF CallerCancelled, CallerClosedOut, Abandon, Settled, Got, ActorTypeOK, Refusals
  <2>2. Gets' = [Gets EXCEPT ![c] = Got(c)']
    BY <1>9, GotOne DEF CallerCancelled, CallerClosedOut, Abandon, Settled, ActorTypeOK
  <2>3. Promise!BreakOff(c) \/ Promise!Leave(c)
    BY <2>1, <2>2 DEF Promise!BreakOff, Promise!Leave, Promise!Tell, Gets
  <2> QED
    BY <2>3 DEF Promise!CallsNext
<1>10. ASSUME NEW c \in Calls, ChildAnswers(c) PROVE UNCHANGED <<Gets, serving>>
  BY <1>10, GotSame DEF ChildAnswers
<1>11. CASE UNCHANGED clientVars
  BY <1>11, GotSame DEF clientVars
<1> QED
  BY <1>1, <1>2, <1>3, <1>4, <1>5, <1>6, <1>7, <1>8, <1>9, <1>10, <1>11
  DEF ActorNext, ActorStep, CallerStep

\* Through the channel, the pipes and a child that answers late, in any order or
\* never, the actor keeps what McpCalls promises its callers (McpClientHandle).
THEOREM ActorKeepsPromise == ActorSpec => PromiseHolds
<1>1. ActorInit => Promise!CallsInit
  BY DEF ActorInit, Promise!CallsInit, Got
<1>2. ActorInit => ActorIndInv
  BY InitActorIndInv
<1>3. ActorIndInv /\ [ActorNext]_clientVars => ActorIndInv'
  BY ActorIndStep
<1>4. ActorIndInv /\ [ActorNext]_clientVars => [Promise!CallsNext]_(Promise!callsVars)
  BY PromiseStep
<1> QED
  BY <1>1, <1>2, <1>3, <1>4, PTL DEF ActorSpec, PromiseHolds, Promise!CallsSpec

-----------------------------------------------------------------------------
(* McpHttp.                                                                *)

\* A client at the server, in the middle of a request.
Moving == {"post", "stream", "resume", "notify", "probe"}

\* How often the tool of a call can have run, in each frame of the call.
Ran(k) ==
    /\ k.ran <= 2 /\ (k.ran = 2 => k.cause = "resume")
    /\ k.stage \in {"connect", "reinit"} => k.ran = 0
    /\ k.stage = "first" => k.ran <= 1 /\ (k.step = "post" => k.ran = 0)
    /\ k.ran = 1 /\ k.step \in {"refresh", "login", "persist"} => k.cause = "resume"
    /\ k.stage = "again" /\ k.step = "post" => k.ran <= 1 /\ (k.ran = 1 => k.cause = "resume")

\* Which awaits a frame has.
Framed(k) ==
    /\ k.stage \in {"off", "idle"} <=> k.step = "rest"
    /\ k.step \in {"notify", "probe"} => k.stage \in {"connect", "reinit"}
    /\ k.stage = "again" => k.step \in {"post", "stream", "resume"}

\* No grant is known before it is made, and what goes to the server is none of
\* those that it rejected.
Known(k) ==
    /\ k.tokens.access <= issued /\ k.pending.access <= issued
    /\ \A n \in k.rejected : n <= issued
    /\ k.step \in Moving => k.tokens.access \notin k.rejected
    /\ k.step = "persist" => k.pending.access \notin k.rejected

\* The invariant of the clients and their token store.
HttpIndInv ==
    /\ HttpTypeOK /\ store.tokens.access <= issued
    /\ \A c \in Clients : Ran(client[c]) /\ Framed(client[c]) /\ Known(client[c])

\* A step of one client, which may be granted tokens and save them.
LEMMA ClientStep ==
    ASSUME HttpIndInv, NEW c \in Clients, NEW k \in ClientStates, Becomes(c, k),
           server' = server, good' \subseteq Grants, fresh' \subseteq Grants, wide' \subseteq Grants,
           issued' \in 0..MaxGrants, issued <= issued',
           store' \in [state : {"unset", "absent", "torn", "saved"}, tokens : Tokens],
           store'.tokens.access <= issued', Ran(k), Framed(k), Known(k)'
    PROVE  HttpIndInv'
<1>1. /\ client' \in [Clients -> ClientStates] /\ client'[c] = k
      /\ \A d \in Clients \ {c} : client'[d] = client[d]
  BY DEF Becomes, HttpIndInv, HttpTypeOK
<1>2. HttpTypeOK'
  BY <1>1 DEF HttpIndInv, HttpTypeOK
<1>3. ASSUME NEW d \in Clients PROVE (Ran(client[d]) /\ Framed(client[d]) /\ Known(client[d]))'
  <2>1. CASE d = c
    BY <1>1, <2>1 DEF Ran, Framed, Known
  <2>2. CASE d # c
    <3>1. PICK m \in ClientStates : m = client[d] /\ client'[d] = m
      BY <1>1, <2>2 DEF HttpIndInv, HttpTypeOK
    <3>2. Ran(m) /\ Framed(m) /\ Known(m)
      BY <3>1 DEF HttpIndInv
    <3>3. /\ issued \in Int /\ issued' \in Int /\ m.tokens.access \in Int
          /\ m.pending.access \in Int /\ \A n \in m.rejected : n \in Int
      BY HttpBounds DEF HttpIndInv, HttpTypeOK, ClientStates, Tokens
    <3>4. Known(m)'
      BY <3>2, <3>3 DEF Known
    <3> QED
      BY <3>1, <3>2, <3>4 DEF Ran, Framed, Known
  <2> QED
    BY <2>1, <2>2
<1> QED
  BY <1>2, <1>3 DEF HttpIndInv

\* What is outside a client, and stays what it is in most steps.
Around == <<server, auth, store>>

\* A step of one client alone.
LEMMA AloneStep ==
    ASSUME HttpIndInv, NEW c \in Clients, NEW k \in ClientStates, Becomes(c, k),
           UNCHANGED Around, Ran(k), Framed(k), Known(k)
    PROVE  HttpIndInv'
<1>1. UNCHANGED <<server, good, fresh, wide, issued, store>>
  BY DEF Around, auth
<1>2. Known(k)'
  BY <1>1 DEF Known
<1>3. issued \in 0..MaxGrants /\ issued <= issued
  BY HttpBounds DEF HttpIndInv, HttpTypeOK
<1> QED
  BY <1>1, <1>2, <1>3, ClientStep DEF HttpIndInv, HttpTypeOK

\* The state of a client, with its types.
LEMMA ClientOf ==
    ASSUME HttpIndInv, NEW c \in Clients
    PROVE  /\ client[c] \in ClientStates
           /\ Ran(client[c]) /\ Framed(client[c]) /\ Known(client[c])
           /\ issued \in 0..MaxGrants /\ issued \in Nat /\ MaxGrants \in Nat /\ Resumes \in Nat
           /\ store \in [state : {"unset", "absent", "torn", "saved"}, tokens : Tokens]
           /\ store.tokens.access <= issued
           /\ good \subseteq Grants /\ fresh \subseteq Grants /\ wide \subseteq Grants
BY HttpBounds DEF HttpIndInv, HttpTypeOK

\* A client that is stopped forgets all but its bounds and the history.
LEMMA OffFacts ==
    ASSUME NEW k \in ClientStates
    PROVE  LET x == OffState(k) IN
           /\ x \in ClientStates /\ x.stage = "off" /\ x.step = "rest"
           /\ x.ran = k.ran /\ x.cause = k.cause
           /\ x.tokens = NoTokens /\ x.pending = NoTokens /\ x.rejected = {}
<1>1. NoTokens \in Tokens /\ 0 \in 0..Resumes /\ 0 \in 0..MaxCalls /\ 0 \in 0..MaxStarts
  BY HttpBounds DEF NoTokens, Tokens
<1>2. Stopped \in ClientStates
  BY <1>1 DEF Stopped, ClientStates, Stages, Steps
<1>3. PICK a \in ClientStates : a = [Stopped EXCEPT !.starts = k.starts]
  BY <1>2 DEF ClientStates
<1>4. PICK b \in ClientStates : b = [a EXCEPT !.calls = k.calls]
  BY DEF ClientStates
<1>5. PICK d \in ClientStates : d = [b EXCEPT !.ran = k.ran]
  BY DEF ClientStates
<1>6. PICK x \in ClientStates : x = [d EXCEPT !.cause = k.cause]
  BY DEF ClientStates
<1>7. OffState(k) = x
  BY <1>3, <1>4, <1>5, <1>6 DEF OffState
<1>8. /\ x.stage = "off" /\ x.step = "rest" /\ x.tokens = NoTokens /\ x.pending = NoTokens
      /\ x.rejected = {}
  BY <1>2, <1>3, <1>4, <1>5, <1>6 DEF ClientStates, Stopped
<1>9. x.ran = k.ran /\ x.cause = k.cause
  BY <1>5, <1>6 DEF ClientStates
<1> QED
  BY <1>7, <1>8, <1>9

\* What is left of a request that is over.
LEMMA DoneFacts ==
    ASSUME NEW k \in ClientStates, NEW ok \in BOOLEAN
    PROVE  LET x == DoneState(k, ok) IN
           /\ x \in ClientStates /\ x.stage \in {"off", "idle"} /\ x.step = "rest"
           /\ x.ran = k.ran /\ x.cause = k.cause
           /\ x.tokens \in {NoTokens, k.tokens} /\ x.pending = NoTokens /\ x.rejected = {}
<1>1. CASE k.stage = "connect" /\ ~ok
  BY <1>1, OffFacts DEF DoneState
<1>2. CASE ~(k.stage = "connect" /\ ~ok)
  <2>1. NoTokens \in Tokens /\ 0 \in 0..Resumes
    BY HttpBounds DEF NoTokens, Tokens
  <2>2. PICK a \in ClientStates : a = [k EXCEPT !.stage = "idle"]
    BY DEF ClientStates, Stages
  <2>3. PICK b \in ClientStates : b = [a EXCEPT !.step = "rest"]
    BY DEF ClientStates, Steps
  <2>4. PICK d \in ClientStates : d = [b EXCEPT !.tried = FALSE]
    BY DEF ClientStates
  <2>5. PICK e \in ClientStates : e = [d EXCEPT !.pending = NoTokens]
    BY <2>1 DEF ClientStates
  <2>6. PICK f \in ClientStates : f = [e EXCEPT !.via = "refresh"]
    BY DEF ClientStates
  <2>7. PICK g \in ClientStates : g = [f EXCEPT !.scope = FALSE]
    BY DEF ClientStates
  <2>8. PICK h \in ClientStates : h = [g EXCEPT !.resumes = 0]
    BY <2>1 DEF ClientStates
  <2>9. PICK x \in ClientStates : x = [h EXCEPT !.rejected = {}]
    BY DEF ClientStates
  <2>10. DoneState(k, ok) = x
    BY <1>2, <2>2, <2>3, <2>4, <2>5, <2>6, <2>7, <2>8, <2>9 DEF DoneState
  <2>11. e.stage = "idle" /\ e.step = "rest" /\ e.ran = k.ran /\ e.cause = k.cause
         /\ e.tokens = k.tokens /\ e.pending = NoTokens
    BY <2>2, <2>3, <2>4, <2>5 DEF ClientStates
  <2>12. /\ x.stage = e.stage /\ x.step = e.step /\ x.ran = e.ran /\ x.cause = e.cause
         /\ x.tokens = e.tokens /\ x.pending = e.pending /\ x.rejected = {}
    BY <2>6, <2>7, <2>8, <2>9 DEF ClientStates
  <2> QED
    BY <2>10, <2>11, <2>12
<1> QED
  BY <1>1, <1>2

\* A state at rest keeps the invariant when its history does.
LEMMA RestShape ==
    ASSUME HttpIndInv, NEW x \in ClientStates, x.stage \in {"off", "idle"}, x.step = "rest",
           x.ran <= 2, x.ran = 2 => x.cause = "resume",
           x.tokens.access <= issued, x.pending = NoTokens, x.rejected = {}
    PROVE  Ran(x) /\ Framed(x) /\ Known(x)
<1>1. x.pending.access = 0 /\ issued \in Nat
  BY DEF NoTokens, HttpIndInv, HttpTypeOK
<1> QED
  BY <1>1 DEF Ran, Framed, Known, Moving

\* A request ends: with its answer, without one, or with its process.
LEMMA EndStep ==
    ASSUME HttpIndInv, NEW c \in Clients, NEW k \in ClientStates, UNCHANGED Around,
           \/ Becomes(c, OffState(k))
           \/ \E ok \in BOOLEAN : Becomes(c, DoneState(k, ok)),
           k.ran <= 2, k.ran = 2 => k.cause = "resume", k.tokens.access <= issued
    PROVE  HttpIndInv'
<1>1. PICK x \in ClientStates :
         /\ Becomes(c, x) /\ x.stage \in {"off", "idle"} /\ x.step = "rest"
         /\ x.ran = k.ran /\ x.cause = k.cause
         /\ x.tokens \in {NoTokens, k.tokens} /\ x.pending = NoTokens /\ x.rejected = {}
  BY OffFacts, DoneFacts
<1>2. x.tokens.access <= issued
  BY <1>1, ClientOf DEF NoTokens
<1>3. Ran(x) /\ Framed(x) /\ Known(x)
  BY <1>1, <1>2, RestShape
<1> QED
  BY <1>1, <1>3, AloneStep

\* The request of a client fails.
LEMMA FailsStep ==
    ASSUME HttpIndInv, NEW c \in Clients, Fails(c), UNCHANGED Around PROVE HttpIndInv'
<1>1. /\ client[c] \in ClientStates /\ client[c].ran <= 2 /\ client[c].tokens.access <= issued
      /\ client[c].ran = 2 => client[c].cause = "resume"
  BY ClientOf DEF Ran, Known
<1> QED
  BY <1>1, EndStep DEF Fails

\* A challenge asks for tokens before the request is sent again; it is noted, and
\* the tool has not run for it unless a resumption was challenged.
LEMMA ChallengedStep ==
    ASSUME HttpIndInv, NEW c \in Clients, NEW scoped \in BOOLEAN, NEW why \in {"challenge", "resume"},
           Challenged(c, scoped, why), UNCHANGED Around, client[c].step \in {"post", "resume"},
           why = "resume" \/ client[c].step = "post"
    PROVE  HttpIndInv'
<1>1. PICK k \in ClientStates : k = client[c] /\ Ran(k) /\ Framed(k) /\ Known(k)
  BY ClientOf
<1>2. CASE k.stage = "again" \/ k.tried \/ ~server.auth
  BY <1>1, <1>2, FailsStep DEF Challenged
<1>3. CASE ~(k.stage = "again" \/ k.tried \/ ~server.auth)
  <2>1. k.tokens \in Tokens /\ k.rejected \subseteq 0..MaxGrants
    BY DEF ClientStates
  <2>2. PICK rejected \in SUBSET (0..MaxGrants) : rejected = k.rejected \cup {k.tokens.access}
    BY <2>1 DEF Tokens
  <2>3. PICK a \in ClientStates : a = [k EXCEPT !.rejected = rejected]
    BY DEF ClientStates
  <2>4. PICK b \in ClientStates : b = [a EXCEPT !.scope = scoped]
    BY DEF ClientStates
  <2>5. PICK d \in ClientStates : d = [b EXCEPT !.resumes = 0]
    <3>1. 0 \in 0..Resumes
      BY HttpBounds
    <3> QED
      BY <3>1 DEF ClientStates
  <2>6. PICK cause \in {"none", "expired", "challenge", "resume"} :
           cause = IF k.stage = "first" THEN why ELSE k.cause
    BY DEF ClientStates
  <2>7. PICK e \in ClientStates : e = [d EXCEPT !.cause = cause]
    BY DEF ClientStates
  <2>8. PICK t \in Tokens : t = [k.tokens EXCEPT !.access = IF scoped THEN 0 ELSE @]
    <3>1. 0 \in 0..MaxGrants
      BY HttpBounds
    <3> QED
      BY <2>1, <3>1 DEF Tokens
  <2>9. PICK f \in ClientStates : f = [e EXCEPT !.tokens = t]
    BY DEF ClientStates
  <2>10. PICK step \in {"refresh", "login"} :
            step = IF ~scoped /\ k.tokens.refresh # 0 THEN "refresh" ELSE "login"
    OBVIOUS
  <2>11. PICK x \in ClientStates : x = [f EXCEPT !.step = step]
    BY ZenonT(30) DEF ClientStates, Steps
  <2>12. d.cause = k.cause /\ d.tokens = k.tokens /\ d.stage = k.stage /\ d.ran = k.ran
         /\ d.rejected = rejected /\ d.pending = k.pending
    BY <2>3, <2>4, <2>5 DEF ClientStates
  <2>13. /\ x.cause = cause /\ x.tokens = t /\ x.stage = k.stage /\ x.ran = k.ran
         /\ x.rejected = rejected /\ x.pending = k.pending /\ x.step = step
    BY <2>7, <2>9, <2>11, <2>12 DEF ClientStates
  <2>14. Becomes(c, x)
    <3>1. e.tokens = k.tokens
      BY <2>7, <2>12 DEF ClientStates
    <3>2. x = [[k EXCEPT !.rejected = @ \cup {k.tokens.access}] EXCEPT
                 !.scope = scoped, !.resumes = 0,
                 !.cause = IF k.stage = "first" THEN why ELSE @,
                 !.tokens.access = IF scoped THEN 0 ELSE @,
                 !.step = IF ~scoped /\ k.tokens.refresh # 0 THEN "refresh" ELSE "login"]
      BY <2>2, <2>3, <2>4, <2>5, <2>6, <2>7, <2>8, <2>9, <2>10, <2>11, <2>12, <3>1
    <3> QED
      BY <1>1, <1>3, <3>2 DEF Challenged
  <2>15. Ran(x)
    <3>1. k.stage \in {"connect", "reinit", "first"} /\ k.ran \in Nat
      BY <1>1, <1>3 DEF Framed, ClientStates, Stages
    <3>2. k.stage = "first" => cause = why /\ (why = "resume" \/ k.ran = 0)
      BY <1>1, <2>6 DEF Ran
    <3>3. k.ran <= 1
      BY <1>1, <3>1 DEF Ran
    <3>4. x.ran = k.ran /\ x.cause = cause /\ x.stage = k.stage /\ x.step \in {"refresh", "login"}
      BY <2>13
    <3> QED
      BY <1>1, <3>1, <3>2, <3>3, <3>4 DEF Ran
  <2>16. Framed(x)
    BY <1>1, <1>3, <2>13 DEF Framed
  <2>17. Known(x)
    <3>1. t.access <= issued
      BY <1>1, <2>1, <2>8, ClientOf DEF Known, Tokens
    <3>2. \A n \in rejected : n <= issued
      BY <1>1, <2>2 DEF Known
    <3> QED
      BY <1>1, <2>13, <3>1, <3>2 DEF Known, Moving
  <2> QED
    BY <2>14, <2>15, <2>16, <2>17, AloneStep
<1> QED
  BY <1>2, <1>3

\* A step within a frame: the request goes on with what it has.
LEMMA GoesOn ==
    ASSUME HttpIndInv, NEW c \in Clients, NEW x \in ClientStates, Becomes(c, x), UNCHANGED Around,
           NEW k \in ClientStates, k = client[c], k.step \in Moving, x.step \in Moving,
           x.tokens = k.tokens, x.pending = k.pending, x.rejected = k.rejected, Ran(x), Framed(x)
    PROVE  HttpIndInv'
<1>1. Known(x)
  BY ClientOf DEF Known, Moving
<1> QED
  BY <1>1, AloneStep

\* A change of the step alone.
LEMMA StepTo ==
    ASSUME NEW k \in ClientStates, NEW step \in Steps
    PROVE  \E x \in ClientStates :
              /\ x = [k EXCEPT !.step = step] /\ x.step = step /\ x.stage = k.stage
              /\ x.ran = k.ran /\ x.cause = k.cause /\ x.tokens = k.tokens
              /\ x.pending = k.pending /\ x.rejected = k.rejected
<1>1. PICK x \in ClientStates : x = [k EXCEPT !.step = step]
  BY DEF ClientStates
<1> QED
  BY <1>1 DEF ClientStates

\* The JSON-RPC answer of a request: after is the client that has it.
LEMMA AnsweredStep ==
    ASSUME HttpIndInv, NEW c \in Clients, NEW k \in ClientStates, k = client[c],
           NEW after \in ClientStates, NEW how \in {"result", "error"},
           Answered(c, how, after), UNCHANGED Around, k.step \in {"post", "stream"},
           after.step = k.step, after.stage = k.stage, after.tokens = k.tokens,
           after.pending = k.pending, after.rejected = k.rejected,
           after.ran <= 2, after.ran = 2 => after.cause = "resume",
           after.stage \in {"connect", "reinit"} => after.ran = 0
    PROVE  HttpIndInv'
<1>1. Ran(k) /\ Framed(k) /\ Known(k)
  BY ClientOf
<1>2. after.tokens.access <= issued
  BY <1>1 DEF Known
<1>3. CASE \E ok \in BOOLEAN : Becomes(c, DoneState(after, ok))
  BY <1>2, <1>3, EndStep
<1>4. ASSUME InInitialize(c), NEW step \in {"notify", "probe"}, Becomes(c, [after EXCEPT !.step = step])
      PROVE  HttpIndInv'
  <2>1. PICK x \in ClientStates :
           /\ x = [after EXCEPT !.step = step] /\ x.step = step /\ x.stage = k.stage
           /\ x.ran = after.ran /\ x.cause = after.cause /\ x.tokens = k.tokens
           /\ x.pending = k.pending /\ x.rejected = k.rejected
    <3>1. step \in Steps
      BY DEF Steps
    <3> QED
      BY <3>1, StepTo
  <2>2. k.stage \in {"connect", "reinit"}
    BY <1>4 DEF InInitialize
  <2>3. Ran(x) /\ Framed(x)
    BY <2>1, <2>2 DEF Ran, Framed
  <2> QED
    BY <1>4, <2>1, <2>3, GoesOn DEF Moving
<1> QED
  BY <1>3, <1>4 DEF Answered

\* The state after a POST.
LEMMA PostedFacts ==
    ASSUME HttpIndInv, NEW c \in Clients, client[c].step = "post", NEW executed \in BOOLEAN
    PROVE  LET k == client[c]
               x == Posted(c, executed)
           IN  /\ x \in ClientStates /\ x.step = "post" /\ x.stage = k.stage
               /\ x.cause = k.cause /\ x.tokens = k.tokens /\ x.pending = k.pending
               /\ x.rejected = k.rejected /\ x.session = k.session
               /\ x.ran <= 2 /\ (x.ran = 2 => x.cause = "resume")
               /\ x.stage \in {"connect", "reinit"} => x.ran = 0
               /\ x.stage = "first" => x.ran <= 1
<1>1. PICK k \in ClientStates : k = client[c] /\ Ran(k) /\ Framed(k) /\ k.step = "post"
  BY ClientOf
<1>2. PICK ran \in Nat : ran = IF InInitialize(c) \/ ~executed THEN k.ran ELSE k.ran + 1
  BY DEF ClientStates
<1>3. PICK x \in ClientStates : x = [k EXCEPT !.ran = ran]
  BY DEF ClientStates
<1>4. Posted(c, executed) = x
  BY <1>1, <1>2, <1>3 DEF Posted
<1>5. /\ x.step = "post" /\ x.stage = k.stage /\ x.cause = k.cause /\ x.tokens = k.tokens
      /\ x.pending = k.pending /\ x.rejected = k.rejected /\ x.session = k.session /\ x.ran = ran
  BY <1>1, <1>3 DEF ClientStates
<1>6. k.stage \in {"connect", "reinit", "first", "again"} /\ k.ran \in Nat
  BY <1>1 DEF Framed, ClientStates, Stages
<1>7. k.stage \in {"connect", "reinit"} <=> InInitialize(c)
  BY <1>1 DEF InInitialize
<1>8. /\ ran <= 2 /\ (ran = 2 => k.cause = "resume")
      /\ k.stage \in {"connect", "reinit"} => ran = 0
      /\ k.stage = "first" => ran <= 1
  BY <1>1, <1>2, <1>6, <1>7 DEF Ran
<1> QED
  BY <1>1, <1>4, <1>5, <1>8

\* request_once(): whatever comes of the POST.
LEMMA PostSteps ==
    ASSUME HttpIndInv, NEW c \in Clients,
           \/ PostLost(c) \/ PostChallenged(c) \/ PostExpired(c) \/ PostRefused(c) \/ PostAccepted(c)
    PROVE  HttpIndInv'
<1>1. PICK k \in ClientStates : k = client[c] /\ Ran(k) /\ Framed(k) /\ Known(k)
  BY ClientOf
<1>2. k.step = "post" /\ UNCHANGED Around
  BY <1>1 DEF PostLost, PostChallenged, PostExpired, PostRefused, PostAccepted, AtPost, Around
<1>3. CASE PostLost(c)
  <2>1. PICK executed \in BOOLEAN : Becomes(c, DoneState(Posted(c, executed), FALSE))
    BY <1>3 DEF PostLost, Admits, Serves
  <2>2. PICK x \in ClientStates : /\ x = Posted(c, executed) /\ x.tokens = k.tokens
                                  /\ x.ran <= 2 /\ (x.ran = 2 => x.cause = "resume")
    BY <1>1, <1>2, PostedFacts
  <2> QED
    BY <1>1, <1>2, <2>1, <2>2, EndStep DEF Known
<1>4. CASE PostChallenged(c)
  <2>1. \E scoped \in BOOLEAN : Challenged(c, scoped, "challenge")
    BY <1>4 DEF PostChallenged
  <2> QED
    BY <1>1, <1>2, <2>1, ChallengedStep
<1>5. CASE PostExpired(c)
  <2>1. CASE Fails(c)
    BY <1>2, <2>1, FailsStep
  <2>2. CASE /\ k.stage = "first"
             /\ client' = [client EXCEPT ![c].session = "none", ![c].stage = "reinit",
                                         ![c].tried = FALSE, ![c].cause = "expired"]
    <3>1. PICK a \in ClientStates : a = [k EXCEPT !.session = "none"]
      BY DEF ClientStates
    <3>2. PICK b \in ClientStates : b = [a EXCEPT !.stage = "reinit"]
      BY DEF ClientStates, Stages
    <3>3. PICK d \in ClientStates : d = [b EXCEPT !.tried = FALSE]
      BY DEF ClientStates
    <3>4. PICK x \in ClientStates : x = [d EXCEPT !.cause = "expired"]
      BY DEF ClientStates
    <3>5. Becomes(c, x)
      BY <1>1, <2>2, <3>1, <3>2, <3>3, <3>4 DEF Becomes
    <3>6. /\ x.step = "post" /\ x.stage = "reinit" /\ x.ran = k.ran /\ x.tokens = k.tokens
          /\ x.pending = k.pending /\ x.rejected = k.rejected
      BY <1>2, <3>1, <3>2, <3>3, <3>4 DEF ClientStates
    <3>7. k.ran = 0
      BY <1>1, <1>2, <2>2 DEF Ran
    <3>8. Ran(x) /\ Framed(x)
      BY <3>6, <3>7 DEF Ran, Framed
    <3> QED
      BY <1>1, <1>2, <3>5, <3>6, <3>8, GoesOn DEF Moving
  <2> QED
    BY <1>1, <1>5, <2>1, <2>2 DEF PostExpired
<1>6. CASE PostRefused(c)
  <2>1. CASE Fails(c)
    BY <1>2, <2>1, FailsStep
  <2>2. CASE InInitialize(c) /\ client' = [client EXCEPT ![c].step = "probe"]
    <3>1. PICK x \in ClientStates :
             /\ x = [k EXCEPT !.step = "probe"] /\ x.step = "probe" /\ x.stage = k.stage
             /\ x.ran = k.ran /\ x.cause = k.cause /\ x.tokens = k.tokens
             /\ x.pending = k.pending /\ x.rejected = k.rejected
      BY StepTo DEF Steps
    <3>2. Becomes(c, x)
      BY <1>1, <2>2, <3>1 DEF Becomes
    <3>3. k.stage \in {"connect", "reinit"}
      BY <1>1, <2>2 DEF InInitialize
    <3>4. Ran(x) /\ Framed(x)
      BY <1>1, <3>1, <3>3 DEF Ran, Framed
    <3> QED
      BY <1>1, <1>2, <3>1, <3>2, <3>4, GoesOn DEF Moving
  <2> QED
    BY <1>6, <2>1, <2>2 DEF PostRefused, Refused
<1>7. CASE PostAccepted(c)
  <2>1. PICK p \in ClientStates :
           /\ p = Posted(c, TRUE) /\ p.step = "post" /\ p.stage = k.stage
           /\ p.cause = k.cause /\ p.tokens = k.tokens /\ p.pending = k.pending
           /\ p.rejected = k.rejected
           /\ p.ran <= 2 /\ (p.ran = 2 => p.cause = "resume")
           /\ p.stage \in {"connect", "reinit"} => p.ran = 0
           /\ p.stage = "first" => p.ran <= 1
    BY <1>1, <1>2, PostedFacts
  <2>2. PICK session \in {"none", "live", "dead"} :
           session = IF server.sessions THEN "live" ELSE client[c].session
    BY <1>1 DEF ClientStates
  <2>3. PICK after \in ClientStates : after = [p EXCEPT !.session = session]
    BY DEF ClientStates
  <2>4. /\ after.step = "post" /\ after.stage = k.stage /\ after.cause = k.cause
        /\ after.tokens = k.tokens /\ after.pending = k.pending /\ after.rejected = k.rejected
        /\ after.ran = p.ran
    BY <2>1, <2>3, ZenonT(30) DEF ClientStates
  <2>5. CASE \E how \in {"result", "error"} : Answered(c, how, after)
    BY <1>1, <1>2, <2>1, <2>4, <2>5, AnsweredStep, ZenonT(30)
  <2>6. CASE Becomes(c, [after EXCEPT !.step = "stream", !.resumes = Resumes])
    <3>1. PICK a \in ClientStates : a = [after EXCEPT !.step = "stream"]
      BY DEF ClientStates, Steps
    <3>2. PICK x \in ClientStates : x = [a EXCEPT !.resumes = Resumes]
      <4>1. Resumes \in 0..Resumes
        BY HttpBounds
      <4> QED
        BY <4>1 DEF ClientStates
    <3>3. /\ x.step = "stream" /\ x.stage = k.stage /\ x.ran = p.ran /\ x.cause = k.cause
          /\ x.tokens = k.tokens /\ x.pending = k.pending /\ x.rejected = k.rejected
      BY <2>4, <3>1, <3>2 DEF ClientStates
    <3>4. Ran(x) /\ Framed(x)
      BY <1>1, <1>2, <2>1, <3>3 DEF Ran, Framed
    <3> QED
      BY <1>1, <1>2, <2>6, <3>1, <3>2, <3>3, <3>4, GoesOn DEF Moving
  <2> QED
    BY <1>7, <2>1, <2>2, <2>3, <2>5, <2>6 DEF PostAccepted
<1> QED
  BY <1>3, <1>4, <1>5, <1>6, <1>7

\* The stream of an answer, and its resumptions (read_sse_until).
LEMMA StreamSteps ==
    ASSUME HttpIndInv, NEW c \in Clients,
           StreamAnswers(c) \/ StreamCut(c) \/ StreamDeadline(c) \/ Resume(c)
    PROVE  HttpIndInv'
<1>1. PICK k \in ClientStates : k = client[c] /\ Ran(k) /\ Framed(k) /\ Known(k)
  BY ClientOf
<1>2. k.step \in {"stream", "resume"} /\ UNCHANGED Around
  BY <1>1 DEF StreamAnswers, StreamCut, StreamDeadline, Resume, AtStream, Around
<1>3. CASE StreamAnswers(c)
  <2>1. PICK how \in {"result", "error"} : Answered(c, how, k)
    BY <1>1, <1>3 DEF StreamAnswers
  <2>2. k.step = "stream"
    BY <1>1, <1>3 DEF StreamAnswers, AtStream
  <2>3. /\ k.ran <= 2 /\ (k.ran = 2 => k.cause = "resume")
        /\ k.stage \in {"connect", "reinit"} => k.ran = 0
    BY <1>1 DEF Ran
  <2> QED
    BY <1>1, <1>2, <2>1, <2>2, <2>3, AnsweredStep
<1>4. CASE Fails(c)
  BY <1>2, <1>4, FailsStep
<1>5. ASSUME NEW x \in ClientStates, Becomes(c, x), x.step \in {"stream", "resume"},
             x.stage = k.stage, x.ran = k.ran, x.cause = k.cause, x.tokens = k.tokens,
             x.pending = k.pending, x.rejected = k.rejected
      PROVE  HttpIndInv'
  <2>1. Ran(x) /\ Framed(x)
    BY <1>1, <1>2, <1>5 DEF Ran, Framed
  <2> QED
    BY <1>1, <1>2, <1>5, <2>1, GoesOn DEF Moving
<1>6. CASE StreamCut(c) /\ ~Fails(c)
  <2>1. k.resumes \in 0..Resumes /\ k.resumes # 0
    BY <1>1, <1>6 DEF StreamCut, ClientStates
  <2>2. PICK n \in 0..Resumes : n = k.resumes - 1
    BY <2>1, HttpBounds
  <2>3. PICK a \in ClientStates :
           /\ a = [k EXCEPT !.step = "resume"] /\ a.step = "resume" /\ a.stage = k.stage
           /\ a.ran = k.ran /\ a.cause = k.cause /\ a.tokens = k.tokens
           /\ a.pending = k.pending /\ a.rejected = k.rejected
    BY StepTo DEF Steps
  <2>4. PICK x \in ClientStates : x = [a EXCEPT !.resumes = n]
    BY DEF ClientStates
  <2>5. /\ x.step = a.step /\ x.stage = a.stage /\ x.ran = a.ran /\ x.cause = a.cause
        /\ x.tokens = a.tokens /\ x.pending = a.pending /\ x.rejected = a.rejected
    BY <2>4 DEF ClientStates
  <2>6. client' = [client EXCEPT ![c].step = "resume", ![c].resumes = @ - 1]
    BY <1>6 DEF StreamCut
  <2>7. Becomes(c, x)
    BY <1>1, <2>2, <2>3, <2>4, <2>6 DEF Becomes
  <2> QED
    BY <1>5, <2>3, <2>5, <2>7
<1>7. CASE Resume(c) /\ ~Fails(c)
  <2>1. CASE Challenged(c, FALSE, "resume")
    BY <1>1, <1>2, <1>7, <2>1, ChallengedStep DEF Resume
  <2>2. CASE client' = [client EXCEPT ![c].step = "stream"]
    <3>1. PICK x \in ClientStates :
             /\ x = [k EXCEPT !.step = "stream"] /\ x.step = "stream" /\ x.stage = k.stage
             /\ x.ran = k.ran /\ x.cause = k.cause /\ x.tokens = k.tokens
             /\ x.pending = k.pending /\ x.rejected = k.rejected
      BY StepTo DEF Steps
    <3>2. Becomes(c, x)
      BY <1>1, <2>2, <3>1 DEF Becomes
    <3> QED
      BY <1>5, <3>1, <3>2
  <2> QED
    BY <1>7, <2>1, <2>2 DEF Resume
<1> QED
  BY <1>3, <1>4, <1>6, <1>7 DEF StreamDeadline

\* The rest of initialize(): its notification, and the legacy probe.
LEMMA InitializeSteps ==
    ASSUME HttpIndInv, NEW c \in Clients, NotifyInitialized(c) \/ ProbeLegacy(c)
    PROVE  HttpIndInv'
<1>1. PICK k \in ClientStates : k = client[c] /\ Ran(k) /\ Framed(k) /\ Known(k)
  BY ClientOf
<1>2. /\ k.step \in {"notify", "probe"} /\ UNCHANGED Around
      /\ k.stage \in {"connect", "reinit"} /\ k.ran = 0
  BY <1>1 DEF NotifyInitialized, ProbeLegacy, Around, Framed, Ran
<1>3. CASE \E ok \in BOOLEAN : Becomes(c, DoneState(k, ok))
  BY <1>1, <1>2, <1>3, EndStep DEF Known
<1>4. PICK a \in ClientStates :
         /\ a = [k EXCEPT !.step = "post"] /\ a.step = "post" /\ a.stage = k.stage
         /\ a.ran = k.ran /\ a.cause = k.cause /\ a.tokens = k.tokens
         /\ a.pending = k.pending /\ a.rejected = k.rejected
  BY StepTo DEF Steps
<1>5. ASSUME Becomes(c, [k EXCEPT !.stage = "again", !.step = "post", !.tried = FALSE])
      PROVE  HttpIndInv'
  <2>1. PICK b \in ClientStates : b = [a EXCEPT !.stage = "again"]
    BY DEF ClientStates, Stages
  <2>2. PICK x \in ClientStates : x = [b EXCEPT !.tried = FALSE]
    BY DEF ClientStates
  <2>3. x = [k EXCEPT !.stage = "again", !.step = "post", !.tried = FALSE]
    BY <1>4, <2>1, <2>2
  <2>4. /\ x.step = "post" /\ x.stage = "again" /\ x.ran = k.ran /\ x.tokens = k.tokens
        /\ x.pending = k.pending /\ x.rejected = k.rejected
    BY <1>4, <2>1, <2>2 DEF ClientStates
  <2>5. Ran(x) /\ Framed(x)
    BY <1>2, <2>4 DEF Ran, Framed
  <2> QED
    BY <1>1, <1>2, <1>5, <2>3, <2>4, <2>5, GoesOn DEF Moving
<1>6. ASSUME client' = [client EXCEPT ![c].legacy = TRUE, ![c].step = "post", ![c].tried = TRUE]
      PROVE  HttpIndInv'
  <2>1. PICK b \in ClientStates : b = [a EXCEPT !.legacy = TRUE]
    BY DEF ClientStates
  <2>2. PICK x \in ClientStates : x = [b EXCEPT !.tried = TRUE]
    BY DEF ClientStates
  <2>3. Becomes(c, x)
    BY <1>1, <1>4, <1>6, <2>1, <2>2 DEF Becomes
  <2>4. /\ x.step = "post" /\ x.stage = k.stage /\ x.ran = k.ran /\ x.tokens = k.tokens
        /\ x.pending = k.pending /\ x.rejected = k.rejected
    BY <1>4, <2>1, <2>2 DEF ClientStates
  <2>5. Ran(x) /\ Framed(x)
    BY <1>2, <2>4 DEF Ran, Framed
  <2> QED
    BY <1>1, <1>2, <2>3, <2>4, <2>5, GoesOn DEF Moving
<1> QED
  BY <1>1, <1>3, <1>5, <1>6 DEF NotifyInitialized, ProbeLegacy, Fails

\* A client starts, is given a call, is shut down or killed, or loses its session.
LEMMA LifeSteps ==
    ASSUME HttpIndInv, NEW c \in Clients,
           Start(c) \/ BeginCall(c) \/ Shutdown(c) \/ Crash(c) \/ ExpireSession(c)
    PROVE  HttpIndInv'
<1>1. PICK k \in ClientStates : k = client[c] /\ Ran(k) /\ Framed(k) /\ Known(k)
  BY ClientOf
<1>2. CASE Start(c)
  <2>1. NoTokens \in Tokens /\ 0 \in 0..Resumes /\ 0 \in 0..MaxCalls /\ 0 \in 0..MaxStarts
    BY HttpBounds DEF NoTokens, Tokens
  <2>2. PICK t \in Tokens : t = (IF server.auth THEN store.tokens ELSE NoTokens) /\ t.access <= issued
    BY <2>1, ClientOf DEF NoTokens
  <2>3. Stopped \in ClientStates
    BY <2>1 DEF Stopped, ClientStates, Stages, Steps
  <2>4. PICK a \in ClientStates : a = [Stopped EXCEPT !.stage = "connect"]
    BY <2>3 DEF ClientStates, Stages
  <2>5. PICK b \in ClientStates : b = [a EXCEPT !.step = "post"]
    BY DEF ClientStates, Steps
  <2>6. PICK n \in 0..MaxStarts : n = k.starts + 1
    BY <1>1, <1>2, HttpBounds DEF Start, ClientStates
  <2>7. PICK d \in ClientStates : d = [b EXCEPT !.starts = n]
    BY DEF ClientStates
  <2>8. PICK e \in ClientStates : e = [d EXCEPT !.calls = k.calls]
    BY DEF ClientStates
  <2>9. PICK x \in ClientStates : x = [e EXCEPT !.tokens = t]
    BY DEF ClientStates
  <2>10. Becomes(c, x)
    BY <1>1, <1>2, <2>2, <2>4, <2>5, <2>6, <2>7, <2>8, <2>9 DEF Becomes, Start
  <2>11. /\ x.stage = "connect" /\ x.step = "post" /\ x.ran = 0 /\ x.pending = NoTokens
         /\ x.rejected = {} /\ x.tokens = t
    BY <2>3, <2>4, <2>5, <2>7, <2>8, <2>9 DEF ClientStates, Stopped
  <2>12. Ran(x) /\ Framed(x)
    BY <2>11 DEF Ran, Framed
  <2>13. Known(x)
    BY <2>2, <2>11, ClientOf DEF Known, Moving, NoTokens
  <2> QED
    BY <1>2, <2>10, <2>12, <2>13, AloneStep DEF Start, Around
<1>3. CASE BeginCall(c)
  <2>1. PICK a \in ClientStates : a = [k EXCEPT !.stage = "first"]
    BY DEF ClientStates, Stages
  <2>2. PICK b \in ClientStates : b = [a EXCEPT !.step = "post"]
    BY DEF ClientStates, Steps
  <2>3. PICK n \in 0..MaxCalls : n = k.calls + 1
    BY <1>1, <1>3, HttpBounds DEF BeginCall, ClientStates
  <2>4. PICK d \in ClientStates : d = [b EXCEPT !.calls = n]
    BY DEF ClientStates
  <2>5. PICK e \in ClientStates : e = [d EXCEPT !.ran = 0]
    BY DEF ClientStates
  <2>6. PICK f \in ClientStates : f = [e EXCEPT !.cause = "none"]
    BY DEF ClientStates
  <2>7. PICK x \in ClientStates : x = [f EXCEPT !.rejected = {}]
    BY DEF ClientStates
  <2>8. d.calls = n /\ d.stage = "first" /\ d.step = "post" /\ d.tokens = k.tokens /\ d.pending = k.pending
    BY <2>1, <2>2, <2>4 DEF ClientStates
  <2>9. b.calls = k.calls
    BY <2>1, <2>2 DEF ClientStates
  <2>10. Becomes(c, x)
    <3>1. client' = [client EXCEPT ![c].stage = "first", ![c].step = "post", ![c].calls = @ + 1,
                                   ![c].ran = 0, ![c].cause = "none", ![c].rejected = {}]
      BY <1>3 DEF BeginCall
    <3>2. x = [k EXCEPT !.stage = "first", !.step = "post", !.calls = @ + 1,
                        !.ran = 0, !.cause = "none", !.rejected = {}]
      BY <2>1, <2>2, <2>3, <2>4, <2>5, <2>6, <2>7, <2>9
    <3> QED
      BY <1>1, <3>1, <3>2 DEF Becomes
  <2>11. /\ x.stage = "first" /\ x.step = "post" /\ x.ran = 0 /\ x.pending = k.pending
         /\ x.rejected = {} /\ x.tokens = k.tokens
    BY <2>5, <2>6, <2>7, <2>8 DEF ClientStates
  <2>12. Ran(x) /\ Framed(x)
    BY <2>11 DEF Ran, Framed
  <2>13. Known(x)
    BY <1>1, <2>11 DEF Known, Moving
  <2> QED
    BY <1>3, <2>10, <2>12, <2>13, AloneStep DEF BeginCall, Around
<1>4. CASE Shutdown(c)
  BY <1>1, <1>4, EndStep DEF Shutdown, Around, Ran, Known
<1>5. CASE Crash(c)
  <2>1. PICK x \in ClientStates :
           /\ Becomes(c, x) /\ x.stage = "off" /\ x.step = "rest"
           /\ x.ran = k.ran /\ x.cause = k.cause
           /\ x.tokens = NoTokens /\ x.pending = NoTokens /\ x.rejected = {}
    BY <1>1, <1>5, OffFacts DEF Crash
  <2>2. Ran(x) /\ Framed(x) /\ Known(x)
    <3>1. x.tokens.access <= issued
      BY <2>1, ClientOf DEF NoTokens
    <3> QED
      BY <1>1, <2>1, <3>1, RestShape DEF Ran
  <2>3. UNCHANGED <<server, good, fresh, wide, issued>> /\ (UNCHANGED store \/ store' = Torn)
    BY <1>5 DEF Crash, auth
  <2>4. /\ store' \in [state : {"unset", "absent", "torn", "saved"}, tokens : Tokens]
        /\ store'.tokens.access <= issued
    <3>1. Torn \in [state : {"unset", "absent", "torn", "saved"}, tokens : Tokens]
      BY HttpBounds DEF Torn, NoTokens, Tokens
    <3>2. Torn.tokens.access = 0
      BY DEF Torn, NoTokens
    <3> QED
      BY <2>3, <3>1, <3>2, ClientOf
  <2>5. Known(x)'
    BY <2>2, <2>3 DEF Known
  <2> QED
    BY <2>1, <2>2, <2>3, <2>4, <2>5, ClientOf, ClientStep
<1>6. CASE ExpireSession(c)
  <2>1. PICK x \in ClientStates : x = [k EXCEPT !.session = "dead"]
    BY DEF ClientStates
  <2>2. /\ x.step = k.step /\ x.stage = k.stage /\ x.ran = k.ran /\ x.cause = k.cause
        /\ x.tokens = k.tokens /\ x.pending = k.pending /\ x.rejected = k.rejected
    BY <2>1 DEF ClientStates
  <2>3. Ran(x) /\ Framed(x) /\ Known(x)
    BY <1>1, <2>2 DEF Ran, Framed, Known
  <2>4. Becomes(c, x)
    BY <1>1, <1>6, <2>1 DEF ExpireSession, Becomes
  <2> QED
    BY <1>6, <2>3, <2>4, AloneStep DEF ExpireSession, Around
<1> QED
  BY <1>2, <1>3, <1>4, <1>5, <1>6

\* A grant that is to be persisted is new to the request (refresh_tokens,
\* authorize_interactive).
LEMMA GrantedStep ==
    ASSUME HttpIndInv, NEW c \in Clients, NEW via \in {"refresh", "login"}, NEW granted \in Tokens,
           client[c].step = via,
           client' = [client EXCEPT ![c].step = "persist", ![c].via = via, ![c].pending = granted],
           granted.access = issued + 1, issued < MaxGrants, issued' = issued + 1,
           good' \subseteq Grants, fresh' \subseteq Grants, wide' \subseteq Grants,
           UNCHANGED <<server, store>>
    PROVE  HttpIndInv'
<1>1. PICK k \in ClientStates : k = client[c] /\ Ran(k) /\ Framed(k) /\ Known(k)
  BY ClientOf
<1>2. PICK a \in ClientStates : a = [k EXCEPT !.step = "persist"]
  BY DEF ClientStates, Steps
<1>3. PICK b \in ClientStates : b = [a EXCEPT !.via = via]
  BY DEF ClientStates
<1>4. PICK x \in ClientStates : x = [b EXCEPT !.pending = granted]
  BY DEF ClientStates
<1>5. Becomes(c, x)
  BY <1>1, <1>2, <1>3, <1>4 DEF Becomes
<1>6. /\ x.step = "persist" /\ x.stage = k.stage /\ x.ran = k.ran /\ x.cause = k.cause
      /\ x.tokens = k.tokens /\ x.pending = granted /\ x.rejected = k.rejected
  BY <1>2, <1>3, <1>4 DEF ClientStates
<1>7. k.step \in {"refresh", "login"} /\ k.stage \in {"connect", "first", "reinit"}
  BY <1>1 DEF Framed, ClientStates, Stages
<1>8. Ran(x) /\ Framed(x)
  BY <1>1, <1>6, <1>7 DEF Ran, Framed
<1>9. issued \in Nat /\ MaxGrants \in Nat /\ issued' \in 0..MaxGrants /\ issued <= issued'
  BY ClientOf
<1>10. Known(x)'
  <2>1. k.tokens.access \in Nat /\ \A n \in k.rejected : n \in Nat /\ n <= issued
    BY <1>1, <1>9 DEF Known, ClientStates, Tokens
  <2>2. k.tokens.access <= issued'
    BY <1>1, <1>9, <2>1 DEF Known
  <2>3. \A n \in k.rejected : n <= issued' /\ n # issued + 1
    BY <1>9, <2>1
  <2> QED
    BY <1>6, <1>9, <2>2, <2>3 DEF Known, Moving
<1>11. store.tokens.access <= issued'
  BY <1>9, ClientOf DEF Tokens
<1> QED
  BY <1>5, <1>8, <1>9, <1>10, <1>11, ClientOf, ClientStep

\* The tokens of a request are replaced before it is sent again (oauth.rs).
LEMMA OAuthSteps ==
    ASSUME HttpIndInv, NEW c \in Clients, OAuthStep(c)
    PROVE  HttpIndInv'
<1>1. PICK k \in ClientStates : k = client[c] /\ Ran(k) /\ Framed(k) /\ Known(k)
  BY ClientOf
<1>2. k.step \in {"refresh", "login", "persist"} /\ k.stage \in {"connect", "first", "reinit"}
  BY <1>1 DEF OAuthStep, RefreshFails, RefreshGranted, LoginFails, LoginGranted,
              PersistTokens, PersistFails, Framed, ClientStates, Stages
<1>3. issued \in Nat /\ MaxGrants \in Nat /\ issued \in 0..MaxGrants /\ issued <= issued
  BY ClientOf
<1>4. k.tokens \in Tokens /\ k.pending \in Tokens
  BY DEF ClientStates
\* The refresh is given up for a login.
<1>5. ASSUME NEW x \in ClientStates, Becomes(c, x), x.step = "login", x.stage = k.stage,
             x.ran = k.ran, x.cause = k.cause, x.tokens = k.tokens,
             x.pending \in {k.pending, NoTokens}, x.rejected = k.rejected,
             UNCHANGED <<server, good, wide, issued>>, fresh' \subseteq Grants,
             store' \in [state : {"unset", "absent", "torn", "saved"}, tokens : Tokens],
             store'.tokens.access <= issued
      PROVE  HttpIndInv'
  <2>1. Ran(x) /\ Framed(x)
    BY <1>1, <1>2, <1>5 DEF Ran, Framed
  <2>2. Known(x)'
    BY <1>1, <1>3, <1>5 DEF Known, Moving, NoTokens
  <2> QED
    BY <1>3, <1>5, <2>1, <2>2, ClientOf, ClientStep
<1>6. CASE RefreshFails(c)
  <2>1. PICK x \in ClientStates :
           /\ x = [k EXCEPT !.step = "login"] /\ x.step = "login" /\ x.stage = k.stage
           /\ x.ran = k.ran /\ x.cause = k.cause /\ x.tokens = k.tokens
           /\ x.pending = k.pending /\ x.rejected = k.rejected
    BY StepTo DEF Steps
  <2>2. Becomes(c, x)
    BY <1>1, <1>6, <2>1 DEF RefreshFails, GiveUpRefresh, Becomes
  <2>3. /\ UNCHANGED <<server, good, wide, issued, store>> /\ fresh' \subseteq Grants
    BY <1>6, ClientOf DEF RefreshFails
  <2> QED
    BY <1>5, <2>1, <2>2, <2>3, ClientOf
<1>7. issued < MaxGrants => issued + 1 \in Grants /\ issued + 1 \in 0..MaxGrants
  BY <1>3 DEF Grants
<1>8. CASE RefreshGranted(c)
  <2>1. PICK rotates \in BOOLEAN :
           /\ fresh' = IF rotates THEN (fresh \ {k.tokens.refresh}) \cup {issued + 1} ELSE fresh
           /\ client' = [client EXCEPT ![c].step = "persist", ![c].via = "refresh",
                  ![c].pending = [access |-> issued + 1,
                                  refresh |-> IF rotates THEN issued + 1 ELSE k.tokens.refresh]]
    BY <1>1, <1>8 DEF RefreshGranted
  <2>2. /\ issued < MaxGrants /\ issued' = issued + 1 /\ UNCHANGED <<server, store>>
        /\ client[c].step = "refresh"
        /\ good' \subseteq Grants /\ wide' \subseteq Grants /\ fresh' \subseteq Grants
    BY <1>7, <1>8, <2>1, ClientOf DEF RefreshGranted
  <2>3. PICK granted \in Tokens :
           granted = [access |-> issued + 1,
                      refresh |-> IF rotates THEN issued + 1 ELSE k.tokens.refresh]
    BY <1>4, <1>7, <2>2 DEF Tokens
  <2> QED
    BY <2>1, <2>2, <2>3, GrantedStep
<1>9. CASE LoginFails(c)
  BY <1>9, FailsStep DEF LoginFails, Around
<1>10. CASE LoginGranted(c)
  <2>1. PICK refreshable \in BOOLEAN :
           /\ fresh' = IF refreshable THEN fresh \cup {issued + 1} ELSE fresh
           /\ client' = [client EXCEPT ![c].step = "persist", ![c].via = "login",
                  ![c].pending = [access |-> issued + 1,
                                  refresh |-> IF refreshable THEN issued + 1 ELSE k.tokens.refresh]]
    BY <1>1, <1>10 DEF LoginGranted
  <2>2. /\ issued < MaxGrants /\ issued' = issued + 1 /\ UNCHANGED <<server, store>>
        /\ client[c].step = "login"
        /\ good' \subseteq Grants /\ wide' \subseteq Grants /\ fresh' \subseteq Grants
    BY <1>7, <1>10, <2>1, ClientOf DEF LoginGranted
  <2>3. PICK granted \in Tokens :
           granted = [access |-> issued + 1,
                      refresh |-> IF refreshable THEN issued + 1 ELSE k.tokens.refresh]
    BY <1>4, <1>7, <2>2 DEF Tokens
  <2> QED
    BY <2>1, <2>2, <2>3, GrantedStep
<1>11. CASE PersistTokens(c)
  <2>1. k.step = "persist" /\ Becomes(c, RecoveredState([k EXCEPT !.tokens = k.pending]))
    BY <1>1, <1>11 DEF PersistTokens
  <2>2. PICK z \in ClientStates : z = [k EXCEPT !.tokens = k.pending]
    BY <1>4 DEF ClientStates
  <2>3. z.stage = k.stage /\ z.tried = k.tried /\ z.tokens = k.pending
    BY <2>2 DEF ClientStates
  <2>4. PICK a \in ClientStates : a = [z EXCEPT !.step = "post"]
    BY DEF ClientStates, Steps
  <2>5. PICK b \in ClientStates : b = [a EXCEPT !.pending = NoTokens]
    <3>1. NoTokens \in Tokens
      BY HttpBounds DEF NoTokens, Tokens
    <3> QED
      BY <3>1 DEF ClientStates
  <2>6. PICK d \in ClientStates : d = [b EXCEPT !.via = "refresh"]
    BY DEF ClientStates
  <2>7. PICK e \in ClientStates : e = [d EXCEPT !.scope = FALSE]
    BY DEF ClientStates
  <2>8. PICK stage \in {"connect", "again", "reinit"} :
           stage = IF k.stage = "first" THEN "again" ELSE k.stage
    BY <1>2
  <2>9. PICK f \in ClientStates : f = [e EXCEPT !.stage = stage]
    BY DEF ClientStates, Stages
  <2>10. PICK tried \in BOOLEAN : tried = (k.tried \/ k.stage # "first")
    BY DEF ClientStates
  <2>11. PICK x \in ClientStates : x = [f EXCEPT !.tried = tried]
    BY DEF ClientStates
  <2>12. e.stage = k.stage /\ e.tried = k.tried
    BY <2>3, <2>4, <2>5, <2>6, <2>7 DEF ClientStates
  <2>13. Becomes(c, x)
    <3>1. f.tried = k.tried
      BY <2>9, <2>12 DEF ClientStates
    <3>2. RecoveredState(z) = x
      BY <2>3, <2>4, <2>5, <2>6, <2>7, <2>8, <2>9, <2>10, <2>11, <2>12, <3>1 DEF RecoveredState
    <3> QED
      BY <2>1, <2>2, <3>2
  <2>14. /\ b.ran = k.ran /\ b.cause = k.cause /\ b.tokens = k.pending /\ b.pending = NoTokens
         /\ b.rejected = k.rejected /\ b.step = "post"
    BY <2>2, <2>4, <2>5 DEF ClientStates
  <2>15. /\ x.ran = b.ran /\ x.cause = b.cause /\ x.tokens = b.tokens /\ x.pending = b.pending
         /\ x.rejected = b.rejected /\ x.step = b.step /\ x.stage = stage
    BY <2>6, <2>7, <2>9, <2>11 DEF ClientStates
  <2>16. Ran(x) /\ Framed(x)
    BY <1>1, <1>2, <2>1, <2>8, <2>14, <2>15 DEF Ran, Framed
  <2>17. UNCHANGED <<server, good, fresh, wide, issued>>
    BY <1>11 DEF PersistTokens, auth
  <2>18. Known(x)'
    BY <1>1, <1>3, <2>1, <2>14, <2>15, <2>17 DEF Known, Moving, NoTokens
  <2>19. /\ store' \in [state : {"unset", "absent", "torn", "saved"}, tokens : Tokens]
         /\ store'.tokens.access <= issued
    BY <1>1, <1>4, <1>11, ClientOf DEF PersistTokens, Saved, Known
  <2> QED
    BY <1>3, <2>13, <2>16, <2>17, <2>18, <2>19, ClientOf, ClientStep
<1>12. CASE PersistFails(c)
  <2>1. /\ UNCHANGED <<server, good, fresh, wide, issued>>
        /\ store' \in {store, Torn, Saved(k.pending)}
    BY <1>1, <1>12 DEF PersistFails, auth
  <2>2. /\ store' \in [state : {"unset", "absent", "torn", "saved"}, tokens : Tokens]
        /\ store'.tokens.access <= issued
    <3>1. NoTokens \in Tokens /\ NoTokens.access = 0
      BY HttpBounds DEF NoTokens, Tokens
    <3> QED
      BY <1>1, <1>3, <1>4, <2>1, <3>1, ClientOf DEF Saved, Torn, Known
  <2>3. CASE Fails(c)
    <3>1. PICK x \in ClientStates :
             /\ Becomes(c, x) /\ x.stage \in {"off", "idle"} /\ x.step = "rest"
             /\ x.ran = k.ran /\ x.cause = k.cause
             /\ x.tokens \in {NoTokens, k.tokens} /\ x.pending = NoTokens /\ x.rejected = {}
      BY <1>1, <2>3, DoneFacts DEF Fails
    <3>2. x.tokens.access <= issued
      BY <1>1, <1>3, <3>1 DEF Known, NoTokens
    <3>3. Ran(x) /\ Framed(x) /\ Known(x)
      BY <1>1, <3>1, <3>2, RestShape DEF Ran
    <3>4. Known(x)'
      BY <2>1, <3>3 DEF Known
    <3> QED
      BY <1>3, <2>1, <2>2, <3>1, <3>3, <3>4, ClientOf, ClientStep
  <2>4. CASE client' = [client EXCEPT ![c].step = "login", ![c].pending = NoTokens]
    <3>1. PICK a \in ClientStates : a = [k EXCEPT !.step = "login"]
      BY DEF ClientStates, Steps
    <3>2. PICK x \in ClientStates : x = [a EXCEPT !.pending = NoTokens]
      <4>1. NoTokens \in Tokens
        BY HttpBounds DEF NoTokens, Tokens
      <4> QED
        BY <4>1 DEF ClientStates
    <3>3. Becomes(c, x)
      BY <1>1, <2>4, <3>1, <3>2 DEF Becomes
    <3>4. /\ x.step = "login" /\ x.stage = k.stage /\ x.ran = k.ran /\ x.cause = k.cause
          /\ x.tokens = k.tokens /\ x.pending = NoTokens /\ x.rejected = k.rejected
      BY <3>1, <3>2 DEF ClientStates
    <3> QED
      BY <1>5, <2>1, <2>2, <3>3, <3>4, ClientOf
  <2> QED
    BY <1>12, <2>3, <2>4 DEF PersistFails
<1> QED
  BY <1>6, <1>8, <1>9, <1>10, <1>11, <1>12 DEF OAuthStep

\* What happens outside the clients: grants are revoked, and other processes
\* use the same store.
LEMMA OtherSteps ==
    ASSUME HttpIndInv, RevokeAccess \/ OthersGrant \/ OthersSave
    PROVE  HttpIndInv'
<1>1. /\ issued \in 0..MaxGrants /\ MaxGrants \in Nat
      /\ good \subseteq Grants /\ fresh \subseteq Grants /\ wide \subseteq Grants
      /\ store \in [state : {"unset", "absent", "torn", "saved"}, tokens : Tokens]
      /\ store.tokens.access \in Int /\ store.tokens.access <= issued
  BY HttpBounds DEF HttpIndInv, HttpTypeOK, Tokens
<1>2. UNCHANGED <<client, server, wide>>
  BY DEF RevokeAccess, OthersGrant, OthersSave, auth
<1>3. /\ good' \subseteq Grants /\ fresh' \subseteq Grants
      /\ issued' \in 0..MaxGrants /\ issued <= issued'
      /\ store' \in [state : {"unset", "absent", "torn", "saved"}, tokens : Tokens]
      /\ store'.tokens.access <= issued'
  <2>1. CASE RevokeAccess
    BY <1>1, <2>1 DEF RevokeAccess
  <2>2. CASE OthersGrant
    <3>1. issued + 1 \in Grants /\ issued + 1 \in 0..MaxGrants
      BY <1>1, <2>2 DEF OthersGrant, Grants
    <3>2. good' \subseteq Grants /\ fresh' \subseteq Grants /\ issued' = issued + 1 /\ store' = store
      BY <1>1, <2>2, <3>1 DEF OthersGrant
    <3>3. issued' \in 0..MaxGrants /\ issued <= issued'
      BY <1>1, <3>1, <3>2
    <3>4. store'.tokens.access <= issued'
      BY <1>1, <3>2
    <3>5. store' \in [state : {"unset", "absent", "torn", "saved"}, tokens : Tokens]
      BY <1>1, <3>2
    <3>6. good' \subseteq Grants /\ fresh' \subseteq Grants
      BY <3>2
    <3> QED
      BY <3>3, <3>4, <3>5, <3>6
  <2>3. CASE OthersSave
    <3>1. UNCHANGED <<good, fresh, issued>>
      BY <2>3 DEF OthersSave, auth
    <3>2. ASSUME store' = Torn
          PROVE  /\ store' \in [state : {"unset", "absent", "torn", "saved"}, tokens : Tokens]
                 /\ store'.tokens.access <= issued
      BY <1>1, <3>2 DEF Torn, NoTokens, Tokens
    <3>3. ASSUME NEW n \in 1..issued, store' = Saved([access |-> n, refresh |-> n])
          PROVE  /\ store' \in [state : {"unset", "absent", "torn", "saved"}, tokens : Tokens]
                 /\ store'.tokens.access <= issued
      BY <1>1, <3>3 DEF Saved, Tokens
    <3>4. /\ store' \in [state : {"unset", "absent", "torn", "saved"}, tokens : Tokens]
          /\ store'.tokens.access <= issued
      BY <2>3, <3>2, <3>3 DEF OthersSave
    <3>5. issued' \in 0..MaxGrants /\ issued <= issued'
      BY <1>1, <3>1
    <3>6. good' \subseteq Grants /\ fresh' \subseteq Grants
      BY <1>1, <3>1
    <3>7. store'.tokens.access <= issued'
      BY <3>1, <3>4
    <3> QED
      BY <3>4, <3>5, <3>6, <3>7
  <2> QED
    BY <2>1, <2>2, <2>3
<1>4. HttpTypeOK'
  BY <1>1, <1>2, <1>3 DEF HttpIndInv, HttpTypeOK
<1>5. ASSUME NEW d \in Clients PROVE (Ran(client[d]) /\ Framed(client[d]) /\ Known(client[d]))'
  <2>1. PICK m \in ClientStates : m = client[d] /\ client'[d] = m /\ Ran(m) /\ Framed(m) /\ Known(m)
    BY <1>2, ClientOf
  <2>2. m.tokens.access \in Int /\ m.pending.access \in Int /\ \A n \in m.rejected : n \in Int
    BY HttpBounds DEF ClientStates, Tokens
  <2>3. Known(m)'
    BY <1>1, <1>3, <2>1, <2>2 DEF Known
  <2> QED
    BY <2>1, <2>3 DEF Ran, Framed, Known
<1> QED
  BY <1>3, <1>4, <1>5 DEF HttpIndInv

\* No client has started, and the store holds no token.
LEMMA InitHttpIndInv ==
    ASSUME HttpInit PROVE HttpIndInv
<1>1. NoTokens \in Tokens /\ NoTokens.access = 0 /\ 0 \in 0..Resumes /\ 0 \in 0..MaxCalls
      /\ 0 \in 0..MaxStarts /\ 0 \in 0..MaxGrants
  BY HttpBounds DEF NoTokens, Tokens
<1>2. Stopped \in ClientStates
  BY <1>1 DEF Stopped, ClientStates, Stages, Steps
<1>3. HttpTypeOK /\ store.tokens.access <= issued
  BY <1>1, <1>2 DEF HttpInit, HttpTypeOK
<1>4. Ran(Stopped) /\ Framed(Stopped)
  BY DEF Ran, Framed, Stopped
<1>5. Known(Stopped)
  BY <1>1 DEF HttpInit, Known, Stopped, Moving
<1> QED
  BY <1>3, <1>4, <1>5 DEF HttpIndInv, HttpInit

\* Whatever clients, servers and other processes do, a call's tool runs a second
\* time only after a challenged resumption, and no rejected token is sent again
\* (McpHttpClient::request, recover_access_token).
THEOREM RetriesAreSound == HttpSpec => []RetriesSound
<1>1. HttpIndInv /\ [HttpNext]_httpVars => HttpIndInv'
  <2> SUFFICES ASSUME HttpIndInv, [HttpNext]_httpVars PROVE HttpIndInv'
    OBVIOUS
  <2>1. ASSUME NEW c \in Clients, RequestStep(c) PROVE HttpIndInv'
    BY <2>1, PostSteps, StreamSteps, InitializeSteps DEF RequestStep
  <2>2. ASSUME NEW c \in Clients,
               Start(c) \/ BeginCall(c) \/ Shutdown(c) \/ Crash(c) \/ ExpireSession(c)
        PROVE  HttpIndInv'
    BY <2>2, LifeSteps
  <2>3. CASE UNCHANGED httpVars
    BY <2>3 DEF httpVars, auth, HttpIndInv, HttpTypeOK, Ran, Framed, Known
  <2> QED
    BY <2>1, <2>2, <2>3, OAuthSteps, OtherSteps DEF HttpNext
<1>2. HttpIndInv => RetriesSound
  BY DEF HttpIndInv, RetriesSound, AtMostTwice, RejectedNotResent, Ran, Known, Moving
<1> QED
  BY <1>1, <1>2, InitHttpIndInv, PTL DEF HttpSpec

-----------------------------------------------------------------------------
(* SseStream: induction over the natural numbers, for the recursive        *)
(* functions of the stream and for the loop of push().                     *)

\* What holds of 0 and passes from n to n + 1 holds of every natural number.
LEMMA Induct ==
    ASSUME NEW S, 0 \in S, \A n \in Nat : n \in S => n + 1 \in S
    PROVE  Nat \subseteq S
<1> DEFINE Less == {ss \in Nat \X Nat : ss[1] < ss[2]}
           T == Nat \ S
<1>1. IsWellFoundedOn(Less, Nat)
  BY NatLessThanWellFounded DEF OpToRel
<1>2. SUFFICES ASSUME NEW x0 \in T PROVE FALSE
  OBVIOUS
<1>3. \E x \in T : \A y \in T : ~(<<y, x>> \in Less)
  <2>1. T \subseteq Nat OBVIOUS
  <2> HIDE DEF Less, T
  <2> QED
    BY <1>1, <1>2, <2>1, WFMin, Zenon
<1>4. PICK x \in T : \A y \in T : ~(<<y, x>> \in Less)
  BY <1>3
<1>5. x # 0 /\ x - 1 \in Nat /\ x-1 \notin S
  OBVIOUS
<1>6. x-1 \in T /\ <<x-1,x>> \in Less
  BY <1>5
<1> QED
  BY <1>4, <1>6

\* What is told of an empty text.
NoText == [line |-> <<>>, fields |-> <<>>, done |-> <<>>]

(* A block is scanned and a text is told character by character.           *)

ScanSums(b, f) ==
    /\ DOMAIN f = 0 .. Len(b)
    /\ f[0] = NoBlock
    /\ \A i \in 1 .. Len(b) : f[i] = Parsed(f[i - 1], b[i])

\* The recursive function that Scanned takes the last value of exists.
LEMMA ScanExists ==
    ASSUME NEW b \in Seq(Bytes)
    PROVE  \E f : f = [i \in 0 .. Len(b) |-> IF i = 0 THEN NoBlock ELSE Parsed(f[i - 1], b[i])]
<1> DEFINE N == Len(b)
           Ok(m, f) == f = [i \in 0 .. m |-> IF i = 0 THEN NoBlock ELSE Parsed(f[i - 1], b[i])]
           S == {m \in Nat : \E f : Ok(m, f)}
<1>0. N \in Nat
  OBVIOUS
<1> HIDE DEF N
<1>1. 0 \in S
  <2> DEFINE f == [i \in 0 .. 0 |-> NoBlock]
  <2>1. Ok(0, f)
    OBVIOUS
  <2> QED
    BY <2>1
<1>2. ASSUME NEW m \in Nat, m \in S PROVE m + 1 \in S
  <2> HIDE DEF Ok
  <2>1. PICK f : Ok(m, f)
    BY <1>2
  <2> DEFINE g == [i \in 0 .. m + 1 |-> IF i = m + 1 THEN Parsed(f[m], b[m + 1]) ELSE f[i]]
  <2>2. f = [i \in 0 .. m |-> IF i = 0 THEN NoBlock ELSE Parsed(f[i - 1], b[i])]
    BY <2>1 DEF Ok
  <2>3. ASSUME NEW i \in 0 .. m + 1 PROVE g[i] = IF i = 0 THEN NoBlock ELSE Parsed(g[i - 1], b[i])
    <3>1. CASE i = m + 1
      <4>1. m \in 0 .. m + 1 /\ m # m + 1 /\ i # 0 /\ i - 1 = m
        BY <3>1
      <4>2. g[i] = Parsed(f[m], b[m + 1]) /\ g[m] = f[m]
        BY <3>1, <4>1
      <4> HIDE DEF g
      <4> QED
        BY <3>1, <4>1, <4>2
    <3>2. CASE i \in 0 .. m
      <4>1. i # m + 1 /\ (i # 0 => i - 1 \in 0 .. m + 1 /\ i - 1 # m + 1)
        BY <3>2
      <4>2. g[i] = f[i] /\ (i # 0 => g[i - 1] = f[i - 1])
        BY <4>1
      <4> HIDE DEF g
      <4>3. f[i] = IF i = 0 THEN NoBlock ELSE Parsed(f[i - 1], b[i])
        BY <2>2, <3>2
      <4> QED
        BY <4>2, <4>3
    <3> QED
      BY <3>1, <3>2
  <2>4. g = [i \in 0 .. m + 1 |-> g[i]]
    OBVIOUS
  <2> HIDE DEF g
  <2>5. g = [i \in 0 .. m + 1 |-> IF i = 0 THEN NoBlock ELSE Parsed(g[i - 1], b[i])]
    BY <2>3, <2>4
  <2>6. Ok(m + 1, g)
    BY <2>5 DEF Ok
  <2> QED
    BY <2>6
<1> HIDE DEF S
<1>3. N \in S
  BY <1>0, <1>1, <1>2, Induct
<1>4. \E f : Ok(N, f)
  <2> HIDE DEF Ok
  <2> QED
    BY <1>3 DEF S
<1> QED
  BY <1>4 DEF N

\* Scanned is the last of the sums of the characters.
LEMMA ScanIsLast ==
    ASSUME NEW b \in Seq(Bytes)
    PROVE  \E f : Scanned(b) = f[Len(b)] /\ ScanSums(b, f)
<1> DEFINE N == Len(b)
           Eq(f) == f = [i \in 0 .. N |-> IF i = 0 THEN NoBlock ELSE Parsed(f[i - 1], b[i])]
           h == CHOOSE f : Eq(f)
<1>1. \E f : Eq(f)
  BY ScanExists
<1>2. Scanned(b) = h[N]
  BY DEF Scanned
<1>3. Eq(h)
  <2> HIDE DEF Eq
  <2> QED
    BY <1>1
<1>4. N \in Nat
  OBVIOUS
<1> HIDE DEF h, N
<1>5. h = [i \in 0 .. N |-> IF i = 0 THEN NoBlock ELSE Parsed(h[i - 1], b[i])]
  BY <1>3
<1>6. DOMAIN h = 0 .. N
  BY <1>5
<1>7. h[0] = NoBlock
  BY <1>4, <1>5
<1>8. \A i \in 1 .. N : h[i] = Parsed(h[i - 1], b[i])
  BY <1>4, <1>5
<1>9. ScanSums(b, h)
  BY <1>6, <1>7, <1>8 DEF ScanSums, N
<1> QED
  BY <1>2, <1>9 DEF N

\* An empty block has no line and no field.
LEMMA ScanOfNothing == Scanned(<<>>) = NoBlock
<1>1. <<>> \in Seq(Bytes) /\ Len(<<>>) = 0
  OBVIOUS
<1>2. PICK f : Scanned(<<>>) = f[Len(<<>>)] /\ ScanSums(<<>>, f)
  BY <1>1, ScanIsLast
<1> QED
  BY <1>1, <1>2 DEF ScanSums

\* One more character is one more step of the scan.
LEMMA ScanOfMore ==
    ASSUME NEW b \in Seq(Bytes), NEW ch \in Bytes
    PROVE  Scanned(Append(b, ch)) = Parsed(Scanned(b), ch)
<1> DEFINE c == Append(b, ch)
           N == Len(b)
<1>1. c \in Seq(Bytes) /\ Len(c) = N + 1 /\ c[N + 1] = ch /\ N \in Nat /\ \A i \in 1 .. N : c[i] = b[i]
  <2> HIDE DEF Bytes
  <2> QED
    OBVIOUS
<1> HIDE DEF c
<1>2. PICK f : Scanned(b) = f[N] /\ ScanSums(b, f)
  BY ScanIsLast
<1>3. PICK g : Scanned(c) = g[Len(c)] /\ ScanSums(c, g)
  BY <1>1, ScanIsLast
<1>4. f[0] = NoBlock /\ \A i \in 1 .. N : f[i] = Parsed(f[i - 1], b[i])
  BY <1>2 DEF ScanSums
<1>5. g[0] = NoBlock /\ \A i \in 1 .. N + 1 : g[i] = Parsed(g[i - 1], c[i])
  BY <1>1, <1>3 DEF ScanSums
<1> HIDE DEF N
<1> DEFINE S == {m \in Nat : m <= N => f[m] = g[m]}
<1>6. 0 \in S
  BY <1>4, <1>5
<1>7. ASSUME NEW m \in Nat, m \in S PROVE m + 1 \in S
  <2> SUFFICES ASSUME m + 1 <= N PROVE f[m + 1] = g[m + 1]
    OBVIOUS
  <2>1. m + 1 \in 1 .. N /\ m + 1 \in 1 .. N + 1 /\ (m + 1) - 1 = m /\ m <= N
    BY <1>1
  <2>2. f[m] = g[m]
    BY <1>7, <2>1
  <2>3. f[m + 1] = Parsed(f[m], b[m + 1]) /\ g[m + 1] = Parsed(g[m], c[m + 1])
    BY <1>4, <1>5, <2>1
  <2> QED
    BY <1>1, <2>1, <2>2, <2>3
<1> HIDE DEF S
<1>8. N \in S
  BY <1>1, <1>6, <1>7, Induct
<1>9. f[N] = g[N]
  BY <1>1, <1>8 DEF S
<1>10. g[N + 1] = Parsed(g[N], c[N + 1])
  <2>1. N + 1 \in 1 .. N + 1 /\ (N + 1) - 1 = N
    BY <1>1
  <2> QED
    BY <1>5, <2>1
<1>11. Scanned(c) = Parsed(Scanned(b), ch)
  BY <1>1, <1>2, <1>3, <1>9, <1>10
<1> QED
  BY <1>11 DEF c

ReferenceSums(b, f) ==
    /\ DOMAIN f = 0 .. Len(b)
    /\ f[0] = NoText
    /\ \A i \in 1 .. Len(b) : f[i] = Referred(f[i - 1], b[i])

\* The recursive function of the reference exists.
LEMMA ReferenceExists ==
    ASSUME NEW b \in Seq(Bytes)
    PROVE  \E f : f = [i \in 0 .. Len(b) |-> IF i = 0 THEN NoText ELSE Referred(f[i - 1], b[i])]
<1> DEFINE N == Len(b)
           Ok(m, f) == f = [i \in 0 .. m |-> IF i = 0 THEN NoText ELSE Referred(f[i - 1], b[i])]
           S == {m \in Nat : \E f : Ok(m, f)}
<1>0. N \in Nat
  OBVIOUS
<1> HIDE DEF N
<1>1. 0 \in S
  <2> DEFINE f == [i \in 0 .. 0 |-> NoText]
  <2>1. Ok(0, f)
    OBVIOUS
  <2> QED
    BY <2>1
<1>2. ASSUME NEW m \in Nat, m \in S PROVE m + 1 \in S
  <2> HIDE DEF Ok
  <2>1. PICK f : Ok(m, f)
    BY <1>2
  <2> DEFINE g == [i \in 0 .. m + 1 |-> IF i = m + 1 THEN Referred(f[m], b[m + 1]) ELSE f[i]]
  <2>2. f = [i \in 0 .. m |-> IF i = 0 THEN NoText ELSE Referred(f[i - 1], b[i])]
    BY <2>1 DEF Ok
  <2>3. ASSUME NEW i \in 0 .. m + 1 PROVE g[i] = IF i = 0 THEN NoText ELSE Referred(g[i - 1], b[i])
    <3>1. CASE i = m + 1
      <4>1. m \in 0 .. m + 1 /\ m # m + 1 /\ i # 0 /\ i - 1 = m
        BY <3>1
      <4>2. g[i] = Referred(f[m], b[m + 1]) /\ g[m] = f[m]
        BY <3>1, <4>1
      <4> HIDE DEF g
      <4> QED
        BY <3>1, <4>1, <4>2
    <3>2. CASE i \in 0 .. m
      <4>1. i # m + 1 /\ (i # 0 => i - 1 \in 0 .. m + 1 /\ i - 1 # m + 1)
        BY <3>2
      <4>2. g[i] = f[i] /\ (i # 0 => g[i - 1] = f[i - 1])
        BY <4>1
      <4> HIDE DEF g
      <4>3. f[i] = IF i = 0 THEN NoText ELSE Referred(f[i - 1], b[i])
        BY <2>2, <3>2
      <4> QED
        BY <4>2, <4>3
    <3> QED
      BY <3>1, <3>2
  <2>4. g = [i \in 0 .. m + 1 |-> g[i]]
    OBVIOUS
  <2> HIDE DEF g
  <2>5. g = [i \in 0 .. m + 1 |-> IF i = 0 THEN NoText ELSE Referred(g[i - 1], b[i])]
    BY <2>3, <2>4
  <2>6. Ok(m + 1, g)
    BY <2>5 DEF Ok
  <2> QED
    BY <2>6
<1> HIDE DEF S
<1>3. N \in S
  BY <1>0, <1>1, <1>2, Induct
<1>4. \E f : Ok(N, f)
  <2> HIDE DEF Ok
  <2> QED
    BY <1>3 DEF S
<1> QED
  BY <1>4 DEF N

\* The reference is the last of the sums of the characters.
LEMMA ReferenceIsLast ==
    ASSUME NEW b \in Seq(Bytes)
    PROVE  \E f : Reference(b) = f[Len(b)] /\ ReferenceSums(b, f)
<1> DEFINE N == Len(b)
           Eq(f) == f = [i \in 0 .. N |-> IF i = 0 THEN NoText ELSE Referred(f[i - 1], b[i])]
           h == CHOOSE f : Eq(f)
<1>1. \E f : Eq(f)
  BY ReferenceExists
<1>2. Reference(b) = h[N]
  BY DEF Reference, NoText
<1>3. Eq(h)
  <2> HIDE DEF Eq
  <2> QED
    BY <1>1
<1>4. N \in Nat
  OBVIOUS
<1> HIDE DEF h, N
<1>5. h = [i \in 0 .. N |-> IF i = 0 THEN NoText ELSE Referred(h[i - 1], b[i])]
  BY <1>3
<1>6. DOMAIN h = 0 .. N
  BY <1>5
<1>7. h[0] = NoText
  BY <1>4, <1>5
<1>8. \A i \in 1 .. N : h[i] = Referred(h[i - 1], b[i])
  BY <1>4, <1>5
<1>9. ReferenceSums(b, h)
  BY <1>6, <1>7, <1>8 DEF ReferenceSums, N
<1> QED
  BY <1>2, <1>9 DEF N

\* Nothing read, nothing told.
LEMMA ReferenceOfNothing == Reference(<<>>) = NoText
<1>1. <<>> \in Seq(Bytes) /\ Len(<<>>) = 0
  OBVIOUS
<1>2. PICK f : Reference(<<>>) = f[Len(<<>>)] /\ ReferenceSums(<<>>, f)
  BY <1>1, ReferenceIsLast
<1> QED
  BY <1>1, <1>2 DEF ReferenceSums

\* One more character is one more step of the reference.
LEMMA ReferenceOfMore ==
    ASSUME NEW b \in Seq(Bytes), NEW ch \in Bytes
    PROVE  Reference(Append(b, ch)) = Referred(Reference(b), ch)
<1> DEFINE c == Append(b, ch)
           N == Len(b)
<1>1. c \in Seq(Bytes) /\ Len(c) = N + 1 /\ c[N + 1] = ch /\ N \in Nat /\ \A i \in 1 .. N : c[i] = b[i]
  <2> HIDE DEF Bytes
  <2> QED
    OBVIOUS
<1> HIDE DEF c
<1>2. PICK f : Reference(b) = f[N] /\ ReferenceSums(b, f)
  BY ReferenceIsLast
<1>3. PICK g : Reference(c) = g[Len(c)] /\ ReferenceSums(c, g)
  BY <1>1, ReferenceIsLast
<1>4. f[0] = NoText /\ \A i \in 1 .. N : f[i] = Referred(f[i - 1], b[i])
  BY <1>2 DEF ReferenceSums
<1>5. g[0] = NoText /\ \A i \in 1 .. N + 1 : g[i] = Referred(g[i - 1], c[i])
  BY <1>1, <1>3 DEF ReferenceSums
<1> HIDE DEF N
<1> DEFINE S == {m \in Nat : m <= N => f[m] = g[m]}
<1>6. 0 \in S
  BY <1>4, <1>5
<1>7. ASSUME NEW m \in Nat, m \in S PROVE m + 1 \in S
  <2> SUFFICES ASSUME m + 1 <= N PROVE f[m + 1] = g[m + 1]
    OBVIOUS
  <2>1. m + 1 \in 1 .. N /\ m + 1 \in 1 .. N + 1 /\ (m + 1) - 1 = m /\ m <= N
    BY <1>1
  <2>2. f[m] = g[m]
    BY <1>7, <2>1
  <2>3. f[m + 1] = Referred(f[m], b[m + 1]) /\ g[m + 1] = Referred(g[m], c[m + 1])
    BY <1>4, <1>5, <2>1
  <2> QED
    BY <1>1, <2>1, <2>2, <2>3
<1> HIDE DEF S
<1>8. N \in S
  BY <1>1, <1>6, <1>7, Induct
<1>9. f[N] = g[N]
  BY <1>1, <1>8 DEF S
<1>10. g[N + 1] = Referred(g[N], c[N + 1])
  <2>1. N + 1 \in 1 .. N + 1 /\ (N + 1) - 1 = N
    BY <1>1
  <2> QED
    BY <1>5, <2>1
<1>11. Reference(c) = Referred(Reference(b), ch)
  BY <1>1, <1>2, <1>3, <1>9, <1>10
<1> QED
  BY <1>11 DEF c
-----------------------------------------------------------------------------
(* Bytes, lines and fields                                                 *)

Texts == Seq(Bytes)
FieldLists == Seq(Texts)

\* A character at the end of a text.
LEMMA AddByte ==
    ASSUME NEW b \in Texts, NEW ch \in Bytes
    PROVE  /\ Append(b, ch) \in Texts /\ Len(Append(b, ch)) = Len(b) + 1 /\ Len(b) \in Nat
           /\ \A i \in 1 .. Len(b) : Append(b, ch)[i] = b[i]
           /\ Append(b, ch)[Len(b) + 1] = ch
<1> HIDE DEF Bytes
<1> QED
  BY DEF Texts

\* A piece of a text, by its places.
LEMMA PieceIs ==
    ASSUME NEW b \in Texts, NEW m \in Nat, NEW n \in Nat, 1 <= m, n <= Len(b)
    PROVE  LET c == SubSeq(b, m, n) IN
           /\ c \in Texts /\ Len(c) = (IF m <= n THEN n + 1 - m ELSE 0)
           /\ \A i \in 1 .. n + 1 - m : c[i] = b[m - 1 + i]
<1> HIDE DEF Bytes
<1> QED
  BY DEF Texts

\* Texts of the same characters are the same.
LEMMA SameTexts ==
    ASSUME NEW b \in Texts, NEW c \in Texts, Len(b) = Len(c), \A i \in 1 .. Len(b) : b[i] = c[i]
    PROVE  b = c
<1> HIDE DEF Bytes
<1> QED
  BY DEF Texts

\* Two texts joined, by their places.
LEMMA JoinedTexts ==
    ASSUME NEW b \in Texts, NEW c \in Texts
    PROVE  /\ b \o c \in Texts /\ Len(b \o c) = Len(b) + Len(c) /\ Len(b) \in Nat /\ Len(c) \in Nat
           /\ \A i \in 1 .. Len(b) : (b \o c)[i] = b[i]
           /\ \A i \in Len(b) + 1 .. Len(b) + Len(c) : (b \o c)[i] = c[i - Len(b)]
<1> HIDE DEF Bytes
<1> QED
  BY DEF Texts

\* What is at the places of a text.
LEMMA BytesOf ==
    ASSUME NEW b \in Texts
    PROVE  Len(b) \in Nat /\ \A i \in 1 .. Len(b) : b[i] \in Bytes
<1> HIDE DEF Bytes
<1> QED
  BY DEF Texts

\* The empty text is the text of no length.
LEMMA NoBytes == <<>> \in Texts /\ Len(<<>>) = 0 /\ \A b \in Texts : Len(b) = 0 => b = <<>>
<1> HIDE DEF Bytes
<1> QED
  BY DEF Texts

(* A piece and the byte after it                                           *)
LEMMA PieceGrows ==
    ASSUME NEW b \in Texts, NEW m \in Nat, NEW n \in Nat, 1 <= m, m <= n + 1, n + 1 <= Len(b)
    PROVE  SubSeq(b, m, n + 1) = Append(SubSeq(b, m, n), b[n + 1])
<1> DEFINE c == SubSeq(b, m, n)
           e == SubSeq(b, m, n + 1)
           ch == b[n + 1]
           d == Append(c, ch)
<1>0. n <= Len(b) /\ n + 1 \in Nat /\ n + 1 \in 1 .. Len(b)
  BY BytesOf
<1>1. c \in Texts /\ Len(c) = n + 1 - m /\ \A i \in 1 .. n + 1 - m : c[i] = b[m - 1 + i]
  <2>1. c \in Texts /\ Len(c) = (IF m <= n THEN n + 1 - m ELSE 0) /\ \A i \in 1 .. n + 1 - m : c[i] = b[m - 1 + i]
    BY <1>0, PieceIs
  <2>2. (IF m <= n THEN n + 1 - m ELSE 0) = n + 1 - m
    OBVIOUS
  <2> QED
    BY <2>1, <2>2
<1>2. e \in Texts /\ Len(e) = n + 2 - m /\ \A i \in 1 .. n + 2 - m : e[i] = b[m - 1 + i]
  <2> DEFINE k == n + 1
  <2>0. k \in Nat /\ k <= Len(b) /\ m <= k /\ k + 1 - m = n + 2 - m
    BY <1>0
  <2> HIDE DEF k
  <2>1. /\ SubSeq(b, m, k) \in Texts /\ Len(SubSeq(b, m, k)) = (IF m <= k THEN k + 1 - m ELSE 0)
        /\ \A i \in 1 .. k + 1 - m : SubSeq(b, m, k)[i] = b[m - 1 + i]
    BY <2>0, PieceIs
  <2> QED
    BY <2>0, <2>1 DEF k
<1>3. ch \in Bytes
  BY <1>0, BytesOf
<1> HIDE DEF c, e, ch
<1>4. d \in Texts /\ Len(d) = Len(c) + 1 /\ (\A i \in 1 .. Len(c) : d[i] = c[i]) /\ d[Len(c) + 1] = ch
  BY <1>1, <1>3, AddByte
<1> HIDE DEF d
<1>5. Len(d) = Len(e)
  BY <1>1, <1>2, <1>4
<1>6. ASSUME NEW i \in 1 .. Len(d) PROVE d[i] = e[i]
  <2>0. Len(d) = n + 2 - m /\ Len(c) = n + 1 - m
    BY <1>1, <1>2, <1>5
  <2>1. CASE i \in 1 .. n + 1 - m
    <3>1. i \in 1 .. Len(c) /\ i \in 1 .. n + 2 - m
      BY <2>0, <2>1
    <3> QED
      BY <1>1, <1>2, <1>4, <2>1, <3>1
  <2>2. CASE i = n + 2 - m
    <3>1. i = Len(c) + 1 /\ m - 1 + i = n + 1 /\ i \in 1 .. n + 2 - m
      BY <2>0, <2>2
    <3>2. d[i] = ch
      BY <1>4, <3>1
    <3>3. e[i] = b[n + 1]
      BY <1>2, <3>1
    <3> QED
      BY <3>2, <3>3 DEF ch
  <2> QED
    BY <2>0, <2>1, <2>2
<1>7. d = e
  BY <1>2, <1>4, <1>5, <1>6, SameTexts
<1> QED
  BY <1>7 DEF d, c, e, ch

\* A line without its carriage return is a line.
LEMMA StrippedIs ==
    ASSUME NEW line \in Texts
    PROVE  /\ StripCR(line) \in Texts
           /\ ~(line # <<>> /\ line[Len(line)] = "r") => StripCR(line) = line
           /\ StripCR(line) = <<>> => line = <<>> \/ (Len(line) = 1 /\ line[1] = "r")
<1> DEFINE N == Len(line)
<1>1. N \in Nat /\ (line # <<>> => N >= 1)
  BY BytesOf, NoBytes
<1>2. CASE line # <<>> /\ line[N] = "r"
  <2> DEFINE k == N - 1
             c == SubSeq(line, 1, k)
  <2>1. StripCR(line) = c
    BY <1>2 DEF StripCR, Last, Front
  <2>2. k \in Nat /\ k <= N
    BY <1>1, <1>2
  <2> HIDE DEF k
  <2>3. c \in Texts /\ Len(c) = (IF 1 <= k THEN k + 1 - 1 ELSE 0)
    BY <2>2, 1 \in Nat, PieceIs
  <2>4. c = <<>> => N = 1
    <3> HIDE DEF c
    <3>1. Len(c) = k
      BY <2>2, <2>3
    <3> QED
      BY <1>1, <1>2, <3>1, NoBytes DEF k
  <2> QED
    BY <1>2, <2>1, <2>3, <2>4
<1>3. CASE ~(line # <<>> /\ line[N] = "r")
  <2>1. StripCR(line) = line
    BY <1>3 DEF StripCR, Last
  <2> QED
    BY <1>3, <2>1
<1> QED
  BY <1>2, <1>3

\* A carriage return at the end of a line is stripped.
LEMMA StrippedEnd ==
    ASSUME NEW line \in Texts
    PROVE  StripCR(Append(line, "r")) = line
<1> DEFINE c == Append(line, "r")
           N == Len(line)
           e == SubSeq(c, 1, N)
<1>1. c \in Texts /\ Len(c) = N + 1 /\ N \in Nat /\ (\A i \in 1 .. N : c[i] = line[i]) /\ c[N + 1] = "r"
  <2>1. "r" \in Bytes
    BY DEF Bytes
  <2> QED
    BY <2>1, AddByte
<1> HIDE DEF c
<1>2. c # <<>>
  BY <1>1, NoBytes
<1>3. StripCR(c) = e
  BY <1>1, <1>2 DEF StripCR, Last, Front
<1>4. e \in Texts /\ Len(e) = N /\ \A i \in 1 .. N : e[i] = line[i]
  <2>1. /\ e \in Texts /\ Len(e) = (IF 1 <= N THEN N + 1 - 1 ELSE 0)
        /\ \A i \in 1 .. N + 1 - 1 : e[i] = c[1 - 1 + i]
    BY <1>1, 1 \in Nat, PieceIs
  <2> HIDE DEF e
  <2>2. Len(e) = N
    BY <1>1, <2>1
  <2>3. ASSUME NEW i \in 1 .. N PROVE e[i] = line[i]
    <3>1. i \in 1 .. N + 1 - 1 /\ 1 - 1 + i = i
      BY <1>1
    <3> QED
      BY <1>1, <2>1, <3>1
  <2> QED
    BY <2>1, <2>2, <2>3
<1> HIDE DEF e
<1>5. e = line
  BY <1>4, SameTexts
<1> QED
  BY <1>3, <1>5 DEF c

\* A line more, and a blank line, which adds nothing.
LEMMA LinesAdded ==
    ASSUME NEW fields \in FieldLists, NEW line \in Texts
    PROVE  WithLine(fields, line) \in FieldLists /\ WithLine(fields, <<>>) = fields
<1> HIDE DEF Texts
<1> QED
  BY DEF WithLine, FieldLists

(* The line a block ends with: its last characters, up to the line end     *)
(* before it; in the first line of a block there are no fields yet.        *)
LineShape(b, a) ==
    /\ a \in [line : Texts, fields : FieldLists]
    /\ Len(a.line) <= Len(b)
    /\ \A i \in 1 .. Len(a.line) : a.line[i] = b[Len(b) - Len(a.line) + i]
    /\ Len(a.line) < Len(b) => b[Len(b) - Len(a.line)] = "n"
    /\ Len(a.line) = Len(b) => a.fields = <<>>

\* The scan of a block ends with its last line (parse_event_block).
LEMMA LineFacts ==
    ASSUME NEW b \in Texts
    PROVE  LineShape(b, Scanned(b))
<1> DEFINE S == {n \in Nat : \A c \in Texts : Len(c) = n => LineShape(c, Scanned(c))}
<1>1. 0 \in S
  <2>1. Scanned(<<>>) = [line |-> <<>>, fields |-> <<>>]
    BY ScanOfNothing DEF NoBlock
  <2>2. <<>> \in FieldLists
    <3> HIDE DEF Texts
    <3> QED
      BY DEF FieldLists
  <2>3. LineShape(<<>>, Scanned(<<>>))
    <3> HIDE DEF Texts, FieldLists
    <3> QED
      BY <2>1, <2>2, NoBytes DEF LineShape
  <2> QED
    BY <2>3, NoBytes
<1>2. ASSUME NEW n \in Nat, n \in S PROVE n + 1 \in S
  <2> SUFFICES ASSUME NEW c \in Texts, Len(c) = n + 1 PROVE LineShape(c, Scanned(c))
    OBVIOUS
  <2> DEFINE d == SubSeq(c, 1, n)
             ch == c[n + 1]
             a == Scanned(d)
  <2>1. c = Append(d, ch) /\ ch \in Bytes
    <3>1. SubSeq(c, 1, n + 1) = Append(d, ch)
      BY 1 \in Nat, PieceGrows
    <3>2. SubSeq(c, 1, n + 1) = c
      <4> DEFINE k == n + 1
      <4>1. k \in Nat /\ k <= Len(c) /\ 1 <= k
        OBVIOUS
      <4> HIDE DEF k
      <4>2. /\ SubSeq(c, 1, k) \in Texts /\ Len(SubSeq(c, 1, k)) = (IF 1 <= k THEN k + 1 - 1 ELSE 0)
            /\ \A i \in 1 .. k + 1 - 1 : SubSeq(c, 1, k)[i] = c[1 - 1 + i]
        BY <4>1, 1 \in Nat, PieceIs
      <4> DEFINE e == SubSeq(c, 1, k)
      <4> HIDE DEF e
      <4>3. e \in Texts /\ Len(e) = k /\ \A i \in 1 .. k : e[i] = c[i]
        BY <4>1, <4>2 DEF e
      <4>4. e = c
        BY <4>3, SameTexts DEF k
      <4> QED
        BY <4>4 DEF e, k
    <3> QED
      BY <3>1, <3>2, BytesOf
  <2>2. d \in Texts /\ Len(d) = n
    <3>1. d \in Texts /\ Len(d) = (IF 1 <= n THEN n + 1 - 1 ELSE 0)
      BY 1 \in Nat, n <= Len(c), PieceIs
    <3> QED
      BY <3>1
  <2> HIDE DEF d, ch
  <2>3. LineShape(d, a)
    <3>1. \A x \in Texts : Len(x) = n => LineShape(x, Scanned(x))
      BY <1>2
    <3> HIDE DEF S
    <3> QED
      BY <2>2, <3>1, Zenon
  <2>4. Scanned(c) = Parsed(a, ch)
    BY <2>1, <2>2, ScanOfMore DEF Texts
  <2>5. \A i \in 1 .. n : c[i] = d[i]
    BY <2>1, <2>2, AddByte
  <2>6. c[n + 1] = ch
    BY DEF ch
  <2> HIDE DEF a, S
  <2>7. /\ a.line \in Texts /\ a.fields \in FieldLists /\ Len(a.line) \in Nat
        /\ Len(a.line) <= n
        /\ \A i \in 1 .. Len(a.line) : a.line[i] = d[n - Len(a.line) + i]
        /\ Len(a.line) < n => d[n - Len(a.line)] = "n"
        /\ Len(a.line) = n => a.fields = <<>>
    <3>1. a.line \in Texts /\ a.fields \in FieldLists
      <4> HIDE DEF Texts, FieldLists
      <4> QED
        BY <2>3 DEF LineShape
    <3>2. Len(a.line) \in Nat
      BY <3>1, BytesOf
    <3> QED
      BY <2>2, <2>3, <3>1, <3>2 DEF LineShape
  <2>8. CASE ch = "n"
    <3>1. Scanned(c) = [line |-> <<>>, fields |-> WithLine(a.fields, StripCR(a.line))]
      BY <2>4, <2>8 DEF Parsed
    <3>2. WithLine(a.fields, StripCR(a.line)) \in FieldLists
      BY <2>7, StrippedIs, LinesAdded
    <3> DEFINE new == Scanned(c)
    <3>3. new.line = <<>> /\ new \in [line : Texts, fields : FieldLists]
      <4> HIDE DEF Texts, FieldLists
      <4> QED
        BY <3>1, <3>2, NoBytes
    <3> HIDE DEF new
    <3>4. LineShape(c, new)
      <4>1. Len(new.line) = 0 /\ n + 1 - 0 = n + 1
        BY <3>3, NoBytes
      <4> QED
        BY <3>3, <4>1, <2>6, <2>8 DEF LineShape
    <3> QED
      BY <3>4 DEF new
  <2>9. CASE ch # "n"
    <3> DEFINE l == Append(a.line, ch)
               new == Scanned(c)
    <3>1. new = [line |-> l, fields |-> a.fields]
      BY <2>4, <2>9 DEF Parsed
    <3>2. /\ l \in Texts /\ Len(l) = Len(a.line) + 1
          /\ (\A i \in 1 .. Len(a.line) : l[i] = a.line[i]) /\ l[Len(a.line) + 1] = ch
      BY <2>1, <2>7, AddByte
    <3> HIDE DEF l
    <3>3. new.line = l /\ new.fields = a.fields /\ new \in [line : Texts, fields : FieldLists]
      <4> HIDE DEF Texts, FieldLists
      <4> QED
        BY <2>7, <3>1, <3>2
    <3> HIDE DEF new
    <3> DEFINE h == Len(a.line)
    <3>k. /\ h \in Nat /\ h <= n /\ Len(l) = h + 1 /\ l[h + 1] = ch
          /\ \A i \in 1 .. h : l[i] = a.line[i] /\ a.line[i] = d[n - h + i]
      BY <2>7, <3>2
    <3> HIDE DEF h
    <3>4. ASSUME NEW i \in 1 .. Len(l) PROVE l[i] = c[Len(c) - Len(l) + i]
      <4>0. Len(c) - Len(l) + i = n - h + i /\ i \in 1 .. h + 1
        BY <3>k
      <4>1. CASE i \in 1 .. h
        <5>1. n - h + i \in 1 .. n
          BY <3>k, <4>1
        <5>2. l[i] = d[n - h + i]
          BY <3>k, <4>1
        <5> QED
          BY <2>5, <4>0, <5>1, <5>2
      <4>2. CASE i = h + 1
        <5>1. n - h + i = n + 1
          BY <3>k, <4>2
        <5>2. l[i] = ch
          BY <3>k, <4>2
        <5> QED
          BY <2>6, <4>0, <5>1, <5>2
      <4>3. i \in 1 .. h \/ i = h + 1
        BY <3>k, <4>0
      <4> QED
        BY <4>1, <4>2, <4>3
    <3>5. Len(l) <= Len(c)
      BY <2>7, <3>2
    <3>6. Len(l) < Len(c) => c[Len(c) - Len(l)] = "n"
      <4> SUFFICES ASSUME Len(l) < Len(c) PROVE c[Len(c) - Len(l)] = "n"
        OBVIOUS
      <4>1. Len(c) - Len(l) = n - Len(a.line) /\ Len(a.line) < n /\ n - Len(a.line) \in 1 .. n
        BY <2>7, <3>2
      <4> QED
        BY <2>5, <2>7, <4>1
    <3>7. Len(l) = Len(c) => a.fields = <<>>
      BY <2>7, <3>2
    <3>8. LineShape(c, new)
      BY <3>3, <3>4, <3>5, <3>6, <3>7 DEF LineShape
    <3> QED
      BY <3>8 DEF new
  <2> QED
    BY <2>8, <2>9
<1> HIDE DEF S
<1>3. Len(b) \in S
  BY <1>1, <1>2, BytesOf, Induct
<1> QED
  BY <1>3 DEF S

(* What one more character does to the block and to the text: the same, as *)
(* long as no event ends with it.                                          *)

FieldsDone == Seq(FieldLists)
Told(a, done) == [line |-> a.line, fields |-> a.fields, done |-> done]
UpTo(b, j) == Scanned(SubSeq(b, 1, j))
RefAt(b, j) == Reference(SubSeq(b, 1, j))

\* The characters of a text after place m and up to place n.
LEMMA SlicedTexts ==
    ASSUME NEW b \in Texts, NEW m \in Nat, NEW n \in Nat, m <= n, n <= Len(b)
    PROVE  LET c == SubSeq(b, m + 1, n) IN
           /\ c \in Texts /\ Len(c) = n - m /\ \A i \in 1 .. n - m : c[i] = b[m + i]
<1> DEFINE k == m + 1
           c == SubSeq(b, k, n)
<1>1. k \in Nat /\ 1 <= k /\ k - 1 = m /\ n + 1 - k = n - m
  OBVIOUS
<1>2. c \in Texts /\ Len(c) = (IF k <= n THEN n + 1 - k ELSE 0) /\ \A i \in 1 .. n + 1 - k : c[i] = b[k - 1 + i]
  <2> HIDE DEF k
  <2> QED
    BY <1>1, PieceIs
<1> HIDE DEF c
<1>3. Len(c) = n - m
  BY <1>2
<1>4. \A i \in 1 .. n - m : c[i] = b[m + i]
  BY <1>1, <1>2
<1>5. c \in Texts /\ Len(c) = n - m /\ \A i \in 1 .. n - m : c[i] = b[m + i]
  BY <1>2, <1>3, <1>4
<1> QED
  BY <1>5 DEF c

\* The whole of a text.
LEMMA WholeText ==
    ASSUME NEW b \in Texts
    PROVE  SubSeq(b, 1, Len(b)) = b
<1> DEFINE c == SubSeq(b, 1, Len(b))
           N == Len(b)
<1>0. N \in Nat
  BY BytesOf
<1>1. c \in Texts /\ Len(c) = (IF 1 <= N THEN N + 1 - 1 ELSE 0) /\ \A i \in 1 .. N + 1 - 1 : c[i] = b[1 - 1 + i]
  BY <1>0, 1 \in Nat, PieceIs
<1> HIDE DEF c
<1> HIDE DEF N
<1>2. Len(c) = N /\ \A i \in 1 .. N : c[i] = b[i]
  <2>1. Len(c) = N
    BY <1>0, <1>1
  <2>2. ASSUME NEW i \in 1 .. N PROVE c[i] = b[i]
    <3>1. i \in 1 .. N + 1 - 1 /\ 1 - 1 + i = i
      BY <1>0
    <3> QED
      BY <1>1, <3>1
  <2> QED
    BY <2>1, <2>2
<1>3. c = b
  BY <1>1, <1>2, SameTexts DEF N
<1> QED
  BY <1>3 DEF c

\* The scan of a prefix, one character on.
LEMMA ScannedFurther ==
    ASSUME NEW b \in Texts, NEW j \in Nat, j + 1 <= Len(b)
    PROVE  UpTo(b, j + 1) = Parsed(UpTo(b, j), b[j + 1])
<1> DEFINE c == SubSeq(b, 1, j)
<1>1. SubSeq(b, 1, j + 1) = Append(c, b[j + 1])
  BY 1 \in Nat, PieceGrows
<1>2. c \in Texts
  BY 1 \in Nat, j <= Len(b), BytesOf, PieceIs
<1>3. b[j + 1] \in Bytes
  BY j + 1 \in 1 .. Len(b), BytesOf
<1> HIDE DEF c
<1>4. Scanned(Append(c, b[j + 1])) = Parsed(Scanned(c), b[j + 1])
  BY <1>2, <1>3, ScanOfMore DEF Texts
<1> QED
  BY <1>1, <1>4 DEF UpTo, c

\* The reference of a prefix, one character on.
LEMMA ReferredFurther ==
    ASSUME NEW b \in Texts, NEW j \in Nat, j + 1 <= Len(b)
    PROVE  RefAt(b, j + 1) = Referred(RefAt(b, j), b[j + 1])
<1> DEFINE c == SubSeq(b, 1, j)
<1>1. SubSeq(b, 1, j + 1) = Append(c, b[j + 1])
  BY 1 \in Nat, PieceGrows
<1>2. c \in Texts
  BY 1 \in Nat, j <= Len(b), BytesOf, PieceIs
<1>3. b[j + 1] \in Bytes
  BY j + 1 \in 1 .. Len(b), BytesOf
<1> HIDE DEF c
<1>4. Reference(Append(c, b[j + 1])) = Referred(Reference(c), b[j + 1])
  BY <1>2, <1>3, ReferenceOfMore DEF Texts
<1> QED
  BY <1>1, <1>4 DEF RefAt, c

\* The scan of the empty prefix.
LEMMA NothingScanned ==
    ASSUME NEW b \in Texts
    PROVE  UpTo(b, 0) = [line |-> <<>>, fields |-> <<>>]
<1>1. SubSeq(b, 1, 0) = <<>>
  <2>1. SubSeq(b, 1, 0) \in Texts /\ Len(SubSeq(b, 1, 0)) = 0
    <3>1. /\ SubSeq(b, 1, 0) \in Texts /\ Len(SubSeq(b, 1, 0)) = (IF 1 <= 0 THEN 0 + 1 - 1 ELSE 0)
      BY 1 \in Nat, 0 \in Nat, BytesOf, PieceIs
    <3> QED
      BY <3>1
  <2> QED
    BY <2>1, NoBytes
<1> QED
  BY <1>1, ScanOfNothing DEF UpTo, NoBlock

\* The reference of the empty prefix.
LEMMA NothingReferred ==
    ASSUME NEW b \in Texts
    PROVE  RefAt(b, 0) = NoText
<1>1. SubSeq(b, 1, 0) = <<>>
  <2>1. SubSeq(b, 1, 0) \in Texts /\ Len(SubSeq(b, 1, 0)) = 0
    <3>1. /\ SubSeq(b, 1, 0) \in Texts /\ Len(SubSeq(b, 1, 0)) = (IF 1 <= 0 THEN 0 + 1 - 1 ELSE 0)
      BY 1 \in Nat, 0 \in Nat, BytesOf, PieceIs
    <3> QED
      BY <3>1
  <2> QED
    BY <2>1, NoBytes
<1> QED
  BY <1>1, ReferenceOfNothing DEF RefAt

\* A character that is no line end, or ends a line that is not blank, or a
\* blank one before any field.
LEMMA ToldFurther ==
    ASSUME NEW a \in [line : Texts, fields : FieldLists], NEW done, NEW ch \in Bytes,
           ch = "n" /\ StripCR(a.line) = <<>> => a.fields = <<>>
    PROVE  Referred(Told(a, done), ch) = Told(Parsed(a, ch), done)
<1> HIDE DEF Texts, FieldLists
<1>1. CASE ch # "n"
  BY <1>1 DEF Referred, Told, Parsed
<1>2. CASE ch = "n" /\ StripCR(a.line) # <<>>
  BY <1>2 DEF Referred, Told, Parsed
<1>3. CASE ch = "n" /\ StripCR(a.line) = <<>>
  <2>1. a.fields = <<>> /\ WithLine(a.fields, <<>>) = <<>>
    BY <1>3 DEF WithLine
  <2>2. Parsed(a, ch) = [line |-> <<>>, fields |-> <<>>]
    BY <1>3, <2>1 DEF Parsed
  <2>3. Referred(Told(a, done), ch) = [line |-> <<>>, fields |-> <<>>, done |-> done]
    BY <1>3, <2>1 DEF Referred, Told
  <2> QED
    BY <2>2, <2>3 DEF Told
<1> QED
  BY <1>1, <1>2, <1>3

(* Line ends of one kind                                                   *)
Even(b, end) ==
    IF end = LF THEN \A i \in 1 .. Len(b) : b[i] # "r"
    ELSE /\ 1 <= Len(b) => b[1] # "n"
         /\ \A i \in 1 .. Len(b) : i + 1 <= Len(b) => (b[i] = "r" <=> b[i + 1] = "n")

\* No event ends within the first j characters.
Quiet(b, j) ==
    /\ \A i \in 1 .. Len(b) : i + 1 <= j => ~(b[i] = "n" /\ b[i + 1] = "n")
    /\ \A i \in 1 .. Len(b) : i + 3 <= j =>
          ~(b[i] = "r" /\ b[i + 1] = "n" /\ b[i + 2] = "r" /\ b[i + 3] = "n")

\* A blank line that ends no event comes before any field.
LEMMA QuietStep ==
    ASSUME NEW b \in Texts, NEW end \in {LF, CRLF}, Even(b, end),
           NEW j \in Nat, j + 1 <= Len(b), Quiet(b, j + 1), b[j + 1] = "n",
           StripCR(UpTo(b, j).line) = <<>>
    PROVE  UpTo(b, j).fields = <<>>
<1> DEFINE c == SubSeq(b, 1, j)
           a == Scanned(c)
           h == Len(a.line)
           N == Len(b)
<1>0. N \in Nat /\ j + 1 <= N
  BY BytesOf
<1>1. c \in Texts /\ Len(c) = j /\ \A i \in 1 .. j : c[i] = b[i]
  <2>1. c \in Texts /\ Len(c) = (IF 1 <= j THEN j + 1 - 1 ELSE 0) /\ \A i \in 1 .. j + 1 - 1 : c[i] = b[1 - 1 + i]
    BY <1>0, 1 \in Nat, j <= Len(b), PieceIs
  <2> HIDE DEF c
  <2>2. Len(c) = j
    BY <2>1
  <2>3. ASSUME NEW i \in 1 .. j PROVE c[i] = b[i]
    <3>1. i \in 1 .. j + 1 - 1 /\ 1 - 1 + i = i
      OBVIOUS
    <3> QED
      BY <2>1, <3>1
  <2> QED
    BY <2>1, <2>2, <2>3
<1> HIDE DEF c
<1>2. LineShape(c, a)
  BY <1>1, LineFacts
<1>3. UpTo(b, j) = a
  BY DEF UpTo, c
<1> HIDE DEF a
<1>4. a.line \in Texts
  <2> HIDE DEF Texts, FieldLists
  <2> QED
    BY <1>2 DEF LineShape
<1>5. h \in Nat
  BY <1>4, BytesOf
<1>6. h <= j /\ (\A i \in 1 .. h : a.line[i] = c[j - h + i]) /\ (h < j => c[j - h] = "n") /\ (h = j => a.fields = <<>>)
  BY <1>1, <1>2 DEF LineShape
<1> SUFFICES ASSUME h < j PROVE FALSE
  BY <1>3, <1>5, <1>6
<1>7. h = 0 \/ (h = 1 /\ a.line[1] = "r")
  <2>1. StripCR(a.line) = <<>>
    BY <1>3
  <2>2. a.line = <<>> \/ (Len(a.line) = 1 /\ a.line[1] = "r")
    BY <1>4, <2>1, StrippedIs
  <2> QED
    BY <2>2, NoBytes
<1> HIDE DEF h, N
<1>8. CASE h = 0
  <2>1. b[j] = "n" /\ j \in 1 .. N /\ j + 1 <= j + 1
    BY <1>0, <1>1, <1>6, <1>8
  <2> QED
    BY <2>1 DEF Quiet, N
<1>9. CASE h = 1 /\ a.line[1] = "r"
  <2>1. j - 1 \in 1 .. j /\ j \in 1 .. N /\ j - 1 \in 1 .. N /\ j - 1 + 1 = j /\ j >= 2
    BY <1>0, <1>9
  <2>2. b[j] = "r" /\ b[j - 1] = "n"
    BY <1>1, <1>6, <1>9, <2>1
  <2>3. end # LF
    BY <2>1, <2>2 DEF Even, N
  <2>4. 1 <= N /\ b[1] # "n" /\ \A i \in 1 .. N : i + 1 <= N => (b[i] = "r" <=> b[i + 1] = "n")
    BY <1>0, <2>3 DEF Even, N
  <2>5. j - 1 # 1
    BY <2>2, <2>4
  <2>6. j - 2 \in 1 .. N /\ j - 2 + 1 = j - 1 /\ j - 1 <= N /\ j - 2 + 2 = j /\ j - 2 + 3 = j + 1
    BY <1>0, <2>1, <2>5
  <2>7. b[j - 2] = "r"
    BY <2>2, <2>4, <2>6
  <2> DEFINE i == j - 2
  <2>8. i \in 1 .. N /\ i + 3 <= j + 1 /\ b[i] = "r" /\ b[i + 1] = "n" /\ b[i + 2] = "r" /\ b[i + 3] = "n"
    BY <2>2, <2>6, <2>7
  <2> HIDE DEF i
  <2> QED
    BY <2>8 DEF Quiet, N
<1> QED
  BY <1>7, <1>8, <1>9

BlankAt(s, q) == (q = 0 \/ s[q] = "n") /\ RefAt(s, q).line = <<>> /\ RefAt(s, q).fields = <<>>

\* The reference of a prefix is a line, fields and events.
LEMMA ReferenceShape ==
    ASSUME NEW s \in Texts, NEW n \in Nat, n <= Len(s)
    PROVE  RefAt(s, n) \in [line : Texts, fields : FieldLists, done : FieldsDone]
<1> DEFINE S == {k \in Nat : k <= Len(s) => RefAt(s, k) \in [line : Texts, fields : FieldLists, done : FieldsDone]}
<1>1. 0 \in S
  <2>1. RefAt(s, 0) = NoText
    BY NothingReferred
  <2>2. <<>> \in FieldLists /\ <<>> \in FieldsDone /\ <<>> \in Texts
    <3> HIDE DEF Bytes
    <3> QED
      BY DEF FieldLists, FieldsDone, Texts
  <2> HIDE DEF Texts, FieldLists, FieldsDone
  <2> QED
    BY <2>1, <2>2 DEF NoText
<1>2. ASSUME NEW k \in Nat, k \in S PROVE k + 1 \in S
  <2> SUFFICES ASSUME k + 1 <= Len(s)
               PROVE  RefAt(s, k + 1) \in [line : Texts, fields : FieldLists, done : FieldsDone]
    OBVIOUS
  <2> DEFINE a == RefAt(s, k)
             ch == s[k + 1]
  <2>1. a \in [line : Texts, fields : FieldLists, done : FieldsDone]
    BY <1>2, BytesOf
  <2>2. RefAt(s, k + 1) = Referred(a, ch)
    BY ReferredFurther
  <2>3. ch \in Bytes
    BY k + 1 \in 1 .. Len(s), BytesOf
  <2> HIDE DEF a, ch
  <2> DEFINE l == Append(a.line, ch)
             f == WithLine(a.fields, StripCR(a.line))
             d == Append(a.done, a.fields)
  <2>4. a.line \in Texts /\ a.fields \in FieldLists /\ a.done \in FieldsDone
    <3> HIDE DEF Texts, FieldLists, FieldsDone
    <3> QED
      BY <2>1
  <2>5. l \in Texts
    BY <2>3, <2>4, AddByte
  <2>6. f \in FieldLists
    BY <2>4, StrippedIs, LinesAdded
  <2>7. d \in FieldsDone
    <3> HIDE DEF FieldLists
    <3> QED
      BY <2>4 DEF FieldsDone
  <2>8. <<>> \in FieldLists /\ <<>> \in Texts
    <3> HIDE DEF Bytes
    <3> QED
      BY DEF FieldLists, Texts
  <2> HIDE DEF l, f, d
  <2>9. \/ Referred(a, ch) = [a EXCEPT !.line = l]
        \/ Referred(a, ch) = [a EXCEPT !.line = <<>>, !.fields = f]
        \/ Referred(a, ch) = [line |-> <<>>, fields |-> <<>>, done |-> a.done]
        \/ Referred(a, ch) = [line |-> <<>>, fields |-> <<>>, done |-> d]
    BY DEF Referred, l, f, d
  <2> HIDE DEF Texts, FieldLists, FieldsDone
  <2> DEFINE Shape == [line : Texts, fields : FieldLists, done : FieldsDone]
  <2>10. [a EXCEPT !.line = l] \in Shape
    BY <2>1, <2>5
  <2>11. [a EXCEPT !.line = <<>>, !.fields = f] \in Shape
    BY <2>1, <2>6, <2>8
  <2>12. \A x \in FieldsDone : [line |-> <<>>, fields |-> <<>>, done |-> x] \in Shape
    BY <2>8
  <2>13. Referred(a, ch) \in Shape
    <3> HIDE DEF Shape
    <3> QED
      BY <2>4, <2>7, <2>9, <2>10, <2>11, <2>12
  <2> QED
    BY <2>2, <2>13
<1> HIDE DEF S
<1>3. n \in S
  BY <1>1, <1>2, Induct
<1> QED
  BY <1>3 DEF S

SliceOf(b, s, q) == q + Len(b) <= Len(s) /\ \A i \in 1 .. Len(b) : b[i] = s[q + i]

\* Until an event ends, the reference holds what the block of the parser holds.
LEMMA Quietly ==
    ASSUME NEW end \in {LF, CRLF}, NEW s \in Texts, NEW q \in Nat, NEW b \in Texts, SliceOf(b, s, q), Even(b, end),
           BlankAt(s, q), NEW n \in Nat, n <= Len(b), Quiet(b, n)
    PROVE  RefAt(s, q + n) = Told(UpTo(b, n), RefAt(s, q).done)
<1> DEFINE done == RefAt(s, q).done
           N == Len(b)
           S == {k \in Nat : k <= n => RefAt(s, q + k) = Told(UpTo(b, k), done)}
<1>0. N \in Nat /\ Len(s) \in Nat /\ q + N <= Len(s) /\ n <= N /\ \A i \in 1 .. N : b[i] = s[q + i]
  BY BytesOf DEF SliceOf
<1>q. \A k \in Nat : k <= n => Quiet(b, k)
  BY DEF Quiet
<1>1. 0 \in S
  <2>1. UpTo(b, 0) = [line |-> <<>>, fields |-> <<>>]
    BY NothingScanned
  <2>2. RefAt(s, q) \in [line : Texts, fields : FieldLists, done : FieldsDone]
    BY <1>0, ReferenceShape
  <2> DEFINE r == RefAt(s, q)
  <2>3. r.line = <<>> /\ r.fields = <<>>
    BY DEF BlankAt
  <2>4. q + 0 = q
    OBVIOUS
  <2> HIDE DEF r
  <2>5. r = [line |-> <<>>, fields |-> <<>>, done |-> r.done]
    <3> HIDE DEF Texts, FieldLists, FieldsDone
    <3> QED
      BY <2>2, <2>3 DEF r
  <2> QED
    BY <2>1, <2>4, <2>5 DEF Told, r
<1>2. ASSUME NEW k \in Nat, k \in S PROVE k + 1 \in S
  <2> SUFFICES ASSUME k + 1 <= n PROVE RefAt(s, q + (k + 1)) = Told(UpTo(b, k + 1), done)
    OBVIOUS
  <2> DEFINE a == UpTo(b, k)
             ch == b[k + 1]
             m == q + k
  <2>1. RefAt(s, q + k) = Told(a, done)
    BY <1>2
  <2>2. m \in Nat /\ m + 1 <= Len(s) /\ q + (k + 1) = m + 1 /\ k + 1 <= N /\ k + 1 \in 1 .. N /\ k <= N
    BY <1>0
  <2>3. ch \in Bytes /\ s[m + 1] = ch
    BY <1>0, <2>2, BytesOf
  <2> HIDE DEF m
  <2>4. RefAt(s, m + 1) = Referred(RefAt(s, m), ch)
    BY <2>2, <2>3, ReferredFurther
  <2>5. UpTo(b, k + 1) = Parsed(a, ch)
    BY <2>2, ScannedFurther
  <2>6. ch = "n" /\ StripCR(a.line) = <<>> => a.fields = <<>>
    <3>1. Quiet(b, k + 1)
      BY <1>q
    <3> QED
      BY <2>2, <3>1, QuietStep
  <2>7. a \in [line : Texts, fields : FieldLists]
    <3> DEFINE c == SubSeq(b, 1, k)
    <3>1. c \in Texts
      BY <2>2, 1 \in Nat, PieceIs
    <3> HIDE DEF c
    <3>2. LineShape(c, Scanned(c))
      BY <3>1, LineFacts
    <3> QED
      BY <3>2 DEF LineShape, c, UpTo
  <2> HIDE DEF a, ch, done
  <2>8. Referred(Told(a, done), ch) = Told(Parsed(a, ch), done)
    BY <2>3, <2>6, <2>7, ToldFurther
  <2> QED
    BY <2>1, <2>2, <2>4, <2>5, <2>8 DEF m
<1> HIDE DEF S
<1>3. n \in S
  BY <1>1, <1>2, Induct
<1> QED
  BY <1>3 DEF S

-----------------------------------------------------------------------------
(* The first boundary.                                                     *)

\* A set of natural numbers that is not empty has a least element.
LEMMA LeastOf ==
    ASSUME NEW T, T \subseteq Nat, T # {}
    PROVE  Min(T) \in T /\ \A y \in T : Min(T) <= y
<1> DEFINE Less == {ss \in Nat \X Nat : ss[1] < ss[2]}
<1>1. IsWellFoundedOn(Less, Nat)
  BY NatLessThanWellFounded DEF OpToRel
<1>2. \E x \in T : \A y \in T : ~(<<y, x>> \in Less)
  <2> HIDE DEF Less
  <2>1. PICK x0 : x0 \in T
    OBVIOUS
  <2> QED
    BY <1>1, <2>1, WFMin, Zenon
<1>3. PICK x \in T : \A y \in T : ~(<<y, x>> \in Less)
  BY <1>2
<1>4. \A y \in T : x <= y
  <2> SUFFICES ASSUME NEW y \in T PROVE x <= y
    OBVIOUS
  <2>1. ~(<<y, x>> \in Less) /\ x \in Nat /\ y \in Nat
    BY <1>3
  <2> QED
    BY <2>1
<1> QED
  BY <1>3, <1>4 DEF Min

\* The places of the two boundaries of find_event_boundary().
LEMMA MarksAre ==
    ASSUME NEW b \in Texts
    PROVE  /\ Places(b, LF \o LF) = {i \in 1 .. Len(b) - 1 : b[i] = "n" /\ b[i + 1] = "n"}
           /\ Places(b, CRLF \o CRLF) = {i \in 1 .. Len(b) - 3 :
                  b[i] = "r" /\ b[i + 1] = "n" /\ b[i + 2] = "r" /\ b[i + 3] = "n"}
<1> DEFINE N == Len(b)
           lf == LF \o LF
           cr == CRLF \o CRLF
<1>0. N \in Nat
  BY BytesOf
<1>1. Len(lf) = 2 /\ lf[1] = "n" /\ lf[2] = "n"
  BY DEF LF
<1>2. Len(cr) = 4 /\ cr[1] = "r" /\ cr[2] = "n" /\ cr[3] = "r" /\ cr[4] = "n"
  BY DEF CRLF
<1> HIDE DEF lf, cr, N
<1>3. \A i \in Nat : (\A j \in 1 .. 2 : b[i + j - 1] = lf[j]) <=> (b[i] = "n" /\ b[i + 1] = "n")
  <2> SUFFICES ASSUME NEW i \in Nat PROVE (\A j \in 1 .. 2 : b[i + j - 1] = lf[j]) <=> (b[i] = "n" /\ b[i + 1] = "n")
    OBVIOUS
  <2>1. i + 1 - 1 = i /\ i + 2 - 1 = i + 1 /\ 1 .. 2 = {1, 2}
    OBVIOUS
  <2> QED
    BY <1>1, <2>1
<1>4. \A i \in Nat : (\A j \in 1 .. 4 : b[i + j - 1] = cr[j])
         <=> (b[i] = "r" /\ b[i + 1] = "n" /\ b[i + 2] = "r" /\ b[i + 3] = "n")
  <2> SUFFICES ASSUME NEW i \in Nat
               PROVE  (\A j \in 1 .. 4 : b[i + j - 1] = cr[j])
                         <=> (b[i] = "r" /\ b[i + 1] = "n" /\ b[i + 2] = "r" /\ b[i + 3] = "n")
    OBVIOUS
  <2>1. i + 1 - 1 = i /\ i + 2 - 1 = i + 1 /\ i + 3 - 1 = i + 2 /\ i + 4 - 1 = i + 3 /\ 1 .. 4 = {1, 2, 3, 4}
    OBVIOUS
  <2> QED
    BY <1>2, <2>1
<1>5. N + 1 - 2 = N - 1 /\ N + 1 - 4 = N - 3
  BY <1>0
<1>6. Places(b, lf) = {i \in 1 .. N - 1 : b[i] = "n" /\ b[i + 1] = "n"}
  <2>1. Places(b, lf) = {i \in 1 .. N - 1 : \A j \in 1 .. 2 : b[i + j - 1] = lf[j]}
    BY <1>1, <1>5 DEF Places, N
  <2> QED
    BY <1>3, <2>1
<1>7. Places(b, cr) = {i \in 1 .. N - 3 : b[i] = "r" /\ b[i + 1] = "n" /\ b[i + 2] = "r" /\ b[i + 3] = "n"}
  <2>1. Places(b, cr) = {i \in 1 .. N - 3 : \A j \in 1 .. 4 : b[i + j - 1] = cr[j]}
    BY <1>2, <1>5 DEF Places, N
  <2> QED
    BY <1>4, <2>1
<1> QED
  BY <1>6, <1>7 DEF lf, cr, N

\* In lines of one kind: none, or the first blank line of that kind.
LEMMA FirstBoundary ==
    ASSUME NEW b \in Texts, NEW end \in {LF, CRLF}, Even(b, end)
    PROVE  LET found == BoundaryOf(b) IN
           \/ found.at = 0 /\ Quiet(b, Len(b))
           \/ /\ end = LF /\ found.skip = 2 /\ found.at \in 1 .. Len(b) - 1
              /\ b[found.at] = "n" /\ b[found.at + 1] = "n" /\ Quiet(b, found.at)
           \/ /\ end # LF /\ found.skip = 4 /\ found.at \in 1 .. Len(b) - 3
              /\ b[found.at] = "r" /\ b[found.at + 1] = "n" /\ b[found.at + 2] = "r" /\ b[found.at + 3] = "n"
              /\ Quiet(b, found.at + 2)
<1> DEFINE N == Len(b)
           lf == Places(b, LF \o LF)
           cr == Places(b, CRLF \o CRLF)
<1>0. N \in Nat
  BY BytesOf
<1>1. lf = {i \in 1 .. N - 1 : b[i] = "n" /\ b[i + 1] = "n"}
  BY MarksAre
<1>2. cr = {i \in 1 .. N - 3 : b[i] = "r" /\ b[i + 1] = "n" /\ b[i + 2] = "r" /\ b[i + 3] = "n"}
  BY MarksAre
<1>3. BoundaryOf(b) = IF cr # {} THEN [at |-> Min(cr), skip |-> 4]
                      ELSE IF lf # {} THEN [at |-> Min(lf), skip |-> 2] ELSE [at |-> 0, skip |-> 0]
  BY DEF BoundaryOf
<1> HIDE DEF N, lf, cr
<1>4. CASE end = LF
  <2>1. \A i \in 1 .. N : b[i] # "r"
    BY <1>4 DEF Even, N
  <2>2. cr = {}
    BY <1>0, <1>2, <2>1
  <2>3. CASE lf = {}
    <3>1. BoundaryOf(b).at = 0
      BY <1>3, <2>2, <2>3
    <3>2. Quiet(b, N)
      <4>1. \A i \in 1 .. N : i + 1 <= N => ~(b[i] = "n" /\ b[i + 1] = "n")
        BY <1>0, <1>1, <2>3
      <4> QED
        BY <2>1, <4>1 DEF Quiet, N
    <3> QED
      BY <3>1, <3>2 DEF N
  <2>4. CASE lf # {}
    <3> DEFINE p == Min(lf)
    <3>1. BoundaryOf(b).at = p /\ BoundaryOf(b).skip = 2
      BY <1>3, <2>2, <2>4
    <3>2. p \in lf /\ \A y \in lf : p <= y
      <4>1. lf \subseteq Nat
        BY <1>0, <1>1
      <4> QED
        BY <2>4, <4>1, LeastOf
    <3> HIDE DEF p
    <3>3. p \in 1 .. N - 1 /\ b[p] = "n" /\ b[p + 1] = "n"
      BY <1>1, <3>2
    <3>4. Quiet(b, p)
      <4>1. ASSUME NEW i \in 1 .. N, i + 1 <= p, b[i] = "n" /\ b[i + 1] = "n" PROVE FALSE
        <5>1. i \in 1 .. N - 1
          BY <1>0, <3>3, <4>1
        <5>2. i \in lf
          BY <1>1, <4>1, <5>1
        <5> QED
          BY <3>2, <3>3, <4>1, <5>2
      <4> QED
        BY <2>1, <4>1 DEF Quiet, N
    <3> QED
      BY <1>4, <3>1, <3>3, <3>4 DEF N
  <2> QED
    BY <2>3, <2>4
<1>5. CASE end # LF
  <2>1. (1 <= N => b[1] # "n") /\ \A i \in 1 .. N : i + 1 <= N => (b[i] = "r" <=> b[i + 1] = "n")
    BY <1>5 DEF Even, N
  <2>2. \A i \in 1 .. N : i + 1 <= N => ~(b[i] = "n" /\ b[i + 1] = "n")
    BY <2>1
  <2>3. lf = {}
    BY <1>0, <1>1, <2>2
  <2>4. CASE cr = {}
    <3>1. BoundaryOf(b).at = 0
      BY <1>3, <2>3, <2>4
    <3>2. Quiet(b, N)
      <4>1. \A i \in 1 .. N : i + 3 <= N => ~(b[i] = "r" /\ b[i + 1] = "n" /\ b[i + 2] = "r" /\ b[i + 3] = "n")
        BY <1>0, <1>2, <2>4
      <4> QED
        BY <2>2, <4>1 DEF Quiet, N
    <3> QED
      BY <3>1, <3>2 DEF N
  <2>5. CASE cr # {}
    <3> DEFINE p == Min(cr)
    <3>1. BoundaryOf(b).at = p /\ BoundaryOf(b).skip = 4
      BY <1>3, <2>5
    <3>2. p \in cr /\ \A y \in cr : p <= y
      <4>1. cr \subseteq Nat
        BY <1>0, <1>2
      <4> QED
        BY <2>5, <4>1, LeastOf
    <3> HIDE DEF p
    <3>3. p \in 1 .. N - 3 /\ b[p] = "r" /\ b[p + 1] = "n" /\ b[p + 2] = "r" /\ b[p + 3] = "n"
      BY <1>2, <3>2
    <3>4. Quiet(b, p + 2)
      <4>1. ASSUME NEW i \in 1 .. N, i + 3 <= p + 2, b[i] = "r" /\ b[i + 1] = "n" /\ b[i + 2] = "r" /\ b[i + 3] = "n"
            PROVE FALSE
        <5>1. i \in 1 .. N - 3 /\ i < p
          BY <1>0, <3>3, <4>1
        <5>2. i \in cr
          BY <1>2, <4>1, <5>1
        <5> QED
          BY <1>0, <3>2, <3>3, <5>1, <5>2
      <4>2. \A i \in 1 .. N : i + 1 <= p + 2 => ~(b[i] = "n" /\ b[i + 1] = "n")
        BY <1>0, <2>2, <3>3
      <4> QED
        BY <4>1, <4>2 DEF Quiet, N
    <3> QED
      BY <1>5, <3>1, <3>3, <3>4 DEF N
  <2> QED
    BY <2>4, <2>5
<1> QED
  BY <1>4, <1>5

\* What follows an event keeps to the line end of the stream.
LEMMA SliceEven ==
    ASSUME NEW end \in {LF, CRLF}, NEW s \in Texts, NEW q \in Nat, NEW m \in Nat, q <= m, m <= Len(s),
           Even(s, end), BlankAt(s, q)
    PROVE  Even(SubSeq(s, q + 1, m), end)
<1> DEFINE b == SubSeq(s, q + 1, m)
           L == Len(s)
<1>0. L \in Nat /\ q <= m /\ m <= L
  BY BytesOf
<1>1. b \in Texts /\ Len(b) = m - q /\ \A i \in 1 .. m - q : b[i] = s[q + i]
  BY SlicedTexts
<1> HIDE DEF b
<1>2. CASE end = LF
  <2>1. \A i \in 1 .. L : s[i] # "r"
    BY <1>2 DEF Even
  <2>2. ASSUME NEW i \in 1 .. m - q PROVE b[i] # "r"
    <3>1. q + i \in 1 .. L
      BY <1>0
    <3> QED
      BY <1>1, <2>1, <3>1
  <2> QED
    BY <1>1, <1>2, <2>2 DEF Even, b
<1>3. CASE end # LF
  <2>1. (1 <= L => s[1] # "n") /\ \A i \in 1 .. L : i + 1 <= L => (s[i] = "r" <=> s[i + 1] = "n")
    BY <1>3 DEF Even
  <2> HIDE DEF L
  <2>2. ASSUME 1 <= m - q PROVE b[1] # "n"
    <3>1. b[1] = s[q + 1] /\ q + 1 <= L
      BY <1>0, <1>1, <2>2
    <3>2. CASE q = 0
      BY <2>1, <3>1, <3>2
    <3>3. CASE q # 0
      <4>1. s[q] = "n" /\ q \in 1 .. L
        BY <1>0, <3>1, <3>3 DEF BlankAt
      <4> QED
        BY <2>1, <3>1, <4>1
    <3> QED
      BY <3>2, <3>3
  <2>3. ASSUME NEW i \in 1 .. m - q, i + 1 <= m - q PROVE b[i] = "r" <=> b[i + 1] = "n"
    <3>1. q + i \in 1 .. L /\ (q + i) + 1 <= L /\ i + 1 \in 1 .. m - q /\ q + (i + 1) = (q + i) + 1
      BY <1>0, <2>3
    <3>2. b[i] = s[q + i] /\ b[i + 1] = s[(q + i) + 1]
      BY <1>1, <3>1
    <3> QED
      BY <2>1, <3>1, <3>2
  <2>4. Even(b, end)
    BY <1>1, <1>3, <2>2, <2>3 DEF Even
  <2> QED
    BY <2>4 DEF b
<1> QED
  BY <1>2, <1>3

\* Without a boundary the block holds all that is told since the last event.
LEMMA NothingEnds ==
    ASSUME NEW end \in {LF, CRLF}, NEW s \in Texts, NEW q \in Nat, NEW m \in Nat, q <= m, m <= Len(s),
           Even(s, end), BlankAt(s, q), BoundaryOf(SubSeq(s, q + 1, m)).at = 0
    PROVE  RefAt(s, m) = Told(Scanned(SubSeq(s, q + 1, m)), RefAt(s, q).done)
<1> DEFINE b == SubSeq(s, q + 1, m)
           n == Len(b)
<1>1. b \in Texts /\ n = m - q /\ \A i \in 1 .. m - q : b[i] = s[q + i]
  BY SlicedTexts
<1>2. Even(b, end)
  BY SliceEven
<1>a. BoundaryOf(b).at = 0
  OBVIOUS
<1> HIDE DEF b
<1>3. Quiet(b, n)
  <2>1. BoundaryOf(b).at \notin 1 .. n - 1 /\ BoundaryOf(b).at \notin 1 .. n - 3
    BY <1>a
  <2> QED
    BY <1>1, <1>2, <2>1, FirstBoundary
<1>4. n \in Nat /\ q + n = m
  BY <1>1
<1>5. RefAt(s, q + n) = Told(UpTo(b, n), RefAt(s, q).done)
  <2>1. SliceOf(b, s, q) /\ n <= Len(b)
    BY <1>1, <1>4, BytesOf DEF SliceOf
  <2> HIDE DEF n
  <2> QED
    BY <1>1, <1>2, <1>3, <1>4, <2>1, Quietly
<1>6. UpTo(b, n) = Scanned(b)
  BY <1>1, WholeText DEF UpTo
<1> QED
  BY <1>4, <1>5, <1>6 DEF b

\* A blank line stays blank.
LEMMA NoEndIsBlank == StripCR(<<>>) = <<>>
BY DEF StripCR

\* A blank line ends an event, if there is a field.
LEMMA BlankEnds ==
    ASSUME NEW f, NEW d, NEW line, StripCR(line) = <<>>
    PROVE  Referred([line |-> line, fields |-> f, done |-> d], "n")
              = [line |-> <<>>, fields |-> <<>>, done |-> IF f = <<>> THEN d ELSE Append(d, f)]
BY DEF Referred

\* The line end and the blank line: the block before them is the event.
LEMMA EventEnds ==
    ASSUME NEW end \in {LF, CRLF}, NEW s \in Texts, NEW q \in Nat, NEW m \in Nat, q <= m, m <= Len(s),
           Even(s, end), BlankAt(s, q), BoundaryOf(SubSeq(s, q + 1, m)).at # 0
    PROVE  LET b     == SubSeq(s, q + 1, m)
               found == BoundaryOf(b)
               k     == found.at + found.skip - 1
           IN  /\ found.at \in 1 .. Len(b) /\ k \in 1 .. Len(b) /\ BlankAt(s, q + k)
               /\ RefAt(s, q + k).done = Emit(RefAt(s, q).done, SubSeq(b, 1, found.at - 1))
<1> DEFINE b == SubSeq(s, q + 1, m)
           N == Len(b)
           found == BoundaryOf(b)
           p == found.at
           block == SubSeq(b, 1, p - 1)
           a == Scanned(block)
           F == Fields(block)
           d == RefAt(s, q).done
           k == p + found.skip - 1
<1>1. b \in Texts /\ N = m - q /\ \A i \in 1 .. m - q : b[i] = s[q + i]
  BY SlicedTexts
<1>2. Even(b, end)
  BY SliceEven
<1>3. N \in Nat /\ q + N = m /\ q + N <= Len(s) /\ Len(s) \in Nat
  BY <1>1, BytesOf
<1>4. \/ /\ end = LF /\ found.skip = 2 /\ p \in 1 .. N - 1
         /\ b[p] = "n" /\ b[p + 1] = "n" /\ Quiet(b, p)
      \/ /\ end # LF /\ found.skip = 4 /\ p \in 1 .. N - 3
         /\ b[p] = "r" /\ b[p + 1] = "n" /\ b[p + 2] = "r" /\ b[p + 3] = "n" /\ Quiet(b, p + 2)
  <2>1. p # 0
    OBVIOUS
  <2> HIDE DEF b
  <2> QED
    BY <1>1, <1>2, <2>1, FirstBoundary
<1> HIDE DEF b, N, found, p, F, d
<1>5. p \in Nat /\ p - 1 \in Nat /\ p >= 1 /\ p <= N /\ k \in 1 .. N
  <2>1. CASE found.skip = 2 /\ p \in 1 .. N - 1
    <3>1. k = p + 1
      BY <1>3, <2>1
    <3> QED
      BY ONLY <1>3, <2>1, <3>1
  <2>2. CASE found.skip = 4 /\ p \in 1 .. N - 3
    <3>1. k = p + 3
      BY <1>3, <2>2
    <3> QED
      BY ONLY <1>3, <2>2, <3>1
  <2> QED
    BY <1>4, <2>1, <2>2
<1>6. \A n \in Nat : n <= N /\ Quiet(b, n) => RefAt(s, q + n) = Told(UpTo(b, n), d)
  <2> SUFFICES ASSUME NEW n \in Nat, n <= N, Quiet(b, n) PROVE RefAt(s, q + n) = Told(UpTo(b, n), d)
    OBVIOUS
  <2>1. SliceOf(b, s, q) /\ n <= Len(b)
    BY <1>1, <1>3 DEF N, SliceOf
  <2>2. RefAt(s, q + n) = Told(UpTo(b, n), RefAt(s, q).done)
    BY <1>1, <1>2, <2>1, Quietly
  <2> QED
    BY <2>2 DEF d
<1>7. \A n \in Nat : n + 1 <= N => RefAt(s, q + (n + 1)) = Referred(RefAt(s, q + n), b[n + 1])
  <2> SUFFICES ASSUME NEW n \in Nat, n + 1 <= N PROVE RefAt(s, q + (n + 1)) = Referred(RefAt(s, q + n), b[n + 1])
    OBVIOUS
  <2> DEFINE h == q + n
  <2>1. h \in Nat /\ h + 1 <= Len(s) /\ n + 1 \in 1 .. m - q /\ q + (n + 1) = h + 1
    BY <1>1, <1>3
  <2>2. b[n + 1] = s[h + 1]
    BY <1>1, <2>1
  <2> HIDE DEF h
  <2>3. RefAt(s, h + 1) = Referred(RefAt(s, h), s[h + 1])
    BY <2>1, ReferredFurther
  <2> QED
    BY <2>1, <2>2, <2>3 DEF h
<1>8. \A n \in Nat : n + 1 <= N => UpTo(b, n + 1) = Parsed(UpTo(b, n), b[n + 1])
  BY <1>1, ScannedFurther DEF N
<1>9. UpTo(b, p - 1) = a
  BY DEF UpTo
<1>10. block \in Texts /\ Len(block) = p - 1 /\ \A i \in 1 .. p - 1 : block[i] = b[i]
  <2> DEFINE n == p - 1
  <2>1. n \in Nat /\ n <= Len(b)
    BY <1>3, <1>5 DEF N
  <2>2. /\ SubSeq(b, 1, n) \in Texts /\ Len(SubSeq(b, 1, n)) = (IF 1 <= n THEN n + 1 - 1 ELSE 0)
        /\ \A i \in 1 .. n + 1 - 1 : SubSeq(b, 1, n)[i] = b[1 - 1 + i]
    <3> HIDE DEF n
    <3> QED
      BY <1>1, <2>1, 1 \in Nat, PieceIs
  <2> DEFINE c == SubSeq(b, 1, n)
  <2> HIDE DEF c
  <2>3. c \in Texts /\ Len(c) = n /\ \A i \in 1 .. n : c[i] = b[i]
    <3> HIDE DEF n
    <3>1. Len(c) = n /\ c \in Texts
      BY <2>1, <2>2 DEF c
    <3>2. ASSUME NEW i \in 1 .. n PROVE c[i] = b[i]
      <4>1. i \in 1 .. n + 1 - 1 /\ 1 - 1 + i = i
        BY <2>1
      <4> QED
        BY <2>2, <4>1 DEF c
    <3> QED
      BY <3>1, <3>2
  <2> QED
    BY <2>3 DEF c
<1> HIDE DEF block
<1>11. LineShape(block, a)
  BY <1>10, LineFacts
<1>12. F = WithLine(a.fields, StripCR(a.line))
  BY DEF F, Fields
<1> HIDE DEF a
<1>13. a.line \in Texts /\ a.fields \in FieldLists /\ Len(a.line) \in Nat /\ Len(a.line) <= p - 1
  <2>1. a \in [line : Texts, fields : FieldLists]
    BY <1>11 DEF LineShape
  <2>2. a.line \in Texts /\ a.fields \in FieldLists
    <3> HIDE DEF Texts, FieldLists
    <3> QED
      BY <2>1
  <2> QED
    BY <1>10, <1>11, <2>2, BytesOf DEF LineShape
<1>14. RefAt(s, q + k) = [line |-> <<>>, fields |-> <<>>, done |-> Emit(d, block)] /\ b[k] = "n"
  <2>1. CASE found.skip = 2 /\ p \in 1 .. N - 1 /\ b[p] = "n" /\ b[p + 1] = "n" /\ Quiet(b, p)
    <3>1. k = p + 1 /\ (p - 1) + 1 = p /\ p <= N /\ p + 1 <= N
      BY <1>3, <1>5, <2>1
    <3>2. UpTo(b, p) = [line |-> <<>>, fields |-> F]
      <4>1. UpTo(b, (p - 1) + 1) = Parsed(UpTo(b, p - 1), b[(p - 1) + 1])
        BY <1>5, <1>8, <3>1
      <4>2. UpTo(b, p) = Parsed(a, "n")
        BY <1>9, <2>1, <3>1, <4>1
      <4> QED
        BY <1>12, <4>2 DEF Parsed
    <3>3. RefAt(s, q + p) = Told([line |-> <<>>, fields |-> F], d)
      BY <1>5, <1>6, <2>1, <3>2
    <3>4. RefAt(s, q + (p + 1)) = Referred(RefAt(s, q + p), "n")
      BY <1>5, <1>7, <2>1, <3>1
    <3>5. RefAt(s, q + (p + 1)) = [line |-> <<>>, fields |-> <<>>, done |-> IF F = <<>> THEN d ELSE Append(d, F)]
      <4>1. RefAt(s, q + (p + 1)) = Referred([line |-> <<>>, fields |-> F, done |-> d], "n")
        BY <3>3, <3>4 DEF Told
      <4> QED
        BY <4>1, BlankEnds, NoEndIsBlank
    <3> QED
      BY <2>1, <3>1, <3>5 DEF Emit, F
  <2>2. CASE /\ end # LF /\ found.skip = 4 /\ p \in 1 .. N - 3
             /\ b[p] = "r" /\ b[p + 1] = "n" /\ b[p + 2] = "r" /\ b[p + 3] = "n" /\ Quiet(b, p + 2)
    <3>1. /\ k = p + 3 /\ (p - 1) + 1 = p /\ p <= N /\ p + 1 <= N /\ p + 2 <= N /\ p + 3 <= N
          /\ (p + 1) + 1 = p + 2 /\ (p + 2) + 1 = p + 3 /\ p + 1 \in Nat /\ p + 2 \in Nat
      BY <1>3, <1>5, <2>2
    <3>2. UpTo(b, p) = [line |-> Append(a.line, "r"), fields |-> a.fields]
      <4>1. UpTo(b, (p - 1) + 1) = Parsed(UpTo(b, p - 1), b[(p - 1) + 1])
        BY <1>5, <1>8, <3>1
      <4>2. UpTo(b, p) = Parsed(a, "r")
        BY <1>9, <2>2, <3>1, <4>1
      <4> QED
        BY <4>2 DEF Parsed
    <3>3. StripCR(a.line) = a.line
      <4> DEFINE h == Len(a.line)
      <4> SUFFICES ASSUME a.line # <<>>, a.line[h] = "r" PROVE FALSE
        BY <1>13, StrippedIs
      <4>1. h \in Nat /\ h >= 1 /\ h <= p - 1
        BY <1>13, NoBytes
      <4>2. a.line[h] = block[Len(block) - h + h]
        <5>1. \A i \in 1 .. Len(a.line) : a.line[i] = block[Len(block) - Len(a.line) + i]
          BY <1>11 DEF LineShape
        <5>2. h \in 1 .. Len(a.line)
          BY <4>1
        <5> QED
          BY <5>1, <5>2
      <4> HIDE DEF h
      <4>3. (p - 1) - h + h = p - 1 /\ p - 1 \in 1 .. p - 1 /\ p - 1 \in 1 .. N /\ (p - 1) + 1 = p
        <5>1. p \in Nat /\ N \in Nat /\ p <= N /\ h \in Nat /\ h >= 1 /\ h <= p - 1
          BY <1>3, <1>5, <4>1
        <5> QED
          BY ONLY <5>1
      <4>4. b[p - 1] = "r"
        BY <1>10, <4>2, <4>3
      <4>5. \A i \in 1 .. N : i + 1 <= N => (b[i] = "r" <=> b[i + 1] = "n")
        BY <1>2, <2>2 DEF Even, N
      <4> QED
        BY <2>2, <3>1, <4>3, <4>4, <4>5
    <3>4. UpTo(b, p + 1) = [line |-> <<>>, fields |-> F]
      <4>1. UpTo(b, p + 1) = Parsed([line |-> Append(a.line, "r"), fields |-> a.fields], "n")
        BY <1>5, <1>8, <2>2, <3>1, <3>2
      <4>2. StripCR(Append(a.line, "r")) = a.line
        BY <1>13, StrippedEnd
      <4> QED
        BY <1>12, <3>3, <4>1, <4>2 DEF Parsed
    <3>5. UpTo(b, p + 2) = [line |-> Append(<<>>, "r"), fields |-> F]
      <4>1. UpTo(b, (p + 1) + 1) = Parsed(UpTo(b, p + 1), b[(p + 1) + 1])
        BY <1>8, <3>1
      <4>2. UpTo(b, p + 2) = Parsed([line |-> <<>>, fields |-> F], "r")
        BY <2>2, <3>1, <3>4, <4>1
      <4> QED
        BY <4>2 DEF Parsed
    <3>6. RefAt(s, q + (p + 2)) = Told([line |-> Append(<<>>, "r"), fields |-> F], d)
      BY <1>6, <2>2, <3>1, <3>5
    <3>7. RefAt(s, q + ((p + 2) + 1)) = Referred(RefAt(s, q + (p + 2)), b[(p + 2) + 1])
      BY <1>7, <3>1
    <3>8. RefAt(s, q + (p + 3)) = Referred(Told([line |-> Append(<<>>, "r"), fields |-> F], d), "n")
      BY <2>2, <3>1, <3>6, <3>7
    <3>9. StripCR(Append(<<>>, "r")) = <<>>
      BY NoBytes, StrippedEnd
    <3>10. RefAt(s, q + (p + 3)) = [line |-> <<>>, fields |-> <<>>, done |-> IF F = <<>> THEN d ELSE Append(d, F)]
      BY <3>8, <3>9, BlankEnds DEF Told
    <3> QED
      BY <2>2, <3>1, <3>10 DEF Emit, F
  <2> QED
    BY <1>4, <2>1, <2>2
<1>15. BlankAt(s, q + k)
  <2>1. s[q + k] = "n"
    BY <1>1, <1>5, <1>14
  <2> QED
    BY <1>14, <2>1 DEF BlankAt
<1>16. RefAt(s, q + k).done = Emit(d, block) /\ p \in 1 .. N
  BY <1>3, <1>5, <1>14
<1> QED
  BY <1>5, <1>15, <1>16 DEF b, N, found, p, block, d

\* A boundary lies within the buffer.
LEMMA BoundaryWithin ==
    ASSUME NEW b \in Texts, BoundaryOf(b).at # 0
    PROVE  LET found == BoundaryOf(b) IN
           found.at \in 1 .. Len(b) /\ found.skip \in {2, 4} /\ found.at + found.skip - 1 \in 1 .. Len(b)
<1> DEFINE N == Len(b)
           lf == Places(b, LF \o LF)
           cr == Places(b, CRLF \o CRLF)
<1>0. N \in Nat
  BY BytesOf
<1>1. lf \subseteq 1 .. N - 1
  BY MarksAre
<1>2. cr \subseteq 1 .. N - 3
  BY MarksAre
<1>3. BoundaryOf(b) = IF cr # {} THEN [at |-> Min(cr), skip |-> 4]
                      ELSE IF lf # {} THEN [at |-> Min(lf), skip |-> 2] ELSE [at |-> 0, skip |-> 0]
  BY DEF BoundaryOf
<1> HIDE DEF N, lf, cr
<1>4. CASE cr # {}
  <2>1. cr \subseteq Nat
    BY <1>0, <1>2
  <2>2. Min(cr) \in cr
    BY <1>4, <2>1, LeastOf
  <2> DEFINE p == Min(cr)
  <2>3. BoundaryOf(b) = [at |-> p, skip |-> 4]
    BY <1>3, <1>4
  <2> HIDE DEF p
  <2>4. p \in 1 .. N - 3
    BY <1>2, <2>2 DEF p
  <2>5. BoundaryOf(b).at = p /\ BoundaryOf(b).skip = 4
    BY <2>3
  <2> QED
    BY <1>0, <2>4, <2>5 DEF N
<1>5. CASE cr = {} /\ lf # {}
  <2>1. lf \subseteq Nat
    BY <1>0, <1>1
  <2>2. Min(lf) \in lf
    BY <1>5, <2>1, LeastOf
  <2> DEFINE p == Min(lf)
  <2>3. BoundaryOf(b) = [at |-> p, skip |-> 2]
    BY <1>3, <1>5
  <2> HIDE DEF p
  <2>4. p \in 1 .. N - 1
    BY <1>1, <2>2 DEF p
  <2>5. BoundaryOf(b).at = p /\ BoundaryOf(b).skip = 2
    BY <2>3
  <2> QED
    BY <1>0, <2>4, <2>5 DEF N
<1>6. cr # {} \/ lf # {}
  BY <1>3
<1> QED
  BY <1>4, <1>5, <1>6

Draining(b, i, f) ==
    LET rest  == SubSeq(b, i, Len(b))
        found == BoundaryOf(rest)
        after == f[i + found.at + found.skip - 1]
    IN  IF found.at = 0 THEN [rest |-> rest, events |-> <<>>]
        ELSE [rest |-> after.rest, events |-> Emit(<<>>, SubSeq(rest, 1, found.at - 1)) \o after.events]

\* What is drained from place i depends on later places only.
LEMMA DrainsForward ==
    ASSUME NEW b \in Texts, NEW i \in 1 .. Len(b) + 1, NEW f, NEW g,
           \A k \in 1 .. Len(b) + 1 : k > i => f[k] = g[k]
    PROVE  Draining(b, i, f) = Draining(b, i, g)
<1> DEFINE rest == SubSeq(b, i, Len(b))
           found == BoundaryOf(rest)
           k == i + found.at + found.skip - 1
           N == Len(b)
<1>0. N \in Nat
  BY BytesOf
<1>1. rest \in Texts /\ Len(rest) = N + 1 - i
  <2>1. rest \in Texts /\ Len(rest) = (IF i <= N THEN N + 1 - i ELSE 0)
    BY <1>0, PieceIs
  <2> HIDE DEF rest
  <2> QED
    BY <1>0, <2>1
<1> HIDE DEF rest
<1>2. CASE found.at = 0
  BY <1>2 DEF Draining, rest
<1>3. CASE found.at # 0
  <2>1. found.at \in 1 .. Len(rest) /\ found.skip \in {2, 4} /\ found.at + found.skip - 1 \in 1 .. Len(rest)
    BY <1>1, <1>3, BoundaryWithin
  <2> DEFINE x == found.at
             y == found.skip
  <2> HIDE DEF found
  <2>2. k \in 1 .. N + 1 /\ k > i
    <3>1. k = i + (x + y - 1) /\ x \in Nat /\ y \in Nat
      BY <2>1
    <3> HIDE DEF x, y
    <3>2. x + y - 1 \in 1 .. N + 1 - i
      BY <1>1, <2>1 DEF x, y
    <3> QED
      BY <1>0, <3>1, <3>2
  <2> HIDE DEF k
  <2>3. f[k] = g[k]
    BY <2>2
  <2> QED
    BY <1>3, <2>3 DEF Draining, rest, found, k
<1> QED
  BY <1>2, <1>3

\* The recursive function of the loop of push() exists.
LEMMA DrainingExists ==
    ASSUME NEW b \in Texts
    PROVE  \E f : f = [i \in 1 .. Len(b) + 1 |-> Draining(b, i, f)]
<1> DEFINE N == Len(b)
           D == 1 .. N + 1
           Ok(k, f) == DOMAIN f = D /\ f = [i \in D |-> f[i]] /\ \A i \in D : i + k > N + 1 => f[i] = Draining(b, i, f)
           S == {k \in Nat : \E f : Ok(k, f)}
<1>0. N \in Nat
  BY BytesOf
<1>1. 0 \in S
  <2> DEFINE f == [i \in D |-> 0]
  <2>1. Ok(0, f)
    <3>1. DOMAIN f = D /\ f = [i \in D |-> f[i]]
      OBVIOUS
    <3> HIDE DEF f
    <3>2. \A i \in D : ~(i + 0 > N + 1)
      BY <1>0
    <3> QED
      BY <3>1, <3>2
  <2> HIDE DEF Ok, f
  <2> QED
    BY <2>1
<1>2. ASSUME NEW k \in Nat, k \in S PROVE k + 1 \in S
  <2> HIDE DEF Ok
  <2>1. PICK f : Ok(k, f)
    BY <1>2
  <2> DEFINE j == N + 1 - k
             g == [i \in D |-> IF i = j THEN Draining(b, i, f) ELSE f[i]]
  <2>2. DOMAIN g = D /\ g = [i \in D |-> g[i]]
    OBVIOUS
  <2>3. \A i \in D : g[i] = IF i = j THEN Draining(b, i, f) ELSE f[i]
    OBVIOUS
  <2> HIDE DEF g
  <2>4. ASSUME NEW i \in D, i + (k + 1) > N + 1 PROVE g[i] = Draining(b, i, g)
    <3>1. \A x \in D : x > i => f[x] = g[x]
      <4> SUFFICES ASSUME NEW x \in D, x > i PROVE f[x] = g[x]
        OBVIOUS
      <4>1. x # j
        BY <1>0, <2>4
      <4> QED
        BY <2>3, <4>1
    <3>2. Draining(b, i, f) = Draining(b, i, g)
      <4>1. i \in 1 .. Len(b) + 1 /\ \A x \in 1 .. Len(b) + 1 : x > i => f[x] = g[x]
        BY <3>1
      <4> HIDE DEF D, N
      <4> QED
        BY <4>1, DrainsForward
    <3>3. CASE i = j
      BY <2>3, <3>2, <3>3
    <3>4. CASE i # j
      <4>1. i + k > N + 1
        BY <1>0, <2>4, <3>4
      <4>2. f[i] = Draining(b, i, f)
        <5>1. \A x \in D : x + k > N + 1 => f[x] = Draining(b, x, f)
          BY <2>1 DEF Ok
        <5> HIDE DEF D, N
        <5> QED
          BY <4>1, <5>1
      <4> QED
        BY <2>3, <3>2, <3>4, <4>2
    <3> QED
      BY <3>3, <3>4
  <2>5. Ok(k + 1, g)
    BY <2>2, <2>4 DEF Ok
  <2> QED
    BY <2>5
<1> HIDE DEF S
<1>3. N + 1 \in S
  <2>1. N + 1 \in Nat
    BY <1>0
  <2> QED
    BY <1>1, <1>2, <2>1, Induct
<1>4. PICK f : Ok(N + 1, f)
  <2> HIDE DEF Ok
  <2> QED
    BY <1>3 DEF S
<1>5. f = [i \in D |-> f[i]] /\ \A i \in D : f[i] = Draining(b, i, f)
  <2>1. \A i \in D : i + (N + 1) > N + 1
    BY <1>0
  <2> QED
    BY <1>4, <2>1
<1>6. f = [i \in D |-> Draining(b, i, f)]
  <2> HIDE DEF D
  <2> QED
    BY <1>5
<1> QED
  BY <1>6

\* Drained is what that function has at the first place.
LEMMA DrainedIs ==
    ASSUME NEW b \in Texts
    PROVE  \E f : Drained(b) = f[1] /\ \A i \in 1 .. Len(b) + 1 : f[i] = Draining(b, i, f)
<1> DEFINE Eq(f) == f = [i \in 1 .. Len(b) + 1 |-> Draining(b, i, f)]
           h == CHOOSE f : Eq(f)
<1>1. \E f : Eq(f)
  BY DrainingExists
<1>2. Drained(b) = h[1]
  BY DEF Drained, Draining
<1>3. Eq(h)
  <2> HIDE DEF Eq
  <2> QED
    BY <1>1
<1> HIDE DEF h
<1>4. \A i \in 1 .. Len(b) + 1 : h[i] = Draining(b, i, h)
  BY <1>3
<1> QED
  BY <1>2, <1>4

\* What follows place i of a slice is a slice.
LEMMA SliceOfSlice ==
    ASSUME NEW s \in Texts, NEW q \in Nat, NEW m \in Nat, q <= m, m <= Len(s), NEW i \in 1 .. (m - q) + 1
    PROVE  SubSeq(SubSeq(s, q + 1, m), i, m - q) = SubSeq(s, (q + i - 1) + 1, m)
<1> DEFINE b == SubSeq(s, q + 1, m)
           n == m - q
           c == SubSeq(b, i, n)
           h == q + i - 1
           e == SubSeq(s, h + 1, m)
<1>0. n \in Nat /\ h \in Nat /\ h <= m /\ m - h = n + 1 - i
  OBVIOUS
<1>1. b \in Texts /\ Len(b) = n /\ \A k \in 1 .. n : b[k] = s[q + k]
  BY SlicedTexts
<1>2. e \in Texts /\ Len(e) = m - h /\ \A k \in 1 .. m - h : e[k] = s[h + k]
  <2> HIDE DEF h
  <2> QED
    BY <1>0, SlicedTexts
<1> HIDE DEF b, e
<1>3. c \in Texts /\ Len(c) = n + 1 - i /\ \A k \in 1 .. n + 1 - i : c[k] = b[i - 1 + k]
  <2>1. /\ c \in Texts /\ Len(c) = (IF i <= n THEN n + 1 - i ELSE 0)
        /\ \A k \in 1 .. n + 1 - i : c[k] = b[i - 1 + k]
    <3> HIDE DEF n
    <3> QED
      BY <1>0, <1>1, PieceIs
  <2>2. (IF i <= n THEN n + 1 - i ELSE 0) = n + 1 - i
    OBVIOUS
  <2> QED
    BY <2>1, <2>2
<1> HIDE DEF c
<1>4. ASSUME NEW k \in 1 .. Len(c) PROVE c[k] = e[k]
  <2>1. k \in 1 .. n + 1 - i /\ i - 1 + k \in 1 .. n /\ q + (i - 1 + k) = h + k /\ k \in 1 .. m - h
    BY <1>0, <1>3
  <2> HIDE DEF n, h
  <2> QED
    BY <1>1, <1>2, <1>3, <2>1
<1>5. c = e
  BY <1>0, <1>2, <1>3, <1>4, SameTexts
<1> QED
  BY <1>5 DEF c, e, b

\* The event of a block is joined to those before it.
LEMMA EmitIs ==
    ASSUME NEW d \in FieldsDone, NEW block \in Texts
    PROVE  /\ Fields(block) \in FieldLists /\ Emit(d, block) \in FieldsDone
           /\ Emit(<<>>, block) \in FieldsDone /\ Emit(d, block) = d \o Emit(<<>>, block)
<1> DEFINE a == Scanned(block)
           F == Fields(block)
<1>1. a \in [line : Texts, fields : FieldLists]
  BY LineFacts DEF LineShape
<1>2. a.line \in Texts /\ a.fields \in FieldLists
  <2> HIDE DEF Texts, FieldLists
  <2> QED
    BY <1>1
<1>3. F \in FieldLists
  BY <1>2, StrippedIs, LinesAdded DEF Fields
<1> HIDE DEF F
<1>4. Emit(d, block) = (IF F = <<>> THEN d ELSE Append(d, F)) /\ Emit(<<>>, block) = (IF F = <<>> THEN <<>> ELSE Append(<<>>, F))
  BY DEF Emit, F
<1> HIDE DEF FieldLists
<1>5. d \o <<>> = d /\ d \o Append(<<>>, F) = Append(d, F) /\ Append(<<>>, F) \in FieldsDone /\ Append(d, F) \in FieldsDone
      /\ <<>> \in FieldsDone
  BY <1>3 DEF FieldsDone
<1> QED
  BY <1>3, <1>4, <1>5 DEF F

\* Events joined in either order of joining.
LEMMA JoinsAssociate ==
    ASSUME NEW u \in FieldsDone, NEW v \in FieldsDone, NEW w \in FieldsDone
    PROVE  (u \o v) \o w = u \o (v \o w)
<1> HIDE DEF FieldLists
<1> QED
  BY DEF FieldsDone

\* Events joined are events.
LEMMA JoinedDone ==
    ASSUME NEW u \in FieldsDone, NEW v \in FieldsDone
    PROVE  u \o v \in FieldsDone /\ u \o <<>> = u
<1> HIDE DEF FieldLists
<1> QED
  BY DEF FieldsDone

\* What draining the characters from q to m leaves and hands on.
Drains(s, m, q, drained) ==
    \E t \in q .. m :
        /\ BlankAt(s, t)
        /\ drained.rest = SubSeq(s, t + 1, m) /\ drained.events \in FieldsDone
        /\ RefAt(s, t).done = RefAt(s, q).done \o drained.events
        /\ RefAt(s, m) = Told(Scanned(drained.rest), RefAt(s, t).done)

\* One turn of the loop of push().
LEMMA DrainTurn ==
    ASSUME NEW end \in {LF, CRLF}, NEW s \in Texts, Even(s, end),
           NEW q \in Nat, NEW m \in Nat, q <= m, m <= Len(s), NEW b, b = SubSeq(s, q + 1, m),
           NEW f, NEW i \in 1 .. Len(b) + 1, f[i] = Draining(b, i, f), BlankAt(s, q + (i - 1)),
           \A k \in i + 1 .. Len(b) + 1 : BlankAt(s, q + (k - 1)) => Drains(s, m, q + (k - 1), f[k])
    PROVE  Drains(s, m, q + (i - 1), f[i])
<1> DEFINE N == Len(b)
           h == q + (i - 1)
           rest == SubSeq(b, i, Len(b))
           found == BoundaryOf(rest)
           block == SubSeq(rest, 1, found.at - 1)
           done == RefAt(s, h).done
<1>1. b \in Texts /\ N = m - q /\ N \in Nat /\ Len(s) \in Nat
  <2>1. b \in Texts /\ Len(b) = m - q
    BY SlicedTexts
  <2> QED
    BY <2>1, BytesOf
<1>2. rest = SubSeq(s, h + 1, m)
  <2>1. i \in 1 .. (m - q) + 1 /\ q + i - 1 = h
    BY <1>1
  <2>2. SubSeq(SubSeq(s, q + 1, m), i, m - q) = SubSeq(s, (q + i - 1) + 1, m)
    BY <2>1, SliceOfSlice
  <2> QED
    BY <1>1, <2>1, <2>2
<1>3. h \in Nat /\ h <= m /\ m - h = N + 1 - i
  BY <1>1
<1>4. done \in FieldsDone
  <2> HIDE DEF h
  <2>1. RefAt(s, h) \in [line : Texts, fields : FieldLists, done : FieldsDone]
    BY <1>1, <1>3, ReferenceShape
  <2> HIDE DEF Texts, FieldLists, FieldsDone
  <2> QED
    BY <2>1
<1>5. rest \in Texts /\ Len(rest) = m - h
  <2> HIDE DEF h, rest
  <2> QED
    BY <1>2, <1>3, SlicedTexts
<1>6. BlankAt(s, h)
  OBVIOUS
<1>7. f[i] = IF found.at = 0 THEN [rest |-> rest, events |-> <<>>]
             ELSE [rest |-> f[i + found.at + found.skip - 1].rest,
                   events |-> Emit(<<>>, block) \o f[i + found.at + found.skip - 1].events]
  BY DEF Draining
<1> HIDE DEF rest, N, done
<1>8. CASE found.at = 0
  <2>1. f[i] = [rest |-> rest, events |-> <<>>]
    BY <1>7, <1>8
  <2>2. RefAt(s, m) = Told(Scanned(rest), done)
    <3>1. BoundaryOf(SubSeq(s, h + 1, m)).at = 0
      BY <1>2, <1>8
    <3> HIDE DEF h
    <3>2. RefAt(s, m) = Told(Scanned(SubSeq(s, h + 1, m)), RefAt(s, h).done)
      BY <1>3, <1>6, <3>1, NothingEnds
    <3> QED
      BY <1>2, <3>2 DEF done
  <2>3. done = done \o <<>> /\ <<>> \in FieldsDone
    <3>1. <<>> \in FieldsDone
      <4> HIDE DEF FieldLists
      <4> QED
        BY DEF FieldsDone
    <3> QED
      BY <1>4, <3>1, JoinedDone
  <2>4. h \in h .. m
    BY <1>3
  <2> HIDE DEF h
  <2>5. f[i].rest = rest /\ f[i].events = <<>>
    BY <2>1
  <2>6. Drains(s, m, h, f[i])
    BY <1>2, <1>6, <2>2, <2>3, <2>4, <2>5 DEF Drains, done
  <2> QED
    BY <2>6 DEF h
<1>9. CASE found.at # 0
  <2> DEFINE k == found.at + found.skip - 1
             j == i + found.at + found.skip - 1
  <2>1. /\ found.at \in 1 .. Len(rest) /\ k \in 1 .. Len(rest) /\ BlankAt(s, h + k)
        /\ RefAt(s, h + k).done = Emit(done, block)
    <3>1. BoundaryOf(SubSeq(s, h + 1, m)).at # 0
      BY <1>2, <1>9
    <3> HIDE DEF h
    <3>2. LET c     == SubSeq(s, h + 1, m)
              fnd == BoundaryOf(c)
              x     == fnd.at + fnd.skip - 1
          IN  /\ fnd.at \in 1 .. Len(c) /\ x \in 1 .. Len(c) /\ BlankAt(s, h + x)
              /\ RefAt(s, h + x).done = Emit(RefAt(s, h).done, SubSeq(c, 1, fnd.at - 1))
      BY <1>3, <1>6, <3>1, EventEnds
    <3> QED
      BY <1>2, <3>2 DEF done
  <2>2. found.skip \in {2, 4}
    BY <1>5, <1>9, BoundaryWithin
  <2>3. block \in Texts
    <3> DEFINE n == found.at - 1
    <3>1. n \in Nat /\ n <= Len(rest)
      BY <1>3, <1>5, <2>1
    <3> HIDE DEF n
    <3>2. SubSeq(rest, 1, n) \in Texts
      BY <1>5, <3>1, 1 \in Nat, PieceIs
    <3> QED
      BY <3>2 DEF n
  <2> DEFINE spot == found.at
             breadth == found.skip
  <2>4. found.at \in 1 .. Len(rest) /\ found.skip \in {2, 4}
    BY <2>1, <2>2
  <2> HIDE DEF block, found
  <2>5. spot \in Nat /\ breadth \in Nat
    BY <2>4
  <2>6. j \in i + 1 .. N + 1 /\ q + (j - 1) = h + k /\ h + k \in h .. m
    <3>1. spot + breadth - 1 \in 1 .. m - h /\ spot + breadth - 1 = k
      BY <1>5, <2>1
    <3>2. j = i + spot + breadth - 1 /\ i \in 1 .. N + 1
      BY DEF N
    <3> HIDE DEF spot, breadth, k, j
    <3>3. j = i + k /\ k \in 1 .. m - h
      <4>1. spot \in Nat /\ breadth \in Nat
        BY <2>5
      <4>2. spot + breadth - 1 = k
        BY <3>1
      <4>3. j = i + spot + breadth - 1
        BY <3>2
      <4>4. i \in Nat
        BY <1>1, <3>2
      <4>5. j = i + k
        BY <4>1, <4>2, <4>3, <4>4
      <4>6. k \in 1 .. m - h
        BY <3>1
      <4> QED
        BY <4>5, <4>6
    <3>4. k \in 1 .. N + 1 - i
      BY <1>3, <3>3
    <3>5. j \in i + 1 .. N + 1
      BY <1>1, <3>2, <3>3, <3>4
    <3>6. h + k \in h .. m
      BY <1>3, <3>3
    <3>7. q + (j - 1) = h + k
      <4>1. i \in Nat
        BY <1>1, <3>2
      <4>2. k \in Nat
        BY <1>3, <3>3
      <4>3. j = i + k
        BY <3>3
      <4> QED
        BY <4>1, <4>2, <4>3
    <3> QED
      BY <3>5, <3>6, <3>7
  <2> HIDE DEF k, j
  <2>7. Drains(s, m, h + k, f[j])
    <3>1. \A u \in i + 1 .. N + 1 : BlankAt(s, q + (u - 1)) => Drains(s, m, q + (u - 1), f[u])
      BY DEF N
    <3>2. BlankAt(s, q + (j - 1)) => Drains(s, m, q + (j - 1), f[j])
      BY <2>6, <3>1
    <3> QED
      BY <2>1, <2>6, <3>2
  <2>8. PICK t \in h + k .. m :
            /\ BlankAt(s, t)
            /\ f[j].rest = SubSeq(s, t + 1, m) /\ f[j].events \in FieldsDone
            /\ RefAt(s, t).done = RefAt(s, h + k).done \o f[j].events
            /\ RefAt(s, m) = Told(Scanned(f[j].rest), RefAt(s, t).done)
    BY <2>7 DEF Drains
  <2> DEFINE newest == Emit(<<>>, block)
             later == f[j].events
             r == f[j].rest
             more == newest \o later
  <2>9. f[i] = [rest |-> r, events |-> more]
    BY <1>7, <1>9 DEF j
  <2>10. newest \in FieldsDone /\ later \in FieldsDone /\ Emit(done, block) = done \o newest
    BY <1>4, <2>3, <2>8, EmitIs
  <2>11. RefAt(s, t).done = RefAt(s, h + k).done \o later
    BY <2>8
  <2> HIDE DEF newest, later, r
  <2>12. (done \o newest) \o later = done \o more /\ more \in FieldsDone
    <3>1. (done \o newest) \o later = done \o (newest \o later) /\ newest \o later \in FieldsDone
      <4>1. done \in FieldsDone
        BY <1>4
      <4>2. newest \in FieldsDone
        BY <2>10
      <4>3. later \in FieldsDone
        BY <2>10
      <4>4. (done \o newest) \o later = done \o (newest \o later)
        BY <4>1, <4>2, <4>3, JoinsAssociate
      <4>5. newest \o later \in FieldsDone
        BY <4>2, <4>3, JoinedDone
      <4> QED
        BY <4>4, <4>5
    <3> QED
      BY <3>1
  <2> HIDE DEF more
  <2>13. f[i].rest = r /\ f[i].events = more
    BY <2>9
  <2>14. RefAt(s, t).done = done \o more
    BY <2>1, <2>10, <2>11, <2>12
  <2>15. t \in h .. m
    BY <1>3, <2>6, <2>8
  <2>16. r = SubSeq(s, t + 1, m) /\ RefAt(s, m) = Told(Scanned(r), RefAt(s, t).done) /\ BlankAt(s, t)
    BY <2>8 DEF r
  <2> HIDE DEF h
  <2>17. Drains(s, m, h, f[i])
    BY <2>12, <2>13, <2>14, <2>15, <2>16 DEF Drains, done
  <2> QED
    BY <2>17 DEF h
<1> QED
  BY <1>8, <1>9

\* What the loop of push() leaves and hands on, from a place where no event is begun.
LEMMA DrainSound ==
    ASSUME NEW end \in {LF, CRLF}, NEW s \in Texts, Even(s, end),
           NEW q \in Nat, NEW m \in Nat, q <= m, m <= Len(s), BlankAt(s, q)
    PROVE  Drains(s, m, q, Drained(SubSeq(s, q + 1, m)))
<1> DEFINE b == SubSeq(s, q + 1, m)
           N == Len(b)
           Good(f, i) == BlankAt(s, q + (i - 1)) => Drains(s, m, q + (i - 1), f[i])
<1>1. b \in Texts /\ N \in Nat
  <2>1. b \in Texts
    BY SlicedTexts
  <2> QED
    BY <2>1, BytesOf
<1>2. PICK f : Drained(b) = f[1] /\ \A i \in 1 .. N + 1 : f[i] = Draining(b, i, f)
  <2> HIDE DEF b
  <2> QED
    BY <1>1, DrainedIs
<1>3. b = SubSeq(s, q + 1, m)
  OBVIOUS
<1> HIDE DEF b
<1> DEFINE S == {k \in Nat : \A i \in 1 .. N + 1 : i + k > N + 1 => Good(f, i)}
<1>4. 0 \in S
  <2>1. \A i \in 1 .. N + 1 : ~(i + 0 > N + 1)
    BY <1>1
  <2> QED
    BY <2>1
<1>5. ASSUME NEW k \in Nat, k \in S PROVE k + 1 \in S
  <2> HIDE DEF Good
  <2> SUFFICES ASSUME NEW i \in 1 .. N + 1, i + (k + 1) > N + 1 PROVE Good(f, i)
    OBVIOUS
  <2>1. \A x \in i + 1 .. N + 1 : Good(f, x)
    <3> SUFFICES ASSUME NEW x \in i + 1 .. N + 1 PROVE Good(f, x)
      OBVIOUS
    <3>1. x \in 1 .. N + 1 /\ x + k > N + 1
      BY <1>1
    <3> QED
      BY <1>5, <3>1
  <2>2. \A x \in i + 1 .. N + 1 : BlankAt(s, q + (x - 1)) => Drains(s, m, q + (x - 1), f[x])
    BY <2>1 DEF Good
  <2>3. f[i] = Draining(b, i, f)
    BY <1>2
  <2> SUFFICES ASSUME BlankAt(s, q + (i - 1)) PROVE Drains(s, m, q + (i - 1), f[i])
    BY DEF Good
  <2> QED
    BY <1>3, <2>2, <2>3, DrainTurn
<1> HIDE DEF S
<1>6. N + 1 \in S
  <2>1. N + 1 \in Nat
    BY <1>1
  <2> QED
    BY <1>4, <1>5, <2>1, Induct
<1>7. Good(f, 1)
  <2>1. \A i \in 1 .. N + 1 : i + (N + 1) > N + 1 => Good(f, i)
    <3> HIDE DEF Good
    <3> QED
      BY <1>6 DEF S
  <2>2. 1 \in 1 .. N + 1 /\ 1 + (N + 1) > N + 1
    BY <1>1
  <2> HIDE DEF Good
  <2> QED
    BY <2>1, <2>2
<1>8. q + (1 - 1) = q
  OBVIOUS
<1>9. Drains(s, m, q, f[1])
  BY <1>7, <1>8
<1> QED
  BY <1>2, <1>9 DEF b

(* Slices of joined texts.                                                 *)

\* Neighbouring slices join.
LEMMA JoinedSlices ==
    ASSUME NEW s \in Texts, NEW h \in Nat, NEW k \in Nat, NEW n \in Nat, h <= k, k <= n, n <= Len(s)
    PROVE  SubSeq(s, h + 1, k) \o SubSeq(s, k + 1, n) = SubSeq(s, h + 1, n)
<1> DEFINE b == SubSeq(s, h + 1, k)
           c == SubSeq(s, k + 1, n)
           e == SubSeq(s, h + 1, n)
           j == b \o c
<1>0. Len(s) \in Nat /\ k <= Len(s) /\ h <= n
  BY BytesOf
<1>1. b \in Texts /\ Len(b) = k - h /\ \A i \in 1 .. k - h : b[i] = s[h + i]
  BY <1>0, SlicedTexts
<1>2. c \in Texts /\ Len(c) = n - k /\ \A i \in 1 .. n - k : c[i] = s[k + i]
  BY <1>0, SlicedTexts
<1>3. e \in Texts /\ Len(e) = n - h /\ \A i \in 1 .. n - h : e[i] = s[h + i]
  BY <1>0, SlicedTexts
<1> HIDE DEF b, c, e
<1>4. /\ j \in Texts /\ Len(j) = Len(b) + Len(c)
      /\ \A i \in 1 .. Len(b) : j[i] = b[i]
      /\ \A i \in Len(b) + 1 .. Len(b) + Len(c) : j[i] = c[i - Len(b)]
  BY <1>1, <1>2, JoinedTexts
<1> HIDE DEF j
<1>5. Len(j) = n - h
  BY <1>1, <1>2, <1>4
<1>6. ASSUME NEW i \in 1 .. n - h PROVE j[i] = e[i]
  <2>1. CASE i \in 1 .. k - h
    BY <1>1, <1>3, <1>4, <2>1
  <2>2. CASE i > k - h
    <3>1. i \in Len(b) + 1 .. Len(b) + Len(c) /\ i - Len(b) \in 1 .. n - k /\ k + (i - Len(b)) = h + i
      BY <1>1, <1>2, <2>2
    <3>2. j[i] = c[i - Len(b)]
      BY <1>4, <3>1
    <3>3. c[i - Len(b)] = s[k + (i - Len(b))]
      BY <1>2, <3>1
    <3> QED
      BY <1>3, <3>1, <3>2, <3>3
  <2> QED
    BY <2>1, <2>2
<1>7. j = e
  BY <1>3, <1>4, <1>5, <1>6, SameTexts
<1> QED
  BY <1>7 DEF j, b, c, e

\* A slice of the first of two texts.
LEMMA SliceOfFirst ==
    ASSUME NEW b \in Texts, NEW c \in Texts, NEW k \in Nat, NEW n \in Nat, k <= n, n <= Len(b)
    PROVE  SubSeq(b \o c, k + 1, n) = SubSeq(b, k + 1, n)
<1> DEFINE s == b \o c
           d == SubSeq(s, k + 1, n)
           e == SubSeq(b, k + 1, n)
<1>1. /\ s \in Texts /\ Len(s) = Len(b) + Len(c) /\ Len(b) \in Nat /\ Len(c) \in Nat
      /\ \A i \in 1 .. Len(b) : s[i] = b[i]
  BY JoinedTexts
<1> HIDE DEF s
<1>2. n <= Len(s)
  BY <1>1
<1>3. d \in Texts /\ Len(d) = n - k /\ \A i \in 1 .. n - k : d[i] = s[k + i]
  BY <1>1, <1>2, SlicedTexts
<1>4. e \in Texts /\ Len(e) = n - k /\ \A i \in 1 .. n - k : e[i] = b[k + i]
  BY SlicedTexts
<1> HIDE DEF d, e
<1>5. ASSUME NEW i \in 1 .. n - k PROVE d[i] = e[i]
  <2>1. k + i \in 1 .. Len(b)
    BY <1>1
  <2> QED
    BY <1>1, <1>3, <1>4, <2>1
<1>6. d = e
  BY <1>3, <1>4, <1>5, SameTexts
<1> QED
  BY <1>6 DEF d, e, s

\* A slice of the second of two texts.
LEMMA SliceOfSecond ==
    ASSUME NEW b \in Texts, NEW c \in Texts, NEW n \in Nat, n <= Len(c)
    PROVE  SubSeq(b \o c, Len(b) + 1, Len(b) + n) = SubSeq(c, 1, n)
<1> DEFINE s == b \o c
           k == Len(b)
           d == SubSeq(s, k + 1, k + n)
           e == SubSeq(c, 0 + 1, n)
<1>1. /\ s \in Texts /\ Len(s) = k + Len(c) /\ k \in Nat /\ Len(c) \in Nat
      /\ \A i \in k + 1 .. k + Len(c) : s[i] = c[i - k]
  BY JoinedTexts
<1> HIDE DEF s, k
<1>2. k + n \in Nat /\ k <= k + n /\ k + n <= Len(s) /\ (k + n) - k = n
  BY <1>1
<1>3. d \in Texts /\ Len(d) = n /\ \A i \in 1 .. n : d[i] = s[k + i]
  <2> DEFINE h == k + n
  <2> HIDE DEF h
  <2>1. LET f == SubSeq(s, k + 1, h) IN f \in Texts /\ Len(f) = h - k /\ \A i \in 1 .. h - k : f[i] = s[k + i]
    BY <1>1, <1>2, SlicedTexts DEF h
  <2> QED
    BY <1>2, <2>1 DEF h
<1>4. e \in Texts /\ Len(e) = n /\ \A i \in 1 .. n : e[i] = c[i]
  <2>1. e \in Texts /\ Len(e) = n - 0 /\ \A i \in 1 .. n - 0 : e[i] = c[0 + i]
    BY 0 \in Nat, 0 <= n, SlicedTexts
  <2> HIDE DEF e
  <2> QED
    BY <2>1
<1> HIDE DEF d, e
<1>5. ASSUME NEW i \in 1 .. n PROVE d[i] = e[i]
  <2>1. k + i \in k + 1 .. k + Len(c) /\ (k + i) - k = i
    BY <1>1
  <2>2. s[k + i] = c[i]
    BY <1>1, <2>1
  <2> QED
    BY <1>3, <1>4, <2>2
<1>6. d = e
  BY <1>3, <1>4, <1>5, SameTexts
<1>7. 0 + 1 = 1
  OBVIOUS
<1> QED
  BY <1>6, <1>7 DEF d, e, s, k

\* Reading moves bytes from the front of the second text to the first.
LEMMA MovedBytes ==
    ASSUME NEW b \in Texts, NEW c \in Texts, NEW n \in 1 .. Len(c)
    PROVE  LET d == SubSeq(c, 1, n)
               e == SubSeq(c, n + 1, Len(c))
           IN  /\ d \in Texts /\ Len(d) = n /\ e \in Texts /\ (b \o d) \o e = b \o c
               /\ Len(b \o d) = Len(b) + n /\ b \o d \in Texts
<1> DEFINE d == SubSeq(c, 0 + 1, n)
           e == SubSeq(c, n + 1, Len(c))
<1>0. n \in Nat /\ Len(c) \in Nat /\ n <= Len(c) /\ 0 <= n /\ 0 <= Len(c) /\ 0 + 1 = 1
  BY BytesOf
<1>1. d \in Texts /\ Len(d) = n - 0
  BY <1>0, 0 \in Nat, SlicedTexts
<1>2. e \in Texts
  BY <1>0, SlicedTexts
<1>3. d \o e = c
  <2>1. d \o e = SubSeq(c, 0 + 1, Len(c))
    BY <1>0, 0 \in Nat, Len(c) <= Len(c), JoinedSlices
  <2>2. SubSeq(c, 1, Len(c)) = c
    BY WholeText
  <2> QED
    BY <1>0, <2>1, <2>2
<1>d. d = SubSeq(c, 1, n)
  BY <1>0
<1> HIDE DEF d, e
<1>4. (b \o d) \o e = b \o (d \o e)
  <2> HIDE DEF Bytes
  <2> QED
    BY <1>1, <1>2 DEF Texts
<1>5. (b \o d) \o e = b \o c
  BY <1>3, <1>4
<1>6. b \o d \in Texts /\ Len(b \o d) = Len(b) + Len(d) /\ Len(d) = n
  <2>1. Len(d) = n
    BY <1>1
  <2> QED
    BY <1>1, <2>1, JoinedTexts
<1> QED
  BY <1>1, <1>2, <1>5, <1>6, <1>d DEF e

(* What the server writes.                                                 *)

EndsLine(s) == s = <<>> \/ s[Len(s)] = "n"

\* A line and its end keep to the line end of the stream.
LEMMA WrittenLine ==
    ASSUME NEW content \in Contents, NEW end \in {LF, CRLF}
    PROVE  content \o end \in Texts /\ Even(content \o end, end) /\ EndsLine(content \o end)
<1> DEFINE l == content \o end
           m == Len(content)
           n == Len(end)
<1>b. "a" \in Bytes /\ "L" \in Bytes /\ "T" \in Bytes /\ ":" \in Bytes /\ "r" \in Bytes /\ "n" \in Bytes
  BY DEF Bytes
<1>1. content \in Texts /\ \A i \in 1 .. m : content[i] # "r" /\ content[i] # "n"
  <2> HIDE DEF Bytes
  <2>1. CASE content = <<>>
    BY <2>1, NoBytes
  <2>2. CASE content = <<"a">>
    BY <1>b, <2>2 DEF Texts
  <2>3. CASE content = <<"L", "T">>
    BY <1>b, <2>3 DEF Texts
  <2>4. CASE content = <<":">>
    BY <1>b, <2>4 DEF Texts
  <2> QED
    BY <2>1, <2>2, <2>3, <2>4 DEF Contents
<1>2. end \in Texts
  <2> HIDE DEF Bytes
  <2>1. <<"n">> \in Texts
    BY <1>b DEF Texts
  <2>2. <<"r", "n">> \in Texts
    BY <1>b DEF Texts
  <2> QED
    BY <2>1, <2>2 DEF LF, CRLF
<1>3. LF # CRLF
  BY DEF LF, CRLF
<1>4. /\ l \in Texts /\ Len(l) = m + n /\ m \in Nat /\ n \in Nat
      /\ \A i \in 1 .. m : l[i] = content[i]
      /\ \A i \in m + 1 .. m + n : l[i] = end[i - m]
  BY <1>1, <1>2, JoinedTexts
<1> HIDE DEF l, m
<1>5. CASE end = LF
  <2>1. n = 1 /\ end[1] = "n"
    BY <1>5 DEF LF
  <2> HIDE DEF n
  <2>2. Len(l) = m + 1 /\ l[m + 1] = "n"
    <3>1. m + 1 \in m + 1 .. m + n /\ (m + 1) - m = 1
      BY <1>4, <2>1
    <3> QED
      BY <1>4, <2>1, <3>1
  <2>3. ASSUME NEW i \in 1 .. Len(l) PROVE l[i] # "r"
    <3>1. i \in 1 .. m \/ i = m + 1
      BY <1>4, <2>2
    <3> QED
      BY <1>1, <1>4, <2>2, <3>1
  <2> QED
    BY <1>4, <1>5, <2>2, <2>3 DEF Even, EndsLine, l
<1>6. CASE end = CRLF
  <2>1. n = 2 /\ end[1] = "r" /\ end[2] = "n"
    BY <1>6 DEF CRLF
  <2> HIDE DEF n
  <2>2. Len(l) = m + 2 /\ l[m + 1] = "r" /\ l[m + 2] = "n"
    <3>1. m + 1 \in m + 1 .. m + n /\ (m + 1) - m = 1 /\ m + 2 \in m + 1 .. m + n /\ (m + 2) - m = 2
      BY <1>4, <2>1
    <3> QED
      BY <1>4, <2>1, <3>1
  <2>3. \A i \in 1 .. m : l[i] # "r" /\ l[i] # "n"
    BY <1>1, <1>4
  <2>4. l[1] # "n"
    <3>1. 1 \in 1 .. m \/ 1 = m + 1
      BY <1>4
    <3> QED
      BY <2>2, <2>3, <3>1
  <2>5. ASSUME NEW i \in 1 .. Len(l), i + 1 <= Len(l) PROVE l[i] = "r" <=> l[i + 1] = "n"
    <3>1. (i \in 1 .. m /\ i + 1 \in 1 .. m) \/ (i \in 1 .. m /\ i + 1 = m + 1) \/ (i = m + 1 /\ i + 1 = m + 2)
      BY <1>4, <2>2, <2>5
    <3> QED
      BY <2>2, <2>3, <3>1
  <2> QED
    BY <1>3, <1>4, <1>6, <2>2, <2>4, <2>5 DEF Even, EndsLine, l
<1> QED
  BY <1>5, <1>6

\* Lines after lines do too.
LEMMA JoinedEven ==
    ASSUME NEW end \in {LF, CRLF}, NEW b \in Texts, NEW c \in Texts,
           Even(b, end), Even(c, end), EndsLine(b), EndsLine(c)
    PROVE  b \o c \in Texts /\ Even(b \o c, end) /\ EndsLine(b \o c)
<1> DEFINE s == b \o c
           m == Len(b)
           n == Len(c)
<1>1. /\ s \in Texts /\ Len(s) = m + n /\ m \in Nat /\ n \in Nat
      /\ \A i \in 1 .. m : s[i] = b[i]
      /\ \A i \in m + 1 .. m + n : s[i] = c[i - m]
  BY JoinedTexts
<1> HIDE DEF s, m, n
<1>2. (m # 0 => b[m] = "n") /\ (n # 0 => c[n] = "n")
  BY NoBytes DEF EndsLine, m, n
<1>3. EndsLine(s)
  <2>1. CASE n = 0
    <3>1. CASE m = 0
      BY <1>1, <2>1, <3>1, NoBytes DEF EndsLine
    <3>2. CASE m # 0
      <4>1. Len(s) = m /\ m \in 1 .. m
        BY <1>1, <2>1, <3>2
      <4> QED
        BY <1>1, <1>2, <3>2, <4>1 DEF EndsLine
    <3> QED
      BY <3>1, <3>2
  <2>2. CASE n # 0
    <3>1. m + n \in m + 1 .. m + n /\ (m + n) - m = n
      BY <1>1, <2>2
    <3>2. s[m + n] = c[n]
      BY <1>1, <3>1
    <3> QED
      BY <1>1, <1>2, <2>2, <3>2 DEF EndsLine
  <2> QED
    BY <2>1, <2>2
<1>4. CASE end = LF
  <2>1. (\A i \in 1 .. m : b[i] # "r") /\ (\A i \in 1 .. n : c[i] # "r")
    BY <1>4 DEF Even, m, n
  <2>2. ASSUME NEW i \in 1 .. m + n PROVE s[i] # "r"
    <3>1. CASE i \in 1 .. m
      BY <1>1, <2>1, <3>1
    <3>2. CASE i \in m + 1 .. m + n
      <4>1. i - m \in 1 .. n
        BY <1>1, <3>2
      <4> QED
        BY <1>1, <2>1, <3>2, <4>1
    <3> QED
      BY <1>1, <3>1, <3>2
  <2>3. Even(s, end)
    BY <1>1, <1>4, <2>2 DEF Even
  <2> QED
    BY <1>1, <1>3, <2>3 DEF s
<1>5. CASE end # LF
  <2>1. /\ 1 <= m => b[1] # "n"
        /\ \A i \in 1 .. m : i + 1 <= m => (b[i] = "r" <=> b[i + 1] = "n")
    BY <1>5 DEF Even, m
  <2>2. /\ 1 <= n => c[1] # "n"
        /\ \A i \in 1 .. n : i + 1 <= n => (c[i] = "r" <=> c[i + 1] = "n")
    BY <1>5 DEF Even, n
  <2>3. ASSUME 1 <= m + n PROVE s[1] # "n"
    <3>1. CASE m = 0
      <4>1. 1 \in m + 1 .. m + n /\ 1 - m = 1 /\ 1 <= n
        BY <1>1, <2>3, <3>1
      <4>2. s[1] = c[1]
        BY <1>1, <4>1
      <4> QED
        BY <2>2, <4>1, <4>2
    <3>2. CASE m # 0
      <4>1. 1 \in 1 .. m /\ 1 <= m
        BY <1>1, <3>2
      <4> QED
        BY <1>1, <2>1, <4>1
    <3> QED
      BY <3>1, <3>2
  <2>4. ASSUME NEW i \in 1 .. m + n, i + 1 <= m + n PROVE s[i] = "r" <=> s[i + 1] = "n"
    <3>1. CASE i + 1 <= m
      <4>1. i \in 1 .. m /\ i + 1 \in 1 .. m
        BY <1>1, <3>1
      <4>2. s[i] = b[i] /\ s[i + 1] = b[i + 1]
        BY <1>1, <4>1
      <4> QED
        BY <2>1, <3>1, <4>1, <4>2
    <3>2. CASE i = m
      <4>1. i \in 1 .. m /\ i + 1 \in m + 1 .. m + n /\ (i + 1) - m = 1 /\ 1 <= n /\ m # 0
        BY <1>1, <2>4, <3>2
      <4>2. s[i] = b[m] /\ s[i + 1] = c[1]
        BY <1>1, <3>2, <4>1
      <4> QED
        BY <1>2, <2>2, <4>1, <4>2
    <3>3. CASE i > m
      <4> DEFINE u == i - m
      <4>1. i \in m + 1 .. m + n /\ i + 1 \in m + 1 .. m + n /\ (i + 1) - m = u + 1 /\ u \in 1 .. n /\ u + 1 <= n
        BY <1>1, <2>4, <3>3
      <4>2. s[i] = c[u] /\ s[i + 1] = c[u + 1]
        BY <1>1, <4>1
      <4> HIDE DEF u
      <4> QED
        BY <2>2, <4>1, <4>2
    <3> QED
      BY <1>1, <3>1, <3>2, <3>3
  <2>5. Even(s, end)
    BY <1>1, <1>5, <2>3, <2>4 DEF Even
  <2> QED
    BY <1>1, <1>3, <2>5 DEF s
<1> QED
  BY <1>4, <1>5

\* What is kept of the text s of which the first n bytes are read: what waits
\* for the rest of a character, and the characters after the last event.
Kept(s, n, waiting, rest, done) ==
    \E q, m \in Nat :
        /\ q <= m /\ n = m + Len(waiting) /\ n <= Len(s)
        /\ rest = SubSeq(s, q + 1, m) /\ waiting = SubSeq(s, m + 1, n)
        /\ BlankAt(s, q) /\ RefAt(s, q).done = done /\ RefAt(s, m).done = done

SseIndInv ==
    /\ EventsWhateverChunks
    /\ Even(text \o wire, ending) /\ EndsLine(text \o wire)
    /\ reading = "open" => Kept(text \o wire, Len(text), pending, buffer, events)

\* What is told of the bytes read does not depend on those on the wire.
LEMMA ReadSoFar ==
    ASSUME NEW b \in Texts, NEW c \in Texts, NEW n \in Nat, n <= Len(b)
    PROVE  RefAt(b \o c, n) = RefAt(b, n) /\ RefAt(b, Len(b)) = Reference(b)
<1>1. SubSeq(b \o c, 0 + 1, n) = SubSeq(b, 0 + 1, n)
  BY 0 \in Nat, 0 <= n, SliceOfFirst
<1>2. SubSeq(b, 1, Len(b)) = b
  BY WholeText
<1>3. 0 + 1 = 1
  OBVIOUS
<1>4. SubSeq(b \o c, 1, n) = SubSeq(b, 1, n)
  BY <1>1, <1>3
<1> QED
  BY <1>2, <1>4 DEF RefAt

\* The first byte of a character ends no event.
LEMMA OneWaits ==
    ASSUME NEW s \in Texts, NEW m \in Nat, m + 1 <= Len(s), s[m + 1] = "L"
    PROVE  RefAt(s, m + 1).done = RefAt(s, m).done
<1> DEFINE a == RefAt(s, m)
<1>1. a \in [line : Texts, fields : FieldLists, done : FieldsDone]
  BY m <= Len(s), BytesOf, ReferenceShape
<1>2. RefAt(s, m + 1) = Referred(a, "L")
  BY ReferredFurther
<1> HIDE DEF a
<1>3. Referred(a, "L") = [a EXCEPT !.line = Append(@, "L")]
  BY DEF Referred
<1>4. RefAt(s, m + 1).done = a.done
  <2> HIDE DEF Texts, FieldLists, FieldsDone
  <2> QED
    BY <1>1, <1>2, <1>3
<1> QED
  BY <1>4 DEF a

\* The events handed on are those that have ended in what was read.
LEMMA KeptTold ==
    ASSUME NEW b \in Texts, NEW c \in Texts, NEW waiting \in {<<>>, <<"L">>}, NEW rest, NEW done,
           Kept(b \o c, Len(b), waiting, rest, done)
    PROVE  Reference(b).done = done
<1> DEFINE s == b \o c
           n == Len(b)
<1>1. s \in Texts /\ n \in Nat /\ n <= Len(s) /\ Len(s) \in Nat
  <2>1. s \in Texts /\ Len(s) = n + Len(c) /\ n \in Nat /\ Len(c) \in Nat
    BY JoinedTexts
  <2> HIDE DEF s, n
  <2> QED
    BY <2>1
<1>2. RefAt(s, n) = Reference(b)
  BY <1>1, ReadSoFar
<1> HIDE DEF s, n
<1>3. PICK q, m \in Nat :
        /\ q <= m /\ n = m + Len(waiting) /\ n <= Len(s)
        /\ rest = SubSeq(s, q + 1, m) /\ waiting = SubSeq(s, m + 1, n)
        /\ BlankAt(s, q) /\ RefAt(s, q).done = done /\ RefAt(s, m).done = done
  BY DEF Kept, s, n
<1>4. CASE waiting = <<>>
  <2>1. n = m
    BY <1>1, <1>3, <1>4
  <2> QED
    BY <1>2, <1>3, <2>1
<1>5. CASE waiting = <<"L">>
  <2>1. Len(waiting) = 1 /\ waiting[1] = "L"
    BY <1>5
  <2>2. n = m + 1
    BY <1>3, <2>1
  <2>3. LET w == SubSeq(s, m + 1, n) IN \A i \in 1 .. n - m : w[i] = s[m + i]
    BY <1>1, <1>3, <2>2, SlicedTexts
  <2>4. s[m + 1] = "L"
    <3>1. 1 \in 1 .. n - m
      BY <2>2
    <3> QED
      BY <1>3, <2>1, <2>3, <3>1
  <2> QED
    BY <1>1, <1>2, <1>3, <2>2, <2>4, OneWaits
<1> QED
  BY <1>4, <1>5

-----------------------------------------------------------------------------
(* The steps.                                                              *)

\* The types of the stream, in the words of the lemmas.
LEMMA StreamTypes ==
    ASSUME SseTypeOK
    PROVE  /\ text \in Texts /\ wire \in Texts /\ buffer \in Texts /\ events \in FieldsDone
           /\ pending \in {<<>>, <<"L">>} /\ ending \in {LF, CRLF} /\ lines \in 0 .. MaxLines
           /\ reading \in {"open", "ended", "failed"} /\ text \o wire \in Texts /\ Len(text) \in Nat /\ Len(wire) \in Nat
           /\ Len(text) <= Len(text \o wire)
<1>1. text \in Texts /\ wire \in Texts /\ buffer \in Texts /\ events \in FieldsDone
  BY DEF SseTypeOK, Texts, FieldLists, FieldsDone
<1>2. text \o wire \in Texts /\ Len(text \o wire) = Len(text) + Len(wire) /\ Len(text) \in Nat /\ Len(wire) \in Nat
  BY <1>1, JoinedTexts
<1>3. Len(text) <= Len(text \o wire)
  BY <1>2
<1> QED
  BY <1>1, <1>2, <1>3 DEF SseTypeOK

\* Nothing is written, read or handed on at first.
LEMMA StreamBegins ==
    ASSUME SseInit
    PROVE  SseIndInv
<1> DEFINE s == text \o wire
<1>1. /\ ending \in {LF, CRLF} /\ lines = 0 /\ wire = <<>> /\ text = <<>>
      /\ pending = <<>> /\ buffer = <<>> /\ events = <<>> /\ reading = "open"
  BY DEF SseInit
<1>2. s = <<>> /\ <<>> \in Texts /\ Len(<<>>) = 0 /\ <<>> \in FieldsDone
  <2>1. <<>> \in Texts /\ Len(<<>>) = 0
    BY NoBytes
  <2>2. <<>> \in FieldsDone
    <3> HIDE DEF FieldLists
    <3> QED
      BY DEF FieldsDone
  <2>3. s \in Texts /\ Len(s) = Len(<<>>) + Len(<<>>)
    BY <1>1, <2>1, JoinedTexts
  <2>4. s = <<>>
    <3> HIDE DEF s
    <3>1. Len(s) = 0
      BY <2>1, <2>3
    <3> QED
      BY <2>3, <3>1, NoBytes
  <2> QED
    BY <2>1, <2>2, <2>4
<1>3. SseTypeOK
  <2>1. 0 \in 0 .. MaxLines
    BY SseBounds
  <2>2. <<>> \in Seq(Bytes) /\ <<>> \in Seq(Seq(Seq(Bytes)))
    BY <1>2 DEF Texts, FieldLists, FieldsDone
  <2> QED
    BY <1>1, <2>1, <2>2 DEF SseTypeOK
<1> HIDE DEF s
<1>4. RefAt(<<>>, 0) = NoText /\ Reference(<<>>) = NoText
  BY <1>2, NothingReferred, ReferenceOfNothing
<1>5. Even(s, ending) /\ EndsLine(s)
  <2>1. \A i \in 1 .. Len(<<>>) : FALSE
    BY <1>2
  <2>2. ~(1 <= Len(<<>>))
    BY <1>2
  <2> QED
    BY <1>2, <2>1, <2>2 DEF Even, EndsLine
<1>6. Kept(s, Len(text), pending, buffer, events)
  <2>1. SubSeq(<<>>, 0 + 1, 0) = <<>>
    <3>1. LET c == SubSeq(<<>>, 0 + 1, 0) IN c \in Texts /\ Len(c) = 0 - 0
      BY <1>2, 0 \in Nat, SlicedTexts
    <3> QED
      BY <3>1, NoBytes
  <2>2. BlankAt(<<>>, 0) /\ RefAt(<<>>, 0).done = <<>>
    BY <1>4 DEF BlankAt, NoText
  <2>3. 0 \in Nat /\ 0 <= 0 /\ 0 = 0 + 0
    OBVIOUS
  <2> QED
    BY <1>1, <1>2, <2>1, <2>2, <2>3 DEF Kept
<1>7. EventsWhateverChunks
  BY <1>1, <1>3, <1>4 DEF EventsWhateverChunks, NoText
<1> QED
  BY <1>5, <1>6, <1>7 DEF SseIndInv, s

\* The server writes a line (WriteLine).
LEMMA StreamWritten ==
    ASSUME SseIndInv, WriteLine
    PROVE  SseIndInv'
<1> DEFINE s == text \o wire
<1>0. SseTypeOK
  BY DEF SseIndInv, EventsWhateverChunks
<1>1. /\ text \in Texts /\ wire \in Texts /\ s \in Texts /\ pending \in {<<>>, <<"L">>} /\ ending \in {LF, CRLF}
      /\ lines \in 0 .. MaxLines /\ Len(text) \in Nat /\ Len(text) <= Len(s) /\ Len(s) \in Nat
  BY <1>0, StreamTypes, BytesOf
<1>2. PICK content \in Contents : wire' = wire \o content \o ending
  BY DEF WriteLine
<1>3. /\ reading = "open" /\ lines < MaxLines /\ lines' = lines + 1
      /\ UNCHANGED <<ending, text, pending, buffer, events, reading>>
  BY DEF WriteLine
<1> DEFINE more == content \o ending
<1>4. more \in Texts /\ Even(more, ending) /\ EndsLine(more)
  BY <1>1, WrittenLine
<1>5. content \in Texts /\ ending \in Texts
  <2>1. "a" \in Bytes /\ "L" \in Bytes /\ "T" \in Bytes /\ ":" \in Bytes /\ "r" \in Bytes /\ "n" \in Bytes
    BY DEF Bytes
  <2> HIDE DEF Bytes
  <2>2. <<>> \in Texts /\ <<"a">> \in Texts /\ <<"L", "T">> \in Texts /\ <<":">> \in Texts
    BY <2>1 DEF Texts
  <2>3. <<"n">> \in Texts /\ <<"r", "n">> \in Texts
    BY <2>1 DEF Texts
  <2> QED
    BY <1>1, <2>2, <2>3 DEF Contents, LF, CRLF
<1>6. wire' = wire \o more /\ wire' \in Texts /\ text' \o wire' = s \o more
  <2>1. (wire \o content) \o ending = wire \o more
    <3> HIDE DEF Bytes
    <3> QED
      BY <1>1, <1>5 DEF Texts
  <2>2. wire \o more \in Texts
    BY <1>1, <1>4, JoinedTexts
  <2> HIDE DEF more
  <2>3. text \o (wire \o more) = (text \o wire) \o more
    <3> HIDE DEF Bytes
    <3> QED
      BY <1>1, <1>4 DEF Texts
  <2> QED
    BY <1>2, <1>3, <2>1, <2>2, <2>3
<1> HIDE DEF more
<1>7. SseTypeOK'
  <2>1. lines' \in 0 .. MaxLines
    BY <1>1, <1>3, SseBounds
  <2> QED
    BY <1>0, <1>3, <1>6, <2>1 DEF SseTypeOK, Texts
<1>8. Even(s, ending) /\ EndsLine(s) /\ Kept(s, Len(text), pending, buffer, events)
  BY <1>3 DEF SseIndInv
<1> HIDE DEF s
<1> DEFINE t == s \o more
<1>9. t \in Texts /\ Even(t, ending) /\ EndsLine(t) /\ Len(s) <= Len(t) /\ Len(t) \in Nat /\ \A i \in 1 .. Len(s) : t[i] = s[i]
  <2>1. t \in Texts /\ Even(t, ending) /\ EndsLine(t)
    BY <1>1, <1>4, <1>8, JoinedEven
  <2>2. Len(t) = Len(s) + Len(more) /\ Len(more) \in Nat /\ \A i \in 1 .. Len(s) : t[i] = s[i]
    BY <1>1, <1>4, JoinedTexts
  <2> HIDE DEF t
  <2> QED
    BY <1>1, <2>1, <2>2
<1>10. Kept(t, Len(text), pending, buffer, events)
  <2> DEFINE n == Len(text)
  <2>1. PICK q, m \in Nat :
          /\ q <= m /\ n = m + Len(pending) /\ n <= Len(s)
          /\ buffer = SubSeq(s, q + 1, m) /\ pending = SubSeq(s, m + 1, n)
          /\ BlankAt(s, q) /\ RefAt(s, q).done = events /\ RefAt(s, m).done = events
    BY <1>8 DEF Kept
  <2>2. Len(pending) \in Nat /\ m <= n /\ m <= Len(s) /\ q <= Len(s) /\ n <= Len(t)
    <3>1. Len(pending) \in Nat
      BY <1>1
    <3> HIDE DEF n, t
    <3> QED
      BY <1>1, <1>9, <2>1, <3>1
  <2> HIDE DEF n
  <2>3. n \in Nat
    BY <1>1 DEF n
  <2>4. SubSeq(t, q + 1, m) = buffer /\ SubSeq(t, m + 1, n) = pending
    BY <1>1, <1>4, <2>1, <2>2, <2>3, SliceOfFirst
  <2>5. RefAt(t, q) = RefAt(s, q) /\ RefAt(t, m) = RefAt(s, m)
    BY <1>1, <1>4, <2>2, ReadSoFar
  <2> HIDE DEF t
  <2>6. BlankAt(t, q)
    <3>1. q # 0 => q \in 1 .. Len(s)
      BY <1>1, <2>2
    <3> QED
      BY <1>9, <2>1, <2>5, <3>1 DEF BlankAt
  <2> QED
    BY <2>1, <2>2, <2>4, <2>5, <2>6 DEF Kept, n
<1>11. EventsWhateverChunks'
  <2>1. Reference(text).done = events
    BY <1>1, <1>8, KeptTold DEF s
  <2>2. reading' = "open" /\ events' = events /\ text' = text
    BY <1>3
  <2> QED
    BY <1>7, <2>1, <2>2 DEF EventsWhateverChunks
<1>12. text' \o wire' = t
  BY <1>6
<1> HIDE DEF t
<1> QED
  BY <1>3, <1>9, <1>10, <1>11, <1>12 DEF SseIndInv

\* Bytes m + 1 to n of the text are decoded, less an incomplete character.
DecodedUpTo(s, m, n, bytes) ==
    \E k \in Nat :
        /\ m <= k /\ n = k + Len(Undecoded(bytes)) /\ Undecoded(bytes) \in {<<>>, <<"L">>}
        /\ Decoded(bytes) = SubSeq(s, m + 1, k) /\ Undecoded(bytes) = SubSeq(s, k + 1, n)

\* What is decoded of the next bytes, and what waits (Utf8StreamDecoder::push).
LEMMA DecodedIs ==
    ASSUME NEW s \in Texts, NEW m \in Nat, NEW n \in Nat, m < n, n <= Len(s), NEW bytes, bytes = SubSeq(s, m + 1, n)
    PROVE  DecodedUpTo(s, m, n, bytes)
<1> DEFINE N == Len(bytes)
           k == n - 1
<1>0. Len(s) \in Nat
  BY BytesOf
<1>1. bytes \in Texts /\ N = n - m /\ \A i \in 1 .. n - m : bytes[i] = s[m + i]
  <2>1. LET c == SubSeq(s, m + 1, n) IN c \in Texts /\ Len(c) = n - m /\ \A i \in 1 .. n - m : c[i] = s[m + i]
    BY SlicedTexts
  <2> QED
    BY <2>1
<1>2. bytes # <<>>
  BY <1>1, NoBytes
<1> HIDE DEF N
<1>3. CASE bytes[N] = "L"
  <2>1. Undecoded(bytes) = <<"L">> /\ Decoded(bytes) = SubSeq(bytes, 1, N - 1)
    BY <1>2, <1>3 DEF Undecoded, Decoded, Last, Front, N
  <2>2. k \in Nat /\ m <= k /\ k + 1 = n /\ k <= Len(s) /\ n - k = 1 /\ N - 1 = k - m
    BY <1>0, <1>1
  <2> HIDE DEF k
  <2>3. SubSeq(s, m + 1, k) = SubSeq(bytes, 1, N - 1)
    <3> DEFINE c == SubSeq(s, m + 1, k)
               h == N - 1
               d == SubSeq(bytes, 0 + 1, h)
    <3>1. c \in Texts /\ Len(c) = k - m /\ \A i \in 1 .. k - m : c[i] = s[m + i]
      BY <2>2, SlicedTexts
    <3>2. h \in Nat /\ 0 <= h /\ h <= Len(bytes) /\ h = k - m
      BY <1>1, <2>2 DEF N
    <3> HIDE DEF h
    <3>3. d \in Texts /\ Len(d) = h - 0 /\ \A i \in 1 .. h - 0 : d[i] = bytes[0 + i]
      BY <1>1, <3>2, 0 \in Nat, SlicedTexts
    <3> HIDE DEF c, d
    <3>4. Len(c) = Len(d)
      BY <3>1, <3>2, <3>3
    <3>5. ASSUME NEW i \in 1 .. Len(c) PROVE c[i] = d[i]
      <4>1. i \in 1 .. k - m /\ i \in 1 .. h - 0 /\ i \in 1 .. n - m /\ 0 + i = i
        BY <2>2, <3>1, <3>2
      <4> QED
        BY <1>1, <3>1, <3>3, <4>1
    <3>6. c = d
      BY <3>1, <3>3, <3>4, <3>5, SameTexts
    <3>7. 0 + 1 = 1
      OBVIOUS
    <3> QED
      BY <3>6, <3>7 DEF c, d, h
  <2>4. SubSeq(s, k + 1, n) = <<"L">>
    <3> DEFINE c == SubSeq(s, k + 1, n)
    <3>1. c \in Texts /\ Len(c) = n - k /\ \A i \in 1 .. n - k : c[i] = s[k + i]
      BY <2>2, k <= n, SlicedTexts
    <3> HIDE DEF c
    <3>2. Len(c) = 1 /\ c[1] = s[k + 1]
      BY <2>2, <3>1
    <3>3. s[k + 1] = "L"
      <4>1. N \in 1 .. n - m /\ m + N = k + 1
        BY <1>1, <2>2
      <4> QED
        BY <1>1, <1>3, <4>1
    <3>4. <<"L">> \in Texts /\ Len(<<"L">>) = 1 /\ <<"L">>[1] = "L"
      <4>1. "L" \in Bytes
        BY DEF Bytes
      <4> HIDE DEF Bytes
      <4> QED
        BY <4>1 DEF Texts
    <3>5. c = <<"L">>
      <4> DEFINE e == <<"L">>
      <4>1. e \in Texts /\ Len(e) = 1 /\ e[1] = "L"
        BY <3>4
      <4> HIDE DEF e
      <4>2. \A i \in 1 .. Len(c) : c[i] = e[i]
        BY <3>2, <3>3, <4>1
      <4>3. c = e
        BY <3>1, <3>2, <4>1, <4>2, SameTexts
      <4> QED
        BY <4>3 DEF e
    <3> QED
      BY <3>5 DEF c
  <2>5. Len(<<"L">>) = 1
    OBVIOUS
  <2> QED
    BY <2>1, <2>2, <2>3, <2>4, <2>5 DEF DecodedUpTo
<1>4. CASE bytes[N] # "L"
  <2>1. Undecoded(bytes) = <<>> /\ Decoded(bytes) = bytes
    BY <1>2, <1>4 DEF Undecoded, Decoded, Last, N
  <2>2. SubSeq(s, n + 1, n) = <<>>
    <3> DEFINE c == SubSeq(s, n + 1, n)
    <3>1. c \in Texts /\ Len(c) = n - n
      BY n <= n, SlicedTexts
    <3> HIDE DEF c
    <3>2. Len(c) = 0
      BY <3>1
    <3> QED
      BY <3>1, <3>2, NoBytes DEF c
  <2>3. Len(<<>>) = 0 /\ n = n + 0 /\ m <= n
    BY NoBytes
  <2> QED
    BY <2>1, <2>2, <2>3 DEF DecodedUpTo
<1> QED
  BY <1>3, <1>4

\* What is kept, with some more bytes of the text.
LEMMA KeptOn ==
    ASSUME NEW s \in Texts, NEW end \in {LF, CRLF}, Even(s, end), NEW n \in Nat, NEW n2 \in Nat, n < n2, n2 <= Len(s),
           NEW waiting \in {<<>>, <<"L">>}, NEW rest, NEW done \in FieldsDone, Kept(s, n, waiting, rest, done),
           NEW bytes, bytes = waiting \o SubSeq(s, n + 1, n2), NEW drained, drained = Drained(rest \o Decoded(bytes))
    PROVE  /\ Kept(s, n2, Undecoded(bytes), drained.rest, done \o drained.events)
           /\ Undecoded(bytes) \in {<<>>, <<"L">>} /\ drained.rest \in Texts /\ done \o drained.events \in FieldsDone
<1>0. Len(s) \in Nat
  BY BytesOf
<1>1. PICK q, m \in Nat :
        /\ q <= m /\ n = m + Len(waiting) /\ n <= Len(s)
        /\ rest = SubSeq(s, q + 1, m) /\ waiting = SubSeq(s, m + 1, n)
        /\ BlankAt(s, q) /\ RefAt(s, q).done = done /\ RefAt(s, m).done = done
  BY DEF Kept
<1>2. m <= n /\ m < n2
  <2>1. Len(waiting) \in Nat
    OBVIOUS
  <2> QED
    BY <1>1, <2>1
<1>3. bytes = SubSeq(s, m + 1, n2)
  <2>1. m <= n /\ n <= n2 /\ n2 <= Len(s) /\ m \in Nat /\ n \in Nat /\ n2 \in Nat
    BY <1>2
  <2>2. SubSeq(s, m + 1, n) \o SubSeq(s, n + 1, n2) = SubSeq(s, m + 1, n2)
    BY ONLY <2>1, s \in Texts, JoinedSlices
  <2> QED
    BY <1>1, <2>2
<1>4. PICK k \in Nat :
              /\ m <= k /\ n2 = k + Len(Undecoded(bytes)) /\ Undecoded(bytes) \in {<<>>, <<"L">>}
              /\ Decoded(bytes) = SubSeq(s, m + 1, k) /\ Undecoded(bytes) = SubSeq(s, k + 1, n2)
  <2>1. m \in Nat /\ n2 \in Nat /\ m < n2 /\ n2 <= Len(s)
    BY <1>2
  <2>2. DecodedUpTo(s, m, n2, bytes)
    BY ONLY <1>3, <2>1, s \in Texts, DecodedIs
  <2> QED
    BY <2>2 DEF DecodedUpTo
<1>5. k <= n2 /\ k <= Len(s) /\ q <= k
  <2> DEFINE w == Len(Undecoded(bytes))
             L == Len(s)
  <2>1. w \in Nat
    BY <1>4
  <2>2. n2 = k + w /\ m <= k /\ q <= m /\ n2 <= L /\ L \in Nat
    BY <1>0, <1>1, <1>4
  <2> HIDE DEF w, L
  <2>3. k <= n2 /\ k <= L /\ q <= k
    BY ONLY <2>1, <2>2, k \in Nat, q \in Nat, m \in Nat, n2 \in Nat
  <2> QED
    BY <2>3 DEF L
<1>6. rest \o Decoded(bytes) = SubSeq(s, q + 1, k)
  <2>1. q \in Nat /\ m \in Nat /\ k \in Nat /\ q <= m /\ m <= k /\ k <= Len(s)
    BY <1>1, <1>4, <1>5
  <2>2. SubSeq(s, q + 1, m) \o SubSeq(s, m + 1, k) = SubSeq(s, q + 1, k)
    BY ONLY <2>1, s \in Texts, JoinedSlices
  <2> QED
    BY <1>1, <1>4, <2>2
<1>7. Drains(s, k, q, drained)
  BY <1>1, <1>5, <1>6, DrainSound
<1>8. PICK t \in q .. k :
        /\ BlankAt(s, t)
        /\ drained.rest = SubSeq(s, t + 1, k) /\ drained.events \in FieldsDone
        /\ RefAt(s, t).done = RefAt(s, q).done \o drained.events
        /\ RefAt(s, k) = Told(Scanned(drained.rest), RefAt(s, t).done)
  BY <1>7 DEF Drains
<1>9. RefAt(s, k).done = RefAt(s, t).done
  <2>1. RefAt(s, k) = Told(Scanned(drained.rest), RefAt(s, t).done)
    BY <1>8
  <2> QED
    BY ONLY <2>1 DEF Told
<1>10. RefAt(s, t).done = done \o drained.events
  BY <1>1, <1>8
<1>11. t \in Nat /\ t <= k
  BY <1>8
<1>12. Kept(s, n2, Undecoded(bytes), drained.rest, done \o drained.events)
  BY <1>4, <1>8, <1>9, <1>10, <1>11 DEF Kept
<1>13. drained.rest \in Texts
  <2> DEFINE c == SubSeq(s, t + 1, k)
  <2>1. c \in Texts
    BY ONLY <1>5, <1>11, s \in Texts, k \in Nat, SlicedTexts
  <2> QED
    BY <1>8, <2>1
<1>14. done \o drained.events \in FieldsDone
  BY <1>8, JoinedDone
<1> QED
  BY <1>4, <1>12, <1>13, <1>14

\* At the end of the stream the rest is drained, and the unfinished block told.
LEMMA KeptEnds ==
    ASSUME NEW b \in Texts, NEW c \in Texts, NEW end \in {LF, CRLF}, Even(b \o c, end),
           NEW waiting, NEW rest, NEW done \in FieldsDone, Kept(b \o c, Len(b), waiting, rest, done),
           NEW drained, drained = Drained(rest \o waiting)
    PROVE  LET ref == Reference(b)
               last == WithLine(ref.fields, StripCR(ref.line))
           IN  /\ Emit(done \o drained.events, drained.rest) = IF last = <<>> THEN ref.done ELSE Append(ref.done, last)
               /\ Emit(done \o drained.events, drained.rest) \in FieldsDone
<1> DEFINE s == b \o c
           n == Len(b)
           ref == Reference(b)
<1>1. s \in Texts /\ n \in Nat /\ n <= Len(s) /\ Len(s) \in Nat
  <2>1. s \in Texts /\ Len(s) = n + Len(c) /\ n \in Nat /\ Len(c) \in Nat
    BY JoinedTexts
  <2> HIDE DEF s, n
  <2> QED
    BY <2>1
<1>2. RefAt(s, n) = ref
  BY <1>1, ReadSoFar
<1>e. Even(s, end)
  OBVIOUS
<1>k. Kept(s, n, waiting, rest, done)
  OBVIOUS
<1> HIDE DEF s, n, ref
<1>3. PICK q, m \in Nat :
        /\ q <= m /\ n = m + Len(waiting) /\ n <= Len(s)
        /\ rest = SubSeq(s, q + 1, m) /\ waiting = SubSeq(s, m + 1, n)
        /\ BlankAt(s, q) /\ RefAt(s, q).done = done /\ RefAt(s, m).done = done
  BY <1>k DEF Kept
<1>4. m <= n
  <2>1. CASE m <= n
    BY <2>1
  <2>2. CASE n < m
    <3>1. Len(waiting) = 0
      <4>1. m \in Nat /\ m + 1 > n
        BY <1>1, <2>2
      <4>2. waiting = <<>>
        <5> HIDE DEF Bytes
        <5> QED
          BY <1>1, <1>3, <4>1 DEF Texts
      <4> QED
        BY <4>2
    <3> QED
      BY <1>1, <1>3, <2>2, <3>1
  <2> QED
    BY <1>1, <2>1, <2>2
<1>5. rest \o waiting = SubSeq(s, q + 1, n)
  <2>1. q \in Nat /\ m \in Nat /\ n \in Nat /\ q <= m /\ m <= n /\ n <= Len(s)
    BY <1>1, <1>3, <1>4
  <2>2. SubSeq(s, q + 1, m) \o SubSeq(s, m + 1, n) = SubSeq(s, q + 1, n)
    BY ONLY <1>1, <2>1, JoinedSlices
  <2> QED
    BY <1>3, <2>2
<1>6. Drains(s, n, q, drained)
  <2>1. q <= n
    BY <1>1, <1>3, <1>4
  <2> QED
    BY <1>1, <1>3, <1>5, <1>e, <2>1, DrainSound
<1>7. PICK t \in q .. n :
        /\ BlankAt(s, t)
        /\ drained.rest = SubSeq(s, t + 1, n) /\ drained.events \in FieldsDone
        /\ RefAt(s, t).done = RefAt(s, q).done \o drained.events
        /\ RefAt(s, n) = Told(Scanned(drained.rest), RefAt(s, t).done)
  BY <1>6 DEF Drains
<1> DEFINE all == done \o drained.events
<1>8. all \in FieldsDone
  BY <1>7, JoinedDone
<1>9. RefAt(s, t).done = all
  BY <1>3, <1>7
<1>10. drained.rest \in Texts
  <2>1. t \in Nat /\ t <= n
    BY <1>1, <1>7
  <2> QED
    BY <1>1, <1>7, <2>1, SlicedTexts
<1> HIDE DEF all
<1> DEFINE a == Scanned(drained.rest)
<1>11. ref = [line |-> a.line, fields |-> a.fields, done |-> all]
  BY <1>2, <1>7, <1>9 DEF Told
<1>12. WithLine(ref.fields, StripCR(ref.line)) = Fields(drained.rest)
  <2>1. ref.fields = a.fields /\ ref.line = a.line
    BY <1>11
  <2> QED
    BY <2>1 DEF Fields
<1>13. ref.done = all
  BY <1>11
<1>14. Emit(all, drained.rest) \in FieldsDone
  BY <1>8, <1>10, EmitIs
<1> QED
  BY <1>12, <1>13, <1>14 DEF Emit, all, ref

\* A chunk is read (Utf8StreamDecoder::push, SseParser::push).
LEMMA StreamRead ==
    ASSUME SseIndInv, ReadChunk
    PROVE  SseIndInv'
<1> DEFINE s == text \o wire
<1>0. SseTypeOK
  BY DEF SseIndInv, EventsWhateverChunks
<1>1. /\ text \in Texts /\ wire \in Texts /\ s \in Texts /\ pending \in {<<>>, <<"L">>} /\ ending \in {LF, CRLF}
      /\ Len(text) \in Nat /\ Len(wire) \in Nat /\ buffer \in Texts /\ events \in FieldsDone
  BY <1>0, StreamTypes
<1>2. reading = "open" /\ ending' = ending /\ lines' = lines
  BY DEF ReadChunk
<1>3. PICK n \in 1 .. Len(wire) :
          LET bytes == pending \o SubSeq(wire, 1, n)
              chars == Decoded(bytes)
              drained == Drained(buffer \o chars)
          IN  /\ wire' = SubSeq(wire, n + 1, Len(wire))
              /\ text' = text \o SubSeq(wire, 1, n)
              /\ pending' = Undecoded(bytes)
              /\ IF Len(buffer) + Len(chars) > MaxBuffer
                 THEN reading' = "failed" /\ UNCHANGED <<buffer, events>>
                 ELSE /\ buffer' = drained.rest /\ events' = events \o drained.events
                      /\ UNCHANGED reading
  BY DEF ReadChunk
<1> DEFINE bytes == pending \o SubSeq(wire, 1, n)
           chars == Decoded(bytes)
           drained == Drained(buffer \o chars)
           h == Len(text)
           piece == SubSeq(wire, 1, n)
<1>4. /\ text' \in Texts /\ wire' \in Texts /\ text' \o wire' = s /\ Len(text') = h + n
  <2>1. LET d == SubSeq(wire, 1, n)
            e == SubSeq(wire, n + 1, Len(wire))
        IN  /\ d \in Texts /\ Len(d) = n /\ e \in Texts /\ (text \o d) \o e = text \o wire
            /\ Len(text \o d) = Len(text) + n /\ text \o d \in Texts
    BY <1>1, MovedBytes
  <2> QED
    BY <1>3, <2>1
<1>5. SubSeq(s, h + 1, h + n) = piece /\ n \in Nat /\ h < h + n /\ h + n \in Nat
  <2>1. n \in Nat /\ n <= Len(wire) /\ h \in Nat /\ n >= 1
    BY <1>1
  <2>2. SubSeq(s, h + 1, h + n) = piece
    BY <1>1, <2>1, SliceOfSecond
  <2> HIDE DEF h, s, piece
  <2> QED
    BY <2>1, <2>2
<1>6. h + n <= Len(s)
  <2>1. Len(s) = h + Len(wire)
    BY <1>1, JoinedTexts
  <2>2. h \in Nat /\ n \in Nat /\ n <= Len(wire) /\ Len(wire) \in Nat
    BY <1>1
  <2> HIDE DEF s, h
  <2> QED
    BY ONLY <2>1, <2>2
<1>7. Even(s, ending) /\ EndsLine(s) /\ Kept(s, h, pending, buffer, events)
  BY <1>2 DEF SseIndInv
<1>8. /\ Kept(s, h + n, Undecoded(bytes), drained.rest, events \o drained.events)
      /\ Undecoded(bytes) \in {<<>>, <<"L">>} /\ drained.rest \in Texts /\ events \o drained.events \in FieldsDone
  <2> DEFINE k == h + n
  <2>1. k \in Nat /\ h < k /\ k <= Len(s) /\ h \in Nat
    BY <1>1, <1>5, <1>6
  <2>2. bytes = pending \o SubSeq(s, h + 1, k)
    BY <1>5
  <2>3. drained = Drained(buffer \o Decoded(bytes))
    OBVIOUS
  <2>s. s \in Texts /\ ending \in {LF, CRLF} /\ Even(s, ending) /\ pending \in {<<>>, <<"L">>} /\ events \in FieldsDone
    BY <1>1, <1>7
  <2>k. Kept(s, h, pending, buffer, events)
    BY <1>7
  <2> HIDE DEF k, bytes, drained, s, h
  <2>4. /\ Kept(s, k, Undecoded(bytes), drained.rest, events \o drained.events)
        /\ Undecoded(bytes) \in {<<>>, <<"L">>} /\ drained.rest \in Texts /\ events \o drained.events \in FieldsDone
    BY ONLY <2>s, <2>k, <2>1, <2>2, <2>3, KeptOn
  <2> QED
    BY <2>4 DEF k
<1>9. pending' = Undecoded(bytes)
  BY <1>3
<1>10. \/ reading' = "failed" /\ buffer' = buffer /\ events' = events
       \/ reading' = reading /\ buffer' = drained.rest /\ events' = events \o drained.events
  BY <1>3
<1> HIDE DEF s, bytes, chars, drained, h
<1>11. SseTypeOK'
  <2>1. pending' \in {<<>>, <<"L">>}
    BY <1>8, <1>9
  <2>2. buffer' \in Texts /\ events' \in FieldsDone
    BY <1>1, <1>8, <1>10
  <2>3. reading' \in {"open", "ended", "failed"}
    BY <1>2, <1>10
  <2>4. lines' \in 0 .. MaxLines /\ ending' \in {LF, CRLF}
    BY <1>0, <1>2 DEF SseTypeOK
  <2> QED
    BY <1>4, <2>1, <2>2, <2>3, <2>4 DEF SseTypeOK, Texts, FieldLists, FieldsDone
<1>12. (reading = "open" => Kept(text \o wire, Len(text), pending, buffer, events))'
  <2> SUFFICES ASSUME reading' = "open" PROVE Kept(text' \o wire', Len(text'), pending', buffer', events')
    OBVIOUS
  <2>1. buffer' = drained.rest /\ events' = events \o drained.events
    BY <1>10
  <2> QED
    BY <1>4, <1>8, <1>9, <2>1
<1>13. EventsWhateverChunks'
  <2>1. reading' # "ended"
    BY <1>2, <1>10
  <2>2. reading' = "open" => Reference(text').done = events'
    <3> SUFFICES ASSUME reading' = "open" PROVE Reference(text').done = events'
      OBVIOUS
    <3>1. Kept(text' \o wire', Len(text'), pending', buffer', events')
      BY <1>12
    <3>2. pending' \in {<<>>, <<"L">>}
      BY <1>8, <1>9
    <3> QED
      BY <1>4, <3>1, <3>2, KeptTold
  <2> QED
    BY <1>11, <2>1, <2>2 DEF EventsWhateverChunks
<1>14. Even(text' \o wire', ending') /\ EndsLine(text' \o wire')
  BY <1>2, <1>4, <1>7
<1> QED
  BY <1>12, <1>13, <1>14 DEF SseIndInv

\* The stream ends (flush_sse_finish).
LEMMA StreamFinishes ==
    ASSUME SseIndInv, StreamEnds
    PROVE  SseIndInv'
<1> DEFINE drained == Drained(buffer \o pending)
           all == Emit(events \o drained.events, drained.rest)
           ref == Reference(text)
           last == WithLine(ref.fields, StripCR(ref.line))
<1>0. SseTypeOK
  BY DEF SseIndInv, EventsWhateverChunks
<1>1. /\ text \in Texts /\ wire \in Texts /\ ending \in {LF, CRLF} /\ buffer \in Texts /\ events \in FieldsDone
  BY <1>0, StreamTypes
<1>2. /\ reading = "open" /\ pending' = <<>> /\ UNCHANGED <<ending, lines, wire, text>>
      /\ \/ reading' = "failed" /\ UNCHANGED <<buffer, events>>
         \/ reading' = "ended" /\ buffer' = <<>> /\ events' = all
  BY DEF StreamEnds
<1>3. Even(text \o wire, ending) /\ EndsLine(text \o wire) /\ Kept(text \o wire, Len(text), pending, buffer, events)
  BY <1>2 DEF SseIndInv
<1>4. all = (IF last = <<>> THEN ref.done ELSE Append(ref.done, last)) /\ all \in FieldsDone
  <2> HIDE DEF drained
  <2>1. drained = Drained(buffer \o pending)
    BY DEF drained
  <2> QED
    BY <1>1, <1>3, <2>1, KeptEnds
<1> HIDE DEF all, last, ref
<1>5. SseTypeOK'
  <2>1. <<>> \in Texts
    BY NoBytes
  <2>2. buffer' \in Texts /\ events' \in FieldsDone /\ reading' \in {"open", "ended", "failed"}
    BY <1>1, <1>2, <1>4, <2>1
  <2>3. /\ pending' \in {<<>>, <<"L">>} /\ ending' \in {LF, CRLF} /\ lines' \in 0 .. MaxLines
        /\ text' \in Texts /\ wire' \in Texts
    BY <1>0, <1>1, <1>2 DEF SseTypeOK
  <2> QED
    BY <2>2, <2>3 DEF SseTypeOK, Texts, FieldLists, FieldsDone
<1>6. EventsWhateverChunks'
  <2>1. reading' # "open" /\ text' = text
    BY <1>2
  <2>2. reading' = "ended" => events' = IF last = <<>> THEN ref.done ELSE Append(ref.done, last)
    BY <1>2, <1>4
  <2> QED
    BY <1>5, <2>1, <2>2 DEF EventsWhateverChunks, last, ref
<1> QED
  BY <1>2, <1>3, <1>6 DEF SseIndInv

\* Every step of the stream keeps the invariant.
LEMMA StreamStep ==
    ASSUME SseIndInv, SseNext \/ UNCHANGED sseVars
    PROVE  SseIndInv'
<1>1. CASE WriteLine
  BY <1>1, StreamWritten
<1>2. CASE ReadChunk
  BY <1>2, StreamRead
<1>3. CASE StreamEnds
  BY <1>3, StreamFinishes
<1>4. CASE UNCHANGED sseVars
  BY <1>4 DEF SseIndInv, EventsWhateverChunks, SseTypeOK, sseVars
<1> QED
  BY <1>1, <1>2, <1>3, <1>4 DEF SseNext

\* In every state of the stream's reader what is kept of the text is the
\* characters after the last event that was handed on (read_sse_until).
THEOREM StreamInvariant == SseSpec => []SseIndInv
<1>1. SseInit => SseIndInv
  BY StreamBegins
<1>2. SseIndInv /\ [SseNext]_sseVars => SseIndInv'
  BY StreamStep
<1> QED
  BY <1>1, <1>2, PTL DEF SseSpec

\* However the bytes of a stream of one kind of line end are cut into chunks,
\* the events handed on are those that have ended in what was read, each one
\* once and in order, and the unfinished one when the stream ends
\* (SseParser::push, finish, Utf8StreamDecoder::push).
THEOREM EventsAreWhateverChunks == SseSpec => []EventsWhateverChunks
<1>1. SseIndInv => EventsWhateverChunks
  BY DEF SseIndInv
<1> QED
  BY <1>1, StreamInvariant, PTL

=============================================================================
