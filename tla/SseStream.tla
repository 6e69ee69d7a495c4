---------------------------- MODULE SseStream ----------------------------
(***************************************************************************)
(* The event stream of an MCP HTTP answer: the incremental UTF-8 decoder   *)
(* and the SSE parser of src/mcp/sse.rs, as read_sse_until of              *)
(* http_client.rs drives them.                                             *)
(*                                                                         *)
(* The server writes lines; the network cuts the bytes into chunks where   *)
(* it likes, inside a character or a line end too.  Fields are not told    *)
(* apart: a line is a field ("a", or the two bytes "L" "T" of a character) *)
(* a comment (":") or blank, and an event is the sequence of its fields.   *)
(* A stream uses one kind of line end throughout.                          *)
(***************************************************************************)
EXTENDS Naturals, Sequences, SequencesExt

CONSTANTS
    MaxLines,   \* bound of the model: lines of a stream
    MaxBuffer   \* max_buffer_bytes (1 MiB in the code)

ASSUME SseBounds == MaxLines \in Nat /\ MaxBuffer \in Nat \ {0}

VARIABLES
    ending,   \* the line end of this stream
    lines,    \* lines the server has written
    wire,     \* bytes written and not yet read
    text,     \* history: bytes read
    pending,  \* Utf8StreamDecoder: an incomplete character
    buffer,   \* SseParser: characters after the last boundary
    events,   \* the events handed on
    reading   \* open, ended, failed (limit)

sseVars == <<ending, lines, wire, text, pending, buffer, events, reading>>

LF == <<"n">>
CRLF == <<"r", "n">>
Contents == {<<>>, <<"a">>, <<"L", "T">>, <<":">>}
Bytes == {"a", "L", "T", ":", "r", "n"}

SseTypeOK ==
    /\ ending \in {LF, CRLF} /\ lines \in 0..MaxLines
    /\ wire \in Seq(Bytes) /\ text \in Seq(Bytes)
    /\ pending \in {<<>>, <<"L">>} /\ buffer \in Seq(Bytes)
    /\ events \in Seq(Seq(Seq(Bytes))) /\ reading \in {"open", "ended", "failed"}

SseInit ==
    /\ ending \in {LF, CRLF} /\ lines = 0 /\ wire = <<>> /\ text = <<>>
    /\ pending = <<>> /\ buffer = <<>> /\ events = <<>> /\ reading = "open"

-----------------------------------------------------------------------------
(* parse_event_block(): the fields of a block, comments and blanks skipped *)

NoBlock == [line |-> <<>>, fields |-> <<>>]

StripCR(line) == IF line # <<>> /\ Last(line) = "r" THEN Front(line) ELSE line

\* One more line of a block.
WithLine(fields, line) ==
    IF line = <<>> \/ Head(line) = ":" THEN fields ELSE Append(fields, line)

\* One more character of a block.
Parsed(acc, ch) ==
    IF ch = "n" THEN [line |-> <<>>, fields |-> WithLine(acc.fields, StripCR(acc.line))]
    ELSE [line |-> Append(acc.line, ch), fields |-> acc.fields]

Scanned(block) ==
    LET upto[i \in 0 .. Len(block)] == IF i = 0 THEN NoBlock ELSE Parsed(upto[i - 1], block[i])
    IN  upto[Len(block)]

Fields(block) ==
    LET end == Scanned(block) IN WithLine(end.fields, StripCR(end.line))

\* A block without a field is no event.
Emit(es, block) == IF Fields(block) = <<>> THEN es ELSE Append(es, Fields(block))

-----------------------------------------------------------------------------
(* SseParser::push() and finish().                                         *)

\* Where mark is found in b.
Places(b, mark) ==
    {i \in 1 .. Len(b) + 1 - Len(mark) : \A j \in 1 .. Len(mark) : b[i + j - 1] = mark[j]}

\* find_event_boundary(): CR LF CR LF anywhere in the buffer before LF LF.
BoundaryOf(b) ==
    IF Places(b, CRLF \o CRLF) # {} THEN [at |-> Min(Places(b, CRLF \o CRLF)), skip |-> 4]
    ELSE IF Places(b, LF \o LF) # {} THEN [at |-> Min(Places(b, LF \o LF)), skip |-> 2]
    ELSE [at |-> 0, skip |-> 0]

\* The loop of push(): blocks are taken off as long as there is a boundary.
Drained(b) ==
    LET from[i \in 1 .. Len(b) + 1] ==
            LET rest  == SubSeq(b, i, Len(b))
                found == BoundaryOf(rest)
                after == from[i + found.at + found.skip - 1]
            IN  IF found.at = 0 THEN [rest |-> rest, events |-> <<>>]
                ELSE [rest |-> after.rest,
                      events |-> Emit(<<>>, SubSeq(rest, 1, found.at - 1)) \o after.events]
    IN  from[1]

-----------------------------------------------------------------------------
(* The server, and the read loop.                                          *)

WriteLine ==
    /\ reading = "open" /\ lines < MaxLines
    /\ \E content \in Contents : wire' = wire \o content \o ending
    /\ lines' = lines + 1
    /\ UNCHANGED <<ending, text, pending, buffer, events, reading>>

\* Utf8StreamDecoder::push(): what is decoded, and what waits for its rest.
Decoded(bytes) == IF bytes # <<>> /\ Last(bytes) = "L" THEN Front(bytes) ELSE bytes
Undecoded(bytes) == IF bytes # <<>> /\ Last(bytes) = "L" THEN <<"L">> ELSE <<>>

\* Faulty variant: an incomplete character is not kept for the next chunk.
ReadChunkForgetful ==
    /\ reading = "open"
    /\ \E n \in 1..Len(wire) :
          LET chars == Decoded(SubSeq(wire, 1, n))
              drained == Drained(buffer \o chars)
          IN  /\ wire' = SubSeq(wire, n + 1, Len(wire))
              /\ text' = text \o SubSeq(wire, 1, n)
              /\ buffer' = drained.rest /\ events' = events \o drained.events
    /\ UNCHANGED <<ending, lines, pending, reading>>

\* One chunk of the wire, of any size.
ReadChunk ==
    /\ reading = "open"
    /\ \E n \in 1..Len(wire) :
          LET bytes == pending \o SubSeq(wire, 1, n)
              chars == Decoded(bytes)
              drained == Drained(buffer \o chars)
          IN  /\ wire' = SubSeq(wire, n + 1, Len(wire))
              /\ text' = text \o SubSeq(wire, 1, n)
              /\ pending' = Undecoded(bytes)
              /\ IF Len(buffer) + Len(chars) > MaxBuffer
                 THEN reading' = "failed" /\ UNCHANGED <<buffer, events>>
                 ELSE /\ buffer' = drained.rest /\ events' = events \o drained.events
                      /\ UNCHANGED reading
    /\ UNCHANGED <<ending, lines>>

\* The stream ends after its last byte, or breaks anywhere: flush_sse_finish().
StreamEnds ==
    /\ reading = "open"
    /\ LET drained == Drained(buffer \o pending) IN
          IF pending # <<>> /\ Len(buffer) + 1 > MaxBuffer
          THEN reading' = "failed" /\ UNCHANGED <<buffer, events>>
          ELSE /\ reading' = "ended" /\ buffer' = <<>>
               /\ events' = Emit(events \o drained.events, drained.rest)
    /\ pending' = <<>>
    /\ UNCHANGED <<ending, lines, wire, text>>

SseNext == WriteLine \/ ReadChunk \/ StreamEnds

SseSpec == SseInit /\ [][SseNext]_sseVars

-----------------------------------------------------------------------------
(* The reference: lines, and an event at each blank one.                   *)

Referred(acc, ch) ==
    IF ch # "n" THEN [acc EXCEPT !.line = Append(@, ch)]
    ELSE IF StripCR(acc.line) # <<>>
    THEN [acc EXCEPT !.line = <<>>, !.fields = WithLine(@, StripCR(acc.line))]
    ELSE [line |-> <<>>, fields |-> <<>>,
          done |-> IF acc.fields = <<>> THEN acc.done ELSE Append(acc.done, acc.fields)]

Reference(bytes) ==
    LET upto[i \in 0 .. Len(bytes)] ==
            IF i = 0 THEN [line |-> <<>>, fields |-> <<>>, done |-> <<>>]
            ELSE Referred(upto[i - 1], bytes[i])
    IN  upto[Len(bytes)]

\* However the bytes are cut into chunks, the events handed on are those that
\* have ended in what was read, at once and each one once; when the stream ends
\* the unfinished one follows (SseParser::push, finish, Utf8StreamDecoder).
EventsWhateverChunks ==
    LET ref == Reference(text)
        last == WithLine(ref.fields, StripCR(ref.line))
    IN  /\ SseTypeOK
        /\ reading = "open" => events = ref.done
        /\ reading = "ended" => events = IF last = <<>> THEN ref.done ELSE Append(ref.done, last)

=============================================================================
