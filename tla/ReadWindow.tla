----------------------------- MODULE ReadWindow -----------------------------
(***************************************************************************)
(* Reading a text file by windows (src/src/tools/read_window.rs), as       *)
(* home.read, local_tools.read_file and profile.read_skill do, and the     *)
(* model that follows next_offset from window to window while another run  *)
(* appends to the file (home.write, mode append).                          *)
(*                                                                         *)
(* A file is a sequence of bytes over three classes: "a", a character of   *)
(* one byte; "h" and "t", the first and the last byte of a longer one.     *)
(* A "t" that follows no "h", and an "h" that something else follows, are  *)
(* definitely invalid; an "h" at the end is an incomplete sequence.  One   *)
(* read of the file gives at most ReadSize bytes.                          *)
(***************************************************************************)
EXTENDS Integers, Sequences, FiniteSets, FiniteSetsExt, SequencesExt

CONSTANTS
    MaxBytes,     \* bound: the bytes of a file
    MaxWindow,    \* bound: max_chars of one call
    MaxStart,     \* bound: the offset a reader starts from
    ReadSize      \* bytes one read of the file may give

ASSUME WindowAssumption ==
    MaxBytes \in Nat /\ MaxWindow \in Nat \ {0} /\ MaxStart \in Nat /\ ReadSize \in Nat \ {0}

VARIABLES
    content,    \* the bytes of the file
    start,      \* the offset the reader began at
    offset,     \* the offset of the call
    room,       \* max_chars of the call
    consumed,   \* bytes of the file read by the call
    pending,    \* bytes read and not yet decoded
    skipping,   \* characters still to skip
    text,       \* the window's text, as bytes
    rw,         \* where the call is: "idle", "loop", "peek", "more", "whole", "failed"
    got         \* what the reader has put together

windowVars == <<content, start, offset, room, consumed, pending, skipping, text, rw, got>>

Byte == {"a", "h", "t"}
Upto(s, n) == SubSeq(s, 1, n)
After(s, n) == SubSeq(s, n + 1, Len(s))

\* A sequence of whole characters.
WellFormed(s) ==
    /\ \A i \in 1 .. Len(s) : (s[i] = "t") <=> (i > 1 /\ s[i - 1] = "h")
    /\ s # <<>> => Last(s) # "h"
Chars(s) == Cardinality({i \in 1 .. Len(s) : s[i] # "t"})

\* std::str::from_utf8: the valid prefix, and whether what follows can never become valid.
ValidUpTo(s) == Max({n \in 0 .. Len(s) : WellFormed(Upto(s, n))})
Incomplete(s) == ValidUpTo(s) = Len(s) - 1 /\ Last(s) = "h"

Invalid(s) == ValidUpTo(s) < Len(s) /\ ~Incomplete(s)

Decoded(s) == Upto(s, ValidUpTo(s))

\* split_chars: the bytes of the first n characters of a valid text.
SplitChars(s, n) == Max({i \in 0 .. Len(s) : WellFormed(Upto(s, i)) /\ Chars(Upto(s, i)) <= n})

-----------------------------------------------------------------------------
WindowInit ==
    /\ content \in UNION {[1 .. n -> Byte] : n \in 0 .. MaxBytes}
    /\ start \in 0 .. MaxStart
    /\ offset = start
    /\ rw = "idle"
    /\ room = 1 /\ consumed = 0 /\ skipping = 0
    /\ pending = <<>> /\ text = <<>> /\ got = <<>>

\* A call: the file is opened anew, max_chars is at least one.
OpenWindow ==
    /\ rw = "idle"
    /\ room' \in 1 .. MaxWindow
    /\ rw' = "loop"
    /\ consumed' = 0 /\ pending' = <<>> /\ text' = <<>>
    /\ skipping' = offset
    /\ UNCHANGED <<content, start, offset, got>>

Reads == 1 .. Min({ReadSize, Len(content) - consumed})

\* consume_chars: skip first, then take what the window has room for.
Consume(valid) ==
    LET skip == SplitChars(valid, skipping)
        rest == After(valid, skip)
        left == skipping - Chars(Upto(valid, skip))
        take == IF left > 0 THEN 0 ELSE SplitChars(rest, room - Chars(text))
    IN [skip |-> left,
        text |-> text \o Upto(rest, take),
        full |-> left = 0 /\ Chars(text \o Upto(rest, take)) >= room,
        more |-> take < Len(rest)]

\* One pass of the loop that reads, decodes and consumes.
LoopReads(n) ==
    LET bytes == pending \o SubSeq(content, consumed + 1, consumed + n)
        step == Consume(Decoded(bytes))
        full == Decoded(bytes) # <<>> /\ step.full
    IN /\ rw = "loop"
       /\ consumed' = consumed + n
       /\ pending' = After(bytes, ValidUpTo(bytes))
       /\ skipping' = step.skip
       /\ text' = step.text
       /\ rw' = IF full THEN IF step.more \/ Invalid(bytes) THEN "more" ELSE "peek"
                ELSE IF Invalid(bytes) THEN "failed" ELSE "loop"
       /\ UNCHANGED <<content, start, offset, room, got>>

\* The end of the file before the window is full.
LoopEnds ==
    /\ rw = "loop"
    /\ consumed = Len(content)
    /\ rw' = IF pending # <<>> THEN "failed" ELSE "whole"
    /\ UNCHANGED <<content, start, offset, room, consumed, pending, skipping, text, got>>

\* has_more_chars: read on until a character or an invalid sequence shows, or the file ends.
Peek(n) ==
    LET bytes == pending \o SubSeq(content, consumed + 1, consumed + n)
    IN /\ rw = "peek"
       /\ consumed' = consumed + n
       /\ pending' = bytes
       /\ rw' = IF Decoded(bytes) # <<>> \/ Invalid(bytes) THEN "more" ELSE "peek"
       /\ UNCHANGED <<content, start, offset, room, skipping, text, got>>
PeekEnds ==
    /\ rw = "peek"
    /\ consumed = Len(content)
    /\ rw' = "whole"
    /\ UNCHANGED <<content, start, offset, room, consumed, pending, skipping, text, got>>

\* next_offset is there when the window is truncated; the reader goes on from it.
\* Faulty: counts bytes.
NextOffsetByBytes == offset + Len(text)
NextOffset == offset + Chars(text)

Follow ==
    /\ rw = "more"
    /\ rw' = "idle"
    /\ got' = got \o text
    /\ offset' = NextOffset
    /\ UNCHANGED <<content, start, room, consumed, pending, skipping, text>>

\* Another run appends a character.
Append1(char) ==
    /\ Len(content) + Len(char) <= MaxBytes
    /\ content' = content \o char
    /\ UNCHANGED <<start, offset, room, consumed, pending, skipping, text, rw, got>>

WindowNext ==
    \/ OpenWindow
    \/ \E n \in Reads : LoopReads(n)
    \/ LoopEnds
    \/ \E n \in Reads : Peek(n)
    \/ PeekEnds
    \/ Follow
    \/ \E char \in {<<"a">>, <<"h", "t">>} : Append1(char)

WindowSpec == WindowInit /\ [][WindowNext]_windowVars

-----------------------------------------------------------------------------
\* The characters of the bytes read so far, from character `from` on.
TextFrom(from) == LET valid == Decoded(Upto(content, consumed)) IN After(valid, SplitChars(valid, from))

(***************************************************************************)
(* Whatever the sizes of the reads and of the windows, and wherever they   *)
(* cut a character, the windows a reader follows put together the file's   *)
(* text: none is skipped or repeated, and the last window, the one that is *)
(* not truncated, leaves nothing behind of what had been read, except an   *)
(* incomplete sequence at the end.                                         *)
(***************************************************************************)
FollowedIsWhole ==
    /\ rw \in {"more", "whole", "failed"} => IsPrefix(got \o text, TextFrom(start))
    /\ rw = "whole" => /\ got \o text = TextFrom(start)
                       /\ ~Invalid(Upto(content, consumed))

(***************************************************************************)
(* A window that fails has a reason: the text up to its end cannot be      *)
(* decoded although more characters were wanted; and a truncated window is *)
(* full, and the next one will return a character or report the error.     *)
(***************************************************************************)
WindowHasReason ==
    /\ rw = "failed" => ~WellFormed(content) /\ Chars(text) < room
    /\ rw = "more" => /\ Chars(text) = room
                      /\ \/ Chars(Decoded(content)) > NextOffset
                         \/ Invalid(content)

\* What a reader gets of a file (read_utf8_window).
ReaderServed == FollowedIsWhole /\ WindowHasReason
=============================================================================
