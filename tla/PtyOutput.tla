----------------------------- MODULE PtyOutput ------------------------------
(***************************************************************************)
(* The path of a PTY's output from read() to the retained ring buffer:     *)
(* PtyOutputProcessor (Utf8IncrementalDecoder, TerminalOutputNormalizer,   *)
(* batching by time and size) and TerminalRingBuffer.push.  The operating  *)
(* system cuts the stream into reads as it likes and time passes as it     *)
(* likes; what comes out should not depend on either.                      *)
(*                                                                         *)
(* Bytes: "a" stands for a letter, "1" for a digit, "L" and "C" for the    *)
(* two bytes of a two-byte character; the others are named after           *)
(* themselves.  Characters: the one-byte ones, "LC", and "?" for U+FFFD.   *)
(***************************************************************************)
EXTENDS Naturals, SequencesExt

CONSTANTS
  Alphabets,  \* sets of bytes: a stream draws on one of them
  MaxBytes,   \* bound: length of the stream
  MaxRead,    \* bound: bytes returned by one read
  BatchMax    \* PTY_OUTPUT_BATCH_MAX_BYTES

Bytes == {"a", "1", "[", "]", "P", "X", "\\", "BEL", "ESC", "CR", "LF", "L", "C"}
Characters == (Bytes \ {"L", "C"}) \cup {"LC", "?"}
Modes == {"normal", "escape", "csi", "osc", "dcs", "string", "string-esc"}

(* Assumed wherever this module is used.                                   *)
PtyOutputAssumption ==
  /\ Alphabets \subseteq SUBSET Bytes
  /\ MaxBytes \in Nat /\ MaxRead \in Nat /\ BatchMax \in Nat

VARIABLES
  stream,     \* every byte read so far
  carry,      \* Utf8IncrementalDecoder.carry
  norm,       \* TerminalOutputNormalizer, with pending_output as its out
  stale,      \* PTY_OUTPUT_BATCH_FLUSH_MS have passed since last_flush_at
  flushed,    \* the pieces handed to append_terminal_output
  ring,       \* TerminalRingBuffer.data
  done        \* the reader has seen the end of the stream

vars == <<stream, carry, norm, stale, flushed, ring, done>>

Fresh == [mode |-> "normal", escape |-> <<>>, cr |-> FALSE, out |-> <<>>]

TypeOK ==
  /\ stream \in Seq(Bytes) /\ Len(stream) <= MaxBytes
  /\ carry \in {<<>>, <<"L">>}
  /\ norm.mode \in Modes /\ norm.cr \in BOOLEAN
  /\ norm.escape \in Seq(Characters) /\ norm.out \in Seq(Characters)
  /\ norm.mode = "normal" <=> norm.escape = <<>>
  /\ flushed \in Seq(Seq(Characters)) /\ ring \in Seq(Characters)
  /\ {stale, done} \subseteq BOOLEAN

Init ==
  /\ stream = <<>> /\ carry = <<>> /\ norm = Fresh
  /\ stale = FALSE /\ flushed = <<>> /\ ring = <<>> /\ done = FALSE

----------------------------------------------------------------------------
(* Definitions named _Faulty... are plausible mistakes in the definition   *)
(* after them; no specification uses them.                                 *)

(* Utf8IncrementalDecoder.decode: the characters of the bytes, and the     *)
(* incomplete character at their end that is left for the next read.       *)
DecodeByte(d, byte) ==
  LET text == IF d.carry = <<>> THEN d.text ELSE Append(d.text, "?")
  IN  CASE byte = "L" -> [text |-> text, carry |-> <<"L">>]
        [] byte = "C" -> [text |-> Append(d.text, IF d.carry = <<>> THEN "?" ELSE "LC"), carry |-> <<>>]
        [] OTHER -> [text |-> Append(text, byte), carry |-> <<>>]

Decode(bytes) ==
  LET d[n \in 0 .. Len(bytes)] ==
        IF n = 0 THEN [text |-> <<>>, carry |-> <<>>] ELSE DecodeByte(d[n - 1], bytes[n])
  IN  d[Len(bytes)]

----------------------------------------------------------------------------
(* TerminalOutputNormalizer.normalize, one character.  An escape sequence  *)
(* is held in norm.escape until it is complete.                            *)
EscapeFinal == {"a", "[", "]", "P", "X", "\\"}

Hold(n, ch, mode) == [n EXCEPT !.escape = Append(@, ch), !.mode = mode]

Complete_FaultyKeepsEscape(n, ch) ==
  [n EXCEPT !.out = @ \o Append(n.escape, ch), !.mode = "normal"]

Complete(n, ch) ==
  [n EXCEPT !.out = @ \o Append(n.escape, ch), !.escape = <<>>, !.mode = "normal"]

Plain(n, ch) ==
  IF ch = "ESC" THEN [Hold(n, ch, "escape") EXCEPT !.cr = FALSE]
  ELSE [n EXCEPT !.out = @ \o IF ch = "LF" /\ ~n.cr THEN <<"CR", "LF">> ELSE <<ch>>,
                 !.cr = (ch = "CR")]

Introducer(ch) ==
  CASE ch = "[" -> "csi" [] ch = "]" -> "osc" [] ch = "P" -> "dcs" [] ch = "X" -> "string"
    [] OTHER -> "escape"

InEscape(n, ch) ==
  IF Introducer(ch) = "escape" /\ ch \in EscapeFinal
  THEN Complete(n, ch) ELSE Hold(n, ch, Introducer(ch))

InCsi(n, ch) == IF ch \in EscapeFinal THEN Complete(n, ch) ELSE Hold(n, ch, "csi")

InOscOrDcs(n, ch) ==
  CASE ch = "BEL" -> Complete(n, ch)
    [] ch = "ESC" -> Hold(n, ch, "string-esc")
    [] OTHER -> Hold(n, ch, n.mode)

InString(n, ch) ==
  IF ch = "BEL" \/ (ch = "\\" /\ n.mode = "string-esc") THEN Complete(n, ch)
  ELSE Hold(n, ch, IF ch = "ESC" THEN "string-esc" ELSE "string")

NormalizeChar(n, ch) ==
  CASE n.mode = "normal" -> Plain(n, ch)
    [] n.mode = "escape" -> InEscape(n, ch)
    [] n.mode = "csi" -> InCsi(n, ch)
    [] n.mode \in {"osc", "dcs"} -> InOscOrDcs(n, ch)
    [] OTHER -> InString(n, ch)

(* Pending_mode is not kept from one read to the next. *)
Normalize_FaultyModeLost(n, text) ==
  FoldLeft(NormalizeChar, [n EXCEPT !.mode = "normal"], text)

Normalize(n, text) == FoldLeft(NormalizeChar, n, text)

IsIdle(n) == n.escape = <<>> /\ n.mode = "normal"

(* What is left of an escape sequence is dropped. *)
Finish_FaultyDropsEscape(n, rest) ==
  LET m == Normalize(n, IF rest = <<>> THEN <<>> ELSE <<"?">>)
  IN  [m EXCEPT !.escape = <<>>, !.mode = "normal"]

(* PtyOutputProcessor.finish: what is left of a character is replaced, and *)
(* what is left of an escape sequence goes out as it is.                   *)
Finish(n, rest) ==
  LET m == Normalize(n, IF rest = <<>> THEN <<>> ELSE <<"?">>)
  IN  [m EXCEPT !.out = @ \o m.escape, !.escape = <<>>, !.mode = "normal"]

----------------------------------------------------------------------------
LastLineFeed(text) ==
  LET lf == {n \in DOMAIN text : text[n] = "LF"}
  IN  IF lf = {} THEN 0 ELSE CHOOSE n \in lf : \A k \in lf : k <= n

(* TerminalRingBuffer.push: a CR that the SAME piece does not follow with  *)
(* an LF clears the current line and stays at its start.                   *)
RingPush(data, piece) ==
  LET put(d, n) ==
        IF piece[n] = "CR" /\ ~(n < Len(piece) /\ piece[n + 1] = "LF")
        THEN Append(SubSeq(d, 1, LastLineFeed(d)), "CR")
        ELSE Append(d, piece[n])
  IN  FoldLeft(put, data, [n \in 1 .. Len(piece) |-> n])

(* flush_if_ready and, when it flushes, append_terminal_output.            *)
FlushIf(ready, n) ==
  IF ready /\ n.out # <<>>
  THEN /\ norm' = [n EXCEPT !.out = <<>>]
       /\ flushed' = Append(flushed, n.out)
       /\ ring' = RingPush(ring, n.out)
       /\ stale' = FALSE
  ELSE norm' = n /\ UNCHANGED <<flushed, ring, stale>>

(* One read() returns some bytes: push_chunk.                              *)
Read ==
  /\ ~done
  /\ \E alphabet \in {bytes \in Alphabets : ToSet(stream) \subseteq bytes} :
     \E chunk \in UNION {[1 .. k -> alphabet] : k \in 1 .. MaxRead} :
       LET d == Decode(carry \o chunk)
           n == Normalize(norm, d.text)
       IN  /\ Len(stream) + Len(chunk) <= MaxBytes
           /\ stream' = stream \o chunk
           /\ carry' = d.carry
           /\ FlushIf(IsIdle(n) /\ (stale \/ Len(n.out) >= BatchMax), n)
  /\ UNCHANGED done

(* read() returns nothing or fails.                                        *)
EndOfStream ==
  /\ ~done
  /\ carry' = <<>>
  /\ FlushIf(TRUE, Finish(norm, carry))
  /\ done' = TRUE
  /\ UNCHANGED stream

(* The only clock is Instant::now() at a read: no timer flushes anything.  *)
TimePasses ==
  /\ ~stale
  /\ stale' = TRUE
  /\ UNCHANGED <<stream, carry, norm, flushed, ring, done>>

Next == Read \/ EndOfStream \/ TimePasses

Spec == Init /\ [][Next]_vars

(* Time goes on.  Nothing makes a child write or end.                      *)
TimedSpec == Spec /\ WF_vars(TimePasses)

----------------------------------------------------------------------------
Flushed ==
  LET text[n \in 0 .. Len(flushed)] == IF n = 0 THEN <<>> ELSE text[n - 1] \o flushed[n]
  IN  text[Len(flushed)]

(* The output of a stream that arrives in one read.                        *)
Whole(bytes) ==
  LET d == Decode(bytes) IN Finish(Normalize(Fresh, d.text), d.carry).out

WithoutCr(text) ==
  LET kept[n \in 0 .. Len(text)] ==
        IF n = 0 THEN <<>> ELSE IF text[n] = "CR" THEN kept[n - 1] ELSE Append(kept[n - 1], text[n])
  IN  kept[Len(text)]

(* Normalizing once is normalizing for good, which                         *)
(* terminal_output_normalize_is_idempotent tests on one string.            *)
Idempotent ==
  LET again == Normalize(Fresh, Flushed) IN again.out \o again.escape = Flushed

(* However the stream was cut into reads and whenever they came, the       *)
(* output is that of the whole stream, and stable under normalization: no  *)
(* state is lost between two reads.                                        *)
ChunkingInvisible == done => Flushed = Whole(stream) /\ Idempotent

(* The ring buffer keeps every line of a stream in which each CR belongs   *)
(* to a CR LF ("\r\n should be preserved", says its test), unless a flush  *)
(* cut such a pair in two: then the line before it is lost.                *)
EndsInCr(text) == text # <<>> /\ text[Len(text)] = "CR"

PairsOnly(text) ==
  \A n \in DOMAIN text : text[n] = "CR" => n < Len(text) /\ text[n + 1] = "LF"

CrLfKept ==
  PairsOnly(Flushed) /\ (\A k \in DOMAIN flushed : ~EndsInCr(flushed[k])) => ring = Flushed

(* Nothing is dropped or reordered, and nothing but a CR is added: what    *)
(* went out and what is held are the decoded stream, and in the end the    *)
(* ring buffer has all lines that no flush has cut.                        *)
NothingLost ==
  LET d == Decode(stream)
  IN  /\ WithoutCr(Flushed \o norm.out \o norm.escape) =
            WithoutCr(IF done /\ d.carry # <<>> THEN Append(d.text, "?") ELSE d.text)
      /\ done => CrLfKept

(* Output that can be shown is shown at some time, whether or not the      *)
(* child goes on writing.  It does not hold under TimedSpec: output that   *)
(* was read too early for a flush waits for the next read.                 *)
OutputShown == (norm.out # <<>> /\ IsIdle(norm)) ~> (norm.out = <<>>)
=============================================================================
