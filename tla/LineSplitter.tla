----------------------------- MODULE LineSplitter -----------------------------
(***************************************************************************)
(* The text of a log into lines: the LineSplitter of                       *)
(* packages/parser/src/jsonl.ts in tolerant mode, and the ingest of        *)
(* packages/server/src/app-state.ts, which keeps the byte offset of the    *)
(* lines, says when an oversized line is skipped, and takes an end of file *)
(* without a newline for the end of a line when its text parses.           *)
(*                                                                         *)
(* A character is a line feed, a carriage return, a byte order mark, or    *)
(* one of a record: "e" ends a record, so that a text parses when its last *)
(* character, white space aside, is "e"; "o" is any other.                 *)
(***************************************************************************)
EXTENDS Integers, Sequences, SequencesExt, FiniteSets

CONSTANTS
  MAX_BUF_BYTES,  \* characters of a line the splitter holds, at least 1
  MaxChunk,       \* bound: characters in a chunk
  MaxLength       \* bound: characters in the file

VARIABLES
  text,        \* what was read of the file
  sp,          \* the splitter
  byteOffset,  \* where the next line begins, as the ingest has it
  lines,       \* the lines ingested, each with its byte offset
  warning,     \* oversizedWarningActive
  told         \* warnings given

vars == <<text, sp, byteOffset, lines, warning, told>>

LF == "lf"
CR == "cr"
BOM == "bom"
Char == {"o", "e", LF, CR, BOM}
Width(c) == IF c = BOM THEN 3 ELSE 1

utf8ByteLength(s) == FoldLeft(LAMBDA n, c : n + Width(c), 0, s)

-----------------------------------------------------------------------------
(* The splitter.  pushDetailed works on w: the splitter, the rest s of the *)
(* chunk, the leading bytes, the lines found and the skips reported.       *)

NewSplitter ==
  [buf |-> <<>>, bomConsumed |-> FALSE, skipping |-> FALSE, skipBytes |-> 0,
   skipPendingCr |-> FALSE, finalizedAtEof |-> FALSE, finalizedPendingCr |-> FALSE]

Starts(s, prefix) == IsPrefix(prefix, s)
After(s, n) == SubSeq(s, n + 1, Len(s))
EndsInCr(s) == s # <<>> /\ Last(s) = CR

Take(w, n, bytes) == [w EXCEPT !.s = After(@, n), !.leading = @ + bytes]
WithoutEof(w) == [w EXCEPT !.sp.finalizedAtEof = FALSE, !.sp.finalizedPendingCr = FALSE]

\* the terminator of a line that was ended by the end of the file
AfterEof(w) ==
  IF ~w.sp.finalizedAtEof \/ w.s = <<>> THEN w
  ELSE IF w.sp.finalizedPendingCr
       THEN IF Starts(w.s, <<LF>>) THEN Take(WithoutEof(w), 1, 2)
            ELSE [WithoutEof(w) EXCEPT !.s = <<CR>> \o @]
  ELSE IF Starts(w.s, <<CR, LF>>) THEN Take(WithoutEof(w), 2, 2)
  ELSE IF Starts(w.s, <<LF>>) THEN Take(WithoutEof(w), 1, 1)
  ELSE IF w.s = <<CR>> THEN [w EXCEPT !.sp.finalizedPendingCr = TRUE, !.s = <<>>]
  ELSE WithoutEof(w)

StripBom(w) ==
  IF w.sp.bomConsumed \/ w.s = <<>> THEN w
  ELSE LET v == [w EXCEPT !.sp.bomConsumed = TRUE]
       IN  IF Starts(w.s, <<BOM>>) THEN Take(v, 1, 3) ELSE v

Skipped(w, n, bytes, terminatorBytes) ==
  [w EXCEPT !.s = After(@, n), !.sp.skipping = FALSE, !.sp.skipBytes = 0,
            !.drops = Append(@, <<w.sp.skipBytes + bytes, terminatorBytes>>)]

\* the CR held back at the end of the chunk before
SkipCr(w) ==
  IF ~(w.sp.skipping /\ w.sp.skipPendingCr /\ w.s # <<>>) THEN w
  ELSE LET v == [w EXCEPT !.sp.skipPendingCr = FALSE]
       IN  IF Starts(w.s, <<LF>>) THEN Skipped(v, 1, 0, 2)
           ELSE [v EXCEPT !.sp.skipBytes = @ + 1]

\* text of an oversized line goes, a CR at its very end is held back
Discard(splitter, s, bytes) ==
  [splitter EXCEPT !.skipping = TRUE,
     !.skipBytes = bytes + utf8ByteLength(IF EndsInCr(s) THEN Front(s) ELSE s),
     !.skipPendingCr = EndsInCr(s)]

\* the rest of an oversized line
SkipLine(w) ==
  IF ~w.sp.skipping \/ w.s = <<>> THEN w
  ELSE IF ~Contains(w.s, LF)
  THEN [w EXCEPT !.sp = Discard(@, w.s, @.skipBytes), !.s = <<>>]
  ELSE LET nl   == SelectInSeq(w.s, LAMBDA c : c = LF)
           line == SubSeq(w.s, 1, nl - 1)
       IN  IF EndsInCr(line) THEN Skipped(w, nl, utf8ByteLength(Front(line)), 2)
           ELSE Skipped(w, nl, utf8ByteLength(line), 1)

Line(s) ==
  IF EndsInCr(s) THEN [text |-> Front(s), terminatorBytes |-> 2]
                 ELSE [text |-> s, terminatorBytes |-> 1]

\* the lines of s that are ended, and the tail after them
LineEnds(s) == SelectSeq([i \in 1..Len(s) |-> i], LAMBDA i : s[i] = LF)
LinesOf(s) ==
  LET ends == LineEnds(s)
  IN  [n \in DOMAIN ends |->
         Line(SubSeq(s, IF n = 1 THEN 1 ELSE ends[n - 1] + 1, ends[n] - 1))]
TailOf(s) == After(s, IF Contains(s, LF) THEN Last(LineEnds(s)) ELSE 0)

Split(w) ==
  IF w.s = <<>> \/ w.sp.skipping THEN w
  ELSE LET s == w.sp.buf \o w.s
           v == [w EXCEPT !.s = <<>>, !.lines = LinesOf(s)]
       IN  IF Len(TailOf(s)) > MAX_BUF_BYTES
           THEN [v EXCEPT !.sp = Discard([@ EXCEPT !.buf = <<>>], TailOf(s), 0)]
           ELSE [v EXCEPT !.sp.buf = TailOf(s)]

pushDetailed(chunk) ==
  Split(SkipLine(SkipCr(StripBom(AfterEof(
    [sp |-> sp, s |-> chunk, leading |-> 0, lines |-> <<>>, drops |-> <<>>])))))

-----------------------------------------------------------------------------
(* The ingest.                                                             *)

\* onOversizedBytes: a line is warned of once, until its terminator was seen
Told(drops) ==
  /\ told' = told + (IF drops # <<>> /\ ~warning THEN 1 ELSE 0)
  /\ warning' = (IF drops = <<>> THEN warning ELSE Last(drops)[2] = 0)

BytesOf(drops) == FoldLeft(LAMBDA n, d : n + d[1] + d[2], 0, drops)

\* each line where the ones before it end
Placed(from, new) ==
  FoldLeft(LAMBDA w, line :
             [at |-> w.at + utf8ByteLength(line.text) + line.terminatorBytes,
              out |-> Append(w.out, [at |-> w.at, text |-> line.text])],
           [at |-> from, out |-> <<>>], new)

Ingest(from, new) ==
  LET placed == Placed(from, new)
  IN  lines' = lines \o placed.out /\ byteOffset' = placed.at

\* at most one line is skipped in a chunk: the one under way when it begins
onChunk(chunk) ==
  LET w == pushDetailed(chunk)
  IN  /\ Len(text) + Len(chunk) <= MaxLength
      /\ text' = text \o chunk
      /\ sp' = w.sp
      /\ Told(w.drops)
      /\ Ingest(byteOffset + BytesOf(w.drops) + w.leading, w.lines)

Parses(s) == \E n \in 1..Len(s) : s[n] = "e" /\ \A m \in n + 1 .. Len(s) : s[m] = CR

\* mutated form: the report at the boundary forgets the bytes it reported
checkpointKeeps(splitter) == splitter

checkpoint(splitter) == [splitter EXCEPT !.skipBytes = 0]

\* a last line without a newline is taken when it parses
finalizeIf(splitter) ==
  LET ends == splitter.buf # <<>> /\ Parses(splitter.buf)
  IN  [splitter |-> [splitter EXCEPT !.buf = IF ends THEN <<>> ELSE @, !.finalizedAtEof = @ \/ ends],
       out      |-> IF ends THEN <<[text |-> splitter.buf, terminatorBytes |-> 0]>> ELSE <<>>]

\* the file was read to its end: what was skipped so far is accounted for
onInitialReadComplete ==
  LET skipped == sp.skipping /\ sp.skipBytes > 0
      last    == finalizeIf(IF sp.skipping THEN checkpoint(sp) ELSE sp)
  IN  /\ sp' = last.splitter
      /\ Told(IF skipped THEN << <<sp.skipBytes, 0>> >> ELSE <<>>)
      /\ Ingest(byteOffset + (IF skipped THEN sp.skipBytes ELSE 0), last.out)
      /\ UNCHANGED text

reset == NewSplitter

\* a rotation: another file, from its beginning
onReset ==
  /\ text' = <<>> /\ sp' = reset /\ byteOffset' = 0 /\ lines' = <<>>
  /\ warning' = FALSE /\ told' = 0

-----------------------------------------------------------------------------

Init ==
  /\ text = <<>> /\ sp = NewSplitter /\ byteOffset = 0 /\ lines = <<>>
  /\ warning = FALSE /\ told = 0

\* a record is followed by a line feed, alone or after a carriage return
IsLog(s) ==
  \A i \in 1 .. Len(s) - 1 : s[i] = "e" =>
    \/ s[i + 1] = LF
    \/ s[i + 1] = CR /\ (i + 2 <= Len(s) => s[i + 2] = LF)

Chunks == UNION {[1..n -> Char] : n \in 0..MaxChunk}

Next ==
  \/ \E chunk \in Chunks : IsLog(text \o chunk) /\ onChunk(chunk)
  \/ onInitialReadComplete
  \/ onReset

Spec == Init /\ [][Next]_vars

-----------------------------------------------------------------------------
(* Properties, against the lines of the text split at once.                *)

\* the ended lines of the file: their offset, and their text with a CR if any
FirstChar == IF Starts(text, <<BOM>>) THEN 2 ELSE 1
Begins(n) == IF n = 1 THEN FirstChar ELSE LineEnds(text)[n - 1] + 1
Ended ==
  {[at |-> utf8ByteLength(SubSeq(text, 1, Begins(n) - 1)),
    text |-> SubSeq(text, Begins(n), LineEnds(text)[n] - 1)] : n \in DOMAIN LineEnds(text)}

\* a line taken at the end of the file may have kept the CR of its terminator
IsLine(ingested, line) ==
  /\ ingested.at = line.at
  /\ \/ ingested.text = Line(line.text).text
     \/ ingested.text = line.text /\ Parses(line.text)

Ingested(line) == \E n \in DOMAIN lines : IsLine(lines[n], line)

\* Every byte read is before the offset of the next line, or held by the
\* splitter, however the file was cut into chunks, lines skipped and read to its
\* end: no offset a detail or a replay refers to drifts.
BytesAccounted ==
  byteOffset + utf8ByteLength(sp.buf) + sp.skipBytes
    + (IF sp.skipPendingCr \/ sp.finalizedPendingCr THEN 1 ELSE 0)
  = utf8ByteLength(text)

\* The lines ingested are lines of the file, each once, in order and at its own
\* offset, and none that fits the buffer is missing: neither a chunk boundary
\* in a terminator, nor an oversized line before it, nor a last line taken
\* early costs, splits, repeats or moves a line.
LinesAsInFile ==
  /\ \A line \in Ended : Len(line.text) <= MAX_BUF_BYTES => Ingested(line)
  /\ \A m, n \in DOMAIN lines : m < n => lines[m].at < lines[n].at
  /\ \A n \in DOMAIN lines :
       \/ \E line \in Ended : IsLine(lines[n], line)
       \/ n = Len(lines) /\ sp.finalizedAtEof

\* The reader is told of every oversized line that is skipped, once, by the time
\* its end is seen, though its bytes may be reported in two parts.
OversizedToldOnce ==
  told = Cardinality({line \in Ended : ~Ingested(line)}) + (IF warning THEN 1 ELSE 0)

\* Lines, offsets and warnings are those of the text split at once.
SplitIsExact == LinesAsInFile /\ BytesAccounted /\ OversizedToldOnce

=============================================================================
