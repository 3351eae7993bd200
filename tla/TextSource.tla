------------------------------- MODULE TextSource -------------------------------
(***************************************************************************)
(* How a text file of unknown origin is read (textdecode.py): which        *)
(* encoding is chosen for it, and how its lines are cut out of bounded     *)
(* reads.  A text is a sequence of characters; of the bytes of a file only *)
(* what the choice of the encoding looks at is kept.                       *)
(***************************************************************************)
EXTENDS Integers, SequencesExt, FiniteSetsExt

CONSTANTS
    ReadSize,      \* _DECODE_CHUNK_SIZE
    MaxLine        \* MAX_TEXT_RECORD_CHARS

ASSUME TextAssumption == ReadSize \in Nat \ {0} /\ MaxLine \in Nat \ {0}

Latin1 == "latin-1"

(***************************************************************************)
(* Encodings.  bytes.bom: the file starts with a UTF-16 mark; bytes.lanes: *)
(* its head has the NUL lanes of UTF-16 text; bytes.valid: the encodings   *)
(* in which the whole file decodes strictly.                               *)
(***************************************************************************)
FileBytes == [bom : BOOLEAN, lanes : BOOLEAN, valid : SUBSET {"utf-16", "utf-8-sig", "gb18030"}]
PlainUtf8 == [bom |-> FALSE, lanes |-> FALSE, valid |-> {"utf-8-sig", "gb18030"}]

Utf16Encoding(bytes, requiresBom) == bytes.bom \/ (~requiresBom /\ bytes.lanes)

EncodingCandidates(bytes, requiresBom) ==
    (IF Utf16Encoding(bytes, requiresBom) THEN <<"utf-16">> ELSE <<>>) \o <<"utf-8-sig", "gb18030">>

FirstValid(bytes, candidates, skipped) ==
    LET decodes == {k \in DOMAIN candidates : candidates[k] \in bytes.valid \ skipped}
    IN  IF decodes = {} THEN Latin1 ELSE candidates[Min(decodes)]

ValidatedEncoding(bytes, requiresBom, skipUtf8) ==
    FirstValid(bytes, EncodingCandidates(bytes, requiresBom), IF skipUtf8 THEN {"utf-8-sig"} ELSE {})

(* The single pass that hashes the file validates UTF-8 on the way.        *)
PreparedEncoding(bytes, requiresBom) ==
    LET utf8 == "utf-8-sig" \in bytes.valid
    IN  IF utf8 /\ ~Utf16Encoding(bytes, requiresBom)
        THEN "utf-8-sig" ELSE ValidatedEncoding(bytes, requiresBom, ~utf8)

(***************************************************************************)
(* Lines: str.splitlines of Python, for a text of line feeds, carriage     *)
(* returns and other characters.  A line is complete with its line feed,   *)
(* or when a character other than that follows a carriage return.          *)
(***************************************************************************)
Breaks == {"cr", "lf"}
EndsInCr(s) == s # <<>> /\ Last(s) = "cr"

Ending(line) ==
    IF line = <<>> \/ Last(line) \notin Breaks THEN 0
    ELSE IF Last(line) = "lf" /\ Len(line) > 1 /\ line[Len(line) - 1] = "cr" THEN 2 ELSE 1
Width(line) == Len(line) - Ending(line)
Content(line) == SubSeq(line, 1, Width(line))

LineStep(divided, c) ==
    IF c # "lf" /\ EndsInCr(divided.open) THEN [lines |-> Append(divided.lines, divided.open), open |-> <<c>>]
    ELSE IF c = "lf" THEN [lines |-> Append(divided.lines, Append(divided.open, c)), open |-> <<>>]
    ELSE [lines |-> divided.lines, open |-> Append(divided.open, c)]

Divided(text) == FoldLeft(LineStep, [lines |-> <<>>, open |-> <<>>], text)
EveryLine(divided) == IF divided.open = <<>> THEN divided.lines ELSE Append(divided.lines, divided.open)

Shown(lines, keepends) == IF keepends THEN lines ELSE [k \in DOMAIN lines |-> Content(lines[k])]
SplitLines(text, keepends) == Shown(EveryLine(Divided(text)), keepends)

(* The lines before the first that is too long, and whether there is one.  *)
UpToLimit(lines) ==
    LET long == {k \in DOMAIN lines : Width(lines[k]) > MaxLine}
    IN  [lines |-> IF long = {} THEN lines ELSE SubSeq(lines, 1, Min(long) - 1), long |-> long # {}]

(***************************************************************************)
(* iter_text_lines: reads of ReadSize characters, then an empty one.  A    *)
(* carriage return at the end of a read waits for the next one; the line   *)
(* that a read leaves open is kept in part.                                *)
(***************************************************************************)
Reads(text) ==
    [k \in 1..((Len(text) + ReadSize - 1) \div ReadSize) + 1 |->
        SubSeq(text, (k - 1) * ReadSize + 1, IF k * ReadSize < Len(text) THEN k * ReadSize ELSE Len(text))]

(* Mutant: a carriage return ends its line at once.                        *)
NeverHeld(seen, eof) == FALSE

Held(seen, eof) == ~eof /\ EndsInCr(seen)

(* The lines a chunk ends, and the one it leaves open.                     *)
Pieces(chunk, cut) ==
    IF chunk # <<>> /\ Last(chunk) \notin Breaks THEN [whole |-> Front(cut), tail |-> Last(cut)]
    ELSE [whole |-> cut, tail |-> <<>>]

Joined(part, whole) == IF part = <<>> \/ whole = <<>> THEN whole ELSE <<part \o Head(whole)>> \o Tail(whole)

(* Only a line that was joined, or one of a long chunk, can be too long.   *)
Yielded(joined, grown, long) ==
    IF long \/ (grown /\ joined # <<>> /\ Width(Head(joined)) > MaxLine) THEN UpToLimit(joined)
    ELSE [lines |-> joined, long |-> FALSE]

AfterRead(state, carry, eof, part, yielded) ==
    [lines |-> state.lines \o yielded.lines \o (IF eof /\ part # <<>> THEN <<part>> ELSE <<>>),
     part |-> part, carry |-> carry, long |-> yielded.long \/ Len(part) > MaxLine]

TakeChunk(state, chunk, carry, eof, pieces) ==
    AfterRead(state, carry, eof,
              IF pieces.whole = <<>> THEN state.part \o pieces.tail ELSE pieces.tail,
              Yielded(Joined(state.part, pieces.whole), state.part # <<>>, MaxLine < Len(chunk)))

CutChunk(state, chunk, carry, eof, keepends) ==
    TakeChunk(state, chunk, carry, eof, Pieces(chunk, SplitLines(chunk, keepends)))

TakeRead(state, seen, eof, keepends) ==
    IF Held(seen, eof) THEN CutChunk(state, Front(seen), <<"cr">>, eof, keepends)
    ELSE CutChunk(state, seen, <<>>, eof, keepends)

ReadStep(state, read, keepends) ==
    IF state.long THEN state ELSE TakeRead(state, state.carry \o read, read = <<>>, keepends)

IterTextLines(text, keepends) ==
    LET end == FoldLeft(LAMBDA state, read : ReadStep(state, read, keepends),
                        [lines |-> <<>>, part |-> <<>>, carry |-> <<>>, long |-> FALSE], Reads(text))
    IN  [lines |-> end.lines, long |-> end.long]

(* What a parser meets in a text, by its lines: a record, one the native   *)
(* parser has no support for (alien), a line of another format (reject),   *)
(* and the end that a line too long puts to the reader.                    *)
Parsed(text) ==
    LET read == IterTextLines(text, FALSE)
        item(line) == [kind |-> IF "reject" \in ToSet(line) THEN "reject"
                                ELSE IF "alien" \in ToSet(line) THEN "alien" ELSE "row",
                       size |-> Len(line)]
        lines == SelectSeq(read.lines, LAMBDA line : line # <<>>)
    IN  [k \in DOMAIN lines |-> item(lines[k])] \o (IF read.long THEN <<[kind |-> "stop", size |-> 0]>> ELSE <<>>)

(* However the reads fall, the lines are those of the whole text, up to    *)
(* the first that is too long, with and without their ends.                *)
LinesAreSplitLines(text) ==
    \A keepends \in BOOLEAN : IterTextLines(text, keepends) = UpToLimit(SplitLines(text, keepends))

(* The encoding found while hashing is the one the parser would find on    *)
(* its own, and Latin-1 is chosen only when nothing else decodes the file. *)
EncodingAgrees(bytes) ==
    \A requiresBom \in BOOLEAN :
        LET e == PreparedEncoding(bytes, requiresBom)
        IN  /\ e = ValidatedEncoding(bytes, requiresBom, FALSE)
            /\ e = Latin1 => bytes.valid \cap {"utf-8-sig", "gb18030"} = {}
=================================================================================
