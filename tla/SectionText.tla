------------------------------ MODULE SectionText ------------------------------
(* The text of a section on its way to the model: the parser cuts its blocks   *)
(* into chunks, the corpus keeps the chunks as numbered parts, and a reader    *)
(* gets them page by page.                                                     *)
(*                                                                             *)
(* A text is a sequence of lines, joined by newlines.  Of a line only what the *)
(* code tells apart is kept: its kind (prose, or the header, the separator, a  *)
(* row of a table, or a piece of one whose cells no longer add up), where it   *)
(* comes from (a line of the section and an offset in it) and its length.      *)
EXTENDS Naturals, Sequences, FiniteSets, SequencesExt

CONSTANTS
  MaxChunkChars,   \* the parser's max_chars
  LastCell         \* the length of the last cell of a table's row

ASSUME ChunkAssumption == MaxChunkChars \in Nat \ {0} /\ LastCell \in Nat

Least(a, b)    == IF a < b THEN a ELSE b
Greatest(a, b) == IF a < b THEN b ELSE a

Kinds == {"prose", "head", "separator", "row", "broken"}
Lines == [kind : Kinds, id : Nat, from : Nat, size : Nat]
Texts == Seq(Lines)
Blank == [kind |-> "prose", id |-> 0, from |-> 0, size |-> 0]

(* Where line i of a text begins and ends, and the length of the whole.        *)
LineStart(t, i) ==
  LET start[k \in 1..i] == IF k = 1 THEN 0 ELSE start[k - 1] + t[k - 1].size + 1
  IN start[i]
LineEnd(t, i)   == LineStart(t, i) + t[i].size
Chars(t)        == IF t = <<>> THEN 0 ELSE LineEnd(t, Len(t))

Joined(t, u) == IF t = <<>> THEN u ELSE t \o <<Blank>> \o u

(* A block of a section: lines of prose, or a table, whose header is its first *)
(* line or comes after a caption and a blank line.                             *)
InProse(lines) == \A i \in DOMAIN lines : lines[i].kind = "prose"
InTable(lines) ==
  \E h \in 1..(Len(lines) - 1) :
    /\ lines[h].kind = "head"
    /\ \A i \in 1..(h - 1) : lines[i].kind = "prose"
    /\ h = 1 \/ (h > 2 /\ lines[h - 1] = Blank)
Blocks == {t \in Texts : t # <<>> /\ (InProse(t) \/ InTable(t))}

Origin(line)  == {<<line.id, line.from + k>> : k \in 0..(line.size - 1)}
Origins(t)    == UNION {Origin(t[i]) : i \in DOMAIN t}

-------------------------------------------------------------------------------
(* The parser.  A block that fits is left alone.                               *)

(* The characters of a text from one place to another: of each line what is    *)
(* between them, and nothing of one that they only touch.                      *)
Window(t, a, b) ==
  LET lines == {i \in DOMAIN t : LineStart(t, i) <= b /\ a <= LineEnd(t, i)}
      Held(i) ==
        LET start == Greatest(a, LineStart(t, i))
        IN [t[i] EXCEPT !.from = @ + (start - LineStart(t, i)),
                        !.size = Least(b, LineEnd(t, i)) - start]
  IN [k \in 1..Cardinality(lines) |-> Held(Min(lines) + k - 1)]

(* Prose is cut wherever a piece is full.                                      *)
SplitText(text) ==
  [p \in 1..((Chars(text) + MaxChunkChars - 1) \div MaxChunkChars) |->
     Window(text, (p - 1) * MaxChunkChars, Least(p * MaxChunkChars, Chars(text)))]

(* Every piece of a table begins with its header and its separator, and has a  *)
(* row at least, however long.  A caption is taken for two lines: it is one    *)
(* and the blank line below it, or else what is repeated is not the header.    *)
SplitTable(table) ==
  LET header == SubSeq(table, 1, IF table[1].kind = "head" THEN 2 ELSE 4)
      Add(s, row) ==
        IF s.rows # <<>> /\ Chars(header \o s.rows \o <<row>>) > MaxChunkChars
        THEN [parts |-> Append(s.parts, header \o s.rows), rows |-> <<row>>]
        ELSE [s EXCEPT !.rows = Append(@, row)]
      end == FoldLeft(Add, [parts |-> <<>>, rows |-> <<>>],
                      SubSeq(table, Len(header) + 1, Len(table)))
  IN IF Chars(table) <= MaxChunkChars \/ Len(table) <= Len(header) + 1
     THEN <<table>>
     ELSE Append(end.parts, header \o end.rows)

Pieces(block) ==
  IF InProse(block) THEN SplitText(block) ELSE SplitTable(block)

(* The pieces of a section's blocks, put together while they fit.              *)
AddPiece(groups, piece) ==
  IF groups # <<>> /\ Chars(Joined(Last(groups), piece)) <= MaxChunkChars
  THEN [groups EXCEPT ![Len(groups)] = Joined(@, piece)]
  ELSE Append(groups, piece)

AddBlock(groups, block) == FoldLeft(AddPiece, groups, Pieces(block))
Chunks(blocks)          == FoldLeft(AddBlock, <<>>, blocks)

-------------------------------------------------------------------------------
(* The readers.                                                                *)

(* What is left of a line whose end was cut off.  A row that lost no more than *)
(* a part of its last cell still has all its cells.                            *)
CutLine(line, n) ==
  [line EXCEPT !.size = n,
               !.kind = IF @ = "prose" \/ n = line.size THEN @
                        ELSE IF @ = "row" /\ line.size - n < LastCell THEN @
                        ELSE "broken"]

(* The first n characters of a text.                                           *)
Prefix(t, n) ==
  LET lines == {i \in DOMAIN t : LineStart(t, i) < n \/ (i = 1 /\ n > 0)}
  IN [i \in 1..Cardinality(lines) |->
        CutLine(t[i], Least(t[i].size, n - LineStart(t, i)))]

(* What the corpus keeps of a path: a row for each chunk, with its number in   *)
(* the occurrence of the path that it is of.  The rows of a file are read in   *)
(* the order of these numbers, its occurrences side by side, and the files of  *)
(* a document one after another.                                               *)
InFile(file) ==
  LET chunks  == [o \in DOMAIN file |-> Chunks(file[o])]
      longest == Max({Len(chunks[o]) : o \in DOMAIN file} \cup {0})
      At(p, o) == IF p <= Len(chunks[o]) THEN <<[part |-> p, text |-> chunks[o][p]]>> ELSE <<>>
  IN FlattenSeq([p \in 1..longest |-> FlattenSeq([o \in DOMAIN file |-> At(p, o)])])

Rows(files) == FlattenSeq([f \in DOMAIN files |-> InFile(files[f])])

(* A row from the part asked for on is put on a page, as far as that has room. *)
AddPart(rows, partFrom, maxChars, s, k) ==
  LET separator == IF s.parts = <<>> THEN 0 ELSE 1
      text      == Prefix(rows[k].text, maxChars - (s.used + separator))
  IN IF rows[k].part < partFrom THEN s
     ELSE IF s.full \/ maxChars <= s.used + separator THEN [s EXCEPT !.full = TRUE]
     ELSE [parts |-> Append(s.parts, [part |-> rows[k].part, source |-> k, text |-> text]),
           used  |-> s.used + separator + Chars(text),
           full  |-> Chars(text) < Chars(rows[k].text)]

PartsFrom(rows, partFrom, maxChars) ==
  FoldLeft(LAMBDA s, k : AddPart(rows, partFrom, maxChars, s, k),
           [parts |-> <<>>, used |-> 0, full |-> FALSE], [k \in DOMAIN rows |-> k]).parts

PageOf(parts, rows, left) ==
  [parts     |-> parts,
   truncated |-> left # {},
   nextPart  |-> IF left = {} THEN 0 ELSE rows[Min(left)].part]

(* Mutant: a page goes on after its last part, even one that it cut.           *)
ReadSectionPast(rows, partFrom, maxChars) ==
  LET parts == PartsFrom(rows, partFrom, maxChars)
      begun == {parts[i].source : i \in DOMAIN parts}
  IN PageOf(parts, rows, {k \in DOMAIN rows : rows[k].part >= partFrom /\ k \notin begun})

(* One page of a section: the rows from a part on, until the page is full or a *)
(* row had to be cut, with the number of the part to go on from: that of the   *)
(* first row that it does not have whole.                                      *)
ReadSection(rows, partFrom, maxChars) ==
  LET parts == PartsFrom(rows, partFrom, maxChars)
      whole == {parts[i].source : i \in {j \in DOMAIN parts : parts[j].text = rows[parts[j].source].text}}
  IN PageOf(parts, rows, {k \in DOMAIN rows : rows[k].part >= partFrom /\ k \notin whole})

(* The profile route goes on to a second page, which must end the section and  *)
(* repeats the part that the first one cut.                                    *)
JoinPages(first, second) ==
  LET n == Len(first.parts)
      Numbered(parts, from) == \A i \in DOMAIN parts : parts[i].part = from + i - 1
  IN IF /\ first.truncated /\ first.parts # <<>> /\ Numbered(first.parts, 1)
        /\ first.nextPart \in {n, n + 1}
        /\ second.parts # <<>> /\ Numbered(second.parts, first.nextPart)
        /\ first.nextPart = n => Origins(first.parts[n].text) \subseteq Origins(second.parts[1].text)
        /\ ~second.truncated
     THEN SubSeq(first.parts, 1, first.nextPart - 1) \o second.parts
     ELSE <<>>
===============================================================================
