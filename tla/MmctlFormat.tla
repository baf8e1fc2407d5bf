----------------------------- MODULE MmctlFormat -----------------------------
(***************************************************************************)
(* How mmctl lays out what it prints (cmd/mmctl/format.go): rows with values *)
(* at columns (mmlsfs, mmlsfileset) or in fields of a width (mmlsquota,      *)
(* mmrepquota), and the colon-delimited records of -Y.  A row is the         *)
(* sequence of its characters: 0 for a space, and a mark of the value, its   *)
(* place in the row, for each of its characters.                            *)
(***************************************************************************)
EXTENDS Integers, Concatenation

Space == 0
Spaces(n) == [i \in 1..n |-> Space]
Text(mark, n) == [i \in 1..n |-> mark]

padTo(l, col) == l \o Spaces(col - Len(l))

\* At its column, or one space after what overruns it.
at(l, col, s) ==
  LET start == IF l # <<>> /\ col <= Len(l) THEN Len(l) + 1 ELSE col
  IN  padTo(l, start) \o s

\* Ending at a column.
rightAt(l, end, s) == at(l, end - Len(s), s)

\* In a field of a width, to its left, with a space after what fills it.
cell(l, width, s) ==
  IF Len(s) >= width THEN l \o s \o <<Space>> ELSE padTo(l \o s, Len(l) + width)

\* To its right, with a space before what fills it.
rcell(l, width, s) ==
  IF Len(s) >= width THEN l \o <<Space>> \o s
  ELSE padTo(l, Len(l) + width - Len(s)) \o s

-----------------------------------------------------------------------------
(* -Y records *)

\* The characters that are escaped somewhere, and their codes; "\n" stands for
\* every character below the space.
Code == [c \in {":", "%", "/", "-", "\n"} |->
           IF c = ":" THEN <<"3", "A">> ELSE IF c = "%" THEN <<"2", "5">>
           ELSE IF c = "/" THEN <<"2", "F">> ELSE IF c = "-" THEN <<"2", "D">> ELSE <<"0", "A">>]

yEncodeChars(s, escape) ==
  Flat([i \in DOMAIN s |-> IF s[i] \in escape THEN <<"%">> \o Code[s[i]] ELSE <<s[i]>>])

\* Mutant of yEncode: only the separator is escaped.
yEncodeColon(s) == yEncodeChars(s, {":", "\n"})

yEncode(s) == yEncodeChars(s, {"%", ":", "\n"})

\* Paths are escaped more heavily.
yEncodePath(s) == yEncodeChars(s, {"%", ":", "/", "-", "\n"})

\* printRow, without the fields before the values; paths are the fields that
\* hold a path.
printRow(values, paths) ==
  Flat([i \in DOMAIN values |->
                (IF i \in paths THEN yEncodePath(values[i]) ELSE yEncode(values[i])) \o <<":">>])
=============================================================================
