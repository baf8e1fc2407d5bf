------------------------------ MODULE MmctlLines ------------------------------
(***************************************************************************)
(* The two ends of mmctl.  An operator composes a command line, one operand  *)
(* or option at a time, in any order and any form, and calls mmctl by its    *)
(* own name or by a link named after the command: what the line means is     *)
(* read off its items; what mmctl makes of it (MmctlArgs, MmctlCommands),    *)
(* off the arguments they are written as.  Or mmctl composes what it prints  *)
(* (MmctlFormat), one value at a time, and a reader takes it apart.          *)
(***************************************************************************)
EXTENDS MmctlCommands, MmctlFormat

CONSTANTS
  MaxItems,  \* bound on the operands and options of a line, by command
  Operands,  \* what operands are written as, by command
  Values,    \* what option values are written as, by command
  Widths,    \* of columns, less the two beside each, and of fields
  Characters, \* what is printed is made of
  MaxText    \* bounds on the lengths of the values of a row

VARIABLES
  cmd,    \* the command
  link,   \* called by a link of its name
  items,  \* the operands and options, in order
  tail,   \* what follows "--", as <<>> or <<operands>>
  printed \* the values printed: their <<column or width, text>>

line == <<cmd, link, items, tail>>
vars == <<cmd, link, items, tail, printed>>

Gateway == INSTANCE Policy

\* An empty value is never attached to a short option, which would be written
\* like the option alone.  mmsetquota has its checks in MmctlSetquota.
ASSUME LinesAssumption ==
  /\ DOMAIN MaxItems \subseteq CommandName \ {"mmsetquota"}
  /\ Operands \in [CommandName -> SUBSET STRING]
  /\ DOMAIN Values = CommandName
  /\ \A c \in CommandName : \A v \in Values[c] : v.name \in STRING \ {""}
  /\ Widths \subseteq Nat
  /\ MaxText \in Seq(Nat)

-----------------------------------------------------------------------------
(* Command lines *)

Item(kind, name, val, form) == [kind |-> kind, name |-> name, val |-> val, form |-> form]

\* Everything the operator may write next: an operand, an option alone, an
\* option with a value in either form, an option the command has not, and -h.
Items(c) ==
  {Item("operand", "", Word(w), "") : w \in Operands[c]}
    \cup {Item("flag", n, Word(""), "") : n \in lookup(c).flags}
    \cup {Item("value", x[1], x[2], x[3]) : x \in lookup(c).values \X Values[c] \X {"joined", "apart"}}
    \cup {Item("wrong", "-x", Word(""), ""), Item("help", "-h", Word(""), "")}

LongName ==
  {"--block-size", "--inode-space", "--inode-limit", "--allow-permission-change", "--user",
   "--group", "--block", "--files", "--default", "--grace", "--perfileset-quota",
   "--filesetdf", "--create-time", "--fastea", "--encryption", "--uid", "--log-replicas",
   "--is4KAligned", "--rapid-repair", "--write-cache-threshold", "--file-audit-log",
   "--mount-priority"}
Option(n, v) == IF n \in LongName THEN Long(n, v) ELSE Short(n, v)

Written(it) ==
  IF it.kind = "operand" THEN <<it.val>>
  ELSE IF it.kind # "value" THEN <<Option(it.name, Nothing)>>
  ELSE IF it.form = "joined" THEN <<Option(it.name, <<it.val>>)>>
  ELSE <<Option(it.name, Nothing), it.val>>

Called == IF link THEN <<Word(cmd)>> ELSE <<Word("mmctl"), Word(cmd)>>
Arguments(its) == Flat([i \in DOMAIN its |-> Written(its[i])])
AfterOptions == IF tail = <<>> THEN <<>> ELSE <<DoubleDash>> \o tail[1]

Line == Called \o (Arguments(items) \o AfterOptions)

-----------------------------------------------------------------------------
Init ==
  /\ cmd \in DOMAIN MaxItems
  /\ link \in BOOLEAN
  /\ items = <<>>
  /\ tail = <<>>
  /\ printed = <<>>

Compose ==
  /\ tail = <<>> /\ printed = <<>>
  /\ Len(items) < MaxItems[cmd]
  /\ \E it \in Items(cmd) : items' = Append(items, it)
  /\ UNCHANGED <<cmd, link, tail, printed>>

\* "--" and two operands that look like options.
EndOptions ==
  /\ tail = <<>> /\ printed = <<>>
  /\ Len(items) < MaxItems[cmd]
  /\ \E v \in Values[cmd] : tail' = <<<<v, Short("-Y", Nothing)>>>>
  /\ UNCHANGED <<cmd, link, items, printed>>

\* A value, at a column or in a field right of the last.
PrintValue ==
  /\ cmd = "mmlsfs" /\ link /\ items = <<>> /\ tail = <<>>
  /\ Len(printed) < Len(MaxText)
  /\ \E width \in Widths, text \in SeqOf(Characters, MaxText[Len(printed) + 1]) :
       printed' = Append(printed, <<width, text>>)
  /\ UNCHANGED line

Next == Compose \/ EndOptions \/ PrintValue

Spec == Init /\ [][Next]_vars

-----------------------------------------------------------------------------
(* Properties of command lines *)

Kinds == {it.kind : it \in Range(items)}
Given(n) == \E it \in Range(items) : it.name = n
Set == {it.name : it \in {x \in Range(items) : x.kind \in {"flag", "value"}}}

\* The last of the items that give an option a value.
Settles(its, i) ==
  /\ its[i].kind = "value"
  /\ \A j \in (i + 1)..Len(its) : ~(its[j].kind = "value" /\ its[j].name = its[i].name)

\* The operands of the line, as meant.
Meant(its) == Flat([i \in DOMAIN its |-> IF its[i].kind = "operand" THEN <<its[i].val>> ELSE <<>>])
MeantOperands == Meant(items) \o (IF tail = <<>> THEN <<>> ELSE tail[1])

\* -h or --help stands alone somewhere on the line, as an option, as the value
\* of another or as an operand.
HelpStandsAlone ==
  \/ "help" \in Kinds
  \/ \E it \in Range(items) : it.kind = "value" /\ it.form = "apart" /\ it.val \in HelpOption
  \/ tail # <<>> /\ Range(tail[1]) \cap HelpOption # {}

\* main's account of a line is what its items mean: options may stand before,
\* between or after the operands, a value may be attached or apart, the last
\* of several values counts, what follows "--" is an operand, a link named
\* after the command is the command, and a line with an option the command
\* has not is never run.  The search for help comes first and takes any
\* argument for it, even a user named "-h" (args.go:8-14, 111, main.go:92-112).
ReadAsMeant ==
  LET m == main(Line) IN
  IF HelpStandsAlone
  THEN m.does = "synopsis" /\ m.cmd = cmd
  ELSE IF "wrong" \in Kinds
  THEN m.does = "usageError"
  ELSE /\ m.does = "run"
       /\ m.cmd = cmd
       /\ m.operands = MeantOperands
       /\ Range(m.order) = Set
       /\ DOMAIN m.vals = {it.name : it \in {x \in Range(items) : x.kind = "value"}}
       /\ \A i \in DOMAIN items : Settles(items, i) => m.vals[items[i].name] = items[i].val

\* mmlsfs prints each row of each attribute it is asked for once, however
\* often its option is repeated, mount attributes after all others and
\* otherwise in the order they were first asked for.
AttributesOnce ==
  LET m == main(Line)
      rows == selectFsAttrs(m.order)
      asked == Set \ {"-Y"}
      \* a is first asked for before b is, or is b.
      Sooner(a, b) ==
        \E i \in DOMAIN items :
          items[i].name = a[1] /\ \A j \in 1..i : items[j].name = b[1] => i = j
      Before(a, b) ==
        \/ a[1] \notin mountOptions /\ b[1] \in mountOptions
        \/ (a[1] \in mountOptions) = (b[1] \in mountOptions) /\ Sooner(a, b)
  IN  cmd = "mmlsfs" /\ m.does = "run" =>
        /\ \A i, j \in DOMAIN rows : rows[i] = rows[j] => i = j
        /\ Range(rows) = {a \in Range(fsAttrs) : asked = {} \/ a[1] \in asked}
        /\ asked # {} => \A i, j \in DOMAIN rows : i < j => Before(rows[i], rows[j])

Runs(m) == m.does = "run" /\ ~Refuses(cmd, m)

\* A device or a fileset in one; neither, when a part is missing.
PlainDevice(a) == a.name \notin DOMAIN Colon
GoodOperand(a) == a.name # "" /\ (a.name \in DOMAIN Colon => "" \notin Range(Colon[a.name]))

\* The value that counts of an option, if any, is one of S.
SettledIn(n, S) == \A i \in DOMAIN items : Settles(items, i) /\ items[i].name = n => items[i].val.name \in S

\* Limits with something in S after a number and a ":".
CutLimits(S) == {w \in DOMAIN Colon : Colon[w][1] \in InodeCounts /\ Colon[w][2] \in S}

\* What the synopsis says of limits, of block sizes and of quota targets.
Counted == SettledIn("--inode-limit", InodeCounts)
Sized == SettledIn("--block-size", Sizes)
Devices == \A i \in DOMAIN MeantOperands : PlainDevice(MeantOperands[i])
QuotaTargetsGood == Sized /\ \A i \in DOMAIN MeantOperands : GoodOperand(MeantOperands[i])
OneOf(S) == \A a, b \in S : Given(a) /\ Given(b) => a = b

\* The synopsis of each command, for n operands.
Synopsis(n) ==
  \/ cmd \in {"mmlscluster", "mmlstoken"} /\ n = 0
  \/ cmd \in {"mmlsfs", "mmcrtoken", "mmdeltoken"} /\ n = 1
  \/ cmd = "mmlsfileset" /\ n \in 1..2
  \/ cmd \in {"mmdelfileset", "mmlinkfileset"} /\ n = 2
  \/ cmd = "mmcrfileset" /\ n = 2 /\ Counted
  \/ cmd = "mmchfileset" /\ n = (IF Given("-J") THEN 1 ELSE 2) /\ Counted
  \/ cmd = "mmunlinkfileset" /\ n = IF Given("-J") THEN 1 ELSE 2
  \/ cmd = "mmlsquota" /\ QuotaTargetsGood /\ OneOf({"-u", "-g", "-j"}) /\ (Given("-j") => n > 0 /\ Devices)
  \/ /\ cmd = "mmrepquota" /\ QuotaTargetsGood /\ (Given("-a") <=> n = 0)
     /\ Given("-j") => ~Given("-u") /\ ~Given("-g") /\ Devices

\* Lines no synopsis has and mmctl runs all the same: more operands than the
\* command has, -J beside a name or alone for mmlinkfileset, a limit with a
\* second number, which mmcrfileset takes and mmchfileset ignores, whatever it
\* is, mmlsquota -j of every file system, and mmrepquota -j of a fileset.
Lenient(n) ==
  \/ cmd \in {"mmlsfs", "mmcrtoken", "mmdeltoken"} /\ n > 1
  \/ cmd \in {"mmlsfileset", "mmdelfileset", "mmlinkfileset"} /\ n > 2
  \/ /\ cmd = "mmcrfileset" /\ n >= 2
     /\ SettledIn("--inode-limit", InodeCounts \cup CutLimits(InodeCounts \cup {""}))
  \/ /\ cmd = "mmchfileset" /\ (n >= 2 \/ (n = 1 /\ Given("-J")))
     /\ SettledIn("--inode-limit", InodeCounts \cup CutLimits(STRING))
  \/ cmd = "mmunlinkfileset" /\ n >= 2
  \/ cmd = "mmlinkfileset" /\ n = 1 /\ Given("-J")
  \/ cmd = "mmlsquota" /\ Given("-j") /\ n = 0 /\ OneOf({"-u", "-g", "-j"}) /\ Sized
  \/ /\ cmd = "mmrepquota" /\ Given("-j") /\ ~Given("-u") /\ ~Given("-g") /\ n > 0 /\ ~Given("-a")
     /\ QuotaTargetsGood

\* Each command runs the lines of its synopsis, and beyond them only those of
\* Lenient; a mmchfileset that changes nothing is the one line of a synopsis
\* refused (the usage of each command against its checks: quota.go:317-372,
\* 432-467, fileset.go:84-103, 310-431, 509-525, token.go:14-35, 110-121).  The
\* lines of RefusesLater are refused unless what is read first fails.
RunsItsSynopsis ==
  LET m == main(Line)
      n == Len(MeantOperands)
      idle == cmd = "mmchfileset" /\ ~(\E a \in Attributes : Given(a))
  IN  m.does = "run" => (Runs(m) <=> (Synopsis(n) \/ Lenient(n)) /\ ~idle)

\* Every request a line leads to is one the gateway forwards with no optional
\* feature on ("what the ... CSI driver and mmctl call", policy.go:38-41), but
\* for those with a name that means another place in a path; and one that
\* changes something is charged to the line's own Device, and is none of a line
\* that is refused.
WithinAllowlist ==
  LET m == main(Line) IN
  m.does = "run" =>
    \A rq \in Requests(cmd, m) :
      LET path == [root |-> "v2", segs |-> rq[2]] IN
      /\ Gateway!allows({}, rq[1], path) <=> Range(rq[2]) \cap Gateway!Unresolved = {}
      /\ rq[1] # "GET" => Gateway!extractFS(path) = MeantOperands[1].name /\ ~Refuses(cmd, m)

\* What an operand names, for the command: a Device or a Device and a fileset
\* in it, several names, every file system, or what it says.
Named(m, i) ==
  LET w == MeantOperands[i].name IN
  IF cmd \in {"mmlsquota", "mmrepquota"} THEN Range(Parts(Colon, w))
  ELSE IF cmd = "mmcrtoken" \/ (cmd = "mmlsfileset" /\ i > 1) THEN Range(splitList(w))
  ELSE IF cmd = "mmlsfs" /\ w \in {"all", "all_local"} /\ FilesystemsShown(m) # Unknown THEN DOMAIN Gui
  ELSE {w}

\* What a command does something about: what its requests name, and what it
\* shows or says it cannot find.
Heeded(m) ==
  (UNION {Range(rq[2]) : rq \in Requests(cmd, m)})
    \cup IF cmd = "mmcrtoken" THEN Range(CreatesFor(m))
         ELSE IF cmd = "mmcrfileset" THEN {NewFileset(m)}
         ELSE IF cmd = "mmdeltoken" THEN {Deletes(m)}
         ELSE IF cmd = "mmlsfs"
         THEN Range(IF FilesystemsShown(m) = Unknown THEN Names(m) ELSE FilesystemsShown(m))
         ELSE IF cmd # "mmlsfileset" THEN {}
         ELSE IF Names(m)[1] \notin DOMAIN Gui \/ FilesetsShown(m) = Unknown
         THEN Range(SplitNames(Tail(Names(m))))
         ELSE {f.name : f \in Range(FilesetsShown(m))}

ChangesFileset == {"mmcrfileset", "mmchfileset", "mmdelfileset", "mmlinkfileset", "mmunlinkfileset"}

\* No operand of a line that runs is dropped without a word, but for those
\* after the first of mmdeltoken and after the second of the commands that
\* change a fileset (token.go:35-41, 121-125, fileset.go:105-113, 509-519).
OperandsHeeded ==
  LET m == main(Line)
      taken == IF cmd = "mmdeltoken" THEN 1 ELSE IF cmd \in ChangesFileset THEN 2 ELSE Len(MeantOperands)
  IN  Runs(m) => \A i \in DOMAIN MeantOperands : i <= taken => Named(m, i) \subseteq Heeded(m)

\* How many inodes the rows of an inode space show as allocated, together.
Allocated(rows, space) ==
  LET upto[n \in 0..Len(rows)] ==
        IF n = 0 THEN 0
        ELSE upto[n - 1] + IF rows[n].inodeSpace = space THEN Figures(rows[n]).allocInodes ELSE 0
  IN  upto[Len(rows)]

\* mmlsfileset shows the inodes of a space with its owner, as often as that is
\* asked for, and never with a dependent fileset.
EachSpaceOnce ==
  LET m == main(Line)
      rows == FilesetsShown(m)
      owners(space) == {i \in DOMAIN rows : rows[i].inodeSpace = space /\ rows[i].isInodeSpaceOwner}
  IN  cmd = "mmlsfileset" /\ Runs(m) /\ MeantOperands[1].name \in DOMAIN Gui /\ rows # Unknown =>
        /\ Len(MeantOperands) = 1 => rows = Gui[MeantOperands[1].name]
        /\ \A i \in DOMAIN rows :
             Allocated(rows, rows[i].inodeSpace) =
               Cardinality(owners(rows[i].inodeSpace)) * rows[i].allocated

\* A listing repeats nothing: each attribute of a file system that is asked for
\* has its rows once, each inode space its figures, although options may be
\* given again and the GUI reports a space's figures with every fileset that
\* shares it (fs.go:163-186, args.go:56-62, fileset.go:46-82).
ListedOnce == AttributesOnce /\ EachSpaceOnce

-----------------------------------------------------------------------------
(* Properties of what is printed *)

Width(i) == printed[i][1]
Size(i) == Len(printed[i][2])
Marks(i) == Text(i, Size(i))

\* Where the column of a value begins.
Column(i) ==
  LET upto[n \in 0..Len(printed)] == IF n = 0 THEN 0 ELSE upto[n - 1] + Width(n) + 2
  IN  upto[i - 1]

\* A value put on a row, at columns or in fields: at its column or, unless it is
\* one of left, ending where the gap before the next begins; to the left of its
\* field or to the right.
Put(layout, left, l, i) ==
  IF layout = "columns"
  THEN IF i \in left THEN at(l, Column(i), Marks(i)) ELSE rightAt(l, Column(i) + Width(i), Marks(i))
  ELSE IF i \in left THEN cell(l, Width(i), Marks(i)) ELSE rcell(l, Width(i), Marks(i))

\* The row of the values.
Row(layout, left) ==
  LET upto[n \in 0..Len(printed)] == IF n = 0 THEN <<>> ELSE Put(layout, left, upto[n - 1], n)
  IN  upto[Len(printed)]

\* Every value is there, whole, in order, and apart from the next.
Readable(l) ==
  /\ \A i \in DOMAIN printed :
       LET marks == {k \in DOMAIN l : l[k] = i} IN
       /\ Cardinality(marks) = Size(i)
       /\ marks # {} => marks = Min(marks)..Max(marks)
  /\ \A k \in 1..(Len(l) - 1) :
       l[k] = Space \/ l[k + 1] = Space \/ l[k] = l[k + 1]
  /\ \A j, k \in DOMAIN l : j < k /\ l[j] # Space /\ l[k] # Space => l[j] <= l[k]

\* The value leaves the next one its column, with a space between.
Leaves(left, j) == Size(j) <= Width(j) \/ (j \in left /\ Size(j) < 2 + Width(j))

\* However much values overrun their columns or fields, none runs into the
\* next, and one begins at its column when those before it leave room; rows may
\* mix values that begin and values that end at a column (fileset.go:144-152),
\* and fields to the left come before those to the right.
ValuesApart ==
  /\ \A left \in SUBSET (DOMAIN printed) :
       /\ Readable(Row("columns", left))
       /\ \A i \in left :
            (\A j \in 1..(i - 1) : Leaves(left, j)) /\ Size(i) # 0
              => Row("columns", left)[Column(i) + 1] = i
  /\ \A n \in DOMAIN printed : Readable(Row("fields", 1..n))

\* A reader of -Y records takes one character after the other, with the fields
\* read, the field under way and what there is of an escape.
Reader(fields, field, escape) == [fields |-> fields, field |-> field, escape |-> escape]
NothingTaken == Reader(<<>>, <<>>, <<>>)

Unescaped(code) ==
  IF \E c \in DOMAIN Code : Code[c] = code THEN CHOOSE c \in DOMAIN Code : Code[c] = code ELSE "%"

TakeChar(r, c) ==
  IF Len(r.escape) = 2 THEN Reader(r.fields, Append(r.field, Unescaped(<<r.escape[2], c>>)), <<>>)
  ELSE IF Len(r.escape) = 1 \/ c = "%" THEN Reader(r.fields, r.field, Append(r.escape, c))
  ELSE IF c = ":" THEN Reader(Append(r.fields, r.field), <<>>, <<>>)
  ELSE Reader(r.fields, Append(r.field, c), <<>>)

Taken(s) ==
  LET r[n \in 0..Len(s)] == IF n = 0 THEN NothingTaken ELSE TakeChar(r[n - 1], s[n])
  IN  r[Len(s)]

FieldsOf(s) == Taken(s).fields

\* A -Y record reads back as the values it was made of, as many and whatever
\* they hold, whether they are paths or not.
RecordReadsBack ==
  LET values == [i \in DOMAIN printed |-> printed[i][2]] IN
  \A paths \in SUBSET DOMAIN printed : FieldsOf(printRow(values, paths)) = values

\* What mmctl prints can be taken apart again: a reader of a row finds every
\* value whole, and a program that reads -Y records gets back what was put in,
\* separators and escape characters included (format.go:10-75, 109-160).
PrintedReadsBack == ValuesApart /\ RecordReadsBack
=============================================================================
