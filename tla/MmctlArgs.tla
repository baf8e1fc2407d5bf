------------------------------ MODULE MmctlArgs ------------------------------
(***************************************************************************)
(* How mmctl reads its command line: dispatch and main of cmd/mmctl/main.go, *)
(* parseOptions of cmd/mmctl/args.go, the options each command declares,     *)
(* and the attributes mmlsfs picks from its options (cmd/mmctl/fs.go).       *)
(*                                                                         *)
(* An argument is a record of its shape, its name and what is attached to   *)
(* it: "fs0" is a word, "-u" and "-uroot" are short, "--block" and          *)
(* "--block=1G" long, and "--" ends the options.  What is attached is the   *)
(* argument it would be on its own, so "-u" "root" and "-uroot" give -u the  *)
(* same value.                                                              *)
(***************************************************************************)
EXTENDS Concatenation, Functions

Nothing == <<>>
Word(w) == [shape |-> "word", name |-> w, val |-> Nothing]
Short(n, v) == [shape |-> "short", name |-> n, val |-> v]
Long(n, v) == [shape |-> "long", name |-> n, val |-> v]
DoubleDash == [shape |-> "end", name |-> "--", val |-> Nothing]

-----------------------------------------------------------------------------
(* The attributes mmlsfs prints, in its order: the option that selects a row  *)
(* and the name of the row.                                                  *)

fsAttrs == <<
  <<"-f", "minFragmentSize">>, <<"-i", "inodeSize">>, <<"-I", "indirectBlockSize">>,
  <<"-m", "defaultMetadataReplicas">>, <<"-M", "maxMetadataReplicas">>,
  <<"-r", "defaultDataReplicas">>, <<"-R", "maxDataReplicas">>,
  <<"-j", "blockAllocationType">>, <<"-D", "fileLockingSemantics">>,
  <<"-k", "ACLSemantics">>, <<"-n", "numNodes">>, <<"-B", "blockSize">>,
  <<"-Q", "quotasAccountingEnabled">>, <<"-Q", "quotasEnforced">>,
  <<"-Q", "defaultQuotasEnabled">>, <<"--perfileset-quota", "perfilesetQuotas">>,
  <<"--filesetdf", "filesetdfEnabled">>, <<"-V", "filesystemVersion">>,
  <<"--create-time", "create-time">>, <<"-z", "DMAPIEnabled">>, <<"-L", "logfileSize">>,
  <<"-E", "exactMtime">>, <<"-S", "suppressAtime">>, <<"-K", "strictReplication">>,
  <<"--fastea", "fastEAenabled">>, <<"--encryption", "encryption">>,
  <<"--inode-limit", "maxNumberOfInodes">>, <<"--uid", "UID">>,
  <<"--log-replicas", "logReplicas">>, <<"--is4KAligned", "is4KAligned">>,
  <<"--rapid-repair", "rapidRepairEnabled">>,
  <<"--write-cache-threshold", "write-cache-threshold">>, <<"-P", "storagePools">>,
  <<"--file-audit-log", "file-audit-log">>, <<"-d", "disks">>,
  <<"-A", "automaticMountOption">>, <<"-o", "additionalMountOptions">>,
  <<"-T", "defaultMountPoint">>, <<"--mount-priority", "mountPriority">> >>

mountOptions == {"-A", "-o", "-T", "--mount-priority"}

\* The rows for the options given, in the order given, the mount attributes
\* last; every row when no attribute is asked for.
selectFsAttrs(given) ==
  LET rows(o) == Where(fsAttrs, {a \in Range(fsAttrs) : a[1] = o})
      asked == Flat([i \in DOMAIN given |-> rows(given[i])])
      mount == {a \in Range(fsAttrs) : a[1] \in mountOptions}
      selected == Where(asked, Range(fsAttrs) \ mount) \o Where(asked, mount)
  IN  IF selected = <<>> THEN fsAttrs ELSE selected

-----------------------------------------------------------------------------
(* What each command accepts: options that stand alone and options that take  *)
(* a value.                                                                  *)

Accepts(name, flags, values) == [name |-> name, flags |-> flags, values |-> values]

FilesystemSpec == {
  Accepts("mmlscluster", {"-Y"}, {}),
  Accepts("mmlsfs", {"-Y"} \cup {a[1] : a \in Range(fsAttrs)}, {})}

FilesetSpec == {
  Accepts("mmlsfileset", {"-d", "-i", "-L", "-Y"}, {}),
  Accepts("mmcrfileset", {}, {"-t", "-J", "--inode-space", "--inode-limit",
                              "--allow-permission-change"}),
  Accepts("mmchfileset", {}, {"-j", "-t", "-J", "--inode-limit",
                              "--allow-permission-change"}),
  Accepts("mmdelfileset", {"-f"}, {}),
  Accepts("mmlinkfileset", {}, {"-J"}),
  Accepts("mmunlinkfileset", {"-f"}, {"-J"})}

QuotaSpec == {
  Accepts("mmlsquota", {"-e", "-Y"}, {"-u", "-g", "-j", "--block-size"}),
  Accepts("mmrepquota", {"-u", "-g", "-j", "-a", "-e", "-n", "-Y"}, {"--block-size"}),
  Accepts("mmsetquota", {},
          {"--user", "--group", "--block", "--files", "--default", "--grace"})}

TokenSpec == {
  Accepts("mmcrtoken", {}, {}),
  Accepts("mmlstoken", {"-Y"}, {}),
  Accepts("mmdeltoken", {}, {})}

commands == FilesystemSpec \cup FilesetSpec \cup QuotaSpec \cup TokenSpec
CommandName == {c.name : c \in commands}

lookup(name) == CHOOSE c \in commands : c.name = name

-----------------------------------------------------------------------------
(* parseOptions, one argument after another.  pending is the option whose     *)
(* value is the next argument; ended, that "--" has been seen.                *)

NoOptions == [order |-> <<>>, vals |-> <<>>, operands |-> <<>>,
              pending |-> "", ended |-> FALSE, err |-> FALSE]

\* Mutant of mark: an option given twice is listed twice.
markEachTime(o, name) == [o EXCEPT !.order = Append(@, name)]

mark(o, name) ==
  [o EXCEPT !.order = IF name \in Range(@) THEN @ ELSE Append(@, name)]

Give(o, name, value) ==
  [mark(o, name) EXCEPT
     !.vals = [n \in DOMAIN o.vals \cup {name} |-> IF n = name THEN value ELSE o.vals[n]],
     !.pending = ""]

Operand(o, a) == [o EXCEPT !.operands = Append(@, a)]
Wrong(o) == [o EXCEPT !.err = TRUE]

\* A short or long option; attached, its value when it carries one.
TakeOption(spec, o, a) ==
  IF a.name \in spec.flags /\ a.val = Nothing THEN mark(o, a.name)
  ELSE IF a.name \in spec.values /\ a.val # Nothing THEN Give(o, a.name, a.val[1])
  ELSE IF a.name \in spec.values THEN [o EXCEPT !.pending = a.name]
  ELSE Wrong(o)

\* Mutant of Take: the first operand ends the options, as in getopt.
TakeUntilOperand(spec, o, a) ==
  IF o.err THEN o
  ELSE IF o.ended \/ o.operands # <<>> THEN Operand(o, a)
  ELSE IF o.pending # "" THEN Give(o, o.pending, a)
  ELSE IF a.shape = "end" THEN [o EXCEPT !.ended = TRUE]
  ELSE IF a.shape = "word" THEN Operand(o, a)
  ELSE TakeOption(spec, o, a)

Take(spec, o, a) ==
  IF o.err THEN o
  ELSE IF o.ended THEN Operand(o, a)
  ELSE IF o.pending # "" THEN Give(o, o.pending, a)
  ELSE IF a.shape = "end" THEN [o EXCEPT !.ended = TRUE]
  ELSE IF a.shape = "word" THEN Operand(o, a)
  ELSE TakeOption(spec, o, a)

TakeAll(spec, args) ==
  LET o[n \in 0..Len(args)] == IF n = 0 THEN NoOptions ELSE Take(spec, o[n - 1], args[n])
  IN  o[Len(args)]

\* An option still without its value at the end is an error.
parseOptions(spec, args) ==
  LET o == TakeAll(spec, args) IN IF o.pending # "" THEN Wrong(o) ELSE o

-----------------------------------------------------------------------------
(* main                                                                      *)

\* The command is the name mmctl was called by, or else the first argument.
dispatch(argv) ==
  IF argv[1].name \in CommandName THEN [name |-> argv[1], args |-> Tail(argv)]
  ELSE IF Len(argv) < 2 THEN [name |-> Word(""), args |-> <<>>]
  ELSE [name |-> argv[2], args |-> Tail(Tail(argv))]

HelpOption == {Short("-h", Nothing), Long("--help", Nothing)}

Outcome(does, cmd, o) ==
  [does |-> does, cmd |-> cmd, order |-> o.order, vals |-> o.vals, operands |-> o.operands]

main(argv) ==
  LET name == dispatch(argv).name
      args == dispatch(argv).args
      cmd == name.name
      o == parseOptions(lookup(cmd), args)
  IN  IF name \in HelpOption \cup {Word(""), Word("help")} THEN Outcome("usage", "", NoOptions)
      ELSE IF cmd \notin CommandName THEN Outcome("unknown", "", NoOptions)
      ELSE IF Range(args) \cap HelpOption # {} THEN Outcome("synopsis", cmd, NoOptions)
      ELSE IF o.err THEN Outcome("usageError", cmd, NoOptions)
      ELSE Outcome("run", cmd, o)
=============================================================================
