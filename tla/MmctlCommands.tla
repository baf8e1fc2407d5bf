---------------------------- MODULE MmctlCommands ----------------------------
(***************************************************************************)
(* What the commands of mmctl make of a line that parseOptions has read: the *)
(* checks each makes before it asks anything (runMmlscluster and the other   *)
(* run functions of cmd/mmctl), the requests it may then make, and what      *)
(* mmlsfs and mmlsfileset show of the answers.  mmsetquota has its checks in *)
(* MmctlSetquota, and the writes of the fileset commands are MmctlFileset.   *)
(*                                                                         *)
(* A word that is cut at a separator is listed with its parts.              *)
(***************************************************************************)
EXTENDS MmctlArgs, SequencesExt

CONSTANTS
  Colon,  \* words with a ":", and what stands before and after the first
  Comma,  \* words with a ",", and the parts
  Sizes,  \* the block sizes newBlockFormatter takes
  InodeCounts, \* the numbers of inodes parseInodeCount takes
  Gui     \* the filesets of each file system, in the order the GUI lists them

\* No number has a ":".
ASSUME CutsAssumption ==
  /\ \A w \in DOMAIN Colon : w # "" /\ Colon[w] \in STRING \X STRING
  /\ InodeCounts \cap DOMAIN Colon = {}
  /\ \A w \in DOMAIN Comma : Comma[w] \in Seq(STRING)

\* The GUI gives with every fileset the figures of its inode space, its own or
\* those of its owner (fileset.go:46-48).
ASSUME GuiAssumption ==
  /\ IsFiniteSet(DOMAIN Gui)
  /\ \A d \in DOMAIN Gui :
       /\ Gui[d] \in Seq(Range(Gui[d]))
       /\ \A f \in Range(Gui[d]) : f.isInodeSpaceOwner \in BOOLEAN /\ f.allocated \in Nat
       /\ \A f, g \in Range(Gui[d]) : f.inodeSpace = g.inodeSpace => f.allocated = g.allocated

Has(o, n) == n \in Range(o.order)
Value(o, n) == IF Has(o, n) THEN o.vals[n].name ELSE ""

Parts(cuts, w) == IF w \in DOMAIN cuts THEN cuts[w] ELSE <<w>>
splitList(w) == Where(Parts(Comma, w), STRING \ {""})

\* Operands, as text.
Names(o) == [i \in DOMAIN o.operands |-> o.operands[i].name]
SplitNames(names) == Flat([i \in DOMAIN names |-> splitList(names[i])])

-----------------------------------------------------------------------------
(* The checks of each command *)

RefusesMmlscluster(o) == Len(o.operands) > 0
RefusesMmlstoken(o) == Len(o.operands) > 0

RefusesMmlsfs(o) == Len(o.operands) = 0
RefusesMmlsfileset(o) == Len(o.operands) = 0
RefusesMmcrtoken(o) == Len(o.operands) = 0
RefusesMmdeltoken(o) == Len(o.operands) = 0

\* --inode-limit, cut at its first ":".
LimitParts(o) == Parts(Colon, Value(o, "--inode-limit"))

\* Mutant of RefusesMmcrfileset: what follows the ":" is not looked at.
RefusesMmcrfilesetHalf(o) ==
  Len(o.operands) < 2 \/ (Has(o, "--inode-limit") /\ LimitParts(o)[1] \notin InodeCounts)

\* MaxNumInodes[:NumInodesToPreallocate], the second possibly empty.
RefusesMmcrfileset(o) ==
  \/ Len(o.operands) < 2
  \/ /\ Has(o, "--inode-limit")
     /\ \/ LimitParts(o)[1] \notin InodeCounts
        \/ Len(LimitParts(o)) > 1 /\ LimitParts(o)[2] \notin InodeCounts \cup {""}

\* deviceAndFileset: the name of a fileset, or else a junction to find it by.
RefusesNames(o) == Len(o.operands) = 0 \/ (Len(o.operands) = 1 /\ Value(o, "-J") = "")

Attributes == {"-j", "-t", "--inode-limit", "--allow-permission-change"}

\* mmchfileset, once it has its fileset: no number, or nothing to change.  What
\* follows a ":" is ignored.
RefusesChange(o) ==
  \/ Has(o, "--inode-limit") /\ LimitParts(o)[1] \notin InodeCounts
  \/ Range(o.order) \cap Attributes = {}

\* newBlockFormatter.
BadBlockSize(o) == Has(o, "--block-size") /\ Value(o, "--block-size") \notin Sizes

\* parseQuotaTarget: Device or Device:Fileset, neither part empty.
GoodTarget(w) == "" \notin Range(Parts(Colon, w))
InFileset(w) == Len(Parts(Colon, w)) > 1

Targets(o) == Range(Names(o))

\* quotaTargets, before anything is listed.
BadTargets(o) == \E w \in Targets(o) : ~GoodTarget(w)

\* -j goes with neither -u nor -g.
MixesFilesets(o) == Has(o, "-j") /\ (Has(o, "-u") \/ Has(o, "-g"))

RefusesMmlsquota(o) ==
  (Has(o, "-u") /\ Has(o, "-g")) \/ MixesFilesets(o) \/ BadBlockSize(o) \/ BadTargets(o)

\* mmlsquota -j, when the turn of a Device:Fileset comes.
RefusesTarget(o) == Has(o, "-j") /\ \E w \in Targets(o) : InFileset(w)

RefusesMmrepquota(o) ==
  MixesFilesets(o) \/ (Has(o, "-a") <=> Len(o.operands) > 0) \/ BadBlockSize(o) \/ BadTargets(o)

\* A command that refuses a line prints its synopsis: before it asks anything,
RefusesFirst(cmd, o) ==
  \/ cmd = "mmlscluster" /\ RefusesMmlscluster(o)
  \/ cmd = "mmlstoken" /\ RefusesMmlstoken(o)
  \/ cmd = "mmlsfs" /\ RefusesMmlsfs(o)
  \/ cmd = "mmlsfileset" /\ RefusesMmlsfileset(o)
  \/ cmd = "mmcrtoken" /\ RefusesMmcrtoken(o)
  \/ cmd = "mmdeltoken" /\ RefusesMmdeltoken(o)
  \/ cmd = "mmcrfileset" /\ RefusesMmcrfileset(o)
  \/ cmd \in {"mmchfileset", "mmdelfileset", "mmlinkfileset", "mmunlinkfileset"} /\ RefusesNames(o)
  \/ cmd = "mmlsquota" /\ RefusesMmlsquota(o)
  \/ cmd = "mmrepquota" /\ RefusesMmrepquota(o)

\* or after it has read something, unless that fails.
RefusesLater(cmd, o) ==
  \/ cmd = "mmchfileset" /\ RefusesChange(o)
  \/ cmd = "mmlsquota" /\ RefusesTarget(o)

Refuses(cmd, o) == RefusesFirst(cmd, o) \/ RefusesLater(cmd, o)

-----------------------------------------------------------------------------
(* The requests a line may lead to, as <<method, path>> under /scalemgmt/v2/ *)

Get(path) == <<"GET", path>>
Filesystem(d) == <<"filesystems", d>>
Filesets(d) == Filesystem(d) \o <<"filesets">>
Fileset(d, f) == Filesets(d) \o <<f>>
NamesIn(d) == IF d \in DOMAIN Gui THEN {f.name : f \in Range(Gui[d])} ELSE {}

\* quotaTarget.path.
Quotas(w) ==
  IF InFileset(w) THEN Fileset(Colon[w][1], Colon[w][2]) \o <<"quotas">>
  ELSE Filesystem(w) \o <<"quotas">>

\* The fileset deviceAndFileset comes to.
Found(o) == IF Len(o.operands) > 1 THEN {Names(o)[2]} ELSE NamesIn(Names(o)[1])
Lookup(o) == IF Len(o.operands) > 1 THEN {} ELSE {Get(Filesets(Names(o)[1]))}

\* A write, and the polls of its job.
Write(method, path) == {<<method, path>>, Get(<<"jobs", "1">>)}

Change(o, method, last) ==
  Lookup(o) \cup UNION {Write(method, Fileset(Names(o)[1], f) \o last) : f \in Found(o)}

\* listQuotas for one target, filesetIDsFor and quotaStatesFor.
QuotaReads(w) ==
  LET d == Parts(Colon, w)[1] IN
  {Get(Filesystem(d)), Get(Filesets(d)), Get(Quotas(w))}
    \cup {Get(Fileset(d, f) \o <<"quotas">>) : f \in NamesIn(d)}

QuotaTargets(o) == IF o.operands = <<>> THEN DOMAIN Gui ELSE Targets(o)

\* The targets mmlsquota comes to.
Reached(o) ==
  IF RefusesTarget(o)
  THEN {Names(o)[i] : i \in {i \in DOMAIN Names(o) : \A j \in 1..i : ~InFileset(Names(o)[j])}}
  ELSE QuotaTargets(o)

RequestsMmlscluster(o) == {Get(<<"cluster">>), Get(<<"nodes">>)}
RequestsMmlsfs(o) == {Get(<<"filesystems">>)}
RequestsMmlsfileset(o) == {Get(Filesets(Names(o)[1]))}
RequestsMmcrfileset(o) == Write("POST", Filesets(Names(o)[1]))

RequestsMmchfileset(o) == IF RefusesChange(o) THEN Lookup(o) ELSE Change(o, "PUT", <<>>)
RequestsMmdelfileset(o) == Change(o, "DELETE", <<>>)
RequestsMmlinkfileset(o) == Change(o, "POST", <<"link">>) \cup {Get(Filesystem(Names(o)[1]))}
RequestsMmunlinkfileset(o) == Change(o, "DELETE", <<"link">>)
RequestsMmlsquota(o) == {Get(<<"filesystems">>)} \cup UNION {QuotaReads(w) : w \in Reached(o)}
RequestsMmrepquota(o) == {Get(<<"filesystems">>)} \cup UNION {QuotaReads(w) : w \in QuotaTargets(o)}

Requests(cmd, o) ==
  IF RefusesFirst(cmd, o) THEN {}
  ELSE IF cmd = "mmlscluster" THEN RequestsMmlscluster(o)
  ELSE IF cmd = "mmlsfs" THEN RequestsMmlsfs(o)
  ELSE IF cmd = "mmlsfileset" THEN RequestsMmlsfileset(o)
  ELSE IF cmd = "mmcrfileset" THEN RequestsMmcrfileset(o)
  ELSE IF cmd = "mmchfileset" THEN RequestsMmchfileset(o)
  ELSE IF cmd = "mmdelfileset" THEN RequestsMmdelfileset(o)
  ELSE IF cmd = "mmlinkfileset" THEN RequestsMmlinkfileset(o)
  ELSE IF cmd = "mmunlinkfileset" THEN RequestsMmunlinkfileset(o)
  ELSE IF cmd = "mmlsquota" THEN RequestsMmlsquota(o)
  ELSE IF cmd = "mmrepquota" THEN RequestsMmrepquota(o)
  ELSE {}

\* mmcrfileset names the new fileset in its body.
NewFileset(o) == Names(o)[2]

\* Mutant of CreatesFor: the list is the first operand.
CreatesForFirst(o) == splitList(Names(o)[1])

\* The token commands speak to mmapi itself: the file systems of a new token,
\* or the token to delete, the first operand whatever follows.
CreatesFor(o) == SplitNames(Names(o))
Deletes(o) == Names(o)[1]

-----------------------------------------------------------------------------
(* What mmlsfs and mmlsfileset show *)

Unknown == <<"unknown">>

\* The file systems of mmlsfs, or Unknown for one the GUI has not.
FilesystemsShown(o) ==
  LET all == SetToSeq(DOMAIN Gui)
      shown(w) == IF w \in {"all", "all_local"} THEN all ELSE <<w>>
  IN  IF \E w \in Range(Names(o)) : w \notin DOMAIN Gui \cup {"all", "all_local"} THEN Unknown
      ELSE Flat([i \in DOMAIN Names(o) |-> shown(Names(o)[i])])

\* The filesets of mmlsfileset: those named, in the order named, or all.
FilesetsShown(o) ==
  LET all == Gui[Names(o)[1]]
      asked == SplitNames(Tail(Names(o)))
      byName(n) == CHOOSE f \in Range(all) : f.name = n
  IN  IF asked = <<>> THEN all
      ELSE IF \E n \in Range(asked) : n \notin {f.name : f \in Range(all)} THEN Unknown
      ELSE [i \in DOMAIN asked |-> byName(asked[i])]

\* allocatedInodes, maxInodes and freeInodes: a dependent fileset has none.
own(f, n) == IF f.isInodeSpaceOwner THEN n ELSE 0

\* usedInodes: those of the inode space, or a dependent fileset's own.
usedInodes(f) == IF f.isInodeSpaceOwner THEN f.spaceUsed ELSE f.used

Figures(f) ==
  [name |-> f.name, inodeSpace |-> f.inodeSpace, maxInodes |-> own(f, f.max),
   allocInodes |-> own(f, f.allocated), freeInodes |-> own(f, f.free), usedInodes |-> usedInodes(f)]
=============================================================================
