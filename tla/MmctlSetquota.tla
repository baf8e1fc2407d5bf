---------------------------- MODULE MmctlSetquota ----------------------------
(***************************************************************************)
(* mmsetquota (cmd/mmctl/quota.go:575-748): from its operands and options to *)
(* the writes it makes, and through them (MmctlWrite) to the limits, default *)
(* limits and grace periods the GUI keeps.  Text that is cut at a separator  *)
(* is the sequence of its parts: a target or a limit at ":", a list at ",",  *)
(* the parts of a list without the spaces around them.                      *)
(***************************************************************************)
EXTENDS MmctlWrite, SequencesExt

CONSTANTS
  Lines,      \* the command lines, as parseOptions reads them
  ToLower(_)  \* strings.ToLower

VARIABLE line

setquotaVars == <<line, vars>>

\* An option that is not given is None, one that is given <<its value>>.
None == <<>>
Has(o) == o # None
Value(o) == o[1]

-----------------------------------------------------------------------------
(* The parts of the command line *)

\* parseQuotaTarget refuses an empty part on either side of the colon.
GoodTarget(parts) == parts[1] # "" /\ (Len(parts) > 1 => parts[2] # "")
TargetOf(parts) == [fs |-> parts[1], fileset |-> IF Len(parts) > 1 THEN parts[2] ELSE ""]

\* The collection of quotas a target stands for.
path(target) == <<target.fs, target.fileset>>

\* Mutant of splitList: empty parts are kept.
splitListAll(parts) == parts

\* splitList drops empty parts; out[n] is what is kept of the first n.
splitList(parts) ==
  LET out[n \in 0..Len(parts)] ==
        IF n = 0 THEN <<>>
        ELSE IF parts[n] = "" THEN out[n - 1] ELSE Append(out[n - 1], parts[n])
  IN  out[Len(parts)]

\* limitPair: what is left out is 0.
OrZero(s) == IF s = "" THEN "0" ELSE s

\* Mutant of limitPair: a hard limit left out is the soft one.
limitPairSoftOnly(parts) == <<OrZero(parts[1]), OrZero(parts[Len(parts)])>>

limitPair(parts) == <<OrZero(parts[1]), IF Len(parts) > 1 THEN OrZero(parts[2]) ELSE "0">>

\* quotaTypeName, in capitals or not; "" is an error.
quotaTypeName(s) ==
  IF ToLower(s) = "user" THEN "USR"
  ELSE IF ToLower(s) = "group" THEN "GRP"
  ELSE IF ToLower(s) = "fileset" THEN "FILESET"
  ELSE ""

\* The fields of a request: those whose option was given.
Fields(l) == {f \in {"block", "files"} : Has(l[f])}

\* Mutant of Limits: what is left out is set to no limit.
LimitsAlways(l) ==
  [f \in {"block", "files"} |-> limitPair(IF Has(l[f]) THEN Value(l[f]) ELSE <<"">>)]

Limits(l) == [f \in Fields(l) |-> limitPair(Value(l[f]))]
Periods(l) == [f \in Fields(l) |-> Value(l[f])]

Request(op, coll, type, object, fields) ==
  [op |-> op, coll |-> coll, type |-> type, object |-> object, fields |-> fields]

-----------------------------------------------------------------------------
(* runMmsetquota: the writes a line asks for, none if it is refused *)

setGracePeriod(l, target) ==
  LET type == quotaTypeName(Value(l.grace)) IN
  IF type = "" THEN <<>>
  ELSE <<Request("setGracePeriod", path(target), type, "", Periods(l))>>

setDefaultQuota(l, target) ==
  LET type == quotaTypeName(Value(l.default)) IN
  IF type = "" \/ (type = "FILESET" /\ target.fileset # "") THEN <<>>
  ELSE <<Request("setDefaultQuota", path(target), type, "", Limits(l))>>

setQuota(l, target) ==
  LET One(type, object, coll) == Request("setQuota", coll, type, object, Limits(l))
      Each(type, ids) == [i \in DOMAIN ids |-> One(type, ids[i], path(target))]
  IN  IF Has(l.user) /\ Has(l.group) THEN <<>>
      ELSE IF Has(l.user) THEN Each("USR", splitList(Value(l.user)))
      ELSE IF Has(l.group) THEN Each("GRP", splitList(Value(l.group)))
      ELSE IF target.fileset = "" THEN <<>>
      ELSE <<One("FILESET", target.fileset, <<target.fs, "">>)>>

Requests(l) ==
  IF Len(l.operands) # 1 \/ ~GoodTarget(l.operands[1]) \/ ~(Has(l.block) \/ Has(l.files)) THEN <<>>
  ELSE LET target == TargetOf(l.operands[1]) IN
       IF Has(l.grace) THEN setGracePeriod(l, target)
       ELSE IF Has(l.default) THEN setDefaultQuota(l, target)
       ELSE setQuota(l, target)

-----------------------------------------------------------------------------
\* What parseOptions may have read: an option once or not at all; strings.Cut
\* makes one part or two, strings.Split any number.
Optional(S) == {o \in Seq(S) : Len(o) <= 1}
Cut == {s \in Seq(STRING) : Len(s) \in {1, 2}}
CommandLine ==
  [operands : Seq(Cut), block : Optional(Cut), files : Optional(Cut),
   user : Optional(Seq(STRING)), group : Optional(Seq(STRING)),
   default : Optional(STRING), grace : Optional(STRING)]

ASSUME LinesAssumption ==
  /\ Lines \subseteq CommandLine
  /\ \A l \in Lines : Requests(l) \in Plans

SetquotaInit ==
  /\ line \in Lines
  /\ Begins(Requests(line))

SetquotaNext == Next /\ UNCHANGED line

SetquotaSpec ==
  /\ SetquotaInit
  /\ [][SetquotaNext]_setquotaVars
  /\ Fairness

-----------------------------------------------------------------------------
(* What the GUI keeps *)

\* The setting a request is about: the quota of a fileset is kept with the file
\* system, every other setting with the collection it is sent to.
Setting(r) ==
  IF r.op = "setQuota" /\ r.type = "FILESET"
  THEN <<r.op, r.type, <<r.coll[1], r.object>>, "">>
  ELSE <<r.op, r.type, r.coll, r.object>>

Settings(writes) == UNION {{<<Setting(plan[n]), f, plan[n].fields[f]>> : f \in DOMAIN plan[n].fields} : n \in writes}

-----------------------------------------------------------------------------
(* What a line means, by the synopsis (quota.go:579-595) *)

\* A line without the options that mmsetquota does not look at.
Heeded(l) ==
  IF Has(l.grace) THEN [l EXCEPT !.user = None, !.group = None, !.default = None]
  ELSE IF Has(l.default) THEN [l EXCEPT !.user = None, !.group = None] ELSE l

Names(o) == IF Has(o) THEN ToSet(Value(o)) \ {""} ELSE {}
Types == [user |-> "USR", group |-> "GRP", fileset |-> "FILESET"]

ofNames(l) == Has(l.user) \/ Has(l.group)

\* The synopsis has --user and --group one beside the other, each an option.
InSynopsis(l) ==
  /\ Len(l.operands) = 1
  /\ "" \notin ToSet(l.operands[1])
  /\ Has(l.block) \/ Has(l.files)
  /\ LET inFileset == Len(l.operands[1]) = 2
     IN  \/ ~Has(l.default) /\ ~Has(l.grace) /\ (inFileset \/ ofNames(l))
              /\ \A o \in {l.user, l.group} : Has(o) => Names(o) # {}
         \/ Has(l.default) /\ ~Has(l.grace) /\ ~ofNames(l) /\ ToLower(Value(l.default)) \in DOMAIN Types
              /\ (ToLower(Value(l.default)) = "fileset" => ~inFileset)
         \/ Has(l.grace) /\ ~Has(l.default) /\ ~ofNames(l) /\ ToLower(Value(l.grace)) \in DOMAIN Types

\* The settings a line is about.
Things(l) ==
  LET where == <<l.operands[1][1], IF Len(l.operands[1]) = 2 THEN l.operands[1][2] ELSE "">> IN
  IF Has(l.grace) THEN {<<"setGracePeriod", Types[ToLower(Value(l.grace))], where, "">>}
  ELSE IF Has(l.default) THEN {<<"setDefaultQuota", Types[ToLower(Value(l.default))], where, "">>}
  ELSE IF ofNames(l)
  THEN {<<"setQuota", "USR", where, n>> : n \in Names(l.user)}
         \cup {<<"setQuota", "GRP", where, n>> : n \in Names(l.group)}
  ELSE {<<"setQuota", "FILESET", where, "">>}

\* Soft and hard limit, 0 for one that is left out.
SoftAndHard(v) ==
  <<IF v[1] = "" THEN "0" ELSE v[1], IF Len(v) = 1 \/ v[Len(v)] = "" THEN "0" ELSE v[2]>>

Asked(l, f) == IF Has(l.grace) THEN Value(l[f]) ELSE SoftAndHard(Value(l[f]))

\* Each setting with each field it gets: none if the line is not in the synopsis.
Wanted(l) ==
  IF ~InSynopsis(l) THEN {}
  ELSE {<<t, f, Asked(l, f)>> : t \in Things(l), f \in {g \in {"block", "files"} : Has(l[g])}}

-----------------------------------------------------------------------------
(* Properties *)

\* When mmsetquota exits 0 and every answer could be read, the GUI keeps what
\* the line asked for: for each user, group, fileset or default it names, the
\* limits given, 0 for the part of one that was left out, and nothing for an
\* option that was left out (quota.go:593-595, 637-673).
LimitsAsAsked ==
  exit = "ok" /\ unread = {} =>
    Wanted(Heeded(line)) \subseteq Settings({n \in Write : job[n] = "completed"})

\* However a command ends, nothing has been changed, and no job started, for a
\* setting its line does not name.
NothingElse == Settings({n \in Write : job[n] # "none"}) \subseteq Wanted(Heeded(line))

\* mmsetquota makes no change for a line its synopsis does not allow and
\* refuses none that it allows (quota.go:608-628, 676).  Two exceptions: with
\* --grace or --default it does not look at --user and --group, nor with --grace
\* at --default; and users and groups on one line, which the synopsis allows
\* (580-581), are refused (630-632).
KeepsToSynopsis ==
  LET h == Heeded(line) IN
  exit = "usage" <=> ~InSynopsis(h) \/ (Has(h.user) /\ Has(h.group))
=============================================================================
