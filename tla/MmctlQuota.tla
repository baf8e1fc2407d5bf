----------------------------- MODULE MmctlQuota -----------------------------
(***************************************************************************)
(* The quota reports of mmctl (mmlsquota and mmrepquota of                  *)
(* cmd/mmctl/quota.go).  A report is put together from many requests, one   *)
(* after another: the file systems when no operand names one, then for      *)
(* every target and quota type whether quotas are kept per fileset, the     *)
(* filesets, and the quotas of each; then the fileset ids, and last, for    *)
(* mmrepquota -Y, which quotas the file systems enforce.  Filesets come and *)
(* go between those requests, the gateway refuses file systems the token    *)
(* does not own, and a request may fail.                                    *)
(*                                                                         *)
(* Every account has a quota in every fileset, or in every file system      *)
(* whose quotas are not per fileset, for users as for groups.               *)
(***************************************************************************)
EXTENDS Naturals, Sequences, SequencesExt, FiniteSets, TLC

CONSTANTS
  FS,           \* the file systems of the cluster
  Fileset,      \* fileset names besides root
  Account,      \* the users, and the groups: their ids by name
  InitialIds,   \* the filesets there are at first: [FS -> [Fileset -> id, 0 for none]]
  PerFileset,   \* the file systems with --perfileset-quota
  Enforced,     \* the quota types enforced: [FS -> SUBSET QuotaType]
  AllowedFS,    \* the sets of file systems a token may be created for
  Commands,     \* the commands an operator may give
  MaxId         \* bound on fileset ids, and so on creations

Root == "root"
Name == Fileset \cup {Root}
NoFileset == ""

\* Device (fileset = "") or Device:Fileset.
Target == [fs : FS, fileset : Name \cup {NoFileset}]
QuotaType == {"USR", "GRP", "FILESET"}

\* mmlsquota lists the quotas of one object and type, -u, -g or -j; mmrepquota
\* lists all, and with -n numbers for names.
QuotaCommand ==
  [name : {"mmlsquota", "mmrepquota"}, operands : Seq(Target), types : Seq(QuotaType),
   object : STRING, form : {"table", "-Y", "-n"}]

\* The ids of a file system's filesets differ; no type is asked for twice.
ASSUME QuotaAssumption ==
  /\ IsFiniteSet(FS)
  /\ IsFiniteSet(Fileset) /\ Root \notin Fileset /\ NoFileset \notin Fileset
  /\ IsFiniteSet(DOMAIN Account) /\ Account \in [DOMAIN Account -> Nat]
  /\ MaxId \in Nat
  /\ InitialIds \in [FS -> [Fileset -> 0..MaxId]]
  /\ \A f \in FS : \A m, n \in Fileset :
       InitialIds[f][m] = InitialIds[f][n] /\ m # n => InitialIds[f][m] = 0
  /\ PerFileset \subseteq FS
  /\ AllowedFS \subseteq SUBSET FS
  /\ Enforced \in [FS -> SUBSET QuotaType]
  /\ Commands \subseteq QuotaCommand
  /\ \A c \in Commands :
       (c.name = "mmlsquota" => Len(c.types) = 1) /\ IsInjective(c.types)

VARIABLES
  ids,       \* the GUI's filesets: their ids, 0 when there is none
  lastId,    \* the last id given out in each file system
  allowed,   \* the file systems of its token
  command,   \* the command given
  phase,     \* what it asks for next
  targets,   \* quotaTargets: what the operands come to
  todo,      \* the <<target, type>> pairs still to list, the first under way
  scopes,    \* the quota collections still to read for that pair
  found,     \* the quotas read for that pair
  entries,   \* the quotas of the report
  idsTodo,   \* the file systems whose fileset ids are still to be read
  fids,      \* filesetIDs: ids by fileset name
  statesTodo, \* the file systems whose configuration is still to be read
  states,    \* quotaStatesFor: the quota types enforced, by file system
  exit       \* what the command ends with

\* What happened around the command.
VARIABLES
  trouble,   \* a request did not get through
  gone,      \* <<fs, fileset>> deleted while the command ran
  made       \* <<fs, fileset>> created while the command ran

gui == <<ids, lastId, gone, made>>
given == <<allowed, command>>
collected == <<todo, scopes, found, entries>>
decoration == <<idsTodo, fids, statesTodo, states>>
vars == <<ids, lastId, allowed, command, phase, targets, todo, scopes, found, entries,
          idsTodo, fids, statesTodo, states, exit, trouble, gone, made>>

\* The root fileset is always there, with id 0.
Exists(f, n) == n = Root \/ (n \in Fileset /\ ids[f][n] # 0)
IdOf(f, n) == IF n = Root THEN 0 ELSE ids[f][n]

Entry == [fs : FS, fileset : Name, type : QuotaType, name : DOMAIN Account \cup Name, id : Nat]
Phase == {"targets", "filesystem", "filesets", "quotas", "ids", "exited"}

TypeOK ==
  /\ ids \in [FS -> [Fileset -> 0..MaxId]]
  /\ lastId \in [FS -> 0..MaxId]
  /\ allowed \in AllowedFS
  /\ command \in Commands
  /\ phase \in Phase
  /\ targets \in Seq(Target)
  /\ todo \in Seq(Target \X QuotaType)
  /\ scopes \in Seq(Target)
  /\ found \in Seq(Entry)
  /\ entries \in Seq(Entry)
  /\ idsTodo \in Seq(FS)
  /\ DOMAIN fids \subseteq Name /\ Range(fids) \subseteq 0..MaxId
  /\ statesTodo \in Seq(FS)
  /\ DOMAIN states \subseteq FS /\ Range(states) \subseteq SUBSET QuotaType
  /\ exit \in {"none", "ok", "failed", "usage"}
  /\ trouble \in BOOLEAN
  /\ gone \subseteq FS \X Fileset
  /\ made \subseteq FS \X Fileset

Init ==
  /\ ids = InitialIds
  /\ lastId = [f \in FS |-> Max({0} \cup {InitialIds[f][n] : n \in Fileset})]
  /\ allowed \in AllowedFS
  /\ command \in Commands
  /\ phase = "targets"
  /\ targets = <<>>
  /\ todo = <<>>
  /\ scopes = <<>>
  /\ found = <<>>
  /\ entries = <<>>
  /\ idsTodo = <<>>
  /\ fids = <<>>
  /\ statesTodo = <<>>
  /\ states = <<>>
  /\ exit = "none"
  /\ trouble = FALSE
  /\ gone = {}
  /\ made = {}

-----------------------------------------------------------------------------
(* Building the report *)

Fail == phase' = "exited" /\ exit' = "failed"

\* The gateway answers 403 for a file system the token does not own.
Reachable(f) == f \in allowed

\* Each target with each type, target by target.
Pairs(ts, tys) ==
  LET k == Len(tys)
  IN  [i \in 1..(Len(ts) * k) |-> <<ts[((i - 1) \div k) + 1], tys[((i - 1) % k) + 1]>>]

\* The members of a finite set, in an order given as a set of pairs.
Listed(S, before) ==
  LET rank == [x \in S |-> Cardinality({y \in S : <<y, x>> \in before})]
  IN  [k \in 1..Cardinality(S) |-> CHOOSE x \in S : rank[x] = k - 1]

\* What stands in the given places of a sequence, in that order of the places.
Taken(s, places, before) ==
  LET order == Listed(places, before) IN [k \in 1..Cardinality(places) |-> s[order[k]]]

Ascending(places) == {p \in places \X places : p[1] < p[2]}
Only(s, places) == Taken(s, places, Ascending(places))

\* The file systems of a list of targets, each once.
FileSystemsOf(ts) ==
  LET first == Only(ts, {i \in DOMAIN ts : \A j \in 1..(i - 1) : ts[j].fs # ts[i].fs})
  IN  [k \in DOMAIN first |-> first[k].fs]

\* Where quotaScopes need not ask: a fileset's own target, and the quotas of
\* filesets, which the file system's collection holds.
Direct(pair) == pair[1].fileset # NoFileset \/ pair[2] = "FILESET"

\* "Option -j takes a Device without a fileset", found when its turn comes;
\* mmrepquota does not look.
Refused(pair) ==
  command.name = "mmlsquota" /\ pair[2] = "FILESET" /\ pair[1].fileset # NoFileset

\* What is read once the quotas are: ids and states go only into what shows them.
ReadsIds == command.name = "mmrepquota" \/ command.form = "-Y"
ReadsStates == command.name = "mmrepquota" /\ command.form = "-Y"

\* Goes on with a list of pairs of targets ts: the first of them, or the ids
\* when none is left.
Continue(ts, pairs) ==
  /\ todo' = pairs
  /\ \/ /\ pairs = <<>>
        /\ phase' = "ids" /\ scopes' = <<>>
        /\ idsTodo' = IF ReadsIds THEN FileSystemsOf(ts) ELSE <<>>
        /\ statesTodo' = IF ReadsStates THEN [i \in DOMAIN ts |-> ts[i].fs] ELSE <<>>
        /\ UNCHANGED exit
     \/ /\ pairs # <<>> /\ Refused(Head(pairs))
        /\ phase' = "exited" /\ exit' = "usage" /\ scopes' = <<>>
        /\ UNCHANGED <<idsTodo, statesTodo>>
     \/ /\ pairs # <<>> /\ ~Refused(Head(pairs))
        /\ IF Direct(Head(pairs))
           THEN phase' = "quotas" /\ scopes' = <<Head(pairs)[1]>>
           ELSE phase' = "filesystem" /\ scopes' = <<>>
        /\ UNCHANGED <<idsTodo, statesTodo, exit>>

\* quotaTargets without operands asks for every file system there is.
DefaultTargets == [i \in 1..Cardinality(FS) |-> [fs |-> SetToSeq(FS)[i], fileset |-> NoFileset]]

ResolveTargets ==
  /\ phase = "targets"
  /\ targets' = IF command.operands = <<>> THEN DefaultTargets ELSE command.operands
  /\ Continue(targets', Pairs(targets', command.types))
  /\ UNCHANGED <<gui, given, found, entries, fids, states, trouble>>

\* The pair under way.
Now == Head(todo)

\* getFilesystem: are quotas kept per fileset?
GetFilesystem ==
  /\ phase = "filesystem"
  /\ IF ~Reachable(Now[1].fs)
     THEN Fail /\ UNCHANGED scopes
     ELSE /\ IF Now[1].fs \in PerFileset
             THEN phase' = "filesets" /\ UNCHANGED scopes
             ELSE phase' = "quotas" /\ scopes' = <<Now[1]>>
          /\ UNCHANGED exit
  /\ UNCHANGED <<gui, given, targets, todo, found, entries, decoration, trouble>>

\* listFilesets, by id.
ById(f) ==
  Listed({n \in Name : Exists(f, n)}, {p \in Name \X Name : IdOf(f, p[1]) < IdOf(f, p[2])})

ListFilesets ==
  /\ phase = "filesets"
  /\ phase' = "quotas"
  /\ LET filesets == ById(Now[1].fs)
     IN  scopes' = [i \in DOMAIN filesets |-> [fs |-> Now[1].fs, fileset |-> filesets[i]]]
  /\ UNCHANGED <<gui, given, targets, todo, found, entries, decoration, exit, trouble>>

\* Mutant of InRoot: a quota of the file system stays without a fileset.
AsSent(n) == n

\* quotaEntry.fileset: a quota without a fileset is the root fileset's.
InRoot(n) == IF n = NoFileset THEN Root ELSE n

\* What the GUI keeps in a quota collection: a fileset's holds the quotas of
\* accounts in it, a file system's those of its filesets, and those of accounts
\* in all of it when they are not per fileset.
Collection(s, type) ==
  LET of(n) == {[fs |-> s.fs, fileset |-> InRoot(n), type |-> type, name |-> a, id |-> Account[a]] :
                  a \in DOMAIN Account}
  IN  IF type = "FILESET"
      THEN {[fs |-> s.fs, fileset |-> n, type |-> type, name |-> n, id |-> IdOf(s.fs, n)] :
              n \in {x \in Name : s.fileset = NoFileset /\ Exists(s.fs, x)}}
      ELSE IF s.fileset = NoFileset /\ s.fs \in PerFileset THEN {}
      ELSE of(s.fileset)

Answers(s) == Reachable(s.fs) /\ (s.fileset # NoFileset => Exists(s.fs, s.fileset))

\* Mutant of Matches: an id is not a name.
MatchesByName(e, object) == e.name = object

\* The user, group or fileset named on the command line, by name or by id.
Matches(e, object) == e.name = object \/ ToString(e.id) = object

\* sortQuotas: by id, and stable.
SortQuotas(s, places) ==
  Taken(s, places, {p \in places \X places :
                      s[p[1]].id < s[p[2]].id \/ (s[p[1]].id = s[p[2]].id /\ p[1] < p[2])})

\* Mutant of Report: mmrepquota sorts its whole report, as mmlsquota does.
ReportSorted(s) ==
  LET all == entries \o s IN
  SortQuotas(all, {i \in DOMAIN all :
                     command.name = "mmlsquota" => Matches(all[i], command.object)})

\* The report with the quotas s of one more pair: mmrepquota sorts each pair's,
\* mmlsquota picks the object's and sorts them all.
Report(s) ==
  LET all == entries \o s IN
  IF command.name = "mmlsquota"
  THEN SortQuotas(all, {i \in DOMAIN all : Matches(all[i], command.object)})
  ELSE entries \o SortQuotas(s, DOMAIN s)

\* One collection of listQuotas; an error ends the command.
GetQuotas ==
  /\ phase = "quotas"
  /\ LET s == Head(scopes)
         read == found \o SetToSeq(Collection(s, Now[2]))
     IN  \/ /\ Answers(s) /\ Len(scopes) > 1
            /\ found' = read
            /\ scopes' = Tail(scopes)
            /\ UNCHANGED <<phase, todo, entries, idsTodo, statesTodo, exit>>
         \/ /\ Answers(s) /\ Len(scopes) = 1
            /\ entries' = Report(read)
            /\ found' = <<>>
            /\ Continue(targets, Tail(todo))
         \/ /\ ~Answers(s)
            /\ Fail
            /\ UNCHANGED <<collected, idsTodo, statesTodo>>
  /\ UNCHANGED <<gui, given, targets, fids, states, trouble>>

\* Mutant of WithIds: the place in the listing is taken for the id.
WithIdsByPlace(f, m) ==
  [n \in {x \in Name : Exists(f, x)} \cup DOMAIN m |->
     IF Exists(f, n) THEN Cardinality({x \in Name : Exists(f, x) /\ IdOf(f, x) < IdOf(f, n)})
     ELSE m[n]]

\* filesetIDsFor: one map from fileset names to ids, whatever the file system.
WithIds(f, m) ==
  [n \in {x \in Name : Exists(f, x)} \cup DOMAIN m |->
     IF Exists(f, n) THEN IdOf(f, n) ELSE m[n]]

\* Mutant of GetIds: a fileset name met twice is an error.
GetIdsUnique ==
  /\ phase = "ids"
  /\ idsTodo # <<>>
  /\ idsTodo' = Tail(idsTodo)
  /\ IF \E n \in DOMAIN fids : Exists(Head(idsTodo), n)
     THEN Fail /\ UNCHANGED fids
     ELSE fids' = WithIds(Head(idsTodo), fids) /\ UNCHANGED <<phase, exit>>
  /\ UNCHANGED <<gui, given, targets, collected, statesTodo, states, trouble>>

GetIds ==
  /\ phase = "ids"
  /\ idsTodo # <<>>
  /\ idsTodo' = Tail(idsTodo)
  /\ fids' = WithIds(Head(idsTodo), fids)
  /\ UNCHANGED <<gui, given, phase, targets, collected, statesTodo, states, exit, trouble>>

\* "The ids are decoration; a failure here must not cost the report."
IdsUnavailable ==
  /\ phase = "ids"
  /\ idsTodo # <<>>
  /\ idsTodo' = Tail(idsTodo)
  /\ trouble' = TRUE
  /\ UNCHANGED <<gui, given, phase, targets, collected, fids, statesTodo, states, exit>>

\* Mutant of GetStates: one map for all file systems, as for the ids.
GetStatesMixed ==
  /\ phase = "ids" /\ idsTodo = <<>>
  /\ statesTodo # <<>>
  /\ statesTodo' = Tail(statesTodo)
  /\ states' = [f \in DOMAIN states \cup {Head(statesTodo)} |-> Enforced[Head(statesTodo)]]
  /\ UNCHANGED <<gui, given, phase, targets, collected, idsTodo, fids, exit, trouble>>

\* quotaStatesFor, one file system; one read is not read again.
GetStates ==
  /\ phase = "ids" /\ idsTodo = <<>>
  /\ statesTodo # <<>>
  /\ LET f == Head(statesTodo)
     IN  /\ statesTodo' = Only(statesTodo, {i \in DOMAIN statesTodo : statesTodo[i] # f})
         /\ states' = [d \in DOMAIN states \cup {f} |-> IF d = f THEN Enforced[f] ELSE states[d]]
  /\ UNCHANGED <<gui, given, phase, targets, collected, idsTodo, fids, exit, trouble>>

\* One that cannot be read is left out, unless a later target names it too.
StatesUnavailable ==
  /\ phase = "ids" /\ idsTodo = <<>>
  /\ statesTodo # <<>>
  /\ statesTodo' = Tail(statesTodo)
  /\ trouble' = TRUE
  /\ UNCHANGED <<gui, given, phase, targets, collected, idsTodo, fids, states, exit>>

\* enforcedFor: "on" or "off" beside a quota.
ShownEnforced(e) == e.fs \in DOMAIN states /\ e.type \in states[e.fs]

PrintReport ==
  /\ phase = "ids"
  /\ idsTodo = <<>> /\ statesTodo = <<>>
  /\ phase' = "exited"
  /\ exit' = "ok"
  /\ UNCHANGED <<gui, given, targets, collected, decoration, trouble>>

\* Any other request that does not get through ends the command.
RequestFails ==
  /\ \/ phase = "targets" /\ command.operands = <<>>
     \/ phase \in {"filesystem", "filesets", "quotas"}
  /\ Fail
  /\ trouble' = TRUE
  /\ UNCHANGED <<gui, given, targets, collected, decoration>>

-----------------------------------------------------------------------------
(* Filesets come and go while the command runs. *)

CreateFileset(f, n) ==
  /\ phase # "exited"
  /\ ids[f][n] = 0
  /\ lastId[f] < MaxId
  /\ ids' = [ids EXCEPT ![f][n] = lastId[f] + 1]
  /\ lastId' = [lastId EXCEPT ![f] = @ + 1]
  /\ made' = made \cup {<<f, n>>}
  /\ UNCHANGED <<given, phase, targets, collected, decoration, exit, trouble, gone>>

DeleteFileset(f, n) ==
  /\ phase # "exited"
  /\ ids[f][n] # 0
  /\ ids' = [ids EXCEPT ![f][n] = 0]
  /\ gone' = gone \cup {<<f, n>>}
  /\ UNCHANGED <<lastId, given, phase, targets, collected, decoration, exit, trouble, made>>

Command ==
  \/ ResolveTargets
  \/ GetFilesystem
  \/ ListFilesets
  \/ GetQuotas
  \/ GetIds
  \/ IdsUnavailable
  \/ GetStates
  \/ StatesUnavailable
  \/ PrintReport
  \/ RequestFails

Next ==
  \/ Command
  \/ \E f \in FS, n \in Fileset : CreateFileset(f, n) \/ DeleteFileset(f, n)

\* No fairness: client.go:31 sets no timeout, so a request may never be answered
\* and the command never end.
Spec == Init /\ [][Next]_vars

-----------------------------------------------------------------------------
(* Properties *)

\* There from the first request of the command to now.
Steady(f, n) == n = Root \/ (Exists(f, n) /\ <<f, n>> \notin gone \cup made)

\* Every quota there can be.
AnyQuota ==
  {[fs |-> f, fileset |-> n, type |-> ty, name |-> a, id |-> Account[a]] :
     f \in FS, n \in Name, ty \in {"USR", "GRP"}, a \in DOMAIN Account}
  \cup {[fs |-> x[1], fileset |-> x[2], type |-> "FILESET", name |-> x[2], id |-> IdOf(x[1], x[2])] :
          x \in {y \in FS \X Name : Exists(y[1], y[2])}}

\* Target t asks for quota e: a fileset for the accounts' quotas in it, a file
\* system for those of its filesets, or of root alone when they are not kept
\* per fileset.
AsksFor(t, e) ==
  /\ e.fs = t.fs
  /\ IF t.fileset # NoFileset THEN e.fileset = t.fileset /\ e.type # "FILESET"
     ELSE e.fileset = Root \/ e.type = "FILESET" \/ t.fs \in PerFileset

\* The object of mmlsquota; mmrepquota is about everyone.
About(e) ==
  command.name = "mmlsquota" => command.object \in {e.name, ToString(e.id)}

\* A report that is printed has every quota it is about of every fileset that
\* was there all along, once for each target that asks for it, although
\* filesets are created and deleted between its requests (quota.go:75-135).
StableQuotasReported ==
  exit = "ok" =>
    \A e \in AnyQuota :
      Steady(e.fs, e.fileset) =>
        Cardinality({i \in DOMAIN entries : entries[i] = e}) =
          Cardinality({i \in DOMAIN targets :
                         e.type \in Range(command.types) /\ AsksFor(targets[i], e) /\ About(e)})

\* The command fails only when a request fails or for one of its targets: a
\* file system the token does not own, a fileset that is not there all along,
\* or one whose filesets, asked for one by one, go away under it.  Without
\* operands the targets are all file systems of the cluster (quota.go:564-573).
\* Only mmlsquota refuses a fileset's own quota in a fileset (quota.go:370-372).
FailureHasCause ==
  /\ exit = "failed" =>
       trouble \/ \E t \in Range(targets) :
         \/ ~Reachable(t.fs)
         \/ t.fileset # NoFileset /\ ~Steady(t.fs, t.fileset)
         \/ t.fileset = NoFileset /\ \E n \in Fileset : <<t.fs, n>> \in gone
  /\ exit = "usage" =>
       /\ command.name = "mmlsquota" /\ command.types = <<"FILESET">>
       /\ \E t \in Range(command.operands) : t.fileset # NoFileset

\* Where a line belongs: mmrepquota goes target by target, type by type and
\* object by object, mmlsquota object by object, and each lists an object's
\* quotas by the id of their fileset.
Place(e) ==
  LET target == CHOOSE i \in DOMAIN targets : targets[i].fs = e.fs
      type == CHOOSE i \in DOMAIN command.types : command.types[i] = e.type
  IN  IF command.name = "mmlsquota"
      THEN <<e.id, target, IdOf(e.fs, e.fileset)>>
      ELSE <<target, type, e.id, IdOf(e.fs, e.fileset)>>

InOrder(p, q) ==
  p = q \/ \E k \in DOMAIN p : p[k] < q[k] /\ \A j \in 1..(k - 1) : p[j] = q[j]

\* "The sort is stable, so entries collected fileset by fileset keep that order
\* within one object" (quota.go:540-547): lines of filesets there all along
\* stand in their place, when the targets are different file systems.
LinesInPlace ==
  exit = "ok" /\ (\A i, j \in DOMAIN targets : targets[i].fs = targets[j].fs => i = j) =>
    \A i, j \in DOMAIN entries :
      /\ i < j
      /\ Steady(entries[i].fs, entries[i].fileset) /\ Steady(entries[j].fs, entries[j].fileset)
      => InOrder(Place(entries[i]), Place(entries[j]))

\* Next to a quota of a fileset there all along stands that fileset's id.
FidRight(e) ==
  Steady(e.fs, e.fileset) /\ e.fileset \in DOMAIN fids =>
    fids[e.fileset] = IdOf(e.fs, e.fileset)

\* In a report over one file system the ids are right, although they are read
\* after the quotas and filesets of other names come and go (quota.go:503-516).
FidsRightInOne ==
  exit = "ok" /\ Cardinality({t.fs : t \in Range(targets)}) = 1 =>
    \A e \in Range(entries) : FidRight(e)

\* mmrepquota -Y never shows a quota as enforced that is not, whatever the mix
\* of file systems; it shows one as off that is enforced only when a request
\* failed, which ends neither the command nor its success (quota.go:249-266).
EnforcementRight ==
  exit = "ok" /\ ReadsStates =>
    \A e \in Range(entries) :
      /\ ShownEnforced(e) => e.type \in Enforced[e.fs]
      /\ e.type \in Enforced[e.fs] => ShownEnforced(e) \/ trouble

-----------------------------------------------------------------------------
(* What a comment says and the code does not do; see README.md. *)

\* "the fileset name to id mapping of the file systems in the given targets,
\* which -Y output reports alongside each quota" (quota.go:292-293): the ids
\* are right however many file systems a report is over.
FidsRight == exit = "ok" => \A e \in Range(entries) : FidRight(e)
=============================================================================
