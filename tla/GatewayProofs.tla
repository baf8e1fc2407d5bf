--------------------------- MODULE GatewayProofs ----------------------------
(***************************************************************************)
(* TLAPS proofs about TokenStore, for any sets Proc and Token, about its     *)
(* refinement of TokenRegistry with every fault, and about Gateway.         *)
(*                                                                         *)
(* The inductive invariant of the store is built in layers, each proved     *)
(* from the ones before it: the types; who holds saveMu and what the        *)
(* temporary file holds (Locking); what a delete has removed so far          *)
(* (Deleting); what a create has made durable so far (Creating); which       *)
(* tokens a copy of the map may be behind on (Lagging).                     *)
(*                                                                         *)
(* The gateway is shown to be an instance of the token store's behaviour, so *)
(* that everything proved of TokenStore holds of it; what the proxied        *)
(* requests may rely on follows from that.                                  *)
(***************************************************************************)
EXTENDS Gateway, TokenStoreRefinement, TLAPS

\* saveMu is held and the map has been copied.
Copied == {"truncate", "fill", "rename"}

-----------------------------------------------------------------------------
(* Types *)

\* Whole(S) and Torn are file contents.
LEMMA ContentsType ==
  /\ \A S \in SUBSET Token : Whole(S) \in Contents
  /\ Torn \in Contents
BY DEF Contents, Whole, Torn

\* A busy goroutine serves a create or a delete, of a token that Create has
\* put into the map.
Working ==
  \A p \in Proc : pc[p] # "idle" => op[p] # "none" /\ tok[p] \in minted

LEMMA TypeInit == Init => TypeOK /\ Working
<1> SUFFICES ASSUME Init
             PROVE  TypeOK /\ Working
  OBVIOUS
<1>1. file \in Contents /\ tmp \in Contents
  BY ContentsType DEF Init
<1>2. pc \in [Proc -> Control]
  BY DEF Init, Control
<1>3. answered \in [Status -> SUBSET Token]
  BY DEF Init
<1>4. Working
  BY DEF Init, Working
<1> QED BY <1>1, <1>2, <1>3, <1>4 DEF Init, TypeOK

\* The status of every answer is one of the five.
LEMMA StatusType ==
  ASSUME NEW o, NEW e
  PROVE  StatusOf(o, e) \in Status
BY DEF StatusOf, Status

\* Every step keeps every variable in its type.
LEMMA TypeStep == TypeOK /\ Working /\ [Next]_vars => TypeOK' /\ Working'
<1> SUFFICES ASSUME TypeOK, Working, [Next]_vars
             PROVE  TypeOK' /\ Working'
  OBVIOUS
<1> USE DEF TypeOK, Working, Control, Held
<1>1. ASSUME NEW p \in Proc, Create(p)
      PROVE  TypeOK' /\ Working'
  BY <1>1 DEF Create, Serving
<1>2. ASSUME NEW p \in Proc, Delete(p)
      PROVE  TypeOK' /\ Working'
  <2>1. PICK t \in minted : Serving(p, "delete", t)
                              /\ (DeleteFound(p, t) \/ DeleteMissing(p, t))
    BY <1>2 DEF Delete
  <2>2. CASE DeleteFound(p, t)
    BY <1>2, <2>1, <2>2 DEF Delete, Serving, DeleteFound
  <2>3. CASE DeleteMissing(p, t)
    BY <1>2, <2>1, <2>3 DEF Delete, Serving, DeleteMissing
  <2> QED BY <2>1, <2>2, <2>3
<1>3. ASSUME NEW p \in Proc, SaveAcquire(p)
      PROVE  TypeOK' /\ Working'
  BY <1>3 DEF SaveAcquire, At, Goto, seen
<1>4. ASSUME NEW p \in Proc, SaveSnapshot(p)
      PROVE  TypeOK' /\ Working'
  BY <1>4 DEF SaveSnapshot, At, Goto, store, seen
<1>5. ASSUME NEW p \in Proc, SaveTruncate(p)
      PROVE  TypeOK' /\ Working'
  BY <1>5 DEF SaveTruncate, At, Goto, seen, Torn, Contents
<1>6. ASSUME NEW p \in Proc, SaveFill(p)
      PROVE  TypeOK' /\ Working'
  BY <1>6 DEF SaveFill, At, Goto, seen, Whole, Contents
<1>7. ASSUME NEW p \in Proc, SaveRename(p)
      PROVE  TypeOK' /\ Working'
  BY <1>7 DEF SaveRename, At, Goto, ReleaseSaveMu, Whole, Contents
<1>8. ASSUME NEW p \in Proc, SaveFail(p)
      PROVE  TypeOK' /\ Working'
  BY <1>8 DEF SaveFail, Goto, ReleaseSaveMu
<1>9. ASSUME NEW p \in Proc, Reply(p)
      PROVE  TypeOK' /\ Working'
  <2>1. tok[p] \in Token
    BY <1>9 DEF Reply, At
  <2>2. answered' \in [Status -> SUBSET Token]
    BY <1>9, <2>1, StatusType DEF Reply
  <2> QED BY <1>9, <2>2 DEF Reply, At, Goto, Serving, store
<1>10. CASE Crash
  BY <1>10 DEF Crash, seen
<1>11. CASE Boot
  BY <1>11 DEF Boot, handlers, Loaded, Contents
<1>12. CASE UNCHANGED vars
  BY <1>12 DEF vars
<1> QED
  BY <1>1, <1>2, <1>3, <1>4, <1>5, <1>6, <1>7, <1>8, <1>9, <1>10, <1>11, <1>12
  DEF Next, Save

-----------------------------------------------------------------------------
(* Locking *)

\* The holder of saveMu, and nobody else, is between SaveAcquire and the end
\* of save.
Exclusive == \A p \in Proc : pc[p] \in Held <=> saveMu = p

\* A dead process has no map and no goroutines.
DownIsEmpty == ~up => mem = {} /\ \A p \in Proc : pc[p] = "idle"

\* Only tokens that were created are anywhere.
OnlyMinted ==
  /\ mem \subseteq minted
  /\ file.toks \subseteq minted
  /\ \A p \in Proc : snap[p] \subseteq minted

\* What is about to be renamed is the copy its writer took, all of it.
TmpIsReady == \A p \in Proc : pc[p] = "rename" => tmp = Whole(snap[p])

Locking ==
  /\ TypeOK
  /\ Working
  /\ Exclusive
  /\ DownIsEmpty
  /\ OnlyMinted
  /\ TmpIsReady
  /\ NeverTorn

LEMMA LockingInit == Init => Locking
<1> SUFFICES ASSUME Init
             PROVE  Locking
  OBVIOUS
<1>1. TypeOK /\ Working
  BY TypeInit
<1>2. Exclusive
  BY NoProcAssumption DEF Init, Exclusive, Held
<1>3. DownIsEmpty /\ OnlyMinted /\ TmpIsReady /\ NeverTorn
  BY DEF Init, DownIsEmpty, OnlyMinted, TmpIsReady, NeverTorn, Whole
<1> QED BY <1>1, <1>2, <1>3 DEF Locking

\* The lock discipline is inductive: no step of one goroutine touches the
\* temporary file or the copy of the one that holds saveMu.
LEMMA LockingStep == Locking /\ [Next]_vars => Locking'
<1> SUFFICES ASSUME Locking, [Next]_vars
             PROVE  Locking'
  OBVIOUS
<1>0. TypeOK' /\ Working'
  BY TypeStep DEF Locking
<1> USE NoProcAssumption
        DEF Locking, TypeOK, Working, Exclusive, DownIsEmpty, OnlyMinted,
            TmpIsReady, NeverTorn, Control, Held
<1>1. ASSUME NEW p \in Proc, Create(p)
      PROVE  Locking'
  BY <1>0, <1>1 DEF Create, Serving
<1>2. ASSUME NEW p \in Proc, Delete(p)
      PROVE  Locking'
  BY <1>0, <1>2 DEF Delete, Serving, DeleteFound, DeleteMissing
<1>3. ASSUME NEW p \in Proc, SaveAcquire(p)
      PROVE  Locking'
  BY <1>0, <1>3 DEF SaveAcquire, SaveMuFree, At, Goto, seen
<1>4. ASSUME NEW p \in Proc, SaveSnapshot(p)
      PROVE  Locking'
  BY <1>0, <1>4 DEF SaveSnapshot, At, Goto, store, seen
<1>5. ASSUME NEW p \in Proc, SaveTruncate(p)
      PROVE  Locking'
  BY <1>0, <1>5 DEF SaveTruncate, At, Goto, seen, Torn
<1>6. ASSUME NEW p \in Proc, SaveFill(p)
      PROVE  Locking'
  BY <1>0, <1>6 DEF SaveFill, At, Goto, seen, Whole
<1>7. ASSUME NEW p \in Proc, SaveRename(p)
      PROVE  Locking'
  BY <1>0, <1>7 DEF SaveRename, At, Goto, ReleaseSaveMu, Whole
<1>8. ASSUME NEW p \in Proc, SaveFail(p)
      PROVE  Locking'
  BY <1>0, <1>8 DEF SaveFail, Goto, ReleaseSaveMu
<1>9. ASSUME NEW p \in Proc, Reply(p)
      PROVE  Locking'
  BY <1>0, <1>9 DEF Reply, At, Goto, Serving, store
<1>10. CASE Crash
  BY <1>0, <1>10 DEF Crash, seen
<1>11. CASE Boot
  BY <1>0, <1>11 DEF Boot, handlers, Loaded
<1>12. CASE UNCHANGED vars
  BY <1>0, <1>12 DEF vars
<1> QED
  BY <1>1, <1>2, <1>3, <1>4, <1>5, <1>6, <1>7, <1>8, <1>9, <1>10, <1>11, <1>12
  DEF Next, Save

LEMMA LockingInvariant == Spec => []Locking
BY LockingInit, LockingStep, PTL DEF Spec

\* Every variable keeps its type.
THEOREM TypeCorrect == Spec => []TypeOK
BY LockingInvariant, PTL DEF Locking

\* tokens.json is never half written, for any number of goroutines and any
\* crashes and disk faults (token.go:170-176).
THEOREM TokensJsonNeverTorn == Spec => []NeverTorn
BY LockingInvariant, PTL DEF Locking

-----------------------------------------------------------------------------
(* Deleting *)

\* t is nowhere and can come back from nowhere: not from the map, not from
\* the file, not from the copy a running save is about to write.
Gone(t) ==
  /\ t \in minted
  /\ t \notin mem
  /\ t \notin file.toks
  /\ \A q \in Proc : pc[q] \in Copied => t \notin snap[q]

\* How far the delete served by p has got.
DeleteProgress(p) ==
  /\ pc[p] \in {"lock"} \cup Held => tok[p] \notin mem
  /\ pc[p] \in Copied => tok[p] \notin snap[p]
  /\ pc[p] = "reply" /\ err[p] = "nil" => Gone(tok[p])

Deleting ==
  /\ \A p \in Proc : op[p] = "delete" => DeleteProgress(p)
  /\ \A t \in answered["deleted"] : Gone(t)

LEMMA DeletingInit == Init => Deleting
BY DEF Init, Deleting, DeleteProgress, Held, Copied, Status

\* A token a delete has removed is not put back by Create, whose tokens are
\* fresh, nor by a save, whose copy is taken after the removal.
LEMMA DeletingStep == Locking /\ Deleting /\ [Next]_vars => Deleting'
<1> SUFFICES ASSUME Locking, Deleting, [Next]_vars
             PROVE  Deleting'
  OBVIOUS
<1> USE NoProcAssumption, NoTokenAssumption
        DEF Deleting, DeleteProgress, Gone, Copied, Locking, TypeOK, Working,
            Exclusive, DownIsEmpty, OnlyMinted, TmpIsReady, NeverTorn,
            Control, Held, Status
<1>1. ASSUME NEW p \in Proc, Create(p)
      PROVE  Deleting'
  BY <1>1 DEF Create, Serving
<1>2. ASSUME NEW p \in Proc, Delete(p)
      PROVE  Deleting'
  BY <1>2 DEF Delete, Serving, DeleteFound, DeleteMissing
<1>3. ASSUME NEW p \in Proc, SaveAcquire(p)
      PROVE  Deleting'
  BY <1>3 DEF SaveAcquire, SaveMuFree, At, Goto, seen
<1>4. ASSUME NEW p \in Proc, SaveSnapshot(p)
      PROVE  Deleting'
  BY <1>4 DEF SaveSnapshot, At, Goto, store, seen
<1>5. ASSUME NEW p \in Proc, SaveTruncate(p)
      PROVE  Deleting'
  BY <1>5 DEF SaveTruncate, At, Goto, seen
<1>6. ASSUME NEW p \in Proc, SaveFill(p)
      PROVE  Deleting'
  BY <1>6 DEF SaveFill, At, Goto, seen
<1>7. ASSUME NEW p \in Proc, SaveRename(p)
      PROVE  Deleting'
  BY <1>7 DEF SaveRename, At, Goto, ReleaseSaveMu, Whole
<1>8. ASSUME NEW p \in Proc, SaveFail(p)
      PROVE  Deleting'
  BY <1>8 DEF SaveFail, Goto, ReleaseSaveMu
<1>9. ASSUME NEW p \in Proc, Reply(p)
      PROVE  Deleting'
  <2>1. op[p] \in {"create", "delete"} /\ tok[p] \in minted
    BY <1>9 DEF Reply, At
  <2>2. StatusOf(op[p], err[p]) = "deleted" => op[p] = "delete" /\ err[p] = "nil"
    BY <2>1 DEF StatusOf
  <2>3. \A t \in answered'["deleted"] : Gone(t)
    BY <1>9, <2>2, StatusType DEF Reply, At
  <2> QED BY <1>9, <2>3 DEF Reply, At, Goto, Serving, store
<1>10. CASE Crash
  BY <1>10 DEF Crash, seen
<1>11. CASE Boot
  BY <1>11 DEF Boot, handlers, Loaded
<1>12. CASE UNCHANGED vars
  BY <1>12 DEF vars
<1> QED
  BY <1>1, <1>2, <1>3, <1>4, <1>5, <1>6, <1>7, <1>8, <1>9, <1>10, <1>11, <1>12
  DEF Next, Save

\* A delete that was answered 204 is final: the token is never again in the
\* map or in tokens.json, over every crash, restart, disk or read fault and
\* concurrent request.
THEOREM DeleteIsFinal == Spec => []DeletedIsFinal
<1>1. Deleting => DeletedIsFinal
  BY DEF Deleting, Gone, DeletedIsFinal
<1> QED
  BY <1>1, LockingInvariant, DeletingInit, DeletingStep, PTL DEF Spec

-----------------------------------------------------------------------------
(* Creating *)

\* Unless a delete has removed it or a start has failed to read the file, t is
\* in the file, in the map of a running process and in every copy about to
\* replace the file.
Kept(t) ==
  /\ t \in minted
  /\ t \notin revoked \cup forgotten =>
       /\ t \in file.toks
       /\ up => t \in mem
       /\ \A q \in Proc : pc[q] \in Copied => t \in snap[q]

\* How far the create served by p has got.
CreateProgress(p) ==
  /\ pc[p] \in {"lock"} \cup Held => tok[p] \in mem \cup revoked
  /\ pc[p] \in Copied => tok[p] \in snap[p] \cup revoked
  /\ pc[p] = "reply" /\ err[p] = "nil" => Kept(tok[p])

Creating ==
  /\ \A p \in Proc : op[p] = "create" => CreateProgress(p)
  /\ \A t \in answered["created"] : Kept(t)

LEMMA CreatingInit == Init => Creating
BY DEF Init, Creating, CreateProgress, Held, Copied, Status

\* Nothing but a delete takes a saved token out of the map, and a restart
\* that can read the file puts it back.
LEMMA CreatingStep == Locking /\ Creating /\ [Next]_vars => Creating'
<1> SUFFICES ASSUME Locking, Creating, [Next]_vars
             PROVE  Creating'
  OBVIOUS
<1> USE NoProcAssumption, NoTokenAssumption
        DEF Creating, CreateProgress, Kept, Copied, Locking, TypeOK, Working,
            Exclusive, DownIsEmpty, OnlyMinted, TmpIsReady, NeverTorn,
            Control, Held, Status
<1>1. ASSUME NEW p \in Proc, Create(p)
      PROVE  Creating'
  BY <1>1 DEF Create, Serving
<1>2. ASSUME NEW p \in Proc, Delete(p)
      PROVE  Creating'
  BY <1>2 DEF Delete, Serving, DeleteFound, DeleteMissing
<1>3. ASSUME NEW p \in Proc, SaveAcquire(p)
      PROVE  Creating'
  BY <1>3 DEF SaveAcquire, SaveMuFree, At, Goto, seen
<1>4. ASSUME NEW p \in Proc, SaveSnapshot(p)
      PROVE  Creating'
  BY <1>4 DEF SaveSnapshot, At, Goto, store, seen
<1>5. ASSUME NEW p \in Proc, SaveTruncate(p)
      PROVE  Creating'
  BY <1>5 DEF SaveTruncate, At, Goto, seen
<1>6. ASSUME NEW p \in Proc, SaveFill(p)
      PROVE  Creating'
  BY <1>6 DEF SaveFill, At, Goto, seen
<1>7. ASSUME NEW p \in Proc, SaveRename(p)
      PROVE  Creating'
  BY <1>7 DEF SaveRename, At, Goto, ReleaseSaveMu, Whole
<1>8. ASSUME NEW p \in Proc, SaveFail(p)
      PROVE  Creating'
  BY <1>8 DEF SaveFail, Goto, ReleaseSaveMu
<1>9. ASSUME NEW p \in Proc, Reply(p)
      PROVE  Creating'
  BY <1>9 DEF Reply, At, Goto, Serving, store, StatusOf
<1>10. CASE Crash
  BY <1>10 DEF Crash, seen
<1>11. CASE Boot
  BY <1>11 DEF Boot, handlers, Loaded
<1>12. CASE UNCHANGED vars
  BY <1>12 DEF vars
<1> QED
  BY <1>1, <1>2, <1>3, <1>4, <1>5, <1>6, <1>7, <1>8, <1>9, <1>10, <1>11, <1>12
  DEF Next, Save

\* A create that was answered 200 is durable: the token stays in the file and,
\* while the process runs, in the map until a delete removes it or a start
\* cannot read the file that holds it.
THEOREM CreateIsDurable == Spec => []CreatedIsDurable
<1>1. Creating => CreatedIsDurable
  BY DEF Creating, Kept, CreatedIsDurable
<1> QED
  BY <1>1, LockingInvariant, CreatingInit, CreatingStep, PTL DEF Spec

-----------------------------------------------------------------------------
(* Lagging *)

\* Where two sets of tokens differ.
Difference(A, B) == (A \ B) \cup (B \ A)

\* A copy misses only what requests still waiting for saveMu have changed.
CopyLag ==
  \A p \in Proc : pc[p] \in Copied =>
    \A t \in Difference(mem, snap[p]) :
      \E q \in Proc : pc[q] = "lock" /\ tok[q] = t

Lagging == CopyLag /\ DiskLagIsOwed

LEMMA LaggingInit == Init => Lagging
BY DEF Init, Lagging, CopyLag, DiskLagIsOwed, Difference, Copied, Whole

\* A request that changes the map for t waits for saveMu, so neither a copy
\* nor the file can be behind on t without it.
LEMMA LaggingStep == Locking /\ Lagging /\ [Next]_vars => Lagging'
<1> SUFFICES ASSUME Locking, Lagging, [Next]_vars
             PROVE  Lagging'
  OBVIOUS
<1> USE NoProcAssumption, NoTokenAssumption
        DEF Lagging, CopyLag, DiskLagIsOwed, Difference, Owes, Copied,
            Locking, TypeOK, Working, Exclusive, DownIsEmpty, OnlyMinted,
            TmpIsReady, NeverTorn, Control, Held
<1>1. ASSUME NEW p \in Proc, Create(p)
      PROVE  Lagging'
  BY <1>1 DEF Create, Serving
<1>2. ASSUME NEW p \in Proc, Delete(p)
      PROVE  Lagging'
  BY <1>2 DEF Delete, Serving, DeleteFound, DeleteMissing
<1>3. ASSUME NEW p \in Proc, SaveAcquire(p)
      PROVE  Lagging'
  BY <1>3 DEF SaveAcquire, SaveMuFree, At, Goto, seen
<1>4. ASSUME NEW p \in Proc, SaveSnapshot(p)
      PROVE  Lagging'
  BY <1>4 DEF SaveSnapshot, At, Goto, store, seen
<1>5. ASSUME NEW p \in Proc, SaveTruncate(p)
      PROVE  Lagging'
  BY <1>5 DEF SaveTruncate, At, Goto, seen
<1>6. ASSUME NEW p \in Proc, SaveFill(p)
      PROVE  Lagging'
  BY <1>6 DEF SaveFill, At, Goto, seen
<1>7. ASSUME NEW p \in Proc, SaveRename(p)
      PROVE  Lagging'
  BY <1>7 DEF SaveRename, At, Goto, ReleaseSaveMu, Whole
<1>8. ASSUME NEW p \in Proc, SaveFail(p)
      PROVE  Lagging'
  BY <1>8 DEF SaveFail, Goto, ReleaseSaveMu
<1>9. ASSUME NEW p \in Proc, Reply(p)
      PROVE  Lagging'
  BY <1>9 DEF Reply, At, Goto, Serving, store
<1>10. CASE Crash
  BY <1>10 DEF Crash, seen
<1>11. CASE Boot
  BY <1>11 DEF Boot, handlers, Loaded
<1>12. CASE UNCHANGED vars
  BY <1>12 DEF vars
<1> QED
  BY <1>1, <1>2, <1>3, <1>4, <1>5, <1>6, <1>7, <1>8, <1>9, <1>10, <1>11, <1>12
  DEF Next, Save

\* The map and tokens.json differ only in tokens some running request is
\* still to save, as long as no save or load has failed since the last good
\* save.
THEOREM DiskLag == Spec => []DiskLagIsOwed
<1>1. Lagging => DiskLagIsOwed
  BY DEF Lagging
<1> QED
  BY <1>1, LockingInvariant, LaggingInit, LaggingStep, PTL DEF Spec

-----------------------------------------------------------------------------
(* The refinement of TokenRegistry.  Most steps of a save leave every life as *)
(* it is.  The one that counts is SaveRename, which settles many tokens at    *)
(* once; that it takes no live token back to "offered" needs one more layer   *)
(* of the invariant (Settling).                                               *)

\* A copy is there only while it is being written, and has every token the
\* map shares with the file.
CopyHasLive ==
  \A p \in Proc :
    /\ pc[p] \notin Copied => snap[p] = {}
    /\ pc[p] \in Copied => mem \cap file.toks \subseteq snap[p]

\* Only a token that is new to the file can be in the map and not in the file.
OfferedIsNew ==
  /\ revoked \cup forgotten \subseteq minted
  /\ \A t \in mem \ file.toks : t \notin revoked \cup forgotten

\* What a delete has answered, or is about to, is out of the map.
DeletedIsOut == \A p \in Proc : pc[p] # "idle" /\ op[p] = "delete" => tok[p] \notin mem

Settling == CopyHasLive /\ OfferedIsNew /\ DeletedIsOut

LEMMA SettlingInit == Init => Settling
BY DEF Init, Settling, CopyHasLive, OfferedIsNew, DeletedIsOut, Copied, Whole

\* Create takes a token no file and no copy has; a copy is the whole map; and
\* the rename puts the copy, which has every live token, in place.
LEMMA SettlingStep == Locking /\ Settling /\ [Next]_vars => Settling'
<1> SUFFICES ASSUME Locking, Settling, [Next]_vars
             PROVE  Settling'
  OBVIOUS
<1> USE NoProcAssumption, NoTokenAssumption
        DEF Settling, CopyHasLive, OfferedIsNew, DeletedIsOut, Copied, Locking,
            TypeOK, Working, Exclusive, DownIsEmpty, OnlyMinted, TmpIsReady,
            NeverTorn, Control, Held
<1>1. ASSUME NEW p \in Proc, Create(p)
      PROVE  Settling'
  BY <1>1 DEF Create, Serving
<1>2. ASSUME NEW p \in Proc, Delete(p)
      PROVE  Settling'
  BY <1>2 DEF Delete, Serving, DeleteFound, DeleteMissing
<1>3. ASSUME NEW p \in Proc, SaveAcquire(p)
      PROVE  Settling'
  BY <1>3 DEF SaveAcquire, SaveMuFree, At, Goto, seen
<1>4. ASSUME NEW p \in Proc, SaveSnapshot(p)
      PROVE  Settling'
  BY <1>4 DEF SaveSnapshot, At, Goto, store, seen
<1>5. ASSUME NEW p \in Proc, SaveTruncate(p)
      PROVE  Settling'
  BY <1>5 DEF SaveTruncate, At, Goto, seen
<1>6. ASSUME NEW p \in Proc, SaveFill(p)
      PROVE  Settling'
  BY <1>6 DEF SaveFill, At, Goto, seen
<1>7. ASSUME NEW p \in Proc, SaveRename(p)
      PROVE  Settling'
  BY <1>7 DEF SaveRename, At, Goto, ReleaseSaveMu, Whole
<1>8. ASSUME NEW p \in Proc, SaveFail(p)
      PROVE  Settling'
  BY <1>8 DEF SaveFail, Goto, ReleaseSaveMu
<1>9. ASSUME NEW p \in Proc, Reply(p)
      PROVE  Settling'
  BY <1>9 DEF Reply, At, Goto, Serving, store
<1>10. CASE Crash
  BY <1>10 DEF Crash, seen
<1>11. CASE Boot
  BY <1>11 DEF Boot, handlers, Loaded
<1>12. CASE UNCHANGED vars
  BY <1>12 DEF vars
<1> QED
  BY <1>1, <1>2, <1>3, <1>4, <1>5, <1>6, <1>7, <1>8, <1>9, <1>10, <1>11, <1>12
  DEF Next, Save

-----------------------------------------------------------------------------
(* Steps *)

\* A step that changes no life and gives no answer is none of the registry's.
LEMMA Unmoved ==
  ASSUME \A t \in Token : LifeOf(t)' = LifeOf(t), answered' = answered
  PROVE  UNCHANGED Registry!vars
BY DEF Registry!vars

\* Create offers its token, which nothing on disk has.
LEMMA CreateOffers ==
  ASSUME Locking, NEW p \in Proc, Create(p)
  PROVE  Registry!Next
<1> USE DEF Locking, TypeOK, OnlyMinted
<1>1. PICK n \in Token \ minted : mem' = mem \cup {n} /\ minted' = minted \cup {n}
  BY DEF Create
<1>2. /\ up /\ up' = up /\ file' = file /\ snap' = snap /\ answered' = answered
  BY DEF Create
<1>3. LifeOf(n) = "fresh" /\ LifeOf(n)' = "offered"
  BY <1>1, <1>2 DEF LifeOf, Accepted
<1>4. \A t \in Token \ {n} : LifeOf(t)' = LifeOf(t)
  BY <1>1, <1>2 DEF LifeOf, Accepted, OnDisk
<1>5. Registry!Offer(n)
  BY <1>2, <1>3, <1>4 DEF Registry!Offer
<1> QED BY <1>5 DEF Registry!Next

\* Delete withdraws the token it finds, and changes nothing when it finds none.
LEMMA DeleteWithdraws ==
  ASSUME Locking, NEW p \in Proc, Delete(p)
  PROVE  Registry!Next \/ UNCHANGED Registry!vars
<1> USE DEF Locking, TypeOK, OnlyMinted
<1>1. PICK d \in minted : DeleteFound(p, d) \/ DeleteMissing(p, d)
  BY DEF Delete
<1>2. /\ up /\ up' = up /\ file' = file /\ snap' = snap /\ minted' = minted
      /\ answered' = answered
  BY DEF Delete
<1>3. CASE DeleteFound(p, d)
  <2>1. d \in mem /\ mem' = mem \ {d}
    BY <1>3 DEF DeleteFound
  <2>2. LifeOf(d) = IF d \in file.toks THEN "live" ELSE "offered"
    BY <1>2, <2>1 DEF LifeOf, Accepted
  <2>3. /\ LifeOf(d)' \in {"leaving", "gone"}
        /\ d \in file.toks => LifeOf(d)' = "leaving"
    BY <1>2, <2>1 DEF LifeOf, Accepted, OnDisk
  <2>4. \A t \in Token \ {d} : LifeOf(t)' = LifeOf(t)
    BY <1>2, <2>1 DEF LifeOf, Accepted, OnDisk
  <2>5. Registry!Withdraw(d)
    BY <1>2, <2>2, <2>3, <2>4 DEF Registry!Withdraw
  <2> QED BY <2>5 DEF Registry!Next
<1>4. CASE DeleteMissing(p, d)
  <2>1. \A t \in Token : LifeOf(t)' = LifeOf(t)
    BY <1>2, <1>4 DEF DeleteMissing, LifeOf, Accepted, OnDisk
  <2> QED BY <1>2, <2>1, Unmoved
<1> QED BY <1>1, <1>3, <1>4

\* The copy is of tokens that are accepted: it brings no life back.
LEMMA SnapshotUnmoved ==
  ASSUME Locking, Settling, NEW p \in Proc, SaveSnapshot(p)
  PROVE  UNCHANGED Registry!vars
<1> USE DEF Locking, TypeOK, Exclusive, Settling, CopyHasLive, Copied, Held
<1>1. /\ up /\ up' = up /\ mem' = mem /\ file' = file /\ minted' = minted
      /\ answered' = answered
      /\ snap[p] = {} /\ snap' = [snap EXCEPT ![p] = mem]
  BY DEF SaveSnapshot, At, store, seen
<1>2. \A t \in Token : t \notin mem => OnDisk(t)' = OnDisk(t)
  BY <1>1 DEF OnDisk
<1>3. \A t \in Token : LifeOf(t)' = LifeOf(t)
  BY <1>1, <1>2 DEF LifeOf, Accepted
<1> QED BY <1>1, <1>3, Unmoved

\* What the end of a save leaves: nobody else has a copy.
LEMMA OneCopy ==
  ASSUME Locking, Settling, NEW p \in Proc, pc[p] \in Held
  PROVE  \A q \in Proc : q # p => snap[q] = {}
BY DEF Locking, Exclusive, Settling, CopyHasLive, Copied, Held

\* The rename makes every token of the copy that is in the map live and drops
\* the leaving ones that are not in the copy, all at once.
LEMMA RenameSettles ==
  ASSUME Locking, Settling, NEW p \in Proc, SaveRename(p)
  PROVE  Registry!Next
<1> USE DEF Locking, TypeOK, OnlyMinted, Exclusive, TmpIsReady, Settling, CopyHasLive,
            Copied, Held
<1>1. /\ pc[p] = "rename" /\ up /\ up' = up /\ mem' = mem /\ minted' = minted
      /\ answered' = answered
      /\ file'.toks = snap[p] /\ snap' = [snap EXCEPT ![p] = {}]
  BY DEF SaveRename, At, ReleaseSaveMu, Whole
<1>2. /\ \A t : OnDisk(t) <=> t \in file.toks \cup snap[p]
      /\ \A t : OnDisk(t)' <=> t \in snap[p]
  BY <1>1, OneCopy DEF OnDisk
<1> DEFINE kept == {t \in Token : LifeOf(t) = "offered" /\ t \in snap[p]}
           dropped == {t \in Token : LifeOf(t) = "leaving" /\ t \notin snap[p]}
<1>3. \A t \in kept : LifeOf(t)' = "live"
  BY <1>1 DEF LifeOf, Accepted
<1>4. \A t \in dropped : LifeOf(t)' = "gone"
  BY <1>1, <1>2 DEF LifeOf, Accepted
<1>5. \A t \in Token \ (kept \cup dropped) : LifeOf(t)' = LifeOf(t)
  BY <1>1, <1>2 DEF LifeOf, Accepted
<1> DEFINE now == [t \in Token |-> LifeOf(t)]
<1>6. now' = [t \in Token |-> CASE t \in kept -> "live"
                                [] t \in dropped -> "gone"
                                [] OTHER -> now[t]]
  BY <1>3, <1>4, <1>5
<1>7. kept \in SUBSET Registry!At("offered") /\ dropped \in SUBSET Registry!At("leaving")
  BY DEF Registry!At
<1> HIDE DEF kept, dropped
<1>8. Registry!Settle
  BY <1>1, <1>6, <1>7 DEF Registry!Settle
<1> QED BY <1>8 DEF Registry!Next

\* A save that fails gives its copy up: what was only in the copy is gone.
LEMMA FailSettles ==
  ASSUME Locking, Settling, NEW p \in Proc, SaveFail(p)
  PROVE  Registry!Next
<1> USE DEF Locking, TypeOK, OnlyMinted, Exclusive, Settling, CopyHasLive, Copied, Held
<1>1. /\ pc[p] \in Held /\ up /\ up' = up /\ mem' = mem /\ minted' = minted
      /\ answered' = answered /\ file' = file
      /\ snap' = [snap EXCEPT ![p] = {}]
  BY DEF SaveFail, ReleaseSaveMu
<1>2. /\ \A t : OnDisk(t) <=> t \in file.toks \cup snap[p]
      /\ \A t : OnDisk(t)' <=> t \in file.toks
  BY <1>1, OneCopy DEF OnDisk
<1> DEFINE dropped == {t \in Token : LifeOf(t) = "leaving" /\ t \notin file.toks}
           now == [t \in Token |-> LifeOf(t)]
<1>3. \A t \in dropped : LifeOf(t)' = "gone"
  BY <1>1, <1>2 DEF LifeOf, Accepted
<1>4. \A t \in Token \ dropped : LifeOf(t)' = LifeOf(t)
  BY <1>1, <1>2 DEF LifeOf, Accepted
<1>5. now' = [t \in Token |-> CASE t \in {} -> "live"
                                [] t \in dropped -> "gone"
                                [] OTHER -> now[t]]
  BY <1>3, <1>4
<1>6. {} \in SUBSET Registry!At("offered") /\ dropped \in SUBSET Registry!At("leaving")
  BY DEF Registry!At
<1> HIDE DEF dropped
<1>7. Registry!Settle
  BY <1>1, <1>5, <1>6 DEF Registry!Settle
<1> QED BY <1>7 DEF Registry!Next

\* An answer is given when the life of its token warrants it: this is where
\* the durability of creates and the finality of deletes come in.
LEMMA ReplyAnswers ==
  ASSUME Locking, Deleting, Creating, Settling, NEW p \in Proc, Reply(p)
  PROVE  Registry!Next
<1> DEFINE t == tok[p]
           s == StatusOf(op[p], err[p])
<1> USE DEF Locking, TypeOK, Working
<1>1. /\ up /\ pc[p] = "reply" /\ op[p] \in {"create", "delete"} /\ t \in minted
      /\ err[p] \in {"nil", "notFound", "save"}
      /\ answered' = [answered EXCEPT ![s] = @ \cup {t}]
      /\ UNCHANGED <<up, mem, file, snap, minted>>
  BY DEF Reply, At, store
<1>2. \A x \in Token : LifeOf(x)' = LifeOf(x)
  BY <1>1 DEF LifeOf, Accepted, OnDisk
<1>3. s \in Registry!Status
  BY StatusType DEF Status, Registry!Status
<1>4. LifeOf(t) # "fresh"
  BY <1>1 DEF LifeOf
<1>5. s = "created" => LifeOf(t) # "offered"
  <2> SUFFICES ASSUME s = "created", LifeOf(t) = "offered"
               PROVE  FALSE
    OBVIOUS
  <2>1. t \in mem \ file.toks
    BY <1>1 DEF LifeOf, Accepted
  <2>2. op[p] = "create" /\ err[p] = "nil"
    BY <1>1 DEF StatusOf
  <2>3. Kept(t)
    BY <1>1, <2>2 DEF Creating, CreateProgress
  <2> QED BY <2>1, <2>3 DEF Kept, Settling, OfferedIsNew
<1>6. s = "deleted" => LifeOf(t) = "gone"
  <2> SUFFICES ASSUME s = "deleted"
               PROVE  LifeOf(t) = "gone"
    OBVIOUS
  <2>1. op[p] = "delete" /\ err[p] = "nil"
    BY <1>1 DEF StatusOf
  <2>2. Gone(t)
    BY <1>1, <2>1 DEF Deleting, DeleteProgress
  <2>3. ~OnDisk(t)
    BY <2>2 DEF Gone, OnDisk, Settling, CopyHasLive
  <2> QED BY <1>1, <2>2, <2>3 DEF Gone, LifeOf, Accepted
<1>7. s \in {"notFound", "deleteFailed"} => LifeOf(t) \in {"leaving", "gone"}
  <2> SUFFICES ASSUME s \in {"notFound", "deleteFailed"}
               PROVE  LifeOf(t) \in {"leaving", "gone"}
    OBVIOUS
  <2>1. op[p] = "delete"
    BY <1>1 DEF StatusOf
  <2>2. t \notin mem
    BY <1>1, <2>1 DEF Settling, DeletedIsOut
  <2> QED BY <1>1, <2>2 DEF LifeOf, Accepted
<1>8. t \in Token
  BY <1>1
<1> HIDE DEF s, t
<1>9. Registry!Warrants(s, t)
  BY <1>3, <1>4, <1>5, <1>6, <1>7, <1>8 DEF Registry!Warrants, Registry!Status
<1>10. Registry!Answer(s, t)
  BY <1>1, <1>2, <1>9 DEF Registry!Answer
<1> QED BY <1>3, <1>8, <1>10 DEF Registry!Next

\* The end of the process decides: the file is what will be accepted.
LEMMA CrashRestarts ==
  ASSUME Locking, Crash
  PROVE  Registry!Next
<1> USE DEF Locking, TypeOK, OnlyMinted
<1>1. /\ up /\ up' = FALSE /\ file' = file /\ minted' = minted /\ answered' = answered
      /\ snap' = [p \in Proc |-> {}]
  BY DEF Crash, seen
<1>2. /\ Accepted = mem /\ Accepted' = file.toks
      /\ \A t : OnDisk(t)' <=> t \in file.toks
  BY <1>1 DEF Accepted, OnDisk
<1> DEFINE now == [t \in Token |-> LifeOf(t)]
           back == {t \in Token : LifeOf(t) = "leaving" /\ t \in file.toks}
<1>3. \A t \in Token :
        /\ t \in back => LifeOf(t)' = "live"
        /\ LifeOf(t) = "leaving" /\ t \notin back => LifeOf(t)' = "gone"
        /\ LifeOf(t) = "offered" => LifeOf(t)' = "gone"
        /\ LifeOf(t) \notin {"leaving", "offered"} => LifeOf(t)' = LifeOf(t)
  <2> SUFFICES ASSUME NEW t \in Token
               PROVE  /\ t \in back => LifeOf(t)' = "live"
                      /\ LifeOf(t) = "leaving" /\ t \notin back => LifeOf(t)' = "gone"
                      /\ LifeOf(t) = "offered" => LifeOf(t)' = "gone"
                      /\ LifeOf(t) \notin {"leaving", "offered"} => LifeOf(t)' = LifeOf(t)
    OBVIOUS
  <2>1. LifeOf(t)' = IF t \notin minted THEN "fresh" ELSE IF t \in file.toks THEN "live" ELSE "gone"
    BY <1>1, <1>2 DEF LifeOf
  <2>2. t \in file.toks => OnDisk(t)
    BY DEF OnDisk
  <2> QED BY <1>2, <2>1, <2>2 DEF LifeOf
<1>4. back \in SUBSET Registry!At("leaving")
  BY DEF Registry!At
<1> HIDE DEF back
<1>5. now' = [t \in Token |-> CASE t \in back -> "live"
                                [] t \in Registry!At("leaving") \ back -> "gone"
                                [] t \in Registry!At("offered") -> "gone"
                                [] OTHER -> now[t]]
  BY <1>3, <1>4 DEF Registry!At
<1>6. Registry!Restart
  BY <1>1, <1>4, <1>5 DEF Registry!Restart
<1> QED BY <1>6 DEF Registry!Next

\* A start reads back what will be accepted, or mislays all of it.
LEMMA BootMislays ==
  ASSUME Locking, Settling, Boot
  PROVE  Registry!Next \/ UNCHANGED Registry!vars
<1> USE DEF Locking, TypeOK, OnlyMinted, NeverTorn, DownIsEmpty, Settling, CopyHasLive, Copied
<1>1. /\ ~up /\ up' = TRUE /\ file' = file /\ minted' = minted /\ answered' = answered
      /\ snap' = snap /\ \A p \in Proc : snap[p] = {}
  BY DEF Boot, handlers
<1>2. /\ Accepted = file.toks /\ Accepted' = mem'
      /\ \A t : (OnDisk(t) <=> t \in file.toks) /\ (OnDisk(t)' <=> t \in file.toks)
  BY <1>1 DEF Accepted, OnDisk
<1>3. CASE mem' = Loaded(file)
  <2>1. \A t \in Token : LifeOf(t)' = LifeOf(t)
    BY <1>1, <1>2, <1>3 DEF LifeOf, Loaded
  <2> QED BY <1>1, <2>1, Unmoved
<1>4. CASE ReadFaults /\ mem' = {}
  <2>1. \A t \in Token : LifeOf(t)' = IF LifeOf(t) = "live" THEN "leaving" ELSE LifeOf(t)
    BY <1>1, <1>2, <1>4 DEF LifeOf
  <2>2. Registry!Mislay
    BY <1>1, <1>4, <2>1 DEF Registry!Mislay
  <2> QED BY <2>2 DEF Registry!Next
<1> QED BY <1>3, <1>4 DEF Boot

LEMMA RegistryInit == Init => Registry!Init
BY DEF Init, Registry!Init, LifeOf, Status, Registry!Status

LEMMA RegistryStep ==
  Locking /\ Deleting /\ Creating /\ Settling /\ [Next]_vars => [Registry!Next]_(Registry!vars)
<1> SUFFICES ASSUME Locking, Deleting, Creating, Settling, [Next]_vars
             PROVE  Registry!Next \/ UNCHANGED Registry!vars
  OBVIOUS
<1>1. ASSUME NEW p \in Proc, Create(p)
      PROVE  Registry!Next
  BY <1>1, CreateOffers
<1>2. ASSUME NEW p \in Proc, Delete(p)
      PROVE  Registry!Next \/ UNCHANGED Registry!vars
  BY <1>2, DeleteWithdraws
<1>3. ASSUME NEW p \in Proc, SaveSnapshot(p)
      PROVE  UNCHANGED Registry!vars
  BY <1>3, SnapshotUnmoved
<1>4. ASSUME NEW p \in Proc, SaveAcquire(p) \/ SaveTruncate(p) \/ SaveFill(p)
      PROVE  UNCHANGED Registry!vars
  <2>1. UNCHANGED <<up, mem, file, snap, minted, answered>>
    BY <1>4 DEF SaveAcquire, SaveTruncate, SaveFill, seen
  <2> QED BY <2>1, Unmoved DEF LifeOf, Accepted, OnDisk
<1>5. ASSUME NEW p \in Proc, SaveRename(p)
      PROVE  Registry!Next
  BY <1>5, RenameSettles
<1>6. ASSUME NEW p \in Proc, SaveFail(p)
      PROVE  Registry!Next
  BY <1>6, FailSettles
<1>7. ASSUME NEW p \in Proc, Reply(p)
      PROVE  Registry!Next
  BY <1>7, ReplyAnswers
<1>8. CASE Crash
  BY <1>8, CrashRestarts
<1>9. CASE Boot
  BY <1>9, BootMislays
<1>10. CASE UNCHANGED vars
  <2>1. UNCHANGED <<up, mem, file, snap, minted, answered>>
    BY <1>10 DEF vars
  <2> QED BY <2>1, Unmoved DEF LifeOf, Accepted, OnDisk
<1> QED
  BY <1>1, <1>2, <1>3, <1>4, <1>5, <1>6, <1>7, <1>8, <1>9, <1>10 DEF Next, Save

\* The token store is a registry of tokens: every behaviour of its map, its
\* mutexes, its copies and its two files, with any number of goroutines, any
\* faults and crashes anywhere, is one in which each create, delete and save
\* takes one step and every answer is warranted (token.go:62-177).
THEOREM StoreImplementsRegistry == Spec => ImplementsRegistry
BY LockingInvariant, DeletingInit, DeletingStep, CreatingInit, CreatingStep,
   SettlingInit, SettlingStep, RegistryInit, RegistryStep, PTL
DEF Spec, ImplementsRegistry, Registry!Spec

-----------------------------------------------------------------------------
(* The gateway implements the token store *)

LEMMA GatewayStep == [GatewayNext]_gatewayVars => [Next]_vars
BY DEF GatewayNext, gatewayVars, Management, GatewayCrash, Arrive, Redirect, Check,
       Upstream, Respond, Next

\* Serving proxied requests does not change what the token store does: every
\* behaviour of the gateway is one of TokenStore.
THEOREM GatewayImplementsStore == GatewaySpec => Spec
<1>1. GatewayInit => Init
  BY DEF GatewayInit
<1> QED
  BY <1>1, GatewayStep, PTL DEF GatewaySpec, Spec

-----------------------------------------------------------------------------
(* Proxied requests *)

\* What is known of a request while it is served: where its secret came from,
\* and what the token store promised of that token.
Presented(q) ==
  /\ secret[q] # NoToken => secret[q] \in answered["created"]
  /\ q \in late => secret[q] \in answered["deleted"]

Forwarded(q) ==
  stage[q] = "upstream" =>
    /\ q \notin late
    /\ secret[q] \in Token
    /\ GuiTarget[req[q]] \in AllowedFS[secret[q]] \cup {""}

ProxyInv ==
  /\ GatewayTypeOK
  /\ \A q \in Conn : stage[q] # "idle" => req[q] \in Request
  /\ \A q \in Conn : Presented(q) /\ Forwarded(q)

LEMMA ProxyInit == GatewayInit => ProxyInv
<1> SUFFICES ASSUME GatewayInit
             PROVE  ProxyInv
  OBVIOUS
<1>1. TypeOK
  BY TypeInit DEF GatewayInit
<1> QED
  BY <1>1 DEF GatewayInit, ProxyInv, GatewayTypeOK, Presented, Forwarded,
     Stage, HttpStatus

\* A request that is forwarded presents a token of the map and names, to the
\* GUI as well, a filesystem of that token or none.
LEMMA ForwardedIsAllowed ==
  ASSUME NEW x \in Request, NEW s, Refusal(x, s) = "none"
  PROVE  s \in mem /\ GuiTarget[x] \in AllowedFS[s] \cup {""}
<1>1. /\ x.path.root # "other"
      /\ Validate(s)
      /\ allows(AllowFeatures, x.method, x.path)
      /\ extractFS(x.path) # "" => CheckAccess(s, extractFS(x.path))
  <2>1. /\ Validate(s) \in BOOLEAN
        /\ allows(AllowFeatures, x.method, x.path) \in BOOLEAN
        /\ CheckAccess(s, extractFS(x.path)) \in BOOLEAN
    BY DEF Validate, allows, CheckAccess
  <2> QED BY <2>1 DEF Refusal
<1>2. GuiTarget[x] = extractFS(x.path)
  BY <1>1, GuiAssumption DEF allows
<1> QED BY <1>1, <1>2 DEF Validate, CheckAccess

\* The store's answers only grow.
LEMMA AnsweredGrows ==
  TypeOK /\ [Next]_vars =>
    \A s \in Status : answered[s] \subseteq answered'[s]
BY DEF TypeOK, Next, Save, Create, Delete, SaveAcquire, SaveSnapshot,
       SaveTruncate, SaveFill, SaveRename, SaveFail, Reply, Crash, Boot,
       seen, vars

LEMMA ProxyStep ==
  ProxyInv /\ DeletedIsFinal /\ TypeOK' /\ [GatewayNext]_gatewayVars => ProxyInv'
<1> SUFFICES ASSUME ProxyInv, DeletedIsFinal, TypeOK', [GatewayNext]_gatewayVars
             PROVE  ProxyInv'
  OBVIOUS
<1>0. \A s \in Status : answered[s] \subseteq answered'[s]
  BY AnsweredGrows, GatewayStep DEF ProxyInv, GatewayTypeOK
<1>a. answered["created"] \subseteq Token /\ mem \subseteq Token
  BY DEF ProxyInv, GatewayTypeOK, TypeOK, Status
<1> USE DEF ProxyInv, GatewayTypeOK, Presented, Forwarded, Stage, Status
<1>1. CASE UNCHANGED proxied
  BY <1>0, <1>1 DEF proxied
<1>2. CASE GatewayCrash
  BY <1>2 DEF GatewayCrash, HttpStatus
<1>3. ASSUME NEW q \in Conn, Arrive(q)
      PROVE  ProxyInv'
  <2>1. PICK x \in Request, s \in answered["created"] \cup {NoToken} :
          /\ req' = [req EXCEPT ![q] = x]
          /\ secret' = [secret EXCEPT ![q] = s]
          /\ late' = IF s \in answered["deleted"] THEN late \cup {q} ELSE late \ {q}
    BY <1>3 DEF Arrive
  <2>2. GatewayTypeOK'
    BY <1>3, <1>a, <2>1 DEF Arrive
  <2>3. answered' = answered
    BY <1>3 DEF Arrive, vars
  <2>4. ASSUME NEW c \in Conn
        PROVE  Presented(c)' /\ Forwarded(c)'
    BY <1>3, <2>1, <2>3 DEF Arrive
  <2>5. \A c \in Conn : stage'[c] # "idle" => req'[c] \in Request
    BY <1>3, <2>1 DEF Arrive
  <2> QED BY <2>2, <2>4, <2>5
<1>4. ASSUME NEW q \in Conn, Check(q)
      PROVE  ProxyInv'
  <2>1. req[q] \in Request
    BY <1>4 DEF Check
  <2>2. Refusal(req[q], secret[q]) \in HttpStatus
    BY DEF Refusal, HttpStatus
  <2>3. CASE Refusal(req[q], secret[q]) = "none"
    <3>1. /\ secret[q] \in mem
          /\ GuiTarget[req[q]] \in AllowedFS[secret[q]] \cup {""}
      BY <2>1, <2>3, ForwardedIsAllowed
    <3>2. q \notin late
      BY <3>1 DEF DeletedIsFinal
    <3> QED BY <1>0, <1>4, <2>2, <2>3, <3>1, <3>2, <1>a DEF Check
  <2>4. CASE Refusal(req[q], secret[q]) # "none"
    BY <1>0, <1>4, <2>2, <2>4 DEF Check
  <2> QED BY <2>3, <2>4
<1>5. ASSUME NEW q \in Conn, Upstream(q)
      PROVE  ProxyInv'
  BY <1>0, <1>5 DEF Upstream, HttpStatus
<1>6. ASSUME NEW q \in Conn, Respond(q)
      PROVE  ProxyInv'
  BY <1>0, <1>6 DEF Respond, Forget, HttpStatus
<1>7. ASSUME NEW q \in Conn, Redirect(q)
      PROVE  ProxyInv'
  BY <1>0, <1>7 DEF Redirect, HttpStatus
<1> QED
  BY <1>1, <1>2, <1>3, <1>4, <1>5, <1>6, <1>7
  DEF GatewayNext, gatewayVars, Management

LEMMA ProxyInvariant == GatewaySpec => []ProxyInv
<1>1. Spec => []TypeOK
  BY TypeCorrect
<1> QED
  BY <1>1, GatewayImplementsStore, DeleteIsFinal, ProxyInit, ProxyStep, PTL
  DEF GatewaySpec

\* Every variable of the gateway keeps its type.
THEOREM GatewayTypeCorrect == GatewaySpec => []GatewayTypeOK
<1>1. ProxyInv => GatewayTypeOK
  BY DEF ProxyInv
<1> QED BY <1>1, ProxyInvariant, PTL

\* No request sent after its token's delete was answered 204 reaches the GUI.
THEOREM RevocationHolds == GatewaySpec => []RevokedThenRefused
<1>1. ProxyInv => RevokedThenRefused
  BY DEF ProxyInv, Forwarded, RevokedThenRefused
<1> QED BY <1>1, ProxyInvariant, PTL

\* What reaches the GUI acts on a filesystem of its token or on none, if the
\* GUI acts on the filesystem a path without dot segments names.
THEOREM TenantsStayApart == GatewaySpec => []ActsOnOwnFilesystem
<1>1. ProxyInv => ActsOnOwnFilesystem
  BY DEF ProxyInv, Forwarded, ActsOnOwnFilesystem
<1> QED BY <1>1, ProxyInvariant, PTL

-----------------------------------------------------------------------------
(* Tokens that stay valid *)

\* Revocations are never taken back, nor are failed loads.
LEMMA LostGrows ==
  [Next]_vars => revoked \cup forgotten \subseteq revoked' \cup forgotten'
BY DEF Next, Save, Create, Delete, DeleteFound, DeleteMissing, SaveAcquire,
       SaveSnapshot, SaveTruncate, SaveFill, SaveRename, SaveFail, Reply,
       Crash, Boot, seen, vars

LEMMA AcceptedStep ==
  /\ ProxyInv
  /\ CreatedIsDurable
  /\ LiveTokenAccepted
  /\ [GatewayNext]_gatewayVars
  => LiveTokenAccepted'
<1> SUFFICES ASSUME ProxyInv, CreatedIsDurable, LiveTokenAccepted,
                    [GatewayNext]_gatewayVars
             PROVE  LiveTokenAccepted'
  OBVIOUS
<1>0. revoked \cup forgotten \subseteq revoked' \cup forgotten'
  BY LostGrows, GatewayStep
<1> USE DEF ProxyInv, GatewayTypeOK, Presented, LiveTokenAccepted, Stage
<1>1. CASE UNCHANGED proxied
  BY <1>0, <1>1 DEF proxied
<1>2. CASE GatewayCrash
  BY <1>2 DEF GatewayCrash
<1>3. ASSUME NEW q \in Conn, Arrive(q)
      PROVE  LiveTokenAccepted'
  BY <1>0, <1>3 DEF Arrive
<1>4. ASSUME NEW q \in Conn, Check(q)
      PROVE  LiveTokenAccepted'
  <2>1. Refusal(req[q], secret[q]) = "unauthorized" => secret[q] \notin mem
    BY DEF Refusal, Validate
  <2>2. /\ Refusal(req[q], secret[q]) = "unauthorized"
        /\ secret[q] # NoToken
        => secret[q] \in revoked \cup forgotten
    BY <1>4, <2>1 DEF CreatedIsDurable, Check
  <2> QED BY <1>0, <1>4, <2>2 DEF Check
<1>5. ASSUME NEW q \in Conn, Upstream(q)
      PROVE  LiveTokenAccepted'
  BY <1>0, <1>5 DEF Upstream
<1>6. ASSUME NEW q \in Conn, Respond(q)
      PROVE  LiveTokenAccepted'
  BY <1>0, <1>6 DEF Respond, Forget
<1>7. ASSUME NEW q \in Conn, Redirect(q)
      PROVE  LiveTokenAccepted'
  BY <1>0, <1>7 DEF Redirect
<1> QED
  BY <1>1, <1>2, <1>3, <1>4, <1>5, <1>6, <1>7
  DEF GatewayNext, gatewayVars, Management

\* A secret the API has given out is answered 401 only after a delete of its
\* token, or after a start that could not read the file that held it.
THEOREM LiveTokensAreAccepted == GatewaySpec => []LiveTokenAccepted
<1>1. GatewayInit => LiveTokenAccepted
  BY DEF GatewayInit, LiveTokenAccepted
<1> QED
  BY <1>1, ProxyInvariant, GatewayImplementsStore, CreateIsDurable,
     AcceptedStep, PTL
  DEF GatewaySpec
=============================================================================
