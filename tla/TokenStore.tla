----------------------------- MODULE TokenStore -----------------------------
(***************************************************************************)
(* The token store of the mmapi gateway (internal/auth/token.go) together   *)
(* with the management handlers that call it (cmd/mmapi/main.go).           *)
(*                                                                         *)
(* Tokens live in a map guarded by the read/write mutex mu and are mirrored *)
(* to tokens.json.  Every create and delete first changes the map and then  *)
(* calls save, which serialises on saveMu, copies the map, writes the copy  *)
(* to tokens.json.tmp and renames it over tokens.json.  mu is held for one   *)
(* map operation at a time, so a section under mu is one step here; saveMu   *)
(* is held across the file operations, which are steps of their own.        *)
(*                                                                         *)
(* A token is a fresh, immutable triple (id, secret, allowedFs), so it is   *)
(* one model value; 64-bit ids and 256-bit secrets are taken not to repeat. *)
(***************************************************************************)
EXTENDS FiniteSets

CONSTANTS
  Proc,        \* goroutines serving POST and DELETE /api/v1/tokens
  Token,       \* the tokens that can ever be created
  NoProc,      \* saveMu is free
  NoToken,     \* an idle goroutine works on no token
  DiskFaults,  \* TRUE: a file operation of save may fail
  ReadFaults   \* TRUE: os.ReadFile may fail when the store is loaded

ASSUME NoProcAssumption == NoProc \notin Proc
ASSUME NoTokenAssumption == NoToken \notin Token
ASSUME FaultsAssumption == DiskFaults \in BOOLEAN /\ ReadFaults \in BOOLEAN

VARIABLES
  up,        \* the mmapi process runs
  mem,       \* TokenStore.tokens
  saveMu,    \* the goroutine holding TokenStore.saveMu
  file,      \* tokens.json
  tmp,       \* tokens.json.tmp
  pc,        \* where each goroutine is in Create / Delete / save
  op,        \* which of the two it serves
  tok,       \* the token it creates or deletes
  snap,      \* the local copy of the map made by save
  err        \* the error Create / Delete is about to return

\* What an observer of the API and of the memory has seen.
VARIABLES
  minted,    \* tokens ever put into the map by Create
  revoked,   \* tokens ever removed from the map by Delete
  answered,  \* for each status, the tokens it was answered for
  dirty,     \* a save or a load has failed since the last good save
  forgotten  \* tokens tokens.json held when it could not be read at start

store == <<up, mem, saveMu, file, tmp>>
handlers == <<pc, op, tok, snap, err>>
seen == <<minted, revoked, answered, dirty, forgotten>>
vars == <<up, mem, saveMu, file, tmp, pc, op, tok, snap, err,
          minted, revoked, answered, dirty, forgotten>>

(***************************************************************************)
(* A file holds a set of tokens; it is torn when only part of the JSON has  *)
(* been written.  load cannot tell a missing file from an empty one.        *)
(***************************************************************************)
Contents == [whole : BOOLEAN, toks : SUBSET Token]
Whole(S) == [whole |-> TRUE, toks |-> S]
Torn == [whole |-> FALSE, toks |-> {}]

\* The control points inside save while saveMu is held.
Held == {"snapshot", "truncate", "fill", "rename"}
Control == {"idle", "lock", "reply"} \cup Held

\* The answers of the management API for a token: 200, 500 on a create,
\* 204, 500 on a delete, 404.
Status == {"created", "createFailed", "deleted", "deleteFailed", "notFound"}

TypeOK ==
  /\ up \in BOOLEAN
  /\ mem \in SUBSET Token
  /\ saveMu \in Proc \cup {NoProc}
  /\ file \in Contents
  /\ tmp \in Contents
  /\ pc \in [Proc -> Control]
  /\ op \in [Proc -> {"none", "create", "delete"}]
  /\ tok \in [Proc -> Token \cup {NoToken}]
  /\ snap \in [Proc -> SUBSET Token]
  /\ err \in [Proc -> {"nil", "notFound", "save"}]
  /\ minted \in SUBSET Token
  /\ revoked \in SUBSET Token
  /\ answered \in [Status -> SUBSET Token]
  /\ dirty \in BOOLEAN
  /\ forgotten \in SUBSET Token

Init ==
  /\ up = TRUE
  /\ mem = {}
  /\ saveMu = NoProc
  /\ file = Whole({})
  /\ tmp = Whole({})
  /\ pc = [p \in Proc |-> "idle"]
  /\ op = [p \in Proc |-> "none"]
  /\ tok = [p \in Proc |-> NoToken]
  /\ snap = [p \in Proc |-> {}]
  /\ err = [p \in Proc |-> "nil"]
  /\ minted = {}
  /\ revoked = {}
  /\ answered = [s \in Status |-> {}]
  /\ dirty = FALSE
  /\ forgotten = {}

-----------------------------------------------------------------------------
(***************************************************************************)
(* Create and Delete up to the call of save.                                *)
(***************************************************************************)
Serving(p, o, t) ==
  /\ op' = [op EXCEPT ![p] = o]
  /\ tok' = [tok EXCEPT ![p] = t]

\* Create: a fresh token enters the map under mu; save comes next.
Create(p) ==
  /\ up
  /\ pc[p] = "idle"
  /\ \E t \in Token \ minted :
       /\ mem' = mem \cup {t}
       /\ minted' = minted \cup {t}
       /\ Serving(p, "create", t)
  /\ pc' = [pc EXCEPT ![p] = "lock"]
  /\ UNCHANGED <<up, saveMu, file, tmp, snap, err, revoked, answered, dirty, forgotten>>

\* Mutants of DeleteFound: the map is changed and never saved; the loop over
\* the map forgets to compare the id.
DeleteFoundUnsaved(p, t) ==
  /\ t \in mem
  /\ mem' = mem \ {t}
  /\ revoked' = revoked \cup {t}
  /\ pc' = [pc EXCEPT ![p] = "reply"]
  /\ UNCHANGED err

DeleteFoundAnyId(p, t) ==
  /\ t \in mem
  /\ mem' = {}
  /\ revoked' = revoked \cup {t}
  /\ pc' = [pc EXCEPT ![p] = "lock"]
  /\ UNCHANGED err

\* Delete when some token of the map carries the id.
DeleteFound(p, t) ==
  /\ t \in mem
  /\ mem' = mem \ {t}
  /\ revoked' = revoked \cup {t}
  /\ pc' = [pc EXCEPT ![p] = "lock"]
  /\ UNCHANGED err

\* Delete when none does: ErrTokenNotFound, and nothing is saved.
DeleteMissing(p, t) ==
  /\ t \notin mem
  /\ pc' = [pc EXCEPT ![p] = "reply"]
  /\ err' = [err EXCEPT ![p] = "notFound"]
  /\ UNCHANGED <<mem, revoked>>

\* A client can name any id it may have seen, in a create's answer or in a
\* listing, which shows a token before its create is answered.
Delete(p) ==
  /\ up
  /\ pc[p] = "idle"
  /\ \E t \in minted :
       /\ Serving(p, "delete", t)
       /\ DeleteFound(p, t) \/ DeleteMissing(p, t)
  /\ UNCHANGED <<up, saveMu, file, tmp, snap, minted, answered, dirty, forgotten>>

-----------------------------------------------------------------------------
(***************************************************************************)
(* save, one step per operation another goroutine or a crash can fall       *)
(* between.                                                                 *)
(***************************************************************************)
At(p, c) == up /\ pc[p] = c
Goto(p, c) == pc' = [pc EXCEPT ![p] = c]

\* Mutant of SaveMuFree: save does not lock.
SaveMuIgnored(p) == TRUE

SaveMuFree(p) == saveMu = NoProc

\* ts.saveMu.Lock()
SaveAcquire(p) ==
  /\ At(p, "lock")
  /\ SaveMuFree(p)
  /\ saveMu' = p
  /\ Goto(p, "snapshot")
  /\ UNCHANGED <<up, mem, file, tmp, op, tok, snap, err, seen>>

\* The map is copied under mu.RLock.
SaveSnapshot(p) ==
  /\ At(p, "snapshot")
  /\ snap' = [snap EXCEPT ![p] = mem]
  /\ Goto(p, "truncate")
  /\ UNCHANGED <<store, op, tok, err, seen>>

\* Mutant of SaveTruncate: tokens.json itself is written, not a temporary file.
SaveTruncateInPlace(p) ==
  /\ At(p, "truncate")
  /\ file' = Torn
  /\ Goto(p, "fill")
  /\ UNCHANGED <<up, mem, saveMu, tmp, op, tok, snap, err, seen>>

\* os.WriteFile opens the temporary file with O_TRUNC ...
SaveTruncate(p) ==
  /\ At(p, "truncate")
  /\ tmp' = Torn
  /\ Goto(p, "fill")
  /\ UNCHANGED <<up, mem, saveMu, file, op, tok, snap, err, seen>>

\* ... and writes all of it.
SaveFill(p) ==
  /\ At(p, "fill")
  /\ tmp' = Whole(snap[p])
  /\ Goto(p, "rename")
  /\ UNCHANGED <<up, mem, saveMu, file, op, tok, snap, err, seen>>

\* The deferred Unlock, run on every return of save.
ReleaseSaveMu(p) ==
  /\ saveMu' = NoProc
  /\ snap' = [snap EXCEPT ![p] = {}]
  /\ Goto(p, "reply")

\* os.Rename moves the temporary file over tokens.json; save returns nil.
SaveRename(p) ==
  /\ At(p, "rename")
  /\ file' = tmp
  /\ tmp' = Whole({})
  /\ dirty' = FALSE
  /\ ReleaseSaveMu(p)
  /\ UNCHANGED <<up, mem, op, tok, err, minted, revoked, answered, forgotten>>

\* Mutants of SaveFail: the error is dropped; the unlock is not deferred.
SaveFailDropped(p) ==
  /\ DiskFaults
  /\ up
  /\ pc[p] \in {"truncate", "fill", "rename"}
  /\ dirty' = TRUE
  /\ ReleaseSaveMu(p)
  /\ UNCHANGED <<up, mem, file, tmp, op, tok, err, minted, revoked, answered, forgotten>>

SaveFailLocked(p) ==
  /\ DiskFaults
  /\ up
  /\ pc[p] \in {"truncate", "fill", "rename"}
  /\ err' = [err EXCEPT ![p] = "save"]
  /\ dirty' = TRUE
  /\ Goto(p, "reply")
  /\ UNCHANGED <<up, mem, saveMu, file, tmp, op, tok, snap, minted, revoked, answered, forgotten>>

\* MkdirAll, WriteFile or Rename fails: save returns the error and keeps
\* the map as it is.
SaveFail(p) ==
  /\ DiskFaults
  /\ up
  /\ pc[p] \in {"truncate", "fill", "rename"}
  /\ err' = [err EXCEPT ![p] = "save"]
  /\ dirty' = TRUE
  /\ ReleaseSaveMu(p)
  /\ UNCHANGED <<up, mem, file, tmp, op, tok, minted, revoked, answered, forgotten>>

-----------------------------------------------------------------------------
\* Mutant of StatusOf: deleting what is not there is taken for a success.
StatusOfIdempotent(o, e) ==
  CASE o = "create" -> IF e = "nil" THEN "created" ELSE "createFailed"
    [] o = "delete" -> IF e = "save" THEN "deleteFailed" ELSE "deleted"

\* The status the handlers of cmd/mmapi answer for what Create or Delete
\* returned.
StatusOf(o, e) ==
  IF o = "create"
  THEN IF e = "nil" THEN "created" ELSE "createFailed"
  ELSE CASE e = "nil" -> "deleted"
         [] e = "notFound" -> "notFound"
         [] OTHER -> "deleteFailed"

Reply(p) ==
  /\ At(p, "reply")
  /\ answered' = [answered EXCEPT ![StatusOf(op[p], err[p])] = @ \cup {tok[p]}]
  /\ Goto(p, "idle")
  /\ Serving(p, "none", NoToken)
  /\ err' = [err EXCEPT ![p] = "nil"]
  /\ UNCHANGED <<store, snap, minted, revoked, dirty, forgotten>>

-----------------------------------------------------------------------------
(***************************************************************************)
(* The process dies (a signal, a panic, the end of the five seconds        *)
(* srv.Shutdown grants running handlers) and systemd starts it again.       *)
(* The two files survive as they are.                                      *)
(***************************************************************************)
Crash ==
  /\ up
  /\ up' = FALSE
  /\ mem' = {}
  /\ saveMu' = NoProc
  /\ pc' = [p \in Proc |-> "idle"]
  /\ op' = [p \in Proc |-> "none"]
  /\ tok' = [p \in Proc |-> NoToken]
  /\ snap' = [p \in Proc |-> {}]
  /\ err' = [p \in Proc |-> "nil"]
  /\ UNCHANGED <<file, tmp, seen>>

\* Mutant of Loaded: a null entry of the array becomes a token of its own.
LoadedWithNull(f) == (IF f.whole THEN f.toks ELSE {}) \cup {NoToken}

\* What load leaves in the map: a file that does not parse counts as empty.
Loaded(f) == IF f.whole THEN f.toks ELSE {}

\* NewTokenStore.  An error of os.ReadFile is dropped and the store starts
\* empty, as it does when there is no file.
Boot ==
  /\ ~up
  /\ up' = TRUE
  /\ \/ mem' = Loaded(file) /\ dirty' = FALSE /\ UNCHANGED forgotten
     \/ /\ ReadFaults
        /\ mem' = {}
        /\ dirty' = TRUE
        /\ forgotten' = forgotten \cup file.toks
  /\ UNCHANGED <<saveMu, file, tmp, handlers, minted, revoked, answered>>

-----------------------------------------------------------------------------
Save(p) ==
  \/ SaveAcquire(p)
  \/ SaveSnapshot(p)
  \/ SaveTruncate(p)
  \/ SaveFill(p)
  \/ SaveRename(p)
  \/ SaveFail(p)

Next ==
  \/ \E p \in Proc : Create(p) \/ Delete(p) \/ Save(p) \/ Reply(p)
  \/ Crash
  \/ Boot

Spec == Init /\ [][Next]_vars

(***************************************************************************)
(* A goroutine that can run does; a Go mutex hands itself over to a waiter  *)
(* that has waited for a millisecond, so a waiter is not passed over for    *)
(* ever; systemd restarts the service (Restart=always).                     *)
(***************************************************************************)
Fairness ==
  /\ \A p \in Proc : SF_vars(SaveAcquire(p))
  /\ \A p \in Proc : WF_vars(Save(p))
  /\ \A p \in Proc : WF_vars(Reply(p))
  /\ WF_vars(Boot)

FairSpec == Spec /\ Fairness

-----------------------------------------------------------------------------
(* Properties *)

\* tokens.json is never half written, whenever a crash falls and however many
\* saves run at once: they share one temporary file, so this is what saveMu
\* and the rename buy (token.go:170-176).
NeverTorn == file.whole

\* A token whose create was answered 200 and that no delete has removed is in
\* tokens.json and, while the process runs, in the map: no concurrent save
\* writes an older copy of the map over it, and no crash loses it.  Only what
\* the file held when it could not be read at start is lost (token.go:138).
CreatedIsDurable ==
  \A t \in answered["created"] \ (revoked \cup forgotten) :
    t \in file.toks /\ (up => t \in mem)

\* A token whose delete was answered 204 is gone for good: it is neither in
\* the map nor in the file, so no restart and no concurrent save revives it.
DeletedIsFinal ==
  \A t \in answered["deleted"] : t \notin mem /\ t \notin file.toks

\* p has changed the map for t and is still to write it to the file.
Owes(p, t) == pc[p] \in {"lock"} \cup Held /\ tok[p] = t

\* While the process runs, the map and tokens.json differ only in tokens some
\* running request is still to save, unless a save or a load has failed and
\* no save has succeeded since.
DiskLagIsOwed ==
  up /\ ~dirty =>
    \A t \in (mem \ file.toks) \cup (file.toks \ mem) : \E p \in Proc : Owes(p, t)

\* Every management request is answered, or ends with the process: no save
\* keeps saveMu for ever, a failed one included.
EveryRequestAnswered == \A p \in Proc : pc[p] # "idle" ~> pc[p] = "idle"

-----------------------------------------------------------------------------
(* What the documentation says and the code does not do; see README.md. *)

\* DELETE answers "404 if no token carries that id" (README.md:146): a token
\* answered 404 is not accepted afterwards.
NotFoundIsGone == \A t \in answered["notFound"] : t \notin mem

\* "expected token to persist across store instances" (token_test.go:106): a
\* token whose create was answered 200 is known after every restart until a
\* delete removes it.
CreatedPersists == \A t \in answered["created"] \ revoked : up => t \in mem
=============================================================================
