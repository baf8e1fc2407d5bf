---------------------------- MODULE TokenRegistry ----------------------------
(***************************************************************************)
(* What the token store promises its clients, without its mutexes, copies   *)
(* and files: a token has a life, and the answers of the management API are *)
(* given only at certain points of it.                                      *)
(*                                                                         *)
(*   fresh ---> offered ---> live ---> leaving ---> gone                    *)
(*                                                                         *)
(* An offered token is accepted and not yet safe: a restart may end it.  A  *)
(* live one survives restarts.  A leaving one is no longer accepted, but    *)
(* a restart may still bring it back.  Gone is for good.                    *)
(***************************************************************************)
CONSTANTS
  Token,
  ReadFaults  \* TRUE: a start may fail to read what was kept

VARIABLES
  life,      \* where each token is in its life
  answered   \* for each status, the tokens it was answered for

vars == <<life, answered>>

Life == {"fresh", "offered", "live", "leaving", "gone"}
Status == {"created", "createFailed", "deleted", "deleteFailed", "notFound"}

Init ==
  /\ life = [t \in Token |-> "fresh"]
  /\ answered = [s \in Status |-> {}]

At(l) == {t \in Token : life[t] = l}

\* A create makes a new token usable.
Offer(t) ==
  /\ life[t] = "fresh"
  /\ life' = [life EXCEPT ![t] = "offered"]
  /\ UNCHANGED answered

\* A delete ends its use at once.  A token no save has got to may be gone with
\* that.
Withdraw(t) ==
  /\ \/ life[t] \in {"offered", "live"} /\ life' = [life EXCEPT ![t] = "leaving"]
     \/ life[t] = "offered" /\ life' = [life EXCEPT ![t] = "gone"]
  /\ UNCHANGED answered

\* A save makes the creates and deletes before it durable, all of them in one
\* step; which others it is in time for, clients cannot tell.
Settle ==
  /\ \E kept \in SUBSET At("offered"), dropped \in SUBSET At("leaving") :
       life' = [t \in Token |-> CASE t \in kept -> "live"
                                  [] t \in dropped -> "gone"
                                  [] OTHER -> life[t]]
  /\ UNCHANGED answered

\* The process dies: what was not durable is decided one way or the other.
Restart ==
  /\ \E back \in SUBSET At("leaving") :
       life' = [t \in Token |-> CASE t \in back -> "live"
                                  [] t \in At("leaving") \ back -> "gone"
                                  [] t \in At("offered") -> "gone"
                                  [] OTHER -> life[t]]
  /\ UNCHANGED answered

\* A start that cannot read what was kept leaves every token unaccepted, and
\* still able to come back.
Mislay ==
  /\ ReadFaults
  /\ life' = [t \in Token |-> IF life[t] = "live" THEN "leaving" ELSE life[t]]
  /\ UNCHANGED answered

\* What an answer about t says of its life.
Warrants(s, t) ==
  CASE s = "created" -> life[t] \notin {"fresh", "offered"}
    [] s = "deleted" -> life[t] = "gone"
    [] s \in {"notFound", "deleteFailed"} -> life[t] \in {"leaving", "gone"}
    [] s = "createFailed" -> life[t] # "fresh"

Answer(s, t) ==
  /\ Warrants(s, t)
  /\ answered' = [answered EXCEPT ![s] = @ \cup {t}]
  /\ UNCHANGED life

Next ==
  \/ \E t \in Token : Offer(t) \/ Withdraw(t)
  \/ Settle
  \/ Restart
  \/ Mislay
  \/ \E s \in Status, t \in Token : Answer(s, t)

Spec == Init /\ [][Next]_vars
=============================================================================
