------------------------ MODULE TokenStoreRefinement ------------------------
(* TokenStore implements TokenRegistry: how far the life of a token has got   *)
(* is read off the map, the file and the copies about to replace the file.   *)
EXTENDS TokenStore

\* t is still in the file, or in a copy on its way there.
OnDisk(t) == t \in file.toks \/ \E p \in Proc : t \in snap[p]

\* What the process accepts, or will accept when it is started again.
Accepted == IF up THEN mem ELSE file.toks

LifeOf(t) ==
  CASE t \notin minted -> "fresh"
    [] t \in minted /\ t \in Accepted -> IF t \in file.toks THEN "live" ELSE "offered"
    [] OTHER -> IF OnDisk(t) THEN "leaving" ELSE "gone"

Registry == INSTANCE TokenRegistry WITH life <- [t \in Token |-> LifeOf(t)]

\* Saves that overlap, copies that are behind the map, failing saves and
\* crashes at any point look to every client like a registry that takes each
\* create, delete and save in one step: what is answered 200 is never
\* forgotten without a delete, what is answered 204 never comes back, and 404
\* is answered only for what is not accepted (token.go:62-114, 153-177).
ImplementsRegistry == Registry!Spec
=============================================================================
