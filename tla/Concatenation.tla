---------------------------- MODULE Concatenation ----------------------------
(***************************************************************************)
(* Sequences put together from others, as recursive functions on the number  *)
(* of parts taken: Flat and Where do what FlattenSeq and SelectSeq of the    *)
(* library do, in a form that can be reasoned about.                        *)
(***************************************************************************)
EXTENDS Naturals, Sequences

\* One sequence after the other.
Flat(parts) ==
  LET upto[n \in 0..Len(parts)] == IF n = 0 THEN <<>> ELSE upto[n - 1] \o parts[n]
  IN  upto[Len(parts)]

\* What of a sequence is in S, in its order.
Where(s, S) == Flat([i \in DOMAIN s |-> IF s[i] \in S THEN <<s[i]>> ELSE <<>>])
=============================================================================
