------------------------------ MODULE MCPolicy ------------------------------
(***************************************************************************)
(* Policy for TLC: a gateway configured with any set of features is asked   *)
(* about one request after another.  The requests are every rule's pattern  *)
(* with its wildcards filled in, and the paths one edit away from those.    *)
(***************************************************************************)
EXTENDS PolicyDecisions, TLC

MCMethod == {"GET", "HEAD", "POST", "PUT", "DELETE"}
MCConfigured == {{}, {"mount"}, {"policies", "afm"}, Feature}
MCSegment == STRING

-----------------------------------------------------------------------------
(* Requests *)

\* Names for "*", among them words that also occur literally in a rule.
Name == {"fs0", "cos", "latest", "filesets"}

\* Every way to fill in the "*" of a pattern with one name, and "**" with one
\* or two segments.
Fill(pattern, n) == [i \in DOMAIN pattern |-> IF pattern[i] \in {"*", "**"} THEN n ELSE pattern[i]]
Filled == {Fill(rl.pattern, n) : rl \in rules, n \in Name}

Drop(s) == SubSeq(s, 1, Len(s) - 1)
Replaced(s) == {[s EXCEPT ![i] = x] : i \in DOMAIN s, x \in {"", ".", "..", "mount"}}
Edited(s) == {s, Drop(s), Append(s, "x"), Append(s, ""), s \o <<"..", "fs1">>} \cup Replaced(s)

MCPath ==
  {[root |-> "v2", segs |-> s] : s \in UNION {Edited(s) : s \in Filled}}
    \cup {[root |-> o, segs |-> s] : o \in Root \ {"v2"}, s \in Filled}
=============================================================================
