--------------------------- MODULE MCMmctlFileset ---------------------------
(* MmctlFileset for TLC: filesets a and b of which a is linked, room for a    *)
(* third, and integers of eight bits with units of 4, 16 and 64.             *)
EXTENDS MmctlFileset, TLC

MCDefault == [a |-> "/a", b |-> "/b", c |-> "/c"]
MCExisting == [i1 |-> [name |-> "a", path |-> "/a"], i2 |-> [name |-> "b", path |-> Unlinked],
               i3 |-> Absent]
\* Junctions with and without a "/" at the end, the file system's root, and
\* the path of unlinked filesets.
MCTrimSlash == ("/a" :> "/a") @@ ("/a/" :> "/a") @@ ("/b" :> "/b") @@ ("/b/" :> "/b")
                 @@ ("/c" :> "/c") @@ ("/" :> "") @@ (Unlinked :> Unlinked)
MCUnit == [s \in Suffix |-> CASE s = "" -> 1 [] s = "K" -> 4 [] s = "M" -> 16 [] s = "G" -> 64]

NoLimit == [form |-> "absent", n |-> 0, unit |-> ""]
Count(n, u) == [form |-> "count", n |-> n, unit |-> u]
Junk == [form |-> "junk", n |-> 0, unit |-> ""]

Plain == [verb |-> "change", operand |-> None, junction |-> None, rename |-> None,
          limit |-> NoLimit, prealloc |-> NoLimit, other |-> FALSE]

\* Every command on a, on a fileset that is not there, or on what is at /a.
Verbs == {[Plain EXCEPT !.verb = v, !.operand = n] : v \in {"delete", "link", "unlink"}, n \in {"a", "c"}}
Junctions ==
  {[Plain EXCEPT !.verb = "unlink", !.junction = j] : j \in {"/a", "/b", Unlinked}}
    \cup {[Plain EXCEPT !.verb = "link", !.operand = n, !.junction = "/b/"] : n \in {None, "b"}}
Renames ==
  {[Plain EXCEPT !.junction = j, !.operand = n, !.rename = "c"] : j \in {None, "/a/"}, n \in {None, "b"}}
Attributes == {[Plain EXCEPT !.junction = j, !.other = o] : j \in {"/a", "/", Unlinked}, o \in BOOLEAN}

\* --inode-limit at and around the bounds of the integers, with every unit.
Counts == {Count(n, u) : n \in {-1, 0, 1, 7, 127}, u \in {"", "K", "G"}} \cup {Count(128, ""), Count(32, "K"), Junk}
Limits ==
  {[Plain EXCEPT !.operand = "a", !.limit = l] : l \in Counts}
    \cup {[Plain EXCEPT !.verb = "create", !.operand = "c", !.limit = Count(7, "M"), !.prealloc = l] :
             l \in Counts \cup {NoLimit}}
    \cup {[Plain EXCEPT !.verb = "create", !.operand = "c", !.junction = "/b"]}

Everything == Verbs \cup Junctions \cup Renames \cup Attributes \cup Limits
=============================================================================
