---------------------------- MODULE MCMmctlQuota ----------------------------
(* MmctlQuota for TLC: fs0 keeps quotas per fileset, fs1 does not; filesets e  *)
(* and f are in fs0, f with the lower id, f is also in fs1, with another id,   *)
(* and both may go and come again.  Objects are named by name and by id.       *)
EXTENDS MmctlQuota

MCFS == {"fs0", "fs1"}
MCFileset == {"e", "f"}
MCInitialIds == [fs0 |-> [e |-> 2, f |-> 1], fs1 |-> [e |-> 0, f |-> 2]]
MCAccount == ("ann" :> 7) @@ ("bob" :> 5)
MCEnforced == [fs0 |-> {"USR", "FILESET"}, fs1 |-> {"GRP"}]

Device(d) == [fs |-> d, fileset |-> NoFileset]
InFileset(d, n) == [fs |-> d, fileset |-> n]

Lists(object, type, form, operands) ==
  [name |-> "mmlsquota", operands |-> operands, types |-> <<type>>, object |-> object, form |-> form]
Reports(types, form, operands) ==
  [name |-> "mmrepquota", operands |-> operands, types |-> types, object |-> "", form |-> form]

Fs0 == <<Device("fs0")>>
Both == <<Device("fs0"), Device("fs1")>>
Mixed == <<Device("fs0"), InFileset("fs0", "f")>>

AnyCommand ==
  {Lists(object, "USR", form, operands) :
     object \in {"ann", "5"}, form \in {"table", "-Y"}, operands \in {<<>>, Mixed}}
  \cup {Lists(object, "FILESET", "table", operands) :
          object \in {"f", "2"}, operands \in {Fs0, Mixed}}
  \cup {Lists("bob", "GRP", "table", Both)}
  \cup {Reports(<<"USR", "GRP">>, form, operands) :
          form \in {"table", "-Y"}, operands \in {Both, <<InFileset("fs0", "f")>>}}
  \cup {Reports(<<"FILESET">>, "-n", operands) : operands \in {Both, Mixed}}
  \cup {Reports(<<"USR">>, "table", <<InFileset("fs1", "e")>>)}

TwoDevices == {Reports(<<"USR">>, "-Y", Both)}

AnyTenant == {{"fs0"}, {"fs0", "fs1"}}
BothTenant == {{"fs0", "fs1"}}
=============================================================================
