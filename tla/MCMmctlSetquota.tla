-------------------------- MODULE MCMmctlSetquota --------------------------
(* MmctlSetquota for TLC: file system fs, fileset f, three users and a group.   *)
EXTENDS MmctlSetquota

Given(s) == {<<v>> : v \in s}

MCLines ==
  [operands : {<<>>, <<<<"fs">>>>, <<<<"fs", "f">>>>, <<<<"", "f">>>>, <<<<"fs", "">>>>,
               <<<<"fs">>, <<"fs", "f">>>>},
   block    : {None} \cup Given({<<"10", "20">>, <<"10">>, <<"", "20">>, <<"10", "">>}),
   files    : {None} \cup Given({<<"">>}),
   user     : {None} \cup Given({<<"a">>, <<"a", "", "b", "c">>, <<"">>, <<"b", "b">>}),
   group    : {None} \cup Given({<<"g">>}),
   default  : {None} \cup Given({"User", "fileset", "all"}),
   grace    : {None} \cup Given({"group", "all"})]

MCToLower(s) == IF s = "User" THEN "user" ELSE s

MCPlans == {Requests(l) : l \in MCLines}
MCChange == UNION {ToSet(p) : p \in MCPlans}
=============================================================================
