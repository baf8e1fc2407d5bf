------------------------------- MODULE Policy -------------------------------
(***************************************************************************)
(* The endpoint allowlist of the gateway (internal/proxy/policy.go) and the *)
(* filesystem a request is charged to (extractFS of internal/proxy).        *)
(*                                                                         *)
(* A path is [root, segs]: root says which prefix it starts with and segs   *)
(* are the pieces strings.Split makes of the rest, empty pieces included.   *)
(***************************************************************************)
EXTENDS Naturals, Sequences, FiniteSetsExt

\* Path roots: "/scalemgmt/v2/", another path under "/scalemgmt/", any other.
Root == {"v2", "scalemgmt", "other"}

Feature == {"mount", "policies", "afm"}

r(methods, pattern) ==
  [methods |-> methods, pattern |-> pattern, feature |-> "always"]

\* Mutant of gated: the rule is always on.
ungated(feature, methods, pattern) == r(methods, pattern)

gated(feature, methods, pattern) ==
  [r(methods, pattern) EXCEPT !.feature = feature]

\* Below filesystems/* and below filesystems/*/filesets/*.
fs(rest) == <<"filesystems", "*">> \o rest
fset(rest) == fs(<<"filesets", "*">>) \o rest

ClusterRules == {
  r({"GET"}, <<"cluster">>),
  r({"GET"}, <<"config">>),
  r({"GET"}, <<"info">>),
  r({"GET"}, <<"nodes">>),
  r({"GET"}, <<"nodes", "*", "health", "states">>),
  r({"GET"}, <<"nodeclasses", "*">>),
  r({"GET"}, <<"jobs", "*">>),
  r({"GET"}, <<"filesystems">>),
  r({"POST"}, <<"refreshTask", "enqueue">>)}

\* Mutant of FilesystemRules: the rules collapsed into two with wildcards.
FilesystemRulesWide ==
  {r({"GET", "POST", "PUT"}, fs(<<"*">>)), r({"GET", "POST", "PUT", "DELETE"}, fs(<<"*", "**">>))}

FilesystemRules == {
  r({"GET"}, fs(<<>>)),
  r({"GET"}, fs(<<"pools">>)),
  r({"GET"}, fs(<<"pools", "*">>)),
  r({"GET"}, fs(<<"partition", "*">>)),
  r({"GET", "POST"}, fs(<<"quotas">>)),
  r({"PUT"}, fs(<<"directoryCopy", "**">>)),
  r({"GET", "POST", "DELETE"}, fs(<<"directory", "**">>)),
  r({"POST", "DELETE"}, fs(<<"symlink", "**">>)),
  r({"GET"}, fs(<<"owner", "**">>))}

\* Mutant of FilesetRules: a fileset may be linked and not unlinked.
FilesetRulesNoUnlink == {
  r({"GET", "POST"}, fs(<<"filesets">>)),
  r({"GET", "PUT", "DELETE"}, fset(<<>>)),
  r({"POST"}, fset(<<"link">>)),
  r({"GET", "POST"}, fset(<<"quotas">>))}

FilesetRules == {
  r({"GET", "POST"}, fs(<<"filesets">>)),
  r({"GET", "PUT", "DELETE"}, fset(<<>>)),
  r({"POST", "DELETE"}, fset(<<"link">>)),
  r({"GET", "POST"}, fset(<<"quotas">>)),
  r({"GET", "POST"}, fset(<<"snapshots">>)),
  r({"GET"}, fset(<<"snapshots", "latest">>)),
  r({"GET", "DELETE"}, fset(<<"snapshots", "*">>)),
  r({"PUT"}, fset(<<"snapshotCloneSplit">>)),
  r({"GET"}, fset(<<"snapshotCloneChilds", "*", "path", "**">>)),
  r({"PUT"}, fset(<<"snapshotCopy", "*", "path", "**">>)),
  r({"PUT"}, fset(<<"snapshotCloneCopy", "*", "path", "**">>)),
  r({"PUT"}, fset(<<"directoryCopy", "**">>))}

GatedRules == {
  gated("mount", {"PUT"}, fs(<<"mount">>)),
  gated("mount", {"PUT"}, fs(<<"unmount">>)),
  gated("policies", {"PUT"}, fs(<<"policies">>)),
  gated("afm", {"POST"}, fs(<<"filesets", "cos">>)),
  gated("afm", {"PUT"}, <<"bucket", "keys">>),
  gated("afm", {"DELETE"}, <<"bucket", "keys", "*">>),
  gated("afm", {"POST"}, <<"nodes", "afm", "mapping">>),
  gated("afm", {"DELETE"}, <<"nodes", "afm", "mapping", "*">>)}

\* allows returns at the first rule that matches, so the order is immaterial.
rules == ClusterRules \cup FilesystemRules \cup FilesetRules \cup GatedRules

\* newPolicy: the rules in force for the features the operator turned on.
newPolicy(features) ==
  {rl \in rules : rl.feature = "always" \/ rl.feature \in features}

-----------------------------------------------------------------------------
matchMethod(methods, method) == method \in methods

\* Mutant of matchPattern: "**" is satisfied with nothing left.
matchPatternEmptyTail(pattern, segs) ==
  LET tails == {i \in DOMAIN pattern : pattern[i] = "**"}
      fixed == IF tails = {} THEN Len(pattern) ELSE Min(tails) - 1
  IN  /\ IF tails = {} THEN Len(segs) = fixed ELSE Len(segs) >= fixed
      /\ \A i \in 1..fixed : pattern[i] \in {"*", segs[i]}

\* The segments before a "**" are compared one by one, "*" with anything; the
\* "**" needs at least one segment more, and without it the lengths agree.
matchPattern(pattern, segs) ==
  LET tails == {i \in DOMAIN pattern : pattern[i] = "**"}
      fixed == IF tails = {} THEN Len(pattern) ELSE Min(tails) - 1
  IN  /\ IF tails = {} THEN Len(segs) = fixed ELSE Len(segs) > fixed
      /\ \A i \in 1..fixed : pattern[i] \in {"*", segs[i]}

\* Mutant of Unresolved: ".." is forgotten.
UnresolvedButDots == {"", "."}

\* Segments no allowed path carries.
Unresolved == {"", ".", ".."}

\* Mutant of allows: the segments are not looked at.
allowsAnySegments(features, method, path) ==
  /\ path.root = "v2"
  /\ \E rl \in newPolicy(features) :
       matchMethod(rl.methods, method) /\ matchPattern(rl.pattern, path.segs)

allows(features, method, path) ==
  /\ path.root = "v2"
  /\ \A i \in DOMAIN path.segs : path.segs[i] \notin Unresolved
  /\ \E rl \in newPolicy(features) :
       matchMethod(rl.methods, method) /\ matchPattern(rl.pattern, path.segs)

readOnly(method) == method \in {"GET", "HEAD"}

\* The filesystem the gateway checks; "" when the path names none.
extractFS(path) ==
  IF path.root = "v2" /\ Len(path.segs) > 1 /\ path.segs[1] = "filesystems"
  THEN path.segs[2]
  ELSE ""
=============================================================================
