--------------------------- MODULE PolicyDecisions ---------------------------
(***************************************************************************)
(* The allowlist at work: a gateway configured with some features decides    *)
(* about one request after another (ServeHTTP of internal/proxy/proxy.go).   *)
(***************************************************************************)
EXTENDS Policy

CONSTANTS
  Method,     \* request methods
  Segment,    \* what may stand between the slashes of a path
  Path,       \* request paths
  Configured  \* the sets of features an operator may turn on

ASSUME RequestsAssumption ==
  /\ Path \subseteq [root : Root, segs : Seq(Segment)]
  /\ Configured \subseteq SUBSET Feature

VARIABLES
  features,  \* cfg.AllowFeatures
  request,   \* the request being decided, or NoRequest
  verdict    \* what allows said of it

vars == <<features, request, verdict>>

NoRequest == [method |-> "none", path |-> [root |-> "other", segs |-> <<>>]]

Init ==
  /\ features \in Configured
  /\ request = NoRequest
  /\ verdict = FALSE

Ask(m, path) ==
  /\ request = NoRequest
  /\ request' = [method |-> m, path |-> path]
  /\ verdict' = allows(features, m, path)
  /\ UNCHANGED features

Done ==
  /\ request # NoRequest
  /\ request' = NoRequest
  /\ verdict' = FALSE
  /\ UNCHANGED features

Next == (\E m \in Method, path \in Path : Ask(m, path)) \/ Done

Spec == Init /\ [][Next]_vars

-----------------------------------------------------------------------------
(* What patterns and paths mean *)

\* By the comment on rule (policy.go:19-21) "*" takes exactly one segment, not
\* an empty one, and a trailing "**" one or more: it stands for k times "*".
Trailing(pattern) == pattern # <<>> /\ pattern[Len(pattern)] = "**"
Spread(pattern, k) ==
  [i \in 1..(Len(pattern) - 1 + k) |-> IF i < Len(pattern) THEN pattern[i] ELSE "*"]
TakesEach(pattern, segs) ==
  /\ Len(segs) = Len(pattern)
  /\ \A i \in 1..Len(pattern) :
       IF pattern[i] = "*" THEN segs[i] # "" ELSE segs[i] = pattern[i]
Matches(pattern, segs) ==
  IF Trailing(pattern) THEN \E k \in 1..Len(segs) : TakesEach(Spread(pattern, k), segs)
  ELSE TakesEach(pattern, segs)

\* The path as the GUI resolves it: empty and "." segments vanish, ".." takes
\* the segment before it away.  done[n] is what is left of the first n.
Resolved(segs) ==
  LET done[n \in 0..Len(segs)] ==
        IF n = 0 THEN <<>>
        ELSE IF segs[n] \in {"", "."} THEN done[n - 1]
        ELSE IF segs[n] # ".." THEN Append(done[n - 1], segs[n])
        ELSE IF done[n - 1] = <<>> THEN <<>>
        ELSE SubSeq(done[n - 1], 1, Len(done[n - 1]) - 1)
  IN  done[Len(segs)]

-----------------------------------------------------------------------------
(* Properties *)

\* A request is let through exactly when its path is under /scalemgmt/v2/, has
\* no "." or ".." and is one that a rule in force describes (policy.go:19-21).
\* matchPattern alone takes an empty segment for "*" (149-162): that the rules
\* mean what the comment says rests on the scan before it (126-130).
VerdictAgreesWithRules ==
  verdict <=>
    /\ request.path.root = "v2"
    /\ \A i \in DOMAIN request.path.segs : request.path.segs[i] \notin {".", ".."}
    /\ \E rl \in rules :
         /\ rl.feature \in features \cup {"always"}
         /\ request.method \in rl.methods
         /\ Matches(rl.pattern, request.path.segs)

\* The filesystem whose access is checked is the one the GUI acts on, for
\* every path that is forwarded (policy.go:118-121, proxy.go:152-158).
CheckedIsResolved ==
  verdict =>
    extractFS(request.path) =
      extractFS([request.path EXCEPT !.segs = Resolved(request.path.segs)])

Covers(rl) ==
  matchMethod(rl.methods, request.method) /\ matchPattern(rl.pattern, request.path.segs)

\* A request of an endpoint behind a feature that is off is refused: no rule
\* that is always on lets it through by another pattern (policy.go:42-94).
GateNotShadowed ==
  verdict =>
    \A g \in GatedRules : Covers(g) => \E h \in GatedRules : Covers(h) /\ h.feature \in features

\* What a tenant can change without naming a filesystem is the refresh of the
\* GUI's cache and, with the AFM feature on, bucket keys and mappings: the
\* checks per filesystem miss nothing else (README.md:127).
ChangesNameFilesystem ==
  verdict /\ ~readOnly(request.method) =>
    \/ extractFS(request.path) # ""
    \/ request.path.segs = <<"refreshTask", "enqueue">>
    \/ "afm" \in features /\ request.path.segs[1] \in {"bucket", "nodes"}
=============================================================================
