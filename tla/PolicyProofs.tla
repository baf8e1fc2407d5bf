---------------------------- MODULE PolicyProofs ----------------------------
(***************************************************************************)
(* TLAPS proofs about the allowlist, for every method, every path of any     *)
(* length and every set of features.  Two rules can only let through the     *)
(* same request if the paths they match have a shape in common; Open is the  *)
(* shape of what the rules that are always on match, and no gated rule       *)
(* matches a path of that shape.  What a path resolves to is proved by        *)
(* induction over its segments.                                             *)
(***************************************************************************)
EXTENDS PolicyDecisions, Inductions, SequenceTheorems

\* What patterns are made of, below filesystems and elsewhere.
Word == {
  "*", "**", "filesystems", "filesets", "refreshTask", "enqueue", "quotas", "directoryCopy",
  "directory", "symlink", "link", "snapshots", "latest", "snapshotCloneSplit",
  "snapshotCloneChilds", "snapshotCopy", "snapshotCloneCopy", "path", "mount", "unmount",
  "policies", "cos", "bucket", "keys", "nodes", "afm", "mapping", "cluster", "config", "info",
  "health", "states", "nodeclasses", "jobs", "pools", "partition", "owner"}

OpenRules == ClusterRules \cup FilesystemRules \cup FilesetRules

BelowFilesystem(s) == Len(s) >= 2 /\ s[1] = "filesystems"

\* What an always-on rule matches, by method.
Open(m, s) ==
  \/ m = "GET"
  \/ m = "POST" /\ s = <<"refreshTask", "enqueue">>
  \/ /\ BelowFilesystem(s)
     /\ m = "PUT" => Len(s) > 3
     /\ m = "POST" /\ Len(s) = 4 => s[3] # "filesets"

-----------------------------------------------------------------------------
(* What matchPattern compares *)

NoTail(p) == \A i \in DOMAIN p : p[i] # "**"
TailLast(p) == p # <<>> /\ p[Len(p)] = "**" /\ \A i \in 1..(Len(p) - 1) : p[i] # "**"

\* Without "**" the lengths agree and every segment is compared.
LEMMA ExactMatch ==
  ASSUME NEW p \in Seq(Word), NEW s \in Seq(Segment), NoTail(p), matchPattern(p, s)
  PROVE  Len(s) = Len(p) /\ \A i \in 1..Len(p) : p[i] = "*" \/ p[i] = s[i]
<1>1. {i \in DOMAIN p : p[i] = "**"} = {}
  BY DEF NoTail, Word
<1> QED BY <1>1, Zenon DEF matchPattern

\* A "**" at the end takes at least one segment.
LEMMA TailMatch ==
  ASSUME NEW p \in Seq(Word), NEW s \in Seq(Segment), TailLast(p), matchPattern(p, s)
  PROVE  Len(s) >= Len(p) /\ \A i \in 1..(Len(p) - 1) : p[i] = "*" \/ p[i] = s[i]
<1>1. Len(p) \in Nat /\ Len(s) \in Nat /\ Len(p) > 0 /\ DOMAIN p = 1..Len(p)
  BY EmptySeq DEF TailLast
<1>2. {i \in DOMAIN p : p[i] = "**"} = {Len(p)}
  BY <1>1 DEF TailLast
<1>3. Min({Len(p)}) = Len(p)
  BY <1>1 DEF Min
<1>4. {Len(p)} # {}
  OBVIOUS
<1>5. Len(s) > Len(p) - 1 /\ \A i \in 1..(Len(p) - 1) : p[i] \in {"*", s[i]}
  BY <1>2, <1>3, <1>4, Zenon DEF matchPattern
<1> QED BY <1>1, <1>5

\* The places of a concatenation.
LEMMA ConcatAt ==
  ASSUME NEW S, NEW a \in Seq(S), NEW b \in Seq(S)
  PROVE  /\ a \o b \in Seq(S) /\ Len(a \o b) = Len(a) + Len(b)
         /\ \A i \in 1..Len(a) : (a \o b)[i] = a[i]
         /\ \A i \in 1..Len(b) : (a \o b)[i + Len(a)] = b[i]
<1>1. Len(a) \in Nat /\ Len(b) \in Nat
  OBVIOUS
<1>2. ASSUME NEW i \in 1..Len(a) PROVE (a \o b)[i] = a[i]
  BY <1>1, ConcatProperties
<1>3. ASSUME NEW i \in 1..Len(b) PROVE (a \o b)[i + Len(a)] = b[i]
  <2>1. i + Len(a) \in 1..(Len(a) + Len(b)) /\ ~(i + Len(a) <= Len(a)) /\ (i + Len(a)) - Len(a) = i
    BY <1>1
  <2> QED BY <2>1, ConcatProperties
<1> QED BY <1>2, <1>3, ConcatProperties

\* The patterns below a filesystem: fs(rest) is rest, two segments further on.
LEMMA FsPattern ==
  ASSUME NEW rest \in Seq(Word)
  PROVE  /\ fs(rest) \in Seq(Word)
         /\ Len(fs(rest)) = Len(rest) + 2
         /\ fs(rest)[1] = "filesystems" /\ fs(rest)[2] = "*"
         /\ \A i \in 1..Len(rest) : fs(rest)[i + 2] = rest[i]
<1> DEFINE two == <<"filesystems", "*">>
<1>1. two \in Seq(Word) /\ Len(two) = 2 /\ two[1] = "filesystems" /\ two[2] = "*"
  BY DEF Word
<1>2. fs(rest) = two \o rest
  BY DEF fs
<1> HIDE DEF two
<1>3. 1 \in 1..Len(two) /\ 2 \in 1..Len(two) /\ Len(rest) \in Nat
  BY <1>1
<1>4. /\ two \o rest \in Seq(Word) /\ Len(two \o rest) = Len(two) + Len(rest)
      /\ \A i \in 1..Len(two) : (two \o rest)[i] = two[i]
      /\ \A i \in 1..Len(rest) : (two \o rest)[i + Len(two)] = rest[i]
  <2>1. two \in Seq(Word)
    BY <1>1
  <2> QED BY <2>1, ConcatAt
<1> QED BY <1>1, <1>2, <1>3, <1>4

LEMMA FsExact ==
  ASSUME NEW rest \in Seq(Word), NEW s \in Seq(Segment), NoTail(rest), matchPattern(fs(rest), s)
  PROVE  /\ BelowFilesystem(s)
         /\ Len(s) = Len(rest) + 2
         /\ \A i \in 1..Len(rest) : rest[i] = "*" \/ rest[i] = s[i + 2]
<1> DEFINE p == fs(rest)
<1>1. p \in Seq(Word) /\ Len(p) = Len(rest) + 2 /\ p[1] = "filesystems" /\ p[2] = "*"
      /\ Len(rest) \in Nat /\ \A i \in 1..Len(rest) : p[i + 2] = rest[i]
  BY FsPattern
<1> HIDE DEF p
<1>2. NoTail(p)
  <2> SUFFICES ASSUME NEW i \in 1..(Len(rest) + 2) PROVE p[i] # "**"
    BY <1>1 DEF NoTail
  <2>1. CASE i > 2
    <3>1. i - 2 \in 1..Len(rest) /\ (i - 2) + 2 = i
      BY <1>1, <2>1
    <3>2. p[i] = rest[i - 2]
      BY <1>1, <3>1
    <3> QED BY <3>1, <3>2 DEF NoTail
  <2>2. CASE i \in {1, 2}
    BY <1>1, <2>2
  <2> QED BY <1>1, <2>1, <2>2
<1>3. Len(s) = Len(p) /\ \A i \in 1..Len(p) : p[i] = "*" \/ p[i] = s[i]
  BY <1>1, <1>2, ExactMatch DEF p
<1>4. \A i \in 1..Len(rest) : i + 2 \in 1..Len(p)
  BY <1>1
<1> QED BY <1>1, <1>3, <1>4 DEF BelowFilesystem

LEMMA FsTail ==
  ASSUME NEW rest \in Seq(Word), NEW s \in Seq(Segment), TailLast(rest), matchPattern(fs(rest), s)
  PROVE  /\ BelowFilesystem(s)
         /\ Len(s) >= Len(rest) + 2
         /\ \A i \in 1..(Len(rest) - 1) : rest[i] = "*" \/ rest[i] = s[i + 2]
<1> DEFINE p == fs(rest)
<1>1. p \in Seq(Word) /\ Len(p) = Len(rest) + 2 /\ p[1] = "filesystems" /\ p[2] = "*"
      /\ Len(rest) \in Nat /\ \A i \in 1..Len(rest) : p[i + 2] = rest[i]
  BY FsPattern
<1>2. Len(rest) > 0
  BY <1>1, EmptySeq DEF TailLast
<1> HIDE DEF p
<1>3. TailLast(p)
  <2>1. p # <<>> /\ p[Len(p)] = "**"
    BY <1>1, <1>2, EmptySeq DEF TailLast
  <2> SUFFICES ASSUME NEW i \in 1..(Len(rest) + 1) PROVE p[i] # "**"
    BY <1>1, <2>1 DEF TailLast
  <2>2. CASE i > 2
    <3>1. i - 2 \in 1..(Len(rest) - 1) /\ (i - 2) + 2 = i /\ i - 2 \in 1..Len(rest)
      BY <1>1, <2>2
    <3>2. p[i] = rest[i - 2]
      BY <1>1, <3>1
    <3> QED BY <3>1, <3>2 DEF TailLast
  <2>3. CASE i \in {1, 2}
    BY <1>1, <2>3
  <2> QED BY <1>1, <2>2, <2>3
<1>4. Len(s) >= Len(p) /\ \A i \in 1..(Len(p) - 1) : p[i] = "*" \/ p[i] = s[i]
  BY <1>1, <1>3, TailMatch DEF p
<1>5. \A i \in 1..(Len(rest) - 1) : i + 2 \in 1..(Len(p) - 1) /\ i \in 1..Len(rest)
  BY <1>1
<1>6. Len(s) \in Nat /\ 1 \in 1..(Len(p) - 1)
  BY <1>1, <1>2
<1>7. \A i \in 1..(Len(rest) - 1) : rest[i] = "*" \/ rest[i] = s[i + 2]
  BY <1>1, <1>4, <1>5
<1>8. BelowFilesystem(s) /\ Len(s) >= Len(rest) + 2
  BY <1>1, <1>2, <1>4, <1>6 DEF BelowFilesystem
<1> QED BY <1>7, <1>8

\* Below a fileset everything is at least four segments deep, exactly four
\* only for the fileset itself.
LEMMA FsetPattern ==
  ASSUME NEW rest \in Seq(Word)
  PROVE  /\ fset(rest) \in Seq(Word)
         /\ Len(fset(rest)) = Len(rest) + 4
         /\ fset(rest)[1] = "filesystems" /\ fset(rest)[2] = "*"
         /\ fset(rest)[3] = "filesets" /\ fset(rest)[4] = "*"
         /\ \A i \in 1..Len(rest) : fset(rest)[i + 4] = rest[i]
<1> DEFINE two == <<"filesets", "*">>
           four == fs(two)
<1>1. two \in Seq(Word) /\ Len(two) = 2 /\ two[1] = "filesets" /\ two[2] = "*"
  BY DEF Word
<1>2. fset(rest) = four \o rest
  BY DEF fset
<1> HIDE DEF two
<1>3. /\ four \in Seq(Word) /\ Len(four) = 4 /\ four[1] = "filesystems" /\ four[2] = "*"
      /\ \A i \in 1..2 : four[i + 2] = two[i]
  <2>1. /\ four \in Seq(Word) /\ Len(four) = Len(two) + 2 /\ four[1] = "filesystems" /\ four[2] = "*"
        /\ \A i \in 1..Len(two) : four[i + 2] = two[i]
    BY <1>1, FsPattern, Zenon
  <2> HIDE DEF four
  <2> QED BY <1>1, <2>1
<1> HIDE DEF four
<1>4. /\ four \in Seq(Word) /\ Len(four) = 4
      /\ four[1] = "filesystems" /\ four[2] = "*" /\ four[3] = "filesets" /\ four[4] = "*"
  <2>1. four[1 + 2] = "filesets" /\ four[2 + 2] = "*"
    BY <1>1, <1>3
  <2> QED BY <1>3, <2>1
<1>5. Len(rest) \in Nat /\ \A i \in 1..4 : i \in 1..Len(four)
  BY <1>4
<1>6. /\ four \o rest \in Seq(Word) /\ Len(four \o rest) = Len(four) + Len(rest)
      /\ \A i \in 1..Len(four) : (four \o rest)[i] = four[i]
      /\ \A i \in 1..Len(rest) : (four \o rest)[i + Len(four)] = rest[i]
  <2>1. four \in Seq(Word)
    BY <1>4
  <2> QED BY <2>1, ConcatAt
<1> QED BY <1>2, <1>4, <1>5, <1>6

LEMMA FsetMatch ==
  ASSUME NEW rest \in Seq(Word), NEW s \in Seq(Segment), matchPattern(fset(rest), s),
         NoTail(rest) \/ TailLast(rest)
  PROVE  BelowFilesystem(s) /\ Len(s) >= Len(rest) + 4
<1> DEFINE p == fset(rest)
<1>1. p \in Seq(Word) /\ Len(p) = Len(rest) + 4 /\ p[1] = "filesystems" /\ p[2] = "*"
      /\ p[3] = "filesets" /\ p[4] = "*" /\ Len(rest) \in Nat
      /\ \A i \in 1..Len(rest) : p[i + 4] = rest[i]
  BY FsetPattern
<1> HIDE DEF p
<1>2. \A i \in 5..Len(p) : p[i] = rest[i - 4] /\ i - 4 \in 1..Len(rest)
  <2> SUFFICES ASSUME NEW i \in 5..Len(p) PROVE p[i] = rest[i - 4] /\ i - 4 \in 1..Len(rest)
    OBVIOUS
  <2>1. i - 4 \in 1..Len(rest) /\ (i - 4) + 4 = i
    BY <1>1
  <2> QED BY <1>1, <2>1
<1>3. \A i \in 1..4 : p[i] # "**"
  BY <1>1
<1>4. 1 \in 1..(Len(p) - 1) /\ 1 \in 1..Len(p) /\ Len(s) \in Nat
  BY <1>1
<1>5. CASE NoTail(rest)
  <2>1. NoTail(p)
    <3> SUFFICES ASSUME NEW i \in 1..Len(p) PROVE p[i] # "**"
      BY <1>1 DEF NoTail
    <3>1. CASE i \in 5..Len(p)
      <4>1. p[i] = rest[i - 4] /\ i - 4 \in DOMAIN rest
        BY <1>2, <3>1
      <4> QED BY <1>5, <4>1, Zenon DEF NoTail
    <3>2. CASE i \in 1..4
      BY <1>3, <3>2
    <3>3. i \in 5..Len(p) \/ i \in 1..4
      BY <1>1
    <3> QED BY <3>1, <3>2, <3>3
  <2>2. Len(s) = Len(p) /\ (p[1] = "*" \/ p[1] = s[1])
    BY <1>1, <1>4, <2>1, ExactMatch DEF p
  <2> QED BY <1>1, <2>2 DEF BelowFilesystem
<1>6. CASE TailLast(rest)
  <2>1. Len(rest) > 0
    BY <1>1, <1>6, EmptySeq DEF TailLast
  <2>2. TailLast(p)
    <3>1. Len(p) \in 5..Len(p) /\ Len(p) - 4 = Len(rest)
      BY <1>1, <2>1
    <3>2. p # <<>> /\ p[Len(p)] = "**"
      BY <1>1, <1>2, <1>6, <3>1, EmptySeq DEF TailLast
    <3> SUFFICES ASSUME NEW i \in 1..(Len(p) - 1) PROVE p[i] # "**"
      BY <3>2 DEF TailLast
    <3>3. CASE i > 4
      <4>1. i \in 5..Len(p) /\ i - 4 \in 1..(Len(rest) - 1)
        BY <1>1, <3>3
      <4>2. p[i] = rest[i - 4]
        BY <1>2, <4>1
      <4> QED BY <1>6, <4>1, <4>2, Zenon DEF TailLast
    <3>4. CASE i \in 1..4
      BY <1>3, <3>4
    <3>5. i > 4 \/ i \in 1..4
      BY <1>1
    <3> QED BY <3>3, <3>4, <3>5
  <2>3. Len(s) >= Len(p) /\ (p[1] = "*" \/ p[1] = s[1])
    BY <1>1, <1>4, <2>2, TailMatch DEF p
  <2> QED BY <1>1, <1>4, <2>3 DEF BelowFilesystem
<1> QED BY <1>5, <1>6

\* One word below a filesystem.
LEMMA FsOne ==
  ASSUME NEW w \in Word, w # "**", NEW s \in Seq(Segment), matchPattern(fs(<<w>>), s)
  PROVE  BelowFilesystem(s) /\ Len(s) = 3
<1> DEFINE rest == <<w>>
<1>1. rest \in Seq(Word) /\ NoTail(rest) /\ Len(rest) = 1 /\ matchPattern(fs(rest), s)
  BY DEF NoTail
<1> HIDE DEF rest
<1>2. BelowFilesystem(s) /\ Len(s) = Len(rest) + 2
  BY <1>1, FsExact, Zenon
<1> QED BY <1>1, <1>2

-----------------------------------------------------------------------------
(* What the rules match *)

LEMMA ClusterOpen ==
  ASSUME NEW rl \in ClusterRules, NEW s \in Seq(Segment), NEW m \in rl.methods,
         matchPattern(rl.pattern, s)
  PROVE  Open(m, s)
<1>1. CASE rl.methods = {"GET"}
  BY <1>1 DEF Open
<1>2. CASE rl = r({"POST"}, <<"refreshTask", "enqueue">>)
  <2> DEFINE p == <<"refreshTask", "enqueue">>
  <2>1. m = "POST" /\ rl.pattern = p
    BY <1>2 DEF r
  <2>2. p \in Seq(Word) /\ Len(p) = 2 /\ NoTail(p) /\ p[1] = "refreshTask" /\ p[2] = "enqueue"
    BY DEF NoTail, Word
  <2>3. Len(s) = 2 /\ s[1] = "refreshTask" /\ s[2] = "enqueue"
    <3> HIDE DEF p
    <3> QED BY <2>1, <2>2, ExactMatch
  <2>4. s = <<"refreshTask", "enqueue">>
    BY <2>3
  <2> QED BY <2>1, <2>4 DEF Open
<1> QED BY <1>1, <1>2 DEF ClusterRules, r

LEMMA FilesystemOpen ==
  ASSUME NEW rl \in FilesystemRules, NEW s \in Seq(Segment), NEW m \in rl.methods,
         matchPattern(rl.pattern, s)
  PROVE  Open(m, s)
<1>1. CASE rl.methods = {"GET"}
  BY <1>1 DEF Open
<1>2. CASE rl = r({"GET", "POST"}, fs(<<"quotas">>))
  <2>1. "quotas" \in Word
    BY DEF Word
  <2>2. m \in {"GET", "POST"} /\ matchPattern(fs(<<"quotas">>), s)
    BY <1>2 DEF r
  <2>3. BelowFilesystem(s) /\ Len(s) = 3
    BY <2>1, <2>2, FsOne
  <2> QED BY <2>2, <2>3 DEF Open
<1>3. ASSUME NEW w \in {"directoryCopy", "directory", "symlink"}, rl.pattern = fs(<<w, "**">>)
      PROVE  Open(m, s)
  <2> DEFINE rest == <<w, "**">>
  <2>1. rest \in Seq(Word) /\ TailLast(rest) /\ Len(rest) = 2 /\ rest[1] = w
    BY DEF TailLast, Word
  <2>2. BelowFilesystem(s) /\ Len(s) >= 4 /\ s[3] = w
    <3>1. matchPattern(fs(rest), s)
      BY <1>3
    <3> HIDE DEF rest
    <3>2. /\ BelowFilesystem(s) /\ Len(s) >= Len(rest) + 2
          /\ \A i \in 1..(Len(rest) - 1) : rest[i] = "*" \/ rest[i] = s[i + 2]
      BY <2>1, <3>1, FsTail, Zenon
    <3>3. 1 \in 1..(Len(rest) - 1) /\ 1 + 2 = 3 /\ Len(s) \in Nat
      BY <2>1
    <3>4. rest[1] = "*" \/ rest[1] = s[1 + 2]
      BY <3>2, <3>3
    <3> QED BY <2>1, <3>2, <3>3, <3>4
  <2> QED BY <2>2 DEF Open
<1> QED BY <1>1, <1>2, <1>3 DEF FilesystemRules, r

LEMMA FilesetOpen ==
  ASSUME NEW rl \in FilesetRules, NEW s \in Seq(Segment), NEW m \in rl.methods,
         matchPattern(rl.pattern, s)
  PROVE  Open(m, s)
<1> DEFINE Deep(rest) == rest \in Seq(Word) /\ Len(rest) >= 1 /\ (NoTail(rest) \/ TailLast(rest))
<1>1. CASE rl = r({"GET", "POST"}, fs(<<"filesets">>))
  <2>1. "filesets" \in Word
    BY DEF Word
  <2>2. m \in {"GET", "POST"} /\ matchPattern(fs(<<"filesets">>), s)
    BY <1>1 DEF r
  <2>3. BelowFilesystem(s) /\ Len(s) = 3
    BY <2>1, <2>2, FsOne
  <2> QED BY <2>2, <2>3 DEF Open
<1>2. CASE rl = r({"GET", "PUT", "DELETE"}, fset(<<>>))
  <2> DEFINE rest == <<>>
  <2>1. rest \in Seq(Word) /\ NoTail(rest) /\ Len(rest) = 0
    BY DEF NoTail
  <2>2. m \in {"GET", "PUT", "DELETE"} /\ matchPattern(fset(rest), s)
    BY <1>2 DEF r
  <2>3. BelowFilesystem(s) /\ Len(s) >= 4
    <3> HIDE DEF rest
    <3>1. BelowFilesystem(s) /\ Len(s) >= Len(rest) + 4
      BY <2>1, <2>2, FsetMatch, Zenon
    <3> QED BY <2>1, <3>1
  <2> QED BY <2>2, <2>3 DEF Open
<1>3. ASSUME NEW rest, rl.pattern = fset(rest), Deep(rest)
      PROVE  Open(m, s)
  <2>1. matchPattern(fset(rest), s) /\ rest \in Seq(Word) /\ (NoTail(rest) \/ TailLast(rest))
    BY <1>3
  <2>2. BelowFilesystem(s) /\ Len(s) >= Len(rest) + 4
    BY <2>1, FsetMatch
  <2>3. Len(rest) \in Nat /\ Len(s) \in Nat /\ Len(rest) >= 1
    BY <1>3
  <2>4. Len(s) > 4
    BY <2>2, <2>3
  <2>6. Len(s) > 3 /\ Len(s) # 4
    <3>1. \A n \in Nat : n > 4 => n > 3 /\ n # 4
      OBVIOUS
    <3> QED BY <2>3, <2>4, <3>1, Zenon
  <2>5. BelowFilesystem(s)
    BY <2>2
  <2> QED BY <2>6, <2>5, Zenon DEF Open
<1>4. ASSUME NEW w \in Word, w # "**" PROVE Deep(<<w>>)
  BY <1>4 DEF NoTail, Word
<1>5. ASSUME NEW w \in Word, w # "**", NEW v \in Word PROVE Deep(<<w, v>>)
  BY <1>5 DEF NoTail, TailLast, Word
<1>6. ASSUME NEW w \in Word, w # "**" PROVE Deep(<<w, "*", "path", "**">>)
  BY <1>6 DEF TailLast, Word
<1> HIDE DEF Deep
<1>7. ASSUME NEW w \in {"link", "quotas", "snapshots", "snapshotCloneSplit"}, rl.pattern = fset(<<w>>)
      PROVE  Open(m, s)
  <2>1. Deep(<<w>>)
    BY <1>4 DEF Word
  <2> QED BY <1>3, <1>7, <2>1
<1>8. ASSUME NEW w \in {"snapshots", "directoryCopy"}, NEW v \in {"latest", "*", "**"},
             rl.pattern = fset(<<w, v>>)
      PROVE  Open(m, s)
  <2>1. Deep(<<w, v>>)
    BY <1>5 DEF Word
  <2> QED BY <1>3, <1>8, <2>1
<1>9. ASSUME NEW w \in {"snapshotCloneChilds", "snapshotCopy", "snapshotCloneCopy"},
             rl.pattern = fset(<<w, "*", "path", "**">>)
      PROVE  Open(m, s)
  <2>1. Deep(<<w, "*", "path", "**">>)
    BY <1>6 DEF Word
  <2> QED BY <1>3, <1>9, <2>1
<1> QED BY <1>1, <1>2, <1>7, <1>8, <1>9 DEF FilesetRules, r

LEMMA OpenMatch ==
  ASSUME NEW rl \in OpenRules, NEW s \in Seq(Segment), NEW m \in rl.methods, matchPattern(rl.pattern, s)
  PROVE  Open(m, s)
BY ClusterOpen, FilesystemOpen, FilesetOpen DEF OpenRules

\* What a gated rule matches is never of that shape; where it names no
\* filesystem it is one of the AFM endpoints.
LEMMA GatedMatch ==
  ASSUME NEW rl \in GatedRules, NEW s \in Seq(Segment), NEW m \in rl.methods, matchPattern(rl.pattern, s)
  PROVE  /\ ~Open(m, s)
         /\ BelowFilesystem(s) \/ (rl.feature = "afm" /\ s[1] \in {"bucket", "nodes"})
<1>1. ASSUME NEW w \in {"mount", "unmount", "policies"}, rl.pattern = fs(<<w>>), m = "PUT"
      PROVE  ~Open(m, s) /\ BelowFilesystem(s)
  <2>1. w \in Word /\ w # "**" /\ matchPattern(fs(<<w>>), s)
    BY <1>1 DEF Word
  <2>2. BelowFilesystem(s) /\ Len(s) = 3
    BY <2>1, FsOne
  <2> QED BY <1>1, <2>2 DEF Open, BelowFilesystem
<1>2. ASSUME rl.pattern = fs(<<"filesets", "cos">>), m = "POST"
      PROVE  ~Open(m, s) /\ BelowFilesystem(s)
  <2> DEFINE rest == <<"filesets", "cos">>
  <2>1. rest \in Seq(Word) /\ NoTail(rest) /\ Len(rest) = 2 /\ rest[1] = "filesets"
    BY DEF NoTail, Word
  <2>2. BelowFilesystem(s) /\ Len(s) = 4 /\ s[3] = "filesets"
    <3>1. matchPattern(fs(rest), s)
      BY <1>2
    <3> HIDE DEF rest
    <3>2. /\ BelowFilesystem(s) /\ Len(s) = Len(rest) + 2
          /\ \A i \in 1..Len(rest) : rest[i] = "*" \/ rest[i] = s[i + 2]
      BY <2>1, <3>1, FsExact, Zenon
    <3>3. 1 \in 1..Len(rest) /\ 1 + 2 = 3
      BY <2>1
    <3>4. rest[1] = "*" \/ rest[1] = s[1 + 2]
      BY <3>2, <3>3
    <3> QED BY <2>1, <3>2, <3>3, <3>4
  <2> QED BY <1>2, <2>2 DEF Open, BelowFilesystem
<1>3. ASSUME NEW p \in Seq(Word), rl.pattern = p, NoTail(p), Len(p) > 0, p[1] \in {"bucket", "nodes"},
             m \in {"PUT", "POST", "DELETE"}
      PROVE  ~Open(m, s) /\ s[1] \in {"bucket", "nodes"}
  <2>1. s[1] = p[1]
    <3>1. 1 \in 1..Len(p)
      BY <1>3
    <3> QED BY <1>3, <3>1, ExactMatch
  <2> QED BY <1>3, <2>1 DEF Open, BelowFilesystem
<1>4. ASSUME NEW p \in {<<"bucket", "keys">>, <<"bucket", "keys", "*">>,
                         <<"nodes", "afm", "mapping">>, <<"nodes", "afm", "mapping", "*">>}
      PROVE  p \in Seq(Word) /\ NoTail(p) /\ Len(p) > 0 /\ p[1] \in {"bucket", "nodes"}
  <2>1. CASE p = <<"bucket", "keys">>
    BY <2>1 DEF NoTail, Word
  <2>2. CASE p = <<"bucket", "keys", "*">>
    BY <2>2 DEF NoTail, Word
  <2>3. CASE p = <<"nodes", "afm", "mapping">>
    BY <2>3 DEF NoTail, Word
  <2>4. CASE p = <<"nodes", "afm", "mapping", "*">>
    BY <2>4 DEF NoTail, Word
  <2> QED BY <2>1, <2>2, <2>3, <2>4
<1>5. CASE \E w \in {"mount", "unmount", "policies"} : rl.pattern = fs(<<w>>) /\ rl.methods = {"PUT"}
  BY <1>1, <1>5
<1>6. CASE rl.pattern = fs(<<"filesets", "cos">>) /\ rl.methods = {"POST"}
  BY <1>2, <1>6
<1>7. CASE /\ rl.feature = "afm" /\ rl.methods \in {{"PUT"}, {"POST"}, {"DELETE"}}
           /\ rl.pattern \in {<<"bucket", "keys">>, <<"bucket", "keys", "*">>,
                              <<"nodes", "afm", "mapping">>, <<"nodes", "afm", "mapping", "*">>}
  <2> DEFINE p == rl.pattern
  <2>1. p \in Seq(Word) /\ NoTail(p) /\ Len(p) > 0 /\ p[1] \in {"bucket", "nodes"}
    BY <1>4, <1>7
  <2>2. m \in {"PUT", "POST", "DELETE"}
    BY <1>7
  <2> HIDE DEF p
  <2>3. ~Open(m, s) /\ s[1] \in {"bucket", "nodes"}
    BY <1>3, <2>1, <2>2 DEF p
  <2> QED BY <1>7, <2>3
<1> QED BY <1>5, <1>6, <1>7 DEF GatedRules, gated, r

LEMMA RuleFeatures ==
  /\ \A rl \in OpenRules : rl.feature = "always"
  /\ \A rl \in GatedRules : rl.feature \in Feature
BY DEF OpenRules, ClusterRules, FilesystemRules, FilesetRules, GatedRules, gated, r, Feature

-----------------------------------------------------------------------------
\* The verdict is that of allows on a request that could be asked.
Decided ==
  /\ features \subseteq Feature
  /\ request.path \in [root : Root, segs : Seq(Segment)]
  /\ verdict \in BOOLEAN
  /\ verdict <=> allows(features, request.method, request.path)

LEMMA DecidedAlways == Spec => []Decided
<1> USE RequestsAssumption
<1>1. NoRequest.path \in [root : Root, segs : Seq(Segment)]
  <2>1. NoRequest.path = [root |-> "other", segs |-> <<>>] /\ "other" \in Root
    BY DEF NoRequest, Root
  <2>2. <<>> \in Seq(Segment)
    BY EmptySeq
  <2> QED BY <2>1, <2>2
<1>0. ~allows(features, NoRequest.method, NoRequest.path)
  BY DEF allows, NoRequest
<1>2. Init => Decided
  BY <1>0, <1>1 DEF Init, Decided
<1>3. Decided /\ [Next]_vars => Decided'
  <2> SUFFICES ASSUME Decided, [Next]_vars PROVE Decided'
    OBVIOUS
  <2>1. ASSUME NEW m \in Method, NEW path \in Path, Ask(m, path) PROVE Decided'
    <3>1. allows(features, m, path) \in BOOLEAN
      BY DEF allows
    <3> QED BY <2>1, <3>1, RequestsAssumption DEF Ask, Decided
  <2>2. CASE Done
    BY <1>0, <1>1, <2>2 DEF Done, Decided
  <2>3. CASE UNCHANGED vars
    BY <2>3 DEF vars, Decided
  <2> QED BY <2>1, <2>2, <2>3 DEF Next
<1> QED BY <1>2, <1>3, PTL DEF Spec

\* The rule by which a request is allowed.
LEMMA AllowingRule ==
  ASSUME Decided, verdict
  PROVE  /\ request.path.root = "v2"
         /\ \A i \in DOMAIN request.path.segs : request.path.segs[i] # ""
         /\ \E rl \in OpenRules \cup GatedRules :
              /\ Covers(rl)
              /\ rl \in GatedRules => rl.feature \in features
BY RuleFeatures DEF Decided, allows, Unresolved, newPolicy, rules, OpenRules, Covers, Feature

\* No endpoint behind a feature that is off can be reached through a rule that
\* is always on, whatever the names and the length of the path.
THEOREM GatesHold == Spec => []GateNotShadowed
<1>1. Decided => GateNotShadowed
  <2> SUFFICES ASSUME Decided, verdict, NEW g \in GatedRules, Covers(g)
               PROVE  \E h \in GatedRules : Covers(h) /\ h.feature \in features
    BY DEF GateNotShadowed
  <2>1. PICK rl \in OpenRules \cup GatedRules :
          Covers(rl) /\ (rl \in GatedRules => rl.feature \in features)
    BY AllowingRule
  <2>2. ~Open(request.method, request.path.segs)
    BY GatedMatch DEF Covers, Decided, matchMethod
  <2>3. rl \notin OpenRules
    BY <2>1, <2>2, OpenMatch DEF Covers, Decided, matchMethod
  <2> QED BY <2>1, <2>3
<1> QED BY <1>1, DecidedAlways, PTL

\* Every change that is let through names a filesystem, which is then checked,
\* or is one of the few that name none by intent.
THEOREM ChangesAreCharged == Spec => []ChangesNameFilesystem
<1>1. Decided => ChangesNameFilesystem
  <2> SUFFICES ASSUME Decided, verdict, ~readOnly(request.method)
               PROVE  \/ extractFS(request.path) # ""
                      \/ request.path.segs = <<"refreshTask", "enqueue">>
                      \/ "afm" \in features /\ request.path.segs[1] \in {"bucket", "nodes"}
    BY DEF ChangesNameFilesystem
  <2> DEFINE s == request.path.segs
  <2>1. PICK rl \in OpenRules \cup GatedRules :
          Covers(rl) /\ (rl \in GatedRules => rl.feature \in features)
    BY AllowingRule
  <2>2. s \in Seq(Segment) /\ request.method # "GET"
    BY DEF Decided, readOnly
  <2>3. CASE BelowFilesystem(s)
    <3>1. 2 \in DOMAIN s
      BY <2>2, <2>3 DEF BelowFilesystem
    <3>2. s[2] # "" /\ request.path.root = "v2"
      BY <3>1, AllowingRule
    <3>3. Len(s) > 1 /\ s[1] = "filesystems"
      BY <2>2, <2>3 DEF BelowFilesystem
    <3>4. extractFS(request.path) = s[2]
      BY <3>2, <3>3 DEF extractFS
    <3> QED BY <3>2, <3>4
  <2>4. CASE rl \in OpenRules
    <3>1. Open(request.method, s)
      BY <2>1, <2>2, <2>4, OpenMatch DEF Covers, matchMethod
    <3> QED BY <2>2, <2>3, <3>1 DEF Open
  <2>5. CASE rl \in GatedRules
    <3>1. BelowFilesystem(s) \/ (rl.feature = "afm" /\ s[1] \in {"bucket", "nodes"})
      BY <2>1, <2>2, <2>5, GatedMatch DEF Covers, matchMethod
    <3> QED BY <2>1, <2>3, <2>5, <3>1
  <2> QED BY <2>1, <2>4, <2>5
<1> QED BY <1>1, DecidedAlways, PTL

-----------------------------------------------------------------------------
(* What patterns and paths mean *)

Shape(p) == p \in Seq(Word) /\ (NoTail(p) \/ TailLast(p))

\* Such patterns put one after the other, the first without "**".
LEMMA ShapeAfter ==
  ASSUME NEW a \in Seq(Word), NoTail(a), NEW b, Shape(b)
  PROVE  Shape(a \o b)
<1> DEFINE p == a \o b
<1>1. b \in Seq(Word) /\ Len(a) \in Nat /\ Len(b) \in Nat
  BY DEF Shape
<1>2. /\ p \in Seq(Word) /\ Len(p) = Len(a) + Len(b)
      /\ \A i \in 1..Len(a) : p[i] = a[i]
      /\ \A i \in 1..Len(b) : p[i + Len(a)] = b[i]
  BY <1>1, ConcatAt
<1> HIDE DEF p
<1>3. \A i \in 1..Len(p) : i \notin 1..Len(a) => i - Len(a) \in 1..Len(b) /\ p[i] = b[i - Len(a)]
  <2> SUFFICES ASSUME NEW i \in 1..Len(p), i \notin 1..Len(a)
               PROVE  i - Len(a) \in 1..Len(b) /\ p[i] = b[i - Len(a)]
    OBVIOUS
  <2>1. i - Len(a) \in 1..Len(b) /\ (i - Len(a)) + Len(a) = i
    BY <1>1, <1>2
  <2> QED BY <1>2, <2>1
<1>4. \A i \in 1..Len(a) : p[i] # "**"
  BY <1>1, <1>2 DEF NoTail
<1>5. CASE NoTail(b)
  <2>1. \A i \in 1..Len(p) : p[i] # "**"
    BY <1>1, <1>3, <1>4, <1>5 DEF NoTail
  <2> QED BY <1>2, <2>1 DEF Shape, NoTail, p
<1>6. CASE TailLast(b)
  <2>1. Len(b) > 0 /\ b[Len(b)] = "**" /\ \A i \in 1..(Len(b) - 1) : b[i] # "**"
    BY <1>1, <1>6, EmptySeq DEF TailLast
  <2>2. p # <<>>
    BY <1>1, <1>2, <2>1
  <2>3. p[Len(p)] = "**"
    <3>1. Len(b) \in 1..Len(b) /\ Len(b) + Len(a) = Len(p)
      BY <1>1, <1>2, <2>1
    <3> QED BY <1>2, <2>1, <3>1
  <2>4. \A i \in 1..(Len(p) - 1) : p[i] # "**"
    <3> SUFFICES ASSUME NEW i \in 1..(Len(p) - 1) PROVE p[i] # "**"
      OBVIOUS
    <3>1. CASE i \in 1..Len(a)
      BY <1>4, <3>1
    <3>2. CASE i \notin 1..Len(a)
      <4>1. i - Len(a) \in 1..(Len(b) - 1) /\ i \in 1..Len(p)
        BY <1>1, <1>2, <3>2
      <4> QED BY <1>3, <2>1, <3>2, <4>1
    <3> QED BY <3>1, <3>2
  <2> QED BY <1>2, <2>2, <2>3, <2>4 DEF Shape, TailLast, p
<1> QED BY <1>5, <1>6 DEF Shape

LEMMA FsShape ==
  ASSUME NEW rest, Shape(rest)
  PROVE  Shape(fs(rest)) /\ Shape(fset(rest))
<1> DEFINE a == <<"filesystems", "*">>
           b == <<"filesets", "*">>
<1>1. a \in Seq(Word) /\ NoTail(a)
  BY DEF NoTail, Word
<1>2. b \in Seq(Word) /\ NoTail(b) /\ Shape(b)
  BY DEF NoTail, Word, Shape
<1>3. fs(rest) = a \o rest /\ fs(b) = a \o b /\ fset(rest) = fs(b) \o rest
  BY DEF fs, fset
<1> HIDE DEF a, b
<1>4. Shape(a \o rest) /\ Shape(a \o b)
  BY <1>1, <1>2, ShapeAfter
<1>5. a \o b \in Seq(Word) /\ NoTail(a \o b)
  <2>1. /\ Len(a) \in Nat /\ Len(b) \in Nat
        /\ \A i \in 1..Len(a) : (a \o b)[i] = a[i] /\ a[i] # "**"
        /\ \A i \in 1..Len(b) : (a \o b)[i + Len(a)] = b[i] /\ b[i] # "**"
        /\ a \o b \in Seq(Word) /\ Len(a \o b) = Len(a) + Len(b)
    BY <1>1, <1>2, ConcatAt DEF NoTail
  <2>2. ASSUME NEW i \in 1..Len(a \o b), i \notin 1..Len(a) PROVE (a \o b)[i] # "**"
    <3>1. i - Len(a) \in 1..Len(b) /\ (i - Len(a)) + Len(a) = i
      BY <2>1, <2>2
    <3> QED BY <2>1, <3>1
  <2> QED BY <2>1, <2>2 DEF NoTail
<1>6. Shape((a \o b) \o rest)
  BY <1>5, ShapeAfter
<1> QED BY <1>3, <1>4, <1>6

\* No rule has "**" anywhere but at its end.
LEMMA RuleShape ==
  ASSUME NEW rl \in rules
  PROVE  Shape(rl.pattern)
<1>1. ASSUME NEW w \in Word, w # "**"
      PROVE  Shape(<<w>>)
  BY <1>1 DEF Shape, NoTail
<1>2. ASSUME NEW w \in Word, w # "**", NEW v \in Word
      PROVE  Shape(<<w, v>>)
  BY <1>2 DEF Shape, NoTail, TailLast
<1>3. ASSUME NEW w \in Word, w # "**", NEW v \in Word, v # "**", NEW x \in Word
      PROVE  Shape(<<w, v, x>>)
  BY <1>3 DEF Shape, NoTail, TailLast
<1>4. ASSUME NEW w \in Word, w # "**", NEW v \in Word, v # "**", NEW x \in Word, x # "**", NEW y \in Word
      PROVE  Shape(<<w, v, x, y>>)
  BY <1>4 DEF Shape, NoTail, TailLast
<1>w. \A w \in {"*", "nodes", "health", "states", "path", "bucket", "keys", "afm", "mapping",
               "snapshotCloneChilds", "snapshotCopy", "snapshotCloneCopy"} : w \in Word /\ w # "**"
  BY DEF Word
<1>v. "**" \in Word
  BY DEF Word
<1>5. Shape(<<>>)
  BY DEF Shape, NoTail
<1>6. CASE rl \in ClusterRules
  <2>1. /\ Shape(<<"cluster">>) /\ Shape(<<"config">>) /\ Shape(<<"info">>) /\ Shape(<<"nodes">>)
        /\ Shape(<<"filesystems">>)
    BY <1>1 DEF Word
  <2>2. /\ Shape(<<"nodeclasses", "*">>) /\ Shape(<<"jobs", "*">>) /\ Shape(<<"refreshTask", "enqueue">>)
    BY <1>2 DEF Word
  <2>3. Shape(<<"nodes", "*", "health", "states">>)
    BY <1>4, <1>w, Zenon
  <2> HIDE DEF Shape
  <2> QED BY <1>6, <2>1, <2>2, <2>3 DEF ClusterRules, r
<1>7. CASE rl \in FilesystemRules
  <2>1. Shape(<<"pools">>) /\ Shape(<<"quotas">>)
    BY <1>1 DEF Word
  <2>2. /\ Shape(<<"pools", "*">>) /\ Shape(<<"partition", "*">>)
        /\ \A w \in {"directoryCopy", "directory", "symlink", "owner"} : Shape(<<w, "**">>)
    BY <1>2 DEF Word
  <2> QED BY <1>5, <1>7, <2>1, <2>2, FsShape DEF FilesystemRules, r
<1>8. CASE rl \in FilesetRules
  <2>1. \A w \in {"filesets", "link", "quotas", "snapshots", "snapshotCloneSplit"} : Shape(<<w>>)
    BY <1>1 DEF Word
  <2>2. \A w \in {"snapshots", "directoryCopy"}, v \in {"latest", "*", "**"} : Shape(<<w, v>>)
    BY <1>2 DEF Word
  <2>3. \A w \in {"snapshotCloneChilds", "snapshotCopy", "snapshotCloneCopy"} :
           Shape(<<w, "*", "path", "**">>)
    BY <1>4, <1>v, <1>w, Zenon
  <2> QED BY <1>5, <1>8, <2>1, <2>2, <2>3, FsShape DEF FilesetRules, r
<1>9. CASE rl \in GatedRules
  <2>1. \A w \in {"mount", "unmount", "policies"} : Shape(<<w>>)
    BY <1>1 DEF Word
  <2>2. Shape(<<"filesets", "cos">>) /\ Shape(<<"bucket", "keys">>)
    BY <1>2 DEF Word
  <2>3. Shape(<<"bucket", "keys", "*">>) /\ Shape(<<"nodes", "afm", "mapping">>)
    BY <1>3, <1>w, Zenon
  <2>4. Shape(<<"nodes", "afm", "mapping", "*">>)
    BY <1>4, <1>w, Zenon
  <2> QED BY <1>9, <2>1, <2>2, <2>3, <2>4, FsShape DEF GatedRules, gated, r
<1> QED BY <1>6, <1>7, <1>8, <1>9 DEF rules

\* For a pattern of that shape and a path without empty segments the
\* comparison is what the comment says; no other path is described.
LEMMA MatchMeans ==
  ASSUME NEW p, Shape(p), NEW s \in Seq(Segment)
  PROVE  Matches(p, s) <=> matchPattern(p, s) /\ \A i \in 1..Len(s) : s[i] # ""
<1>1. p \in Seq(Word) /\ Len(p) \in Nat /\ Len(s) \in Nat /\ DOMAIN p = 1..Len(p)
  BY DEF Shape
<1>w. \A i \in 1..Len(p) : p[i] # ""
  <2>1. \A w \in Word : w # ""
    BY DEF Word
  <2>2. \A i \in 1..Len(p) : p[i] \in Word
    BY <1>1, ElementOfSeq
  <2> QED BY <2>1, <2>2
<1>2. CASE NoTail(p)
  <2>1. {i \in DOMAIN p : p[i] = "**"} = {}
    BY <1>2 DEF NoTail
  <2>2. matchPattern(p, s) <=> Len(s) = Len(p) /\ \A i \in 1..Len(p) : p[i] \in {"*", s[i]}
    BY <2>1, Zenon DEF matchPattern
  <2>3. ~Trailing(p)
    <3>1. p # <<>> => Len(p) \in DOMAIN p
      BY <1>1, EmptySeq
    <3> QED BY <1>2, <3>1 DEF Trailing, NoTail
  <2>4. Matches(p, s) <=> TakesEach(p, s)
    BY <2>3 DEF Matches
  <2>5. TakesEach(p, s) <=>
          Len(s) = Len(p) /\ \A i \in 1..Len(p) : IF p[i] = "*" THEN s[i] # "" ELSE s[i] = p[i]
    BY DEF TakesEach
  <2>6. ASSUME Len(s) = Len(p)
        PROVE  (\A i \in 1..Len(p) : IF p[i] = "*" THEN s[i] # "" ELSE s[i] = p[i])
                 <=> /\ \A i \in 1..Len(p) : p[i] \in {"*", s[i]}
                     /\ \A i \in 1..Len(p) : s[i] # ""
    BY <1>w
  <2> QED BY <2>2, <2>4, <2>5, <2>6
<1>3. CASE TailLast(p)
  <2>1. Len(p) > 0 /\ Trailing(p)
    BY <1>1, <1>3, EmptySeq DEF TailLast, Trailing
  <2>2. {i \in DOMAIN p : p[i] = "**"} = {Len(p)}
    BY <1>1, <1>3, <2>1 DEF TailLast
  <2>3. Min({Len(p)}) = Len(p) /\ {Len(p)} # {}
    BY <1>1 DEF Min
  <2>4. matchPattern(p, s) <=> Len(s) > Len(p) - 1 /\ \A i \in 1..(Len(p) - 1) : p[i] \in {"*", s[i]}
    BY <2>2, <2>3, Zenon DEF matchPattern
  <2>5. ASSUME NEW k \in 1..Len(s)
        PROVE  TakesEach(Spread(p, k), s) <=>
                 /\ Len(s) = Len(p) - 1 + k
                 /\ \A i \in 1..(Len(p) - 1) : p[i] \in {"*", s[i]}
                 /\ \A i \in 1..Len(s) : s[i] # ""
    <3> DEFINE e == Spread(p, k)
    <3>1. Len(p) - 1 + k \in Nat
      BY <1>1, <2>1
    <3>2. e = [i \in 1..(Len(p) - 1 + k) |-> IF i < Len(p) THEN p[i] ELSE "*"]
      BY DEF Spread
    <3>3. /\ Len(e) = Len(p) - 1 + k
          /\ \A i \in 1..(Len(p) - 1) : e[i] = p[i] /\ i \in 1..(Len(p) - 1 + k)
          /\ \A i \in 1..(Len(p) - 1 + k) : i \notin 1..(Len(p) - 1) => e[i] = "*"
      <4> HIDE DEF e
      <4>1. /\ \A i \in 1..(Len(p) - 1) : e[i] = p[i] /\ i \in 1..(Len(p) - 1 + k)
            /\ \A i \in 1..(Len(p) - 1 + k) : i \notin 1..(Len(p) - 1) => e[i] = "*"
        BY <1>1, <2>1, <3>1, <3>2
      <4>2. Len(e) = Len(p) - 1 + k
        BY <3>1, <3>2
      <4> QED BY <4>1, <4>2
    <3> HIDE DEF e
    <3>4. TakesEach(e, s) <=>
            Len(s) = Len(e) /\ \A i \in 1..Len(e) : IF e[i] = "*" THEN s[i] # "" ELSE s[i] = e[i]
      BY DEF TakesEach
    <3>5. \A i \in 1..(Len(p) - 1) : p[i] # ""
      <4>1. \A i \in 1..(Len(p) - 1) : i \in 1..Len(p)
        BY <1>1
      <4> QED BY <1>w, <4>1
    <3>6. ASSUME Len(s) = Len(e)
          PROVE  (\A i \in 1..Len(e) : IF e[i] = "*" THEN s[i] # "" ELSE s[i] = e[i])
                   <=> /\ \A i \in 1..(Len(p) - 1) : p[i] \in {"*", s[i]}
                       /\ \A i \in 1..Len(s) : s[i] # ""
      <4>1. \A i \in 1..Len(e) : i \in 1..(Len(p) - 1) \/ e[i] = "*"
        BY <3>3
      <4>2. \A i \in 1..(Len(p) - 1) : i \in 1..Len(e) /\ e[i] = p[i]
        BY <3>3
      <4> QED BY <3>5, <3>6, <4>1, <4>2
    <3> QED BY <3>3, <3>4, <3>6 DEF e
  <2>6. Matches(p, s) <=> \E k \in 1..Len(s) : TakesEach(Spread(p, k), s)
    BY <2>1 DEF Matches
  <2>7. Len(s) > Len(p) - 1 => Len(s) - (Len(p) - 1) \in 1..Len(s)
    BY <1>1, <2>1
  <2>8. \A k \in 1..Len(s) : Len(s) = Len(p) - 1 + k => Len(s) > Len(p) - 1
    BY <1>1, <2>1
  <2>9. Len(s) = Len(p) - 1 + (Len(s) - (Len(p) - 1))
    BY <1>1
  <2>10. ASSUME matchPattern(p, s), \A i \in 1..Len(s) : s[i] # "" PROVE Matches(p, s)
    <3> DEFINE k == Len(s) - (Len(p) - 1)
    <3>1. k \in 1..Len(s) /\ Len(s) = Len(p) - 1 + k
      BY <2>4, <2>7, <2>9, <2>10
    <3> HIDE DEF k
    <3>2. TakesEach(Spread(p, k), s)
      BY <2>4, <2>5, <2>10, <3>1
    <3> QED BY <2>6, <3>1, <3>2
  <2>11. ASSUME Matches(p, s) PROVE matchPattern(p, s) /\ \A i \in 1..Len(s) : s[i] # ""
    <3>1. PICK k \in 1..Len(s) : TakesEach(Spread(p, k), s)
      BY <2>6, <2>11
    <3> QED BY <2>4, <2>5, <2>8, <3>1
  <2> QED BY <2>10, <2>11
<1> QED BY <1>2, <1>3 DEF Shape

\* A request is let through exactly when a rule in force describes it, in the
\* words of the comment on rule (policy.go:19-21, 120-138).
THEOREM RulesMeanWhatTheySay == Spec => []VerdictAgreesWithRules
<1>1. Decided => VerdictAgreesWithRules
  <2> SUFFICES ASSUME Decided PROVE VerdictAgreesWithRules
    OBVIOUS
  <2> DEFINE s == request.path.segs
  <2>1. s \in Seq(Segment) /\ DOMAIN s = 1..Len(s)
    BY DEF Decided
  <2>2. \A rl \in rules : Matches(rl.pattern, s) <=>
          matchPattern(rl.pattern, s) /\ \A i \in 1..Len(s) : s[i] # ""
    BY <2>1, RuleShape, MatchMeans
  <2>3. newPolicy(features) = {rl \in rules : rl.feature \in features \cup {"always"}}
    BY DEF newPolicy
  <2>4. verdict <=> allows(features, request.method, request.path)
    BY DEF Decided
  <2> HIDE DEF s
  <2>5. (\A i \in DOMAIN s : s[i] \notin Unresolved) <=>
          (\A i \in DOMAIN s : s[i] \notin {".", ".."}) /\ (\A i \in 1..Len(s) : s[i] # "")
    BY <2>1 DEF Unresolved
  <2> QED BY <2>2, <2>3, <2>4, <2>5 DEF VerdictAgreesWithRules, allows, matchMethod, s
<1> QED BY <1>1, DecidedAlways, PTL

\* Nothing is taken from a path without empty and dot segments.
LEMMA NothingToResolve ==
  ASSUME NEW s \in Seq(Segment), \A i \in DOMAIN s : s[i] \notin Unresolved
  PROVE  Resolved(s) = s
<1> DEFINE m == Len(s)
           next(n, d) == IF s[n] \in {"", "."} THEN d
                         ELSE IF s[n] # ".." THEN Append(d, s[n])
                         ELSE IF d = <<>> THEN <<>>
                         ELSE SubSeq(d, 1, Len(d) - 1)
           done == CHOOSE g : g = [n \in 0..m |-> IF n = 0 THEN <<>>
                                                  ELSE IF s[n] \in {"", "."} THEN g[n - 1]
                                                  ELSE IF s[n] # ".." THEN Append(g[n - 1], s[n])
                                                  ELSE IF g[n - 1] = <<>> THEN <<>>
                                                  ELSE SubSeq(g[n - 1], 1, Len(g[n - 1]) - 1)]
           f == [n \in 0..m |-> SubSeq(s, 1, n)]
<1>1. m \in Nat /\ DOMAIN s = 1..m
  OBVIOUS
<1>2. ASSUME NEW n \in 1..m, NEW d PROVE next(n, d) = Append(d, s[n])
  BY <1>1 DEF Unresolved
<1>3. ASSUME NEW n \in 1..m
      PROVE  SubSeq(s, 1, n) = Append(SubSeq(s, 1, n - 1), s[n])
  <2> DEFINE a == SubSeq(s, 1, n - 1)
             b == SubSeq(s, 1, n)
  <2>1. /\ n - 1 \in 0..m /\ n \in 0..m /\ n \in Nat /\ n - 1 \in Nat
    BY <1>1
  <2>2. /\ a \in Seq(Segment) /\ Len(a) = n - 1 /\ \A i \in 1..(n - 1) : a[i] = s[i]
        /\ b \in Seq(Segment) /\ Len(b) = n /\ \A i \in 1..n : b[i] = s[i]
    BY <1>1, <2>1
  <2> HIDE DEF a, b
  <2>3. s[n] \in Segment
    BY <1>1
  <2>4. /\ Append(a, s[n]) \in Seq(Segment) /\ Len(Append(a, s[n])) = n
        /\ \A i \in 1..(n - 1) : Append(a, s[n])[i] = a[i]
        /\ Append(a, s[n])[n] = s[n]
    BY <2>1, <2>2, <2>3, AppendProperties
  <2>5. \A i \in 1..n : Append(a, s[n])[i] = b[i]
    BY <2>1, <2>2, <2>4
  <2>6. Append(a, s[n]) = b
    BY <2>2, <2>4, <2>5, SeqEqual
  <2> QED BY <2>6 DEF a, b
<1>4. \A n \in 0..m : f[n] = IF n = 0 THEN <<>> ELSE next(n, f[n - 1])
  <2>1. ASSUME NEW n \in 1..m PROVE f[n] = next(n, f[n - 1])
    <3>1. n \in 0..m /\ n - 1 \in 0..m
      BY <1>1
    <3>2. f[n] = SubSeq(s, 1, n) /\ f[n - 1] = SubSeq(s, 1, n - 1)
      BY <3>1
    <3> HIDE DEF f, next
    <3> QED BY <1>2, <1>3, <3>2
  <2>2. f[0] = <<>>
    BY <1>1
  <2> HIDE DEF f, next
  <2> QED BY <1>1, <2>1, <2>2
<1>5. done = [n \in 0..m |-> IF n = 0 THEN <<>> ELSE next(n, done[n - 1])]
  <2>1. f = [n \in 0..m |-> IF n = 0 THEN <<>> ELSE next(n, f[n - 1])]
    <3>1. f = [n \in 0..m |-> f[n]]
      OBVIOUS
    <3> HIDE DEF f, next
    <3> QED BY <1>4, <3>1
  <2> HIDE DEF f
  <2> QED BY <2>1
<1>6. Resolved(s) = done[m]
  BY DEF Resolved
<1> HIDE DEF done, next, f
<1> DEFINE Good == {n \in 0..m : done[n] = SubSeq(s, 1, n)}
<1>7. 0..m \subseteq Good
  <2>1. 0 \in Good
    <3>1. done[0] = <<>> /\ 0 \in 0..m
      BY <1>1, <1>5
    <3>2. SubSeq(s, 1, 0) = <<>>
      BY <1>1
    <3> QED BY <3>1, <3>2
  <2>2. ASSUME NEW n \in 1..m, n - 1 \in Good PROVE n \in Good
    <3>1. n \in 0..m /\ n # 0
      BY <1>1
    <3>2. done[n - 1] = SubSeq(s, 1, n - 1)
      BY <2>2
    <3>3. done[n] = next(n, done[n - 1])
      BY <1>5, <3>1
    <3> QED BY <1>2, <1>3, <3>1, <3>2, <3>3
  <2> HIDE DEF Good
  <2> QED BY <1>1, <2>1, <2>2, InductionUpto
<1>8. m \in Good
  BY <1>1, <1>7
<1>9. SubSeq(s, 1, m) = s
  BY <1>1
<1> QED BY <1>6, <1>8, <1>9

\* The filesystem that is checked is the one of the path as the GUI resolves
\* it, for every path that is let through (policy.go:118-121).
THEOREM CheckedIsWhatIsMeant == Spec => []CheckedIsResolved
<1>1. Decided => CheckedIsResolved
  <2> SUFFICES ASSUME Decided, verdict
               PROVE  extractFS(request.path) =
                        extractFS([request.path EXCEPT !.segs = Resolved(request.path.segs)])
    BY DEF CheckedIsResolved
  <2>1. request.path.segs \in Seq(Segment) /\ \A i \in DOMAIN request.path.segs : request.path.segs[i] \notin Unresolved
    BY DEF Decided, allows
  <2>2. Resolved(request.path.segs) = request.path.segs
    BY <2>1, NothingToResolve
  <2>3. [request.path EXCEPT !.segs = request.path.segs] = request.path
    BY DEF Decided
  <2> QED BY <2>2, <2>3
<1> QED BY <1>1, DecidedAlways, PTL
=============================================================================
