-------------------------- MODULE MmctlLinesProofs --------------------------
(***************************************************************************)
(* What is proved of the command lines of mmctl, for lines of any length, and *)
(* of the rows and records it prints, for any values in any columns.         *)
(***************************************************************************)
EXTENDS MmctlLines, Inductions, SequenceTheorems, FiniteSetTheorems

-----------------------------------------------------------------------------
(* Sequences put together *)

Unrolls(f, parts) == f = [n \in 0..Len(parts) |-> IF n = 0 THEN <<>> ELSE f[n - 1] \o parts[n]]

LEMMA UnrollExists ==
  ASSUME NEW parts, Len(parts) \in Nat
  PROVE  \E f : Unrolls(f, parts)
<1> DEFINE m == Len(parts)
           Made == {n \in 0..m : \E f : f = [i \in 0..n |-> IF i = 0 THEN <<>> ELSE f[i - 1] \o parts[i]]}
<1>1. 0 \in Made
  <2> DEFINE g == [i \in 0..0 |-> <<>>]
  <2>1. g = [i \in 0..0 |-> IF i = 0 THEN <<>> ELSE g[i - 1] \o parts[i]]
    OBVIOUS
  <2>2. 0 \in 0..m
    OBVIOUS
  <2> HIDE DEF g
  <2> QED BY <2>1, <2>2
<1>2. ASSUME NEW n \in 1..m, n - 1 \in Made PROVE n \in Made
  <2>1. PICK f : f = [i \in 0..(n - 1) |-> IF i = 0 THEN <<>> ELSE f[i - 1] \o parts[i]]
    BY <1>2
  <2> DEFINE g == [i \in 0..n |-> IF i = n THEN f[n - 1] \o parts[n] ELSE f[i]]
  <2>2. ASSUME NEW i \in 0..n PROVE g[i] = IF i = 0 THEN <<>> ELSE g[i - 1] \o parts[i]
    <3>1. CASE i = n
      <4>1. n - 1 \in 0..n /\ n - 1 # n /\ n # 0
        OBVIOUS
      <4> QED BY <3>1, <4>1
    <3>2. CASE i # n
      <4>1. i \in 0..(n - 1) /\ (i # 0 => i - 1 \in 0..n /\ i - 1 # n)
        BY <3>2
      <4>2. f[i] = IF i = 0 THEN <<>> ELSE f[i - 1] \o parts[i]
        BY <2>1, <4>1
      <4> QED BY <3>2, <4>1, <4>2
    <3> QED BY <3>1, <3>2
  <2>3. g = [i \in 0..n |-> g[i]]
    OBVIOUS
  <2> HIDE DEF g
  <2>4. g = [i \in 0..n |-> IF i = 0 THEN <<>> ELSE g[i - 1] \o parts[i]]
    BY <2>2, <2>3
  <2> QED BY <2>4
<1>3. m \in Nat
  OBVIOUS
<1>4. m \in 0..m /\ 0..m \subseteq Made
  <2> HIDE DEF Made, m
  <2> QED BY <1>1, <1>2, <1>3, InductionUpto
<1> QED BY <1>4 DEF Unrolls

LEMMA FlatUnrolls ==
  ASSUME NEW parts, Len(parts) \in Nat
  PROVE  \E f : Unrolls(f, parts) /\ Flat(parts) = f[Len(parts)]
<1> DEFINE out == CHOOSE f : f = [n \in 0..Len(parts) |-> IF n = 0 THEN <<>> ELSE f[n - 1] \o parts[n]]
<1>1. Unrolls(out, parts)
  BY UnrollExists DEF Unrolls
<1>2. Flat(parts) = out[Len(parts)]
  BY DEF Flat
<1> HIDE DEF out
<1> QED BY <1>1, <1>2

LEMMA FlatNothing == Flat(<<>>) = <<>>
<1>1. PICK f : Unrolls(f, <<>>) /\ Flat(<<>>) = f[0]
  BY FlatUnrolls
<1> QED BY <1>1 DEF Unrolls

LEMMA FlatAppend ==
  ASSUME NEW T, NEW parts \in Seq(T), NEW x \in T
  PROVE  Flat(Append(parts, x)) = Flat(parts) \o x
<1> DEFINE m == Len(parts)
           more == Append(parts, x)
<1>1. /\ m \in Nat /\ Len(more) = m + 1
      /\ \A i \in 1..m : more[i] = parts[i]
      /\ more[m + 1] = x
  BY AppendProperties
<1> HIDE DEF more
<1>2. PICK f : Unrolls(f, parts) /\ Flat(parts) = f[m]
  BY <1>1, FlatUnrolls
<1>3. PICK g : Unrolls(g, more) /\ Flat(more) = g[m + 1]
  BY <1>1, FlatUnrolls
<1>4. /\ f[0] = <<>> /\ g[0] = <<>>
      /\ \A i \in 1..m : f[i] = f[i - 1] \o parts[i] /\ g[i] = g[i - 1] \o parts[i]
      /\ g[m + 1] = g[m] \o x
  <2>1. f[0] = <<>> /\ \A i \in 1..m : f[i] = f[i - 1] \o parts[i]
    BY <1>1, <1>2 DEF Unrolls
  <2>2. g[0] = <<>> /\ \A i \in 1..(m + 1) : g[i] = g[i - 1] \o more[i]
    BY <1>1, <1>3 DEF Unrolls
  <2>3. m + 1 \in 1..(m + 1) /\ (m + 1) - 1 = m /\ \A i \in 1..m : i \in 1..(m + 1)
    BY <1>1
  <2> QED BY <1>1, <2>1, <2>2, <2>3
<1> DEFINE Same == {n \in Nat : f[n] = g[n]}
<1>5. 0..m \subseteq Same
  <2>1. 0 \in Same
    BY <1>4
  <2>2. ASSUME NEW n \in 1..m, n - 1 \in Same PROVE n \in Same
    <3>1. n \in Nat /\ f[n - 1] = g[n - 1]
      BY <1>1, <2>2
    <3> QED BY <1>4, <3>1
  <2> HIDE DEF Same
  <2> QED BY <1>1, <2>1, <2>2, InductionUpto
<1>6. f[m] = g[m]
  BY <1>1, <1>5
<1> QED BY <1>2, <1>3, <1>4, <1>6 DEF more

LEMMA MapAppend ==
  ASSUME NEW T, NEW s \in Seq(T), NEW x \in T, NEW F
  PROVE  [i \in DOMAIN Append(s, x) |-> F[Append(s, x)[i]]]
           = Append([i \in DOMAIN s |-> F[s[i]]], F[x])
<1> DEFINE m == Len(s)
           more == Append(s, x)
           map == [i \in DOMAIN s |-> F[s[i]]]
           U == {F[y] : y \in T}
<1>1. /\ m \in Nat /\ more \in Seq(T) /\ Len(more) = m + 1
      /\ \A i \in 1..m : more[i] = s[i]
      /\ more[m + 1] = x
  BY AppendProperties
<1>2. DOMAIN s = 1..m /\ DOMAIN more = 1..(m + 1)
  BY <1>1
<1>3. map \in Seq(U) /\ Len(map) = m /\ F[x] \in U /\ \A i \in 1..m : map[i] = F[s[i]]
  <2>1. \A i \in 1..m : s[i] \in T
    BY <1>1
  <2>2. map \in [1..m -> U]
    BY <1>2, <2>1
  <2> QED BY <1>1, <1>2, <2>2, SeqDef, LenProperties
<1> HIDE DEF more, map, U
<1> DEFINE mapped == [i \in DOMAIN more |-> F[more[i]]]
           app == Append(map, F[x])
<1>4. /\ app \in Seq(U) /\ Len(app) = m + 1
      /\ \A i \in 1..m : app[i] = map[i]
      /\ app[m + 1] = F[x]
  BY <1>3, AppendProperties
<1>5. app = [i \in 1..(m + 1) |-> app[i]]
  BY <1>1, <1>4
<1> HIDE DEF app
<1>6. ASSUME NEW i \in 1..(m + 1) PROVE app[i] = F[more[i]]
  <2>1. i = m + 1 \/ i \in 1..m
    BY <1>1
  <2> QED BY <1>1, <1>3, <1>4, <2>1
<1>7. app = [i \in 1..(m + 1) |-> F[more[i]]]
  BY <1>5, <1>6
<1>8. app = mapped
  BY <1>2, <1>7
<1> QED BY <1>8 DEF app, more, map

\* The members of an appended element are known.
LEMMA AppendRange ==
  ASSUME NEW T, NEW s \in Seq(T), NEW x \in T
  PROVE  Append(s, x) \in Seq(T) /\ Range(Append(s, x)) = Range(s) \cup {x}
<1>1. /\ Append(s, x) \in Seq(T) /\ Len(s) \in Nat
      /\ Len(Append(s, x)) = Len(s) + 1
      /\ \A i \in 1..Len(s) : Append(s, x)[i] = s[i]
      /\ Append(s, x)[Len(s) + 1] = x
  BY AppendProperties
<1>2. /\ DOMAIN Append(s, x) = 1..(Len(s) + 1) /\ DOMAIN s = 1..Len(s)
  BY <1>1
<1>3. 1..(Len(s) + 1) = 1..Len(s) \cup {Len(s) + 1}
  BY <1>1
<1> QED BY <1>1, <1>2, <1>3 DEF Range

LEMMA JoinOne ==
  ASSUME NEW T, NEW x \in T, NEW y \in T
  PROVE  <<x>> \o <<y>> = <<x, y>>
<1> DEFINE a == <<x>>
           b == <<y>>
           c == <<x, y>>
<1>1. /\ a \in Seq(T) /\ b \in Seq(T) /\ c \in Seq(T)
      /\ Len(a) = 1 /\ Len(b) = 1 /\ Len(c) = 2
      /\ a[1] = x /\ b[1] = y /\ c[1] = x /\ c[2] = y
  OBVIOUS
<1> HIDE DEF a, b, c
<1>2. /\ a \o b \in Seq(T) /\ Len(a \o b) = Len(a) + Len(b)
      /\ \A i \in 1..(Len(a) + Len(b)) : (a \o b)[i] = IF i <= Len(a) THEN a[i] ELSE b[i - Len(a)]
  BY <1>1, ConcatProperties
<1>3. a \o b \in Seq(T) /\ Len(a \o b) = 2 /\ (a \o b)[1] = x /\ (a \o b)[2] = y
  BY <1>1, <1>2
<1>4. a \o b = c
  BY <1>1, <1>3, SeqEqual
<1> QED BY <1>4 DEF a, b, c

LEMMA JoinTwo ==
  ASSUME NEW T, NEW s \in Seq(T), NEW x \in T, NEW y \in T
  PROVE  s \o <<x, y>> = Append(Append(s, x), y)
<1> DEFINE a == <<x>>
           b == <<y>>
<1>1. a \in Seq(T) /\ b \in Seq(T)
  OBVIOUS
<1>2. Append(s, x) = s \o a /\ Append(s, x) \in Seq(T)
  BY AppendIsConcat, AppendProperties
<1>3. Append(Append(s, x), y) = (s \o a) \o b
  BY <1>2, AppendIsConcat
<1>4. a \o b = <<x, y>>
  BY JoinOne
<1> HIDE DEF a, b
<1>5. (s \o a) \o b = s \o (a \o b)
  BY <1>1, ConcatAssociative
<1> QED BY <1>3, <1>4, <1>5

-----------------------------------------------------------------------------
(* Arguments taken one by one *)

TakesEach(f, spec, args) ==
  f = [n \in 0..Len(args) |-> IF n = 0 THEN NoOptions ELSE Take(spec, f[n - 1], args[n])]

LEMMA TakesExists ==
  ASSUME NEW spec, NEW args, Len(args) \in Nat
  PROVE  \E f : TakesEach(f, spec, args)
<1> DEFINE m == Len(args)
           Made == {n \in 0..m : \E f : f = [i \in 0..n |-> IF i = 0 THEN NoOptions
                                                              ELSE Take(spec, f[i - 1], args[i])]}
<1>1. 0 \in Made
  <2> DEFINE g == [i \in 0..0 |-> NoOptions]
  <2>1. g = [i \in 0..0 |-> IF i = 0 THEN NoOptions ELSE Take(spec, g[i - 1], args[i])]
    OBVIOUS
  <2>2. 0 \in 0..m
    OBVIOUS
  <2> HIDE DEF g
  <2> QED BY <2>1, <2>2
<1>2. ASSUME NEW n \in 1..m, n - 1 \in Made PROVE n \in Made
  <2>1. PICK f : f = [i \in 0..(n - 1) |-> IF i = 0 THEN NoOptions
                                            ELSE Take(spec, f[i - 1], args[i])]
    BY <1>2
  <2> DEFINE g == [i \in 0..n |-> IF i = n THEN Take(spec, f[n - 1], args[n]) ELSE f[i]]
  <2>2. ASSUME NEW i \in 0..n
        PROVE  g[i] = IF i = 0 THEN NoOptions ELSE Take(spec, g[i - 1], args[i])
    <3>1. CASE i = n
      <4>1. n - 1 \in 0..n /\ n - 1 # n /\ n # 0
        OBVIOUS
      <4> QED BY <3>1, <4>1
    <3>2. CASE i # n
      <4>1. i \in 0..(n - 1) /\ (i # 0 => i - 1 \in 0..n /\ i - 1 # n)
        BY <3>2
      <4>2. f[i] = IF i = 0 THEN NoOptions ELSE Take(spec, f[i - 1], args[i])
        BY <2>1, <4>1
      <4> QED BY <3>2, <4>1, <4>2
    <3> QED BY <3>1, <3>2
  <2>3. g = [i \in 0..n |-> g[i]]
    OBVIOUS
  <2> HIDE DEF g
  <2>4. g = [i \in 0..n |-> IF i = 0 THEN NoOptions ELSE Take(spec, g[i - 1], args[i])]
    BY <2>2, <2>3
  <2> QED BY <2>4
<1>3. m \in Nat
  OBVIOUS
<1>4. m \in 0..m /\ 0..m \subseteq Made
  <2> HIDE DEF Made, m
  <2> QED BY <1>1, <1>2, <1>3, InductionUpto
<1> QED BY <1>4 DEF TakesEach

LEMMA TakeAllTakes ==
  ASSUME NEW spec, NEW args, Len(args) \in Nat
  PROVE  \E f : TakesEach(f, spec, args) /\ TakeAll(spec, args) = f[Len(args)]
<1> DEFINE out == CHOOSE f : f = [n \in 0..Len(args) |-> IF n = 0 THEN NoOptions
                                                         ELSE Take(spec, f[n - 1], args[n])]
<1>1. TakesEach(out, spec, args)
  BY TakesExists DEF TakesEach
<1>2. TakeAll(spec, args) = out[Len(args)]
  BY DEF TakeAll
<1> HIDE DEF out
<1> QED BY <1>1, <1>2

LEMMA TakeAllNothing == \A spec : TakeAll(spec, <<>>) = NoOptions
<1> SUFFICES ASSUME NEW spec PROVE TakeAll(spec, <<>>) = NoOptions
  OBVIOUS
<1>1. PICK f : TakesEach(f, spec, <<>>) /\ TakeAll(spec, <<>>) = f[0]
  BY TakeAllTakes
<1> QED BY <1>1 DEF TakesEach

LEMMA TakeAllAppend ==
  ASSUME NEW T, NEW args \in Seq(T), NEW a \in T, NEW spec
  PROVE  TakeAll(spec, Append(args, a)) = Take(spec, TakeAll(spec, args), a)
<1> DEFINE m == Len(args)
           more == Append(args, a)
<1>1. /\ m \in Nat /\ Len(more) = m + 1
      /\ \A i \in 1..m : more[i] = args[i]
      /\ more[m + 1] = a
  BY AppendProperties
<1> HIDE DEF more
<1>2. PICK f : TakesEach(f, spec, args) /\ TakeAll(spec, args) = f[m]
  BY <1>1, TakeAllTakes
<1>3. PICK g : TakesEach(g, spec, more) /\ TakeAll(spec, more) = g[m + 1]
  BY <1>1, TakeAllTakes
<1>4. /\ f[0] = NoOptions /\ g[0] = NoOptions
      /\ \A i \in 1..m : f[i] = Take(spec, f[i - 1], args[i]) /\ g[i] = Take(spec, g[i - 1], args[i])
      /\ g[m + 1] = Take(spec, g[m], a)
  <2>1. f[0] = NoOptions /\ \A i \in 1..m : f[i] = Take(spec, f[i - 1], args[i])
    BY <1>1, <1>2 DEF TakesEach
  <2>2. g[0] = NoOptions /\ \A i \in 1..(m + 1) : g[i] = Take(spec, g[i - 1], more[i])
    BY <1>1, <1>3 DEF TakesEach
  <2>3. m + 1 \in 1..(m + 1) /\ (m + 1) - 1 = m /\ \A i \in 1..m : i \in 1..(m + 1)
    BY <1>1
  <2> QED BY <1>1, <2>1, <2>2, <2>3
<1> DEFINE Same == {n \in Nat : f[n] = g[n]}
<1>5. 0..m \subseteq Same
  <2>1. 0 \in Same
    BY <1>4
  <2>2. ASSUME NEW n \in 1..m, n - 1 \in Same PROVE n \in Same
    <3>1. n \in Nat /\ f[n - 1] = g[n - 1]
      BY <1>1, <2>2
    <3> QED BY <1>4, <3>1
  <2> HIDE DEF Same
  <2> QED BY <1>1, <2>1, <2>2, InductionUpto
<1>6. f[m] = g[m]
  BY <1>1, <1>5
<1> QED BY <1>2, <1>3, <1>4, <1>6 DEF more

-----------------------------------------------------------------------------
(* The commands *)

\* Options are options: none is help or an option that no command has, none
\* stands alone and takes a value too.
NoOption == {"", "-h", "--help", "-x"}

Sound(s) ==
  /\ s.flags \cap s.values = {}
  /\ (s.flags \cup s.values) \cap NoOption = {}

Ordinary(a) == a[1] \notin NoOption

LEMMA AttributeFlags == \A a \in Range(fsAttrs) : Ordinary(a)
<1>1. /\ Ordinary(fsAttrs[1]) /\ Ordinary(fsAttrs[2]) /\ Ordinary(fsAttrs[3]) /\ Ordinary(fsAttrs[4])
      /\ Ordinary(fsAttrs[5]) /\ Ordinary(fsAttrs[6]) /\ Ordinary(fsAttrs[7]) /\ Ordinary(fsAttrs[8])
      /\ Ordinary(fsAttrs[9]) /\ Ordinary(fsAttrs[10]) /\ Ordinary(fsAttrs[11]) /\ Ordinary(fsAttrs[12])
      /\ Ordinary(fsAttrs[13])
  BY DEF fsAttrs, Ordinary, NoOption
<1>2. /\ Ordinary(fsAttrs[14]) /\ Ordinary(fsAttrs[15]) /\ Ordinary(fsAttrs[16]) /\ Ordinary(fsAttrs[17])
      /\ Ordinary(fsAttrs[18]) /\ Ordinary(fsAttrs[19]) /\ Ordinary(fsAttrs[20]) /\ Ordinary(fsAttrs[21])
      /\ Ordinary(fsAttrs[22]) /\ Ordinary(fsAttrs[23]) /\ Ordinary(fsAttrs[24]) /\ Ordinary(fsAttrs[25])
      /\ Ordinary(fsAttrs[26])
  BY DEF fsAttrs, Ordinary, NoOption
<1>3. /\ Ordinary(fsAttrs[27]) /\ Ordinary(fsAttrs[28]) /\ Ordinary(fsAttrs[29]) /\ Ordinary(fsAttrs[30])
      /\ Ordinary(fsAttrs[31]) /\ Ordinary(fsAttrs[32]) /\ Ordinary(fsAttrs[33]) /\ Ordinary(fsAttrs[34])
      /\ Ordinary(fsAttrs[35]) /\ Ordinary(fsAttrs[36]) /\ Ordinary(fsAttrs[37]) /\ Ordinary(fsAttrs[38])
      /\ Ordinary(fsAttrs[39])
  BY DEF fsAttrs, Ordinary, NoOption
<1>4. DOMAIN fsAttrs = 1..39
  BY DEF fsAttrs
<1>5. 1..39 = 1..13 \cup 14..26 \cup 27..39
  OBVIOUS
<1>6. \A i \in 1..13 : Ordinary(fsAttrs[i])
  BY <1>1
<1>7. \A i \in 14..26 : Ordinary(fsAttrs[i])
  BY <1>2
<1>8. \A i \in 27..39 : Ordinary(fsAttrs[i])
  BY <1>3
<1> QED BY <1>4, <1>5, <1>6, <1>7, <1>8 DEF Range

LEMMA CommandsSound == \A s \in commands : Sound(s)
<1>1. \A s \in FilesystemSpec : Sound(s)
  <2>1. Sound(Accepts("mmlscluster", {"-Y"}, {}))
    BY DEF Sound, Accepts, NoOption
  <2>2. Sound(Accepts("mmlsfs", {"-Y"} \cup {a[1] : a \in Range(fsAttrs)}, {}))
    <3>1. {a[1] : a \in Range(fsAttrs)} \cap NoOption = {}
      BY AttributeFlags DEF Ordinary
    <3> QED BY <3>1 DEF Sound, Accepts, NoOption
  <2> QED BY <2>1, <2>2, Zenon DEF FilesystemSpec
<1>2. \A s \in FilesetSpec : Sound(s)
  <2>1. Sound(Accepts("mmlsfileset", {"-d", "-i", "-L", "-Y"}, {}))
    BY DEF Sound, Accepts, NoOption
  <2>2. Sound(Accepts("mmcrfileset", {}, {"-t", "-J", "--inode-space", "--inode-limit",
                                          "--allow-permission-change"}))
    BY DEF Sound, Accepts, NoOption
  <2>3. Sound(Accepts("mmchfileset", {}, {"-j", "-t", "-J", "--inode-limit",
                                          "--allow-permission-change"}))
    BY DEF Sound, Accepts, NoOption
  <2>4. Sound(Accepts("mmdelfileset", {"-f"}, {}))
    BY DEF Sound, Accepts, NoOption
  <2>5. Sound(Accepts("mmlinkfileset", {}, {"-J"}))
    BY DEF Sound, Accepts, NoOption
  <2>6. Sound(Accepts("mmunlinkfileset", {"-f"}, {"-J"}))
    BY DEF Sound, Accepts, NoOption
  <2> QED BY <2>1, <2>2, <2>3, <2>4, <2>5, <2>6, Zenon DEF FilesetSpec
<1>3. \A s \in QuotaSpec : Sound(s)
  <2>1. Sound(Accepts("mmlsquota", {"-e", "-Y"}, {"-u", "-g", "-j", "--block-size"}))
    BY DEF Sound, Accepts, NoOption
  <2>2. Sound(Accepts("mmrepquota", {"-u", "-g", "-j", "-a", "-e", "-n", "-Y"}, {"--block-size"}))
    BY DEF Sound, Accepts, NoOption
  <2>3. Sound(Accepts("mmsetquota", {},
                      {"--user", "--group", "--block", "--files", "--default", "--grace"}))
    BY DEF Sound, Accepts, NoOption
  <2> QED BY <2>1, <2>2, <2>3, Zenon DEF QuotaSpec
<1>4. \A s \in TokenSpec : Sound(s)
  <2>1. Sound(Accepts("mmcrtoken", {}, {})) /\ Sound(Accepts("mmdeltoken", {}, {}))
    BY DEF Sound, Accepts, NoOption
  <2>2. Sound(Accepts("mmlstoken", {"-Y"}, {}))
    BY DEF Sound, Accepts, NoOption
  <2> QED BY <2>1, <2>2, Zenon DEF TokenSpec
<1> QED BY <1>1, <1>2, <1>3, <1>4, Zenon DEF commands

LEMMA LookedUp ==
  ASSUME NEW c \in CommandName
  PROVE  lookup(c) \in commands /\ lookup(c).name = c /\ Sound(lookup(c))
<1>1. \E s \in commands : s.name = c
  BY DEF CommandName
<1>2. lookup(c) \in commands /\ lookup(c).name = c
  BY <1>1 DEF lookup
<1> QED BY <1>2, CommandsSound

LEMMA CommandNames ==
  CommandName = {"mmlscluster", "mmlsfs", "mmlsfileset", "mmcrfileset", "mmchfileset",
                 "mmdelfileset", "mmlinkfileset", "mmunlinkfileset", "mmlsquota", "mmrepquota",
                 "mmsetquota", "mmcrtoken", "mmlstoken", "mmdeltoken"}
<1>1. CommandName = {s.name : s \in FilesystemSpec} \cup {s.name : s \in FilesetSpec}
                      \cup {s.name : s \in QuotaSpec} \cup {s.name : s \in TokenSpec}
  BY DEF CommandName, commands
<1>2. {s.name : s \in FilesystemSpec} = {"mmlscluster", "mmlsfs"}
  BY DEF FilesystemSpec, Accepts
<1>3. {s.name : s \in FilesetSpec} = {"mmlsfileset", "mmcrfileset", "mmchfileset",
                                       "mmdelfileset", "mmlinkfileset", "mmunlinkfileset"}
  BY DEF FilesetSpec, Accepts
<1>4. {s.name : s \in QuotaSpec} = {"mmlsquota", "mmrepquota", "mmsetquota"}
  BY DEF QuotaSpec, Accepts
<1>5. {s.name : s \in TokenSpec} = {"mmcrtoken", "mmlstoken", "mmdeltoken"}
  BY DEF TokenSpec, Accepts
<1> QED BY <1>1, <1>2, <1>3, <1>4, <1>5

-----------------------------------------------------------------------------
(* Items and what they are written as *)

LEMMA ItemForms ==
  ASSUME NEW c, NEW it \in Items(c)
  PROVE  \/ it.kind = "operand" /\ \E w \in Operands[c] : it.val = Word(w)
         \/ it.kind = "flag" /\ it.name \in lookup(c).flags
         \/ /\ it.kind = "value" /\ it.name \in lookup(c).values /\ it.val \in Values[c]
            /\ it.form \in {"joined", "apart"}
         \/ it.kind = "wrong" /\ it.name = "-x"
         \/ it.kind = "help" /\ it.name = "-h"
<1>1. CASE it \in {Item("operand", "", Word(w), "") : w \in Operands[c]}
  <2>1. PICK w \in Operands[c] : it = Item("operand", "", Word(w), "")
    BY <1>1
  <2>2. it.kind = "operand" /\ it.val = Word(w)
    BY <2>1 DEF Item
  <2> QED BY <2>2
<1>2. CASE it \in {Item("flag", n, Word(""), "") : n \in lookup(c).flags}
  <2>1. PICK n \in lookup(c).flags : it = Item("flag", n, Word(""), "")
    BY <1>2
  <2>2. it.kind = "flag" /\ it.name = n
    BY <2>1 DEF Item
  <2> QED BY <2>2
<1>3. CASE it \in {Item("value", x[1], x[2], x[3]) : x \in lookup(c).values \X Values[c] \X {"joined", "apart"}}
  BY <1>3 DEF Item
<1>4. CASE it \in {Item("wrong", "-x", Word(""), ""), Item("help", "-h", Word(""), "")}
  <2>1. CASE it = Item("wrong", "-x", Word(""), "")
    <3>1. it.kind = "wrong" /\ it.name = "-x"
      BY <2>1 DEF Item
    <3> QED BY <3>1
  <2>2. CASE it = Item("help", "-h", Word(""), "")
    <3>1. it.kind = "help" /\ it.name = "-h"
      BY <2>2 DEF Item
    <3> QED BY <3>1
  <2> QED BY <1>4, <2>1, <2>2
<1> QED BY <1>1, <1>2, <1>3, <1>4 DEF Items

LEMMA OperandName ==
  ASSUME NEW c, NEW it \in Items(c), it.kind = "operand"
  PROVE  it.name \in NoOption
<1>1. CASE it \in {Item("operand", "", Word(w), "") : w \in Operands[c]}
  <2>1. PICK w \in Operands[c] : it = Item("operand", "", Word(w), "")
    BY <1>1
  <2>2. \A e : Item("operand", e, Word(w), e).name = e
    BY DEF Item
  <2>3. it.name = ""
    BY <2>1, <2>2, Zenon
  <2>4. "" \in NoOption
    BY Zenon DEF NoOption
  <2> QED BY <2>3, <2>4, Zenon
<1>2. CASE it \in {Item("flag", n, Word(""), "") : n \in lookup(c).flags}
  <2>1. PICK n \in lookup(c).flags : it = Item("flag", n, Word(""), "")
    BY <1>2
  <2>2. it.kind = "flag"
    BY <2>1 DEF Item
  <2> QED BY <2>2
<1>3. CASE it \in {Item("value", x[1], x[2], x[3]) : x \in lookup(c).values \X Values[c] \X {"joined", "apart"}}
  <2>1. it.kind = "value"
    BY <1>3 DEF Item
  <2> QED BY <2>1
<1>4. CASE it = Item("wrong", "-x", Word(""), "")
  <2>1. it.kind = "wrong"
    BY <1>4 DEF Item
  <2> QED BY <2>1
<1>5. CASE it = Item("help", "-h", Word(""), "")
  <2>1. it.kind = "help"
    BY <1>5 DEF Item
  <2> QED BY <2>1
<1> QED BY <1>1, <1>2, <1>3, <1>4, <1>5 DEF Items

LEMMA OptionForm ==
  ASSUME NEW n, NEW v
  PROVE  /\ Option(n, v).shape \in {"short", "long"}
         /\ Option(n, v).name = n /\ Option(n, v).val = v
BY DEF Option, Short, Long

\* What the arguments of a command may be.
Argument(c) ==
  {Word(w) : w \in Operands[c]}
    \cup {Option(n, Nothing) : n \in lookup(c).flags \cup lookup(c).values \cup {"-x", "-h"}}
    \cup {Option(x[1], <<x[2]>>) : x \in lookup(c).values \X Values[c]}
    \cup Values[c] \cup {DoubleDash, Short("-Y", Nothing)}

\* An item is one argument, or an option and its value.
LEMMA WrittenForms ==
  ASSUME NEW c, NEW it \in Items(c)
  PROVE  \/ /\ it.kind = "operand" /\ Written(it) = <<it.val>>
            /\ it.val \in Argument(c) /\ \E w \in Operands[c] : it.val = Word(w)
         \/ /\ it.kind = "flag" /\ Written(it) = <<Option(it.name, Nothing)>>
            /\ Option(it.name, Nothing) \in Argument(c) /\ it.name \in lookup(c).flags
         \/ /\ it.kind = "value" /\ it.form = "joined"
            /\ Written(it) = <<Option(it.name, <<it.val>>)>>
            /\ Option(it.name, <<it.val>>) \in Argument(c) /\ it.name \in lookup(c).values
         \/ /\ it.kind = "value" /\ it.form = "apart"
            /\ Written(it) = <<Option(it.name, Nothing), it.val>>
            /\ Option(it.name, Nothing) \in Argument(c) /\ it.val \in Argument(c)
            /\ it.name \in lookup(c).values
         \/ /\ it.kind \in {"wrong", "help"} /\ Written(it) = <<Option(it.name, Nothing)>>
            /\ Option(it.name, Nothing) \in Argument(c)
            /\ it.name = IF it.kind = "wrong" THEN "-x" ELSE "-h"
<1>1. CASE it.kind = "operand"
  BY <1>1, ItemForms DEF Written, Argument
<1>2. CASE it.kind = "flag"
  BY <1>2, ItemForms DEF Written, Argument
<1>3. CASE it.kind = "value"
  <2>1. it.name \in lookup(c).values /\ it.val \in Values[c] /\ it.form \in {"joined", "apart"}
    BY <1>3, ItemForms
  <2>2. CASE it.form = "joined"
    <3>1. <<it.name, it.val>> \in lookup(c).values \X Values[c]
      BY <2>1
    <3>2. Option(it.name, <<it.val>>) \in {Option(x[1], <<x[2]>>) : x \in lookup(c).values \X Values[c]}
      BY <3>1
    <3> QED BY <1>3, <2>1, <2>2, <3>2 DEF Written, Argument
  <2>3. CASE it.form = "apart"
    BY <1>3, <2>1, <2>3 DEF Written, Argument
  <2> QED BY <2>1, <2>2, <2>3
<1>4. CASE it.kind \in {"wrong", "help"}
  BY <1>4, ItemForms DEF Written, Argument
<1> QED BY <1>1, <1>2, <1>3, <1>4, ItemForms

LEMMA ArgumentsAppend ==
  ASSUME NEW T, NEW its \in Seq(T), NEW it \in T
  PROVE  Arguments(Append(its, it)) = Arguments(its) \o Written(it)
<1> DEFINE F == [x \in T |-> Written(x)]
           parts == [i \in DOMAIN its |-> F[its[i]]]
           more == [i \in DOMAIN Append(its, it) |-> F[Append(its, it)[i]]]
           U == {F[x] : x \in T}
<1>1. \A x \in T : F[x] = Written(x)
  OBVIOUS
<1>2. DOMAIN its = 1..Len(its) /\ \A i \in 1..Len(its) : its[i] \in T
  OBVIOUS
<1>3. /\ DOMAIN Append(its, it) = 1..(Len(its) + 1) /\ Append(its, it) \in Seq(T)
      /\ \A i \in 1..(Len(its) + 1) : Append(its, it)[i] \in T
  BY AppendProperties
<1> HIDE DEF F
<1>4. more = Append(parts, F[it])
  BY MapAppend
<1>5. parts \in Seq(U) /\ F[it] \in U
  BY <1>2
<1> HIDE DEF parts, more, U
<1>6. Flat(more) = Flat(parts) \o F[it]
  BY <1>4, <1>5, FlatAppend
<1>7. Arguments(its) = Flat(parts)
  <2>1. parts = [i \in DOMAIN its |-> Written(its[i])]
    BY <1>1, <1>2 DEF parts
  <2> QED BY <2>1 DEF Arguments
<1>8. Arguments(Append(its, it)) = Flat(more)
  <2>1. more = [i \in DOMAIN Append(its, it) |-> Written(Append(its, it)[i])]
    BY <1>1, <1>3 DEF more
  <2> QED BY <2>1 DEF Arguments
<1> QED BY <1>1, <1>6, <1>7, <1>8

LEMMA MeantAppend ==
  ASSUME NEW T, NEW its \in Seq(T), NEW it \in T
  PROVE  Meant(Append(its, it)) =
           Meant(its) \o IF it.kind = "operand" THEN <<it.val>> ELSE <<>>
<1> DEFINE part(x) == IF x.kind = "operand" THEN <<x.val>> ELSE <<>>
           F == [x \in T |-> part(x)]
           parts == [i \in DOMAIN its |-> F[its[i]]]
           more == [i \in DOMAIN Append(its, it) |-> F[Append(its, it)[i]]]
           U == {F[x] : x \in T}
<1>1. \A x \in T : F[x] = part(x)
  OBVIOUS
<1>2. DOMAIN its = 1..Len(its) /\ \A i \in 1..Len(its) : its[i] \in T
  OBVIOUS
<1>3. /\ DOMAIN Append(its, it) = 1..(Len(its) + 1) /\ Append(its, it) \in Seq(T)
      /\ \A i \in 1..(Len(its) + 1) : Append(its, it)[i] \in T
  BY AppendProperties
<1> HIDE DEF F
<1>4. more = Append(parts, F[it])
  BY MapAppend
<1>5. parts \in Seq(U) /\ F[it] \in U
  BY <1>2
<1> HIDE DEF parts, more, U
<1>6. Flat(more) = Flat(parts) \o F[it]
  BY <1>4, <1>5, FlatAppend
<1>7. Meant(its) = Flat(parts)
  <2>1. parts = [i \in DOMAIN its |-> part(its[i])]
    BY <1>1, <1>2 DEF parts
  <2> QED BY <2>1 DEF Meant
<1>8. Meant(Append(its, it)) = Flat(more)
  <2>1. more = [i \in DOMAIN Append(its, it) |-> part(Append(its, it)[i])]
    BY <1>1, <1>3 DEF more
  <2> QED BY <2>1 DEF Meant
<1> QED BY <1>1, <1>6, <1>7, <1>8

-----------------------------------------------------------------------------
(* What each argument does to the options read so far: N are the names a      *)
(* command has for options, A what it may be given.                          *)

Settings(N, A) == UNION {[D -> A] : D \in SUBSET N}
Reading(N, A) ==
  [order : Seq(N), vals : Settings(N, A), operands : Seq(A),
   pending : N \cup {""}, ended : BOOLEAN, err : BOOLEAN]

\* Between two items, and after "--".
Ready(o) == ~o.err /\ ~o.ended /\ o.pending = ""
Ended(o) == ~o.err /\ o.ended /\ o.pending = ""

LEMMA NothingRead == \A N, A : NoOptions \in Reading(N, A) /\ Ready(NoOptions)
<1> SUFFICES ASSUME NEW N, NEW A PROVE NoOptions \in Reading(N, A) /\ Ready(NoOptions)
  OBVIOUS
<1>1. <<>> \in Seq(N) /\ <<>> \in Seq(A)
  OBVIOUS
<1>2. <<>> \in Settings(N, A)
  <2>1. {} \in SUBSET N /\ <<>> \in [{} -> A]
    OBVIOUS
  <2> QED BY <2>1 DEF Settings
<1>3. NoOptions \in Reading(N, A)
  BY <1>1, <1>2 DEF NoOptions, Reading
<1> QED BY <1>3 DEF NoOptions, Ready

LEMMA FailedStays ==
  ASSUME NEW o, o.err, NEW spec, NEW a
  PROVE  Take(spec, o, a) = o
BY DEF Take

LEMMA OperandRead ==
  ASSUME NEW N, NEW A, NEW o \in Reading(N, A), NEW a \in A
  PROVE  /\ Operand(o, a) \in Reading(N, A)
         /\ Operand(o, a).operands = Append(o.operands, a)
         /\ Operand(o, a).order = o.order /\ Operand(o, a).vals = o.vals
         /\ (Ready(o) => Ready(Operand(o, a))) /\ (Ended(o) => Ended(Operand(o, a)))
<1> DEFINE x == Append(o.operands, a)
<1>1. x \in Seq(A)
  BY AppendProperties DEF Reading
<1>2. Operand(o, a) = [o EXCEPT !.operands = x]
  BY DEF Operand
<1> HIDE DEF x
<1>3. [o EXCEPT !.operands = x] \in Reading(N, A)
  BY <1>1 DEF Reading
<1>4. Ready(o) => Ready([o EXCEPT !.operands = x])
  BY <1>1 DEF Reading, Ready
<1>5. Ended(o) => Ended([o EXCEPT !.operands = x])
  BY <1>1 DEF Reading, Ended
<1>6. /\ Operand(o, a).operands = x /\ Operand(o, a).order = o.order
      /\ Operand(o, a).vals = o.vals
  BY <1>1, <1>2 DEF Reading
<1> QED BY <1>2, <1>3, <1>4, <1>5, <1>6 DEF x

Marked(o, n) == IF n \in Range(o.order) THEN o.order ELSE Append(o.order, n)
GivenTo(o, n, v) == [x \in DOMAIN o.vals \cup {n} |-> IF x = n THEN v ELSE o.vals[x]]

LEMMA MarkRead ==
  ASSUME NEW N, NEW A, NEW o \in Reading(N, A), NEW n \in N
  PROVE  /\ mark(o, n) \in Reading(N, A)
         /\ mark(o, n).order = Marked(o, n) /\ mark(o, n).vals = o.vals
         /\ mark(o, n).operands = o.operands
         /\ Ready(o) => Ready(mark(o, n))
<1>1. Marked(o, n) \in Seq(N)
  BY AppendProperties DEF Reading, Marked
<1>2. mark(o, n) = [o EXCEPT !.order = Marked(o, n)]
  BY DEF mark, Marked
<1>3. [o EXCEPT !.order = Marked(o, n)] \in Reading(N, A)
  BY <1>1 DEF Reading
<1>4. Ready(o) => Ready(mark(o, n))
  BY <1>1, <1>2 DEF Reading, Ready
<1>5. /\ mark(o, n).order = Marked(o, n) /\ mark(o, n).vals = o.vals
      /\ mark(o, n).operands = o.operands
  BY <1>1, <1>2 DEF Reading
<1> QED BY <1>2, <1>3, <1>4, <1>5

LEMMA GiveRead ==
  ASSUME NEW N, NEW A, NEW o \in Reading(N, A), ~o.err, ~o.ended, NEW n \in N, NEW v \in A
  PROVE  /\ Give(o, n, v) \in Reading(N, A) /\ Ready(Give(o, n, v))
         /\ Give(o, n, v).order = Marked(o, n) /\ Give(o, n, v).vals = GivenTo(o, n, v)
         /\ Give(o, n, v).operands = o.operands
<1>1. Marked(o, n) \in Seq(N)
  BY AppendProperties DEF Reading, Marked
<1>2. GivenTo(o, n, v) \in Settings(N, A)
  <2>1. o.vals \in Settings(N, A)
    BY DEF Reading
  <2>2. PICK D \in SUBSET N : o.vals \in [D -> A]
    BY <2>1 DEF Settings
  <2>3. D \cup {n} \in SUBSET N /\ GivenTo(o, n, v) \in [D \cup {n} -> A]
    BY <2>2 DEF GivenTo
  <2> QED BY <2>3 DEF Settings
<1> DEFINE q == [o EXCEPT !.order = Marked(o, n)]
           r == [q EXCEPT !.vals = GivenTo(o, n, v), !.pending = ""]
<1>3. Give(o, n, v) = r
  BY DEF Give, GivenTo, mark, Marked
<1>4. q \in Reading(N, A) /\ ~q.err /\ ~q.ended /\ q.order = Marked(o, n) /\ q.operands = o.operands
  BY <1>1 DEF Reading
<1> HIDE DEF q
<1>5. r \in Reading(N, A) /\ Ready(r)
  BY <1>2, <1>4 DEF Reading, Ready
<1>6. r.order = q.order /\ r.vals = GivenTo(o, n, v) /\ r.operands = q.operands
  BY <1>2, <1>4 DEF Reading
<1> HIDE DEF r
<1> QED BY <1>3, <1>4, <1>5, <1>6

LEMMA TakeWord ==
  ASSUME NEW N, NEW A, NEW o \in Reading(N, A), Ready(o), NEW spec, NEW a \in A, a.shape = "word"
  PROVE  LET p == Take(spec, o, a) IN
         /\ p \in Reading(N, A) /\ Ready(p)
         /\ p.order = o.order /\ p.vals = o.vals /\ p.operands = Append(o.operands, a)
<1>1. Take(spec, o, a) = Operand(o, a)
  BY DEF Take, Ready
<1> QED BY <1>1, OperandRead

LEMMA TakeFlag ==
  ASSUME NEW N, NEW A, NEW o \in Reading(N, A), Ready(o), NEW spec, NEW n \in N, n \in spec.flags
  PROVE  LET p == Take(spec, o, Option(n, Nothing)) IN
         /\ p \in Reading(N, A) /\ Ready(p)
         /\ p.order = Marked(o, n) /\ p.vals = o.vals /\ p.operands = o.operands
<1> DEFINE a == Option(n, Nothing)
<1>1. a.shape \in {"short", "long"} /\ a.name = n /\ a.val = Nothing
  BY OptionForm
<1> HIDE DEF a
<1>2. Take(spec, o, a) = mark(o, n)
  BY <1>1 DEF Take, TakeOption, Ready
<1>3. Take(spec, o, Option(n, Nothing)) = mark(o, n)
  BY <1>2 DEF a
<1> QED BY <1>3, MarkRead

LEMMA TakeWrong ==
  ASSUME NEW N, NEW A, NEW o \in Reading(N, A), Ready(o), NEW spec,
         NEW n, n \notin spec.flags \cup spec.values
  PROVE  LET p == Take(spec, o, Option(n, Nothing)) IN p \in Reading(N, A) /\ p.err
<1> DEFINE a == Option(n, Nothing)
<1>1. a.shape \in {"short", "long"} /\ a.name = n /\ a.val = Nothing
  BY OptionForm
<1> HIDE DEF a
<1>2. Take(spec, o, a) = Wrong(o)
  BY <1>1 DEF Take, TakeOption, Ready
<1>3. Take(spec, o, Option(n, Nothing)) = Wrong(o)
  BY <1>2 DEF a
<1>4. Wrong(o) \in Reading(N, A) /\ Wrong(o).err
  BY DEF Wrong, Reading
<1> QED BY <1>3, <1>4

LEMMA TakeJoined ==
  ASSUME NEW N, NEW A, NEW o \in Reading(N, A), Ready(o), NEW spec,
         NEW n \in N, n \in spec.values, n \notin spec.flags, NEW v \in A
  PROVE  LET p == Take(spec, o, Option(n, <<v>>)) IN
         /\ p \in Reading(N, A) /\ Ready(p)
         /\ p.order = Marked(o, n) /\ p.vals = GivenTo(o, n, v) /\ p.operands = o.operands
<1> DEFINE a == Option(n, <<v>>)
<1>1. a.shape \in {"short", "long"} /\ a.name = n /\ a.val = <<v>>
  BY OptionForm
<1>2. <<v>> # Nothing /\ <<v>>[1] = v
  BY DEF Nothing
<1> HIDE DEF a
<1>3. Take(spec, o, a) = Give(o, n, v)
  BY <1>1, <1>2 DEF Take, TakeOption, Ready
<1>4. Take(spec, o, Option(n, <<v>>)) = Give(o, n, v)
  BY <1>3 DEF a
<1>5. ~o.err /\ ~o.ended
  BY DEF Ready
<1> QED BY <1>4, <1>5, GiveRead

LEMMA TakeApart ==
  ASSUME NEW N, NEW A, NEW o \in Reading(N, A), Ready(o), NEW spec,
         NEW n \in N, n \in spec.values, n \notin spec.flags, n \notin NoOption, NEW v \in A
  PROVE  LET p == Take(spec, Take(spec, o, Option(n, Nothing)), v) IN
         /\ p \in Reading(N, A) /\ Ready(p)
         /\ p.order = Marked(o, n) /\ p.vals = GivenTo(o, n, v) /\ p.operands = o.operands
<1> DEFINE a == Option(n, Nothing)
           q == [o EXCEPT !.pending = n]
<1>1. a.shape \in {"short", "long"} /\ a.name = n /\ a.val = Nothing
  BY OptionForm
<1> HIDE DEF a
<1>2. Take(spec, o, a) = q
  BY <1>1 DEF Take, TakeOption, Ready
<1>3. /\ q \in Reading(N, A) /\ q.pending = n /\ q.order = o.order /\ q.vals = o.vals
      /\ q.operands = o.operands
  BY DEF Reading
<1>8. ~q.err /\ ~q.ended
  BY DEF Reading, Ready
<1> HIDE DEF q
<1>4. Take(spec, q, v) = Give(q, n, v)
  <2>1. q.pending # ""
    BY <1>3 DEF NoOption
  <2> QED BY <1>8, <1>3, <2>1 DEF Take
<1>5. Marked(q, n) = Marked(o, n) /\ GivenTo(q, n, v) = GivenTo(o, n, v)
  BY <1>3 DEF Marked, GivenTo
<1>6. /\ Give(q, n, v) \in Reading(N, A) /\ Ready(Give(q, n, v))
      /\ Give(q, n, v).order = Marked(q, n) /\ Give(q, n, v).vals = GivenTo(q, n, v)
      /\ Give(q, n, v).operands = q.operands
  BY <1>3, <1>8, GiveRead
<1>7. Take(spec, Take(spec, o, Option(n, Nothing)), v) = Give(q, n, v)
  BY <1>2, <1>4 DEF a
<1> QED BY <1>3, <1>5, <1>6, <1>7

LEMMA TakeEnd ==
  ASSUME NEW N, NEW A, NEW o \in Reading(N, A), Ready(o), NEW spec
  PROVE  LET p == Take(spec, o, DoubleDash) IN
         /\ p \in Reading(N, A) /\ Ended(p)
         /\ p.order = o.order /\ p.vals = o.vals /\ p.operands = o.operands
<1> DEFINE q == [o EXCEPT !.ended = TRUE]
<1>1. Take(spec, o, DoubleDash) = q
  BY DEF Take, DoubleDash, Ready
<1>2. q \in Reading(N, A) /\ q.order = o.order /\ q.vals = o.vals /\ q.operands = o.operands
  BY DEF Reading
<1>3. Ended(q)
  BY DEF Reading, Ready, Ended
<1> QED BY <1>1, <1>2, <1>3

LEMMA TakeAfterEnd ==
  ASSUME NEW N, NEW A, NEW o \in Reading(N, A), Ended(o), NEW spec, NEW a \in A
  PROVE  LET p == Take(spec, o, a) IN
         /\ p \in Reading(N, A) /\ Ended(p)
         /\ p.order = o.order /\ p.vals = o.vals /\ p.operands = Append(o.operands, a)
<1>1. Take(spec, o, a) = Operand(o, a)
  BY DEF Take, Ended
<1> QED BY <1>1, OperandRead

-----------------------------------------------------------------------------
(* What a line's items make of the options read so far *)

OptionNames(c) == lookup(c).flags \cup lookup(c).values
ReadBy(c) == Reading(OptionNames(c), Argument(c))

TakeItem(c, args, it) == TakeAll(lookup(c), args \o Written(it))

\* The options, read on over an item.
LEMMA ItemTaken ==
  ASSUME NEW c \in CommandName, NEW it \in Items(c), NEW args \in Seq(Argument(c)),
         TakeAll(lookup(c), args) \in ReadBy(c)
  PROVE  LET o == TakeAll(lookup(c), args)
             p == TakeItem(c, args, it)
         IN  /\ args \o Written(it) \in Seq(Argument(c))
             /\ Range(args \o Written(it)) = Range(args) \cup Range(Written(it))
             /\ o.err => p = o
             /\ Ready(o) =>
                  /\ p \in ReadBy(c)
                  /\ IF it.kind \in {"wrong", "help"} THEN p.err ELSE Ready(p)
                  /\ it.kind = "operand" =>
                       p.order = o.order /\ p.vals = o.vals /\ p.operands = Append(o.operands, it.val)
                  /\ it.kind = "flag" =>
                       p.order = Marked(o, it.name) /\ p.vals = o.vals /\ p.operands = o.operands
                  /\ it.kind = "value" =>
                       /\ p.order = Marked(o, it.name) /\ p.vals = GivenTo(o, it.name, it.val)
                       /\ p.operands = o.operands
<1> DEFINE spec == lookup(c)
           A == Argument(c)
           N == OptionNames(c)
           o == TakeAll(spec, args)
           p == TakeItem(c, args, it)
<1>1. Sound(spec)
  BY LookedUp
<1>2. o \in Reading(N, A)
  BY DEF ReadBy
\* One argument, or two.
<1>3. ASSUME NEW a \in A, Written(it) = <<a>>
      PROVE  /\ p = Take(spec, o, a)
             /\ args \o Written(it) \in Seq(A)
             /\ Range(args \o Written(it)) = Range(args) \cup Range(Written(it))
  <2>1. args \o Written(it) = Append(args, a)
    BY <1>3, AppendIsConcat
  <2>2. Range(Written(it)) = {a}
    BY <1>3 DEF Range
  <2>3. Append(args, a) \in Seq(A) /\ Range(Append(args, a)) = Range(args) \cup {a}
    BY AppendRange
  <2>4. TakeAll(spec, Append(args, a)) = Take(spec, o, a)
    BY TakeAllAppend
  <2> QED BY <2>1, <2>2, <2>3, <2>4 DEF TakeItem
<1>4. ASSUME NEW a \in A, NEW b \in A, Written(it) = <<a, b>>
      PROVE  /\ p = Take(spec, Take(spec, o, a), b)
             /\ args \o Written(it) \in Seq(A)
             /\ Range(args \o Written(it)) = Range(args) \cup Range(Written(it))
  <2> DEFINE x == Append(args, a)
  <2>1. args \o Written(it) = Append(x, b)
    BY <1>4, JoinTwo
  <2>2. Range(Written(it)) = {a, b}
    BY <1>4 DEF Range
  <2>3. x \in Seq(A) /\ Range(x) = Range(args) \cup {a}
    BY AppendRange
  <2>4. TakeAll(spec, x) = Take(spec, o, a)
    BY TakeAllAppend
  <2> HIDE DEF x
  <2>5. Append(x, b) \in Seq(A) /\ Range(Append(x, b)) = Range(x) \cup {b}
    BY <2>3, AppendRange
  <2>6. TakeAll(spec, Append(x, b)) = Take(spec, TakeAll(spec, x), b)
    BY <2>3, TakeAllAppend
  <2> QED BY <2>1, <2>2, <2>3, <2>4, <2>5, <2>6 DEF TakeItem
<1>5. CASE it.kind = "operand"
  <2>1. Written(it) = <<it.val>> /\ it.val \in A /\ it.val.shape = "word"
    <3>1. PICK w \in Operands[c] : it.val = Word(w)
      BY <1>5, ItemForms
    <3>2. it.val \in A
      BY <3>1 DEF Argument
    <3> QED BY <1>5, <3>1, <3>2 DEF Word, Written
  <2>2. p = Take(spec, o, it.val)
    BY <1>3, <2>1
  <2>3. o.err => p = o
    BY <2>2, FailedStays
  <2>4. Ready(o) => /\ p \in Reading(N, A) /\ Ready(p)
                    /\ p.order = o.order /\ p.vals = o.vals /\ p.operands = Append(o.operands, it.val)
    BY <1>2, <2>1, <2>2, TakeWord
  <2> HIDE DEF p, o
  <2> QED BY <1>3, <1>5, <2>1, <2>3, <2>4 DEF ReadBy, p, o
<1>6. CASE it.kind = "flag"
  <2> DEFINE a == Option(it.name, Nothing)
  <2>1. Written(it) = <<a>> /\ a \in A /\ it.name \in spec.flags /\ it.name \in N
    BY <1>6, WrittenForms DEF OptionNames
  <2>2. p = Take(spec, o, a)
    BY <1>3, <2>1
  <2>3. o.err => p = o
    BY <2>2, FailedStays
  <2>4. Ready(o) => /\ p \in Reading(N, A) /\ Ready(p)
                    /\ p.order = Marked(o, it.name) /\ p.vals = o.vals /\ p.operands = o.operands
    BY <1>2, <2>1, <2>2, TakeFlag
  <2> HIDE DEF p, o, a
  <2> QED BY <1>3, <1>6, <2>1, <2>3, <2>4 DEF ReadBy, p, o
<1>7. CASE it.kind \in {"wrong", "help"}
  <2> DEFINE a == Option(it.name, Nothing)
  <2>1. Written(it) = <<a>> /\ a \in A /\ it.name \in {"-x", "-h"}
    BY <1>7, WrittenForms
  <2>2. it.name \notin spec.flags \cup spec.values
    BY <1>1, <2>1 DEF Sound, NoOption
  <2>3. p = Take(spec, o, a)
    BY <1>3, <2>1
  <2>4. o.err => p = o
    BY <2>3, FailedStays
  <2>5. Ready(o) => p \in Reading(N, A) /\ p.err
    BY <1>2, <2>2, <2>3, TakeWrong
  <2> HIDE DEF p, o, a
  <2> QED BY <1>3, <1>7, <2>1, <2>4, <2>5 DEF ReadBy, p, o
<1>8. CASE it.kind = "value"
  <2>1. it.val \in Values[c] /\ it.form \in {"joined", "apart"}
    BY <1>8, ItemForms
  <2>2. /\ it.name \in spec.values /\ it.name \in N /\ it.name \notin spec.flags /\ it.name \notin NoOption
        /\ it.val \in A
    <3>1. it.name \in spec.values /\ it.val \in A
      BY <1>8, <2>1, ItemForms DEF Argument
    <3> QED BY <1>1, <3>1 DEF OptionNames, Sound
  <2>3. CASE it.form = "joined"
    <3> DEFINE a == Option(it.name, <<it.val>>)
    <3>1. Written(it) = <<a>> /\ a \in A
      BY <1>8, <2>3, WrittenForms
    <3>2. p = Take(spec, o, a)
      BY <1>3, <3>1
    <3>3. o.err => p = o
      BY <3>2, FailedStays
    <3>4. Ready(o) => /\ p \in Reading(N, A) /\ Ready(p)
                      /\ p.order = Marked(o, it.name) /\ p.vals = GivenTo(o, it.name, it.val)
                      /\ p.operands = o.operands
      <4> DEFINE n == it.name
                 v == it.val
      <4>1. o \in Reading(N, A) /\ n \in N /\ n \in spec.values /\ n \notin spec.flags /\ v \in A
        BY <1>2, <2>2
      <4>2. p = Take(spec, o, Option(n, <<v>>))
        BY <3>2
      <4> HIDE DEF n, v, o, N, A, spec, p
      <4>3. Ready(o) => /\ p \in Reading(N, A) /\ Ready(p)
                        /\ p.order = Marked(o, n) /\ p.vals = GivenTo(o, n, v)
                        /\ p.operands = o.operands
        BY <4>1, <4>2, TakeJoined
      <4> QED BY <4>3 DEF n, v
    <3> HIDE DEF p, o, a
    <3> QED BY <1>3, <1>8, <3>1, <3>3, <3>4 DEF ReadBy, p, o
  <2>4. CASE it.form = "apart"
    <3> DEFINE a == Option(it.name, Nothing)
    <3>1. Written(it) = <<a, it.val>> /\ a \in A
      BY <1>8, <2>4, WrittenForms
    <3>2. p = Take(spec, Take(spec, o, a), it.val)
      BY <1>4, <2>2, <3>1
    <3>3. o.err => p = o
      <4>1. o.err => Take(spec, o, a) = o
        BY FailedStays
      <4>2. o.err => Take(spec, o, it.val) = o
        BY FailedStays
      <4> QED BY <3>2, <4>1, <4>2
    <3>4. Ready(o) => /\ p \in Reading(N, A) /\ Ready(p)
                      /\ p.order = Marked(o, it.name) /\ p.vals = GivenTo(o, it.name, it.val)
                      /\ p.operands = o.operands
      <4> DEFINE n == it.name
                 v == it.val
      <4>1. o \in Reading(N, A) /\ n \in N /\ n \in spec.values /\ n \notin spec.flags /\ n \notin NoOption /\ v \in A
        BY <1>2, <2>2
      <4>2. p = Take(spec, Take(spec, o, Option(n, Nothing)), v)
        BY <3>2
      <4> HIDE DEF n, v, o, N, A, spec, p
      <4>3. Ready(o) => /\ p \in Reading(N, A) /\ Ready(p)
                        /\ p.order = Marked(o, n) /\ p.vals = GivenTo(o, n, v)
                        /\ p.operands = o.operands
        BY <4>1, <4>2, TakeApart
      <4> QED BY <4>3 DEF n, v
    <3> HIDE DEF p, o, a
    <3> QED BY <1>4, <1>8, <2>2, <3>1, <3>3, <3>4 DEF ReadBy, p, o
  <2> QED BY <2>1, <2>3, <2>4
<1>9. it.kind \in {"operand", "flag", "value"} \/ it.kind \in {"wrong", "help"}
  BY ItemForms
<1> QED BY <1>5, <1>6, <1>7, <1>8, <1>9

-----------------------------------------------------------------------------
(* What mmctl has understood of a line is what its items mean *)

Faulty(its) == \E it \in Range(its) : it.kind \in {"wrong", "help"}
AsksHelp(it) ==
  \/ it.kind = "help"
  \/ it.kind = "value" /\ it.form = "apart" /\ it.val \in HelpOption
Chosen(its) == {it.name : it \in {x \in Range(its) : x.kind \in {"flag", "value"}}}
Valued(its) == {it.name : it \in {x \in Range(its) : x.kind = "value"}}

ReadOf(c, its) == TakeAll(lookup(c), Arguments(its))

\* An item that gives an option; options in the order of their first items.
Gives(it, n) == it.kind \in {"flag", "value"} /\ it.name = n
InTurn(order, its) ==
  \A i, j \in DOMAIN order : i < j =>
    \E a \in DOMAIN its : Gives(its[a], order[i]) /\ \A b \in 1..a : ~Gives(its[b], order[j])

\* The options read agree with the items.
Agrees(o, its) ==
  /\ o.operands = Meant(its)
  /\ Range(o.order) = Chosen(its)
  /\ InTurn(o.order, its)
  /\ DOMAIN o.vals = Valued(its)
  /\ \A i \in DOMAIN its : Settles(its, i) => o.vals[its[i].name] = its[i].val

Understood(c, its) ==
  /\ Arguments(its) \in Seq(Argument(c))
  /\ ReadOf(c, its) \in ReadBy(c)
  /\ Range(Arguments(its)) \cap HelpOption # {} <=> \E it \in Range(its) : AsksHelp(it)
  /\ Faulty(its) => ReadOf(c, its).err
  /\ ~Faulty(its) => Ready(ReadOf(c, its)) /\ Agrees(ReadOf(c, its), its)

LEMMA NothingUnderstood ==
  ASSUME NEW c PROVE Understood(c, <<>>)
<1>1. Arguments(<<>>) = <<>>
  <2>1. [i \in DOMAIN <<>> |-> Written(<<>>[i])] = <<>>
    OBVIOUS
  <2> QED BY <2>1, FlatNothing DEF Arguments
<1>2. Meant(<<>>) = <<>>
  <2>1. [i \in DOMAIN <<>> |-> IF <<>>[i].kind = "operand" THEN <<<<>>[i].val>> ELSE <<>>] = <<>>
    OBVIOUS
  <2> QED BY <2>1, FlatNothing DEF Meant
<1>3. ReadOf(c, <<>>) = NoOptions
  BY <1>1, TakeAllNothing DEF ReadOf
<1>4. Range(<<>>) = {} /\ DOMAIN <<>> = {} /\ <<>> \in Seq(Argument(c))
  BY DEF Range
<1>5. NoOptions \in ReadBy(c) /\ Ready(NoOptions)
  BY NothingRead DEF ReadBy
<1>6. NoOptions.operands = <<>> /\ NoOptions.order = <<>> /\ NoOptions.vals = <<>>
  BY DEF NoOptions
<1>7. Agrees(NoOptions, <<>>)
  BY <1>2, <1>4, <1>6 DEF Agrees, Chosen, Valued, InTurn
<1>8. ~Faulty(<<>>) /\ ~(\E it \in Range(<<>>) : AsksHelp(it))
  BY <1>4 DEF Faulty
<1> QED BY <1>1, <1>3, <1>4, <1>5, <1>7, <1>8 DEF Understood

\* Help is asked for by an option or a value that stands alone.
LEMMA HelpWritten ==
  ASSUME NEW c \in CommandName, NEW it \in Items(c)
  PROVE  Range(Written(it)) \cap HelpOption # {} <=> AsksHelp(it)
<1>1. Sound(lookup(c))
  BY LookedUp
<1>2. ASSUME NEW n, n \notin {"-h", "--help"} PROVE Option(n, Nothing) \notin HelpOption
  <2>1. Option(n, Nothing).name = n
    BY OptionForm
  <2>2. \A a \in HelpOption : a.name \in {"-h", "--help"}
    BY DEF HelpOption, Short, Long
  <2> QED BY <1>2, <2>1, <2>2
<1>3. CASE it.kind = "operand"
  <2>1. PICK w \in Operands[c] : it.val = Word(w)
    BY <1>3, ItemForms
  <2>2. Range(Written(it)) = {Word(w)}
    BY <1>3, <2>1 DEF Written, Range
  <2>3. Word(w) \notin HelpOption
    <3>1. Word(w).shape = "word"
      BY DEF Word
    <3>2. \A a \in HelpOption : a.shape # "word"
      BY DEF HelpOption, Short, Long
    <3> QED BY <3>1, <3>2
  <2> QED BY <1>3, <2>2, <2>3 DEF AsksHelp
<1>4. CASE it.kind = "flag"
  <2>1. Written(it) = <<Option(it.name, Nothing)>> /\ it.name \notin {"-h", "--help"}
    BY <1>1, <1>4, WrittenForms DEF Sound, NoOption
  <2>2. Range(Written(it)) = {Option(it.name, Nothing)}
    BY <2>1 DEF Range
  <2> QED BY <1>2, <1>4, <2>1, <2>2 DEF AsksHelp
<1>5. CASE it.kind = "wrong"
  <2>1. Written(it) = <<Option("-x", Nothing)>>
    BY <1>5, WrittenForms
  <2>2. Range(Written(it)) = {Option("-x", Nothing)}
    BY <2>1 DEF Range
  <2> QED BY <1>2, <1>5, <2>2 DEF AsksHelp
<1>6. CASE it.kind = "help"
  <2>1. Written(it) = <<Option("-h", Nothing)>>
    BY <1>6, WrittenForms
  <2>2. Range(Written(it)) = {Option("-h", Nothing)}
    BY <2>1 DEF Range
  <2>3. Option("-h", Nothing) \in HelpOption
    <3>1. "-h" \notin LongName
      BY DEF LongName
    <3>2. Option("-h", Nothing) = Short("-h", Nothing)
      BY <3>1, Zenon DEF Option
    <3> QED BY <3>2, Zenon DEF HelpOption
  <2>4. AsksHelp(it)
    BY <1>6, Zenon DEF AsksHelp
  <2> QED BY <2>2, <2>3, <2>4
<1>7. CASE it.kind = "value"
  <2>1. it.name \in lookup(c).values /\ it.form \in {"joined", "apart"}
    BY <1>7, ItemForms
  <2>2. it.name \notin {"-h", "--help"}
    BY <1>1, <2>1 DEF Sound, NoOption
  <2>3. CASE it.form = "joined"
    <3>1. Range(Written(it)) = {Option(it.name, <<it.val>>)}
      BY <1>7, <2>3 DEF Written, Range
    <3>2. Option(it.name, <<it.val>>).name = it.name
      BY OptionForm
    <3>3. \A a \in HelpOption : a.name \in {"-h", "--help"}
      BY DEF HelpOption, Short, Long
    <3>4. Option(it.name, <<it.val>>) \notin HelpOption
      BY <2>2, <3>2, <3>3
    <3> QED BY <1>7, <2>3, <3>1, <3>4 DEF AsksHelp
  <2>4. CASE it.form = "apart"
    <3>1. Range(Written(it)) = {Option(it.name, Nothing), it.val}
      BY <1>7, <2>4 DEF Written, Range
    <3> QED BY <1>2, <1>7, <2>2, <2>4, <3>1 DEF AsksHelp
  <2> QED BY <2>1, <2>3, <2>4
<1>8. it.kind \in {"operand", "flag", "value", "wrong", "help"}
  BY ItemForms
<1> QED BY <1>3, <1>4, <1>5, <1>6, <1>7, <1>8

LEMMA RangesAppend ==
  ASSUME NEW T, NEW its \in Seq(T), NEW it \in T
  PROVE  LET more == Append(its, it) IN
         /\ Faulty(more) <=> (Faulty(its) \/ it.kind \in {"wrong", "help"})
         /\ (\E x \in Range(more) : AsksHelp(x)) <=> ((\E x \in Range(its) : AsksHelp(x)) \/ AsksHelp(it))
         /\ Chosen(more) = Chosen(its) \cup IF it.kind \in {"flag", "value"} THEN {it.name} ELSE {}
         /\ Valued(more) = Valued(its) \cup IF it.kind = "value" THEN {it.name} ELSE {}
<1> DEFINE more == Append(its, it)
<1>1. Range(more) = Range(its) \cup {it}
  BY AppendRange
<1> HIDE DEF more
<1>2. Faulty(more) <=> (Faulty(its) \/ it.kind \in {"wrong", "help"})
  BY <1>1 DEF Faulty
<1>3. (\E x \in Range(more) : AsksHelp(x)) <=> ((\E x \in Range(its) : AsksHelp(x)) \/ AsksHelp(it))
  BY <1>1
<1>4. Chosen(more) = Chosen(its) \cup IF it.kind \in {"flag", "value"} THEN {it.name} ELSE {}
  BY <1>1 DEF Chosen
<1>5. Valued(more) = Valued(its) \cup IF it.kind = "value" THEN {it.name} ELSE {}
  BY <1>1 DEF Valued
<1> QED BY <1>2, <1>3, <1>4, <1>5 DEF more

\* An option is among those given once it is marked.
LEMMA MarkedRange ==
  ASSUME NEW N, NEW o, o.order \in Seq(N), NEW n \in N
  PROVE  Range(Marked(o, n)) = Range(o.order) \cup {n}
<1>1. CASE n \in Range(o.order)
  BY <1>1 DEF Marked
<1>2. CASE n \notin Range(o.order)
  BY <1>2, AppendRange DEF Marked
<1> QED BY <1>1, <1>2

\* The values that settle a longer line: the new item's own, and those of
\* earlier items it does not give a value again.
LEMMA SettlesAppend ==
  ASSUME NEW T, NEW its \in Seq(T), NEW it \in T, NEW i \in DOMAIN Append(its, it),
         Settles(Append(its, it), i)
  PROVE  \/ i = Len(its) + 1 /\ it.kind = "value" /\ Append(its, it)[i] = it
         \/ /\ i \in DOMAIN its /\ Settles(its, i) /\ Append(its, it)[i] = its[i]
            /\ ~(it.kind = "value" /\ it.name = its[i].name)
<1> DEFINE more == Append(its, it)
           m == Len(its)
<1>1. /\ m \in Nat /\ Len(more) = m + 1 /\ more[m + 1] = it
      /\ \A j \in 1..m : more[j] = its[j]
      /\ DOMAIN more = 1..(m + 1) /\ DOMAIN its = 1..m
  BY AppendProperties
<1>2. /\ more[i].kind = "value"
      /\ \A j \in (i + 1)..(m + 1) : ~(more[j].kind = "value" /\ more[j].name = more[i].name)
  BY <1>1 DEF Settles
<1>3. i \in 1..(m + 1)
  BY <1>1
<1> HIDE DEF more, m
<1>4. CASE i = m + 1
  BY <1>1, <1>2, <1>4 DEF more, m
<1>5. CASE i # m + 1
  <2>1. i \in 1..m /\ m + 1 \in (i + 1)..(m + 1)
    BY <1>1, <1>3, <1>5
  <2>2. more[i] = its[i]
    BY <1>1, <2>1
  <2>3. ~(it.kind = "value" /\ it.name = its[i].name)
    BY <1>1, <1>2, <2>1, <2>2
  <2>4. \A j \in (i + 1)..m : j \in (i + 1)..(m + 1) /\ j \in 1..m
    BY <1>1, <2>1
  <2>5. \A j \in (i + 1)..m : ~(its[j].kind = "value" /\ its[j].name = its[i].name)
    BY <1>1, <1>2, <2>2, <2>4
  <2>6. Settles(its, i)
    BY <1>2, <2>2, <2>5 DEF Settles, m
  <2> QED BY <1>1, <2>1, <2>2, <2>3, <2>6 DEF more
<1> QED BY <1>4, <1>5

\* Options stay in turn as a line goes on.
LEMMA TurnKept ==
  ASSUME NEW T, NEW its \in Seq(T), NEW it \in T, NEW order, InTurn(order, its)
  PROVE  InTurn(order, Append(its, it))
<1> DEFINE more == Append(its, it)
           m == Len(its)
<1>1. /\ m \in Nat /\ DOMAIN its = 1..m /\ DOMAIN more = 1..(m + 1)
      /\ \A a \in 1..m : more[a] = its[a]
  BY AppendProperties
<1> HIDE DEF more, m
<1> SUFFICES ASSUME NEW i \in DOMAIN order, NEW j \in DOMAIN order, i < j
             PROVE  \E a \in DOMAIN more :
                      Gives(more[a], order[i]) /\ \A b \in 1..a : ~Gives(more[b], order[j])
  BY DEF InTurn, more
<1>2. PICK a \in DOMAIN its : Gives(its[a], order[i]) /\ \A b \in 1..a : ~Gives(its[b], order[j])
  BY DEF InTurn
<1>3. a \in DOMAIN more /\ more[a] = its[a] /\ \A b \in 1..a : more[b] = its[b]
  BY <1>1, <1>2
<1> QED BY <1>2, <1>3

LEMMA TurnMarked ==
  ASSUME NEW T, NEW its \in Seq(T), NEW it \in T, NEW N, NEW o, o.order \in Seq(N), it.name \in N,
         InTurn(o.order, its), Range(o.order) = Chosen(its), it.kind \in {"flag", "value"}
  PROVE  InTurn(Marked(o, it.name), Append(its, it))
<1> DEFINE n == it.name
           more == Append(its, it)
           order == Append(o.order, n)
           m == Len(its)
           k == Len(o.order)
<1>1. InTurn(o.order, more)
  BY TurnKept
<1>2. CASE n \in Range(o.order)
  BY <1>1, <1>2 DEF Marked
<1>3. CASE n \notin Range(o.order)
  <2>1. /\ m \in Nat /\ DOMAIN its = 1..m /\ DOMAIN more = 1..(m + 1)
        /\ \A a \in 1..m : more[a] = its[a]
    BY AppendProperties
  <2>2. /\ k \in Nat /\ DOMAIN o.order = 1..k /\ DOMAIN order = 1..(k + 1)
        /\ \A i \in 1..k : order[i] = o.order[i]
        /\ order[k + 1] = n
    BY AppendProperties
  <2> HIDE DEF m, k, more, order, n
  <2>3. ASSUME NEW i \in 1..(k + 1), NEW j \in 1..(k + 1), i < j
        PROVE  \E a \in DOMAIN more :
                 Gives(more[a], order[i]) /\ \A b \in 1..a : ~Gives(more[b], order[j])
    <3>1. i \in 1..k /\ order[i] = o.order[i]
      BY <2>2, <2>3
    <3>2. CASE j = k + 1
      <4>1. order[i] \in Chosen(its)
        BY <2>2, <3>1 DEF Range
      <4>2. PICK x \in Range(its) : Gives(x, order[i])
        BY <4>1 DEF Chosen, Gives
      <4>3. PICK a \in 1..m : its[a] = x
        BY <2>1 DEF Range
      <4>4. ASSUME NEW b \in 1..a PROVE ~Gives(more[b], n)
        <5>1. b \in 1..m /\ more[b] = its[b] /\ its[b] \in Range(its)
          BY <2>1, <4>3 DEF Range
        <5>2. n \notin Chosen(its)
          BY <1>3
        <5> QED BY <5>1, <5>2 DEF Chosen, Gives
      <4>5. a \in DOMAIN more /\ more[a] = x
        BY <2>1, <4>3
      <4> QED BY <2>2, <3>2, <4>2, <4>4, <4>5
    <3>3. CASE j # k + 1
      <4>1. j \in 1..k /\ order[j] = o.order[j]
        BY <2>2, <3>3
      <4>2. \E a \in DOMAIN more :
              Gives(more[a], o.order[i]) /\ \A b \in 1..a : ~Gives(more[b], o.order[j])
        BY <1>1, <2>2, <2>3, <3>1, <4>1 DEF InTurn
      <4> QED BY <3>1, <4>1, <4>2
    <3> QED BY <3>2, <3>3
  <2>4. InTurn(order, more)
    BY <2>2, <2>3 DEF InTurn
  <2> QED BY <1>3, <2>4 DEF Marked, n, order, more
<1> QED BY <1>2, <1>3

LEMMA ItemUnderstood ==
  ASSUME NEW c \in CommandName, NEW its \in Seq(Items(c)), NEW it \in Items(c), Understood(c, its)
  PROVE  Understood(c, Append(its, it))
<1> DEFINE args == Arguments(its)
           more == Append(its, it)
           o == ReadOf(c, its)
           p == ReadOf(c, more)
<1>1. /\ args \in Seq(Argument(c)) /\ o \in ReadBy(c)
      /\ Range(args) \cap HelpOption # {} <=> \E x \in Range(its) : AsksHelp(x)
      /\ Faulty(its) => o.err
      /\ ~Faulty(its) => Ready(o) /\ Agrees(o, its)
  BY DEF Understood
<1>2. Arguments(more) = args \o Written(it)
  BY ArgumentsAppend
<1>3. p = TakeItem(c, args, it) /\ o = TakeAll(lookup(c), args)
  BY <1>2 DEF ReadOf, TakeItem
<1>4. /\ Arguments(more) \in Seq(Argument(c))
      /\ Range(Arguments(more)) = Range(args) \cup Range(Written(it))
      /\ o.err => p = o
      /\ Ready(o) =>
           /\ p \in ReadBy(c)
           /\ IF it.kind \in {"wrong", "help"} THEN p.err ELSE Ready(p)
           /\ it.kind = "operand" =>
                p.order = o.order /\ p.vals = o.vals /\ p.operands = Append(o.operands, it.val)
           /\ it.kind = "flag" =>
                p.order = Marked(o, it.name) /\ p.vals = o.vals /\ p.operands = o.operands
           /\ it.kind = "value" =>
                /\ p.order = Marked(o, it.name) /\ p.vals = GivenTo(o, it.name, it.val)
                /\ p.operands = o.operands
  <2>1. TakeAll(lookup(c), args) \in ReadBy(c)
    BY <1>1, <1>3
  <2> HIDE DEF args
  <2> QED BY <1>1, <1>2, <1>3, <2>1, ItemTaken
<1> HIDE DEF args, o, p
<1>5. Range(Arguments(more)) \cap HelpOption # {} <=> \E x \in Range(more) : AsksHelp(x)
  <2>1. (\E x \in Range(more) : AsksHelp(x)) <=> ((\E x \in Range(its) : AsksHelp(x)) \/ AsksHelp(it))
    BY RangesAppend
  <2>2. Range(Written(it)) \cap HelpOption # {} <=> AsksHelp(it)
    BY HelpWritten
  <2>3. Range(Arguments(more)) \cap HelpOption
          = (Range(args) \cap HelpOption) \cup (Range(Written(it)) \cap HelpOption)
    BY <1>4
  <2> QED BY <1>1, <2>1, <2>2, <2>3
<1>6. Faulty(more) <=> (Faulty(its) \/ it.kind \in {"wrong", "help"})
  BY RangesAppend
<1>7. p \in ReadBy(c) /\ (Faulty(more) => p.err) /\ (~Faulty(more) => Ready(p))
  <2>1. CASE Faulty(its)
    BY <1>1, <1>4, <1>6, <2>1
  <2>2. CASE ~Faulty(its)
    BY <1>1, <1>4, <1>6, <2>2
  <2> QED BY <2>1, <2>2
<1>8. ASSUME ~Faulty(more) PROVE Agrees(p, more)
  <2>1. /\ Ready(o) /\ Agrees(o, its) /\ it.kind \notin {"wrong", "help"}
    BY <1>1, <1>6, <1>8
  <2>2. /\ o.operands = Meant(its) /\ Range(o.order) = Chosen(its) /\ DOMAIN o.vals = Valued(its)
        /\ InTurn(o.order, its)
        /\ \A i \in DOMAIN its : Settles(its, i) => o.vals[its[i].name] = its[i].val
    BY <2>1 DEF Agrees
  <2>3. o.order \in Seq(OptionNames(c)) /\ o.operands \in Seq(Argument(c))
    BY <1>1 DEF ReadBy, Reading
  <2>4. it.kind \in {"flag", "value"} => it.name \in OptionNames(c)
    BY ItemForms DEF OptionNames
  <2>5. it.kind \in {"operand", "flag", "value"}
    BY <2>1, ItemForms
  <2>6. p.operands = Meant(more)
    <3>1. Meant(more) = Meant(its) \o IF it.kind = "operand" THEN <<it.val>> ELSE <<>>
      BY MeantAppend
    <3>2. CASE it.kind = "operand"
      <4>1. it.val \in Argument(c)
        BY <3>2, WrittenForms
      <4>2. Append(o.operands, it.val) = o.operands \o <<it.val>>
        BY <2>3, <4>1, AppendIsConcat
      <4> QED BY <1>4, <2>1, <2>2, <3>1, <3>2, <4>2
    <3>3. CASE it.kind # "operand"
      <4>1. o.operands \o <<>> = o.operands
        BY <2>3, ConcatEmptySeq
      <4> QED BY <1>4, <2>1, <2>2, <2>5, <3>1, <3>3, <4>1
    <3> QED BY <3>2, <3>3
  <2>7. Range(p.order) = Chosen(more)
    <3>1. Chosen(more) = Chosen(its) \cup IF it.kind \in {"flag", "value"} THEN {it.name} ELSE {}
      BY RangesAppend
    <3>2. CASE it.kind \in {"flag", "value"}
      <4>1. p.order = Marked(o, it.name)
        BY <1>4, <2>1, <3>2
      <4>2. Range(Marked(o, it.name)) = Range(o.order) \cup {it.name}
        BY <2>3, <2>4, <3>2, MarkedRange
      <4> QED BY <2>2, <3>1, <3>2, <4>1, <4>2
    <3>3. CASE it.kind = "operand"
      BY <1>4, <2>1, <2>2, <3>1, <3>3
    <3> QED BY <2>5, <3>2, <3>3
  <2>8. DOMAIN p.vals = Valued(more)
    <3>1. Valued(more) = Valued(its) \cup IF it.kind = "value" THEN {it.name} ELSE {}
      BY RangesAppend
    <3>2. CASE it.kind = "value"
      BY <1>4, <2>1, <2>2, <3>1, <3>2 DEF GivenTo
    <3>3. CASE it.kind # "value"
      BY <1>4, <2>1, <2>2, <2>5, <3>1, <3>3
    <3> QED BY <3>2, <3>3
  <2>9. ASSUME NEW i \in DOMAIN more, Settles(more, i) PROVE p.vals[more[i].name] = more[i].val
    <3>1. CASE i = Len(its) + 1 /\ it.kind = "value" /\ more[i] = it
      <4>1. p.vals = GivenTo(o, it.name, it.val)
        BY <1>4, <2>1, <3>1
      <4>2. GivenTo(o, it.name, it.val)[it.name] = it.val
        BY DEF GivenTo
      <4> QED BY <3>1, <4>1, <4>2
    <3>2. CASE /\ i \in DOMAIN its /\ Settles(its, i) /\ more[i] = its[i]
               /\ ~(it.kind = "value" /\ it.name = its[i].name)
      <4>1. o.vals[its[i].name] = its[i].val
        BY <2>2, <3>2
      <4>2. CASE it.kind = "value"
        <5>1. its[i] \in Range(its) /\ its[i].kind = "value"
          BY <3>2 DEF Settles, Range
        <5>2. its[i].name \in DOMAIN o.vals
          BY <2>2, <5>1 DEF Valued
        <5>3. GivenTo(o, it.name, it.val)[its[i].name] = o.vals[its[i].name]
          BY <3>2, <4>2, <5>2 DEF GivenTo
        <5> QED BY <1>4, <2>1, <3>2, <4>1, <4>2, <5>3
      <4>3. CASE it.kind # "value"
        BY <1>4, <2>1, <2>5, <3>2, <4>1, <4>3
      <4> QED BY <4>2, <4>3
    <3> QED BY <2>9, <3>1, <3>2, SettlesAppend
  <2>10. InTurn(p.order, more)
    <3>1. CASE it.kind \in {"flag", "value"}
      <4>1. p.order = Marked(o, it.name)
        BY <1>4, <2>1, <3>1
      <4>2. InTurn(Marked(o, it.name), more)
        BY <2>2, <2>3, <2>4, <3>1, TurnMarked
      <4> QED BY <4>1, <4>2
    <3>2. CASE it.kind = "operand"
      <4>1. p.order = o.order
        BY <1>4, <2>1, <3>2
      <4>2. InTurn(o.order, more)
        BY <2>2, TurnKept
      <4> QED BY <4>1, <4>2
    <3> QED BY <2>5, <3>1, <3>2
  <2> QED BY <2>6, <2>7, <2>8, <2>9, <2>10 DEF Agrees
<1> QED BY <1>4, <1>5, <1>7, <1>8 DEF Understood, p

-----------------------------------------------------------------------------
(* Every line *)

LineEnd(v) == <<<<v, Short("-Y", Nothing)>>>>

Composed ==
  /\ cmd \in DOMAIN MaxItems
  /\ link \in BOOLEAN
  /\ items \in Seq(Items(cmd))
  /\ tail = <<>> \/ \E v \in Values[cmd] : tail = LineEnd(v)
  /\ Understood(cmd, items)

LEMMA ComposedInit == Init => Composed
<1> SUFFICES ASSUME Init PROVE Composed
  OBVIOUS
<1>1. Understood(cmd, <<>>)
  BY NothingUnderstood
<1> QED BY <1>1 DEF Init, Composed

LEMMA ComposedNext == Composed /\ [Next]_vars => Composed'
<1> SUFFICES ASSUME Composed, [Next]_vars PROVE Composed'
  OBVIOUS
<1>1. cmd \in CommandName
  BY LinesAssumption DEF Composed
<1>2. CASE Compose
  <2>1. PICK it \in Items(cmd) : items' = Append(items, it)
    BY <1>2 DEF Compose
  <2>2. items \in Seq(Items(cmd)) /\ Understood(cmd, items) /\ cmd' = cmd
    BY <1>2 DEF Composed, Compose
  <2>3. Understood(cmd, Append(items, it))
    BY <1>1, <2>2, ItemUnderstood
  <2>4. Append(items, it) \in Seq(Items(cmd))
    BY <2>2, AppendProperties
  <2>5. Understood(cmd', items') /\ items' \in Seq(Items(cmd'))
    BY <2>1, <2>2, <2>3, <2>4
  <2> QED BY <1>2, <2>5 DEF Composed, Compose
<1>3. CASE EndOptions
  <2>1. PICK v \in Values[cmd] : tail' = LineEnd(v)
    BY <1>3 DEF EndOptions, LineEnd
  <2> QED BY <1>3, <2>1 DEF EndOptions, Composed
<1>4. CASE PrintValue
  BY <1>4 DEF PrintValue, line, Composed
<1>5. CASE UNCHANGED vars
  BY <1>5 DEF vars, Composed
<1> QED BY <1>2, <1>3, <1>4, <1>5 DEF Next

\* What parseOptions has read of a line agrees, item for item, with what the
\* items mean, however long the line (args.go:64-129).
THEOREM LinesUnderstood == Spec => []Composed
<1> QED BY ComposedInit, ComposedNext, PTL DEF Spec

\* The command and the arguments dispatch finds.
LEMMA TailOfJoined ==
  ASSUME NEW T, NEW s \in Seq(T), NEW x \in T
  PROVE  (<<x>> \o s)[1] = x /\ Tail(<<x>> \o s) = s /\ Len(<<x>> \o s) = Len(s) + 1
<1> DEFINE one == <<x>>
           all == one \o s
<1>1. one \in Seq(T) /\ Len(one) = 1 /\ one[1] = x
  OBVIOUS
<1>2. /\ all \in Seq(T) /\ Len(all) = Len(s) + 1 /\ Len(s) \in Nat
      /\ \A i \in 1..(Len(s) + 1) : all[i] = IF i <= 1 THEN one[i] ELSE s[i - 1]
  <2> HIDE DEF one
  <2>1. /\ all \in Seq(T) /\ Len(all) = Len(one) + Len(s)
        /\ \A i \in 1..(Len(one) + Len(s)) : all[i] = IF i <= Len(one) THEN one[i] ELSE s[i - Len(one)]
    BY <1>1, ConcatProperties
  <2>2. Len(s) \in Nat
    OBVIOUS
  <2>3. 1 + Len(s) = Len(s) + 1
    BY <2>2
  <2> QED BY <1>1, <2>1, <2>2, <2>3
<1> HIDE DEF all
<1>3. all # <<>> /\ all[1] = x
  <2>1. 1 \in 1..(Len(s) + 1) /\ Len(all) # 0
    BY <1>2
  <2> QED BY <1>1, <1>2, <2>1
<1>4. /\ Tail(all) \in Seq(T) /\ Len(Tail(all)) = Len(s)
      /\ \A i \in 1..Len(s) : Tail(all)[i] = all[i + 1]
  BY <1>2, <1>3, HeadTailProperties
<1>5. \A i \in 1..Len(s) : Tail(all)[i] = s[i]
  <2> SUFFICES ASSUME NEW i \in 1..Len(s) PROVE Tail(all)[i] = s[i]
    OBVIOUS
  <2>1. i + 1 \in 1..(Len(s) + 1) /\ ~(i + 1 <= 1) /\ (i + 1) - 1 = i
    BY <1>2
  <2> QED BY <1>2, <1>4, <2>1
<1>6. Tail(all) = s
  BY <1>4, <1>5, SeqEqual
<1> QED BY <1>2, <1>3, <1>6 DEF all

LEMMA Dispatched ==
  ASSUME NEW T, NEW args \in Seq(T), cmd \in CommandName, link \in BOOLEAN
  PROVE  dispatch(Called \o args) = [name |-> Word(cmd), args |-> args]
<1> DEFINE w == Word(cmd)
           m == Word("mmctl")
           U == T \cup {w, m}
           short == <<w>> \o args
           argv == <<m>> \o short
<1>1. w.name = cmd /\ m.name \notin CommandName
  BY CommandNames DEF Word
<1> HIDE DEF w, m
<1>2. args \in Seq(U) /\ w \in U /\ m \in U /\ <<w>> \in Seq(U) /\ <<m>> \in Seq(U)
  OBVIOUS
<1> HIDE DEF U
<1>3. short[1] = w /\ Tail(short) = args /\ Len(short) = Len(args) + 1 /\ short \in Seq(U)
  BY <1>2, TailOfJoined, ConcatProperties
<1>4. CASE link
  <2>1. Called \o args = short
    BY <1>4 DEF Called, w
  <2> HIDE DEF short
  <2> QED BY <1>1, <1>3, <2>1 DEF dispatch, w
<1>5. CASE ~link
  <2>1. Called \o args = argv
    <3>1. (<<m>> \o <<w>>) \o args = <<m>> \o short
      BY <1>2, ConcatAssociative
    <3>2. <<m>> \o <<w>> = <<m, w>>
      BY <1>2, JoinOne
    <3> HIDE DEF short, argv
    <3> QED BY <1>5, <3>1, <3>2 DEF Called, w, m, argv
  <2> HIDE DEF short
  <2>2. argv[1] = m /\ Tail(argv) = short /\ Len(argv) = Len(short) + 1 /\ argv \in Seq(U)
    BY <1>2, <1>3, TailOfJoined, ConcatProperties
  <2> HIDE DEF argv
  <2>3. Len(args) \in Nat /\ Len(short) \in Nat
    BY <1>2, <1>3
  <2>4. argv[2] = w
    <3>1. argv # <<>>
      BY <2>2, <2>3
    <3>2. \A i \in 1..Len(Tail(argv)) : Tail(argv)[i] = argv[i + 1]
      BY <2>2, <3>1, HeadTailProperties
    <3>3. 1 \in 1..Len(short)
      BY <1>3, <2>3
    <3>4. short[1] = argv[1 + 1]
      BY <2>2, <3>2, <3>3
    <3> QED BY <1>3, <3>4
  <2>5. ~(Len(argv) < 2)
    BY <1>3, <2>2, <2>3
  <2>6. dispatch(argv) = [name |-> argv[2], args |-> Tail(Tail(argv))]
    BY <1>1, <2>2, <2>5 DEF dispatch
  <2> QED BY <1>3, <2>1, <2>2, <2>4, <2>6 DEF w
<1> QED BY <1>4, <1>5

\* What main does with a line that names a command.
LEMMA MainOf ==
  ASSUME NEW T, NEW args \in Seq(T), cmd \in CommandName, link \in BOOLEAN
  PROVE  main(Called \o args) =
           IF Range(args) \cap HelpOption # {} THEN Outcome("synopsis", cmd, NoOptions)
           ELSE IF parseOptions(lookup(cmd), args).err THEN Outcome("usageError", cmd, NoOptions)
           ELSE Outcome("run", cmd, parseOptions(lookup(cmd), args))
<1> DEFINE argv == Called \o args
<1>1. dispatch(argv).name = Word(cmd) /\ dispatch(argv).args = args
  BY Dispatched
<1>2. Word(cmd).name = cmd
  BY DEF Word
<1>3. Word(cmd) \notin HelpOption \cup {Word(""), Word("help")}
  <2>1. \A a \in HelpOption : a.name \in {"-h", "--help"}
    BY DEF HelpOption, Short, Long
  <2>2. Word("").name \notin CommandName /\ Word("help").name \notin CommandName
    BY CommandNames DEF Word
  <2>3. \A n \in {"-h", "--help"} : n \notin CommandName
    BY CommandNames
  <2> QED BY <1>2, <2>1, <2>2, <2>3
<1> HIDE DEF argv
<1> QED BY <1>1, <1>2, <1>3, Zenon DEF main, argv

\* What is read of a line to its end.
LEMMA LineRead ==
  ASSUME Composed, cmd \in CommandName
  PROVE  LET args == Arguments(items) \o AfterOptions
             o == parseOptions(lookup(cmd), args)
         IN  /\ args \in Seq(Argument(cmd))
             /\ Range(args) \cap HelpOption # {} <=> HelpStandsAlone
             /\ Faulty(items) => o.err
             /\ ~Faulty(items) =>
                  /\ ~o.err /\ o.operands = MeantOperands
                  /\ o.order = ReadOf(cmd, items).order /\ o.vals = ReadOf(cmd, items).vals
<1> DEFINE its == Arguments(items)
           args == its \o AfterOptions
           spec == lookup(cmd)
           r == ReadOf(cmd, items)
           A == Argument(cmd)
<1>1. /\ its \in Seq(A) /\ r \in ReadBy(cmd)
      /\ Range(its) \cap HelpOption # {} <=> \E x \in Range(items) : AsksHelp(x)
      /\ Faulty(items) => r.err
      /\ ~Faulty(items) => Ready(r) /\ Agrees(r, items)
  BY DEF Composed, Understood
<1>2. r = TakeAll(spec, its)
  BY DEF ReadOf
<1>3. r \in Reading(OptionNames(cmd), A)
  BY <1>1 DEF ReadBy
<1> DEFINE Asked == \E x \in Range(items) : AsksHelp(x)
           Ends == Range(tail[1]) \cap HelpOption # {}
<1>4. HelpStandsAlone <=> (Asked \/ (tail # <<>> /\ Ends))
  <2>1. "help" \in Kinds <=> \E x \in Range(items) : x.kind = "help"
    BY DEF Kinds
  <2> QED BY <2>1, Zenon DEF HelpStandsAlone, AsksHelp
<1>5. CASE tail = <<>>
  <2>1. args = its
    BY <1>1, <1>5, ConcatEmptySeq DEF AfterOptions
  <2>2. ~Faulty(items) => parseOptions(spec, args) = r
    BY <1>1, <1>2, <2>1 DEF parseOptions, Ready
  <2>3. Faulty(items) => parseOptions(spec, args).err
    <3>1. Wrong(r).err
      BY <1>3 DEF Reading, Wrong
    <3> QED BY <1>1, <1>2, <2>1, <3>1 DEF parseOptions
  <2>4. ~Faulty(items) => r.operands = MeantOperands
    <3>1. ~Faulty(items) => r.operands = Meant(items) /\ r.operands \in Seq(A)
      BY <1>1, <1>3 DEF Agrees, Reading
    <3>2. ~Faulty(items) => Meant(items) \o <<>> = Meant(items)
      BY <3>1, ConcatEmptySeq
    <3> QED BY <1>5, <3>1, <3>2 DEF MeantOperands
  <2>5. ~Faulty(items) => ~r.err
    BY <1>1 DEF Ready
  <2>6. Range(args) \cap HelpOption # {} <=> HelpStandsAlone
    BY <1>1, <1>4, <1>5, <2>1
  <2>7. args \in Seq(A)
    BY <1>1, <2>1
  <2> HIDE DEF r, args
  <2> QED BY <2>2, <2>3, <2>4, <2>5, <2>6, <2>7 DEF r, args
<1>6. CASE tail # <<>>
  <2>1. PICK v \in Values[cmd] : tail = LineEnd(v)
    BY <1>6 DEF Composed
  <2> DEFINE y == Short("-Y", Nothing)
  <2>2. tail[1] = <<v, y>> /\ v \in A /\ y \in A /\ DoubleDash \in A
    BY <2>1 DEF LineEnd, Argument
  <2> HIDE DEF y, A
  <2> DEFINE a1 == Append(its, DoubleDash)
             a2 == Append(a1, v)
             a3 == Append(a2, y)
  <2>3. /\ a1 \in Seq(A) /\ Range(a1) = Range(its) \cup {DoubleDash}
        /\ TakeAll(spec, a1) = Take(spec, r, DoubleDash)
    BY <1>1, <1>2, <2>2, AppendRange, TakeAllAppend
  <2> HIDE DEF a1
  <2>4. a2 \in Seq(A) /\ Range(a2) = Range(a1) \cup {v} /\ TakeAll(spec, a2) = Take(spec, TakeAll(spec, a1), v)
    BY <2>2, <2>3, AppendRange, TakeAllAppend
  <2> HIDE DEF a2
  <2>5. a3 \in Seq(A) /\ Range(a3) = Range(a2) \cup {y} /\ TakeAll(spec, a3) = Take(spec, TakeAll(spec, a2), y)
    BY <2>2, <2>4, AppendRange, TakeAllAppend
  <2> HIDE DEF a3
  <2>6. args = a3
    <3>1. <<DoubleDash>> \in Seq(A) /\ <<v, y>> \in Seq(A)
      BY <2>2
    <3>2. AfterOptions = <<DoubleDash>> \o <<v, y>>
      BY <1>6, <2>2 DEF AfterOptions
    <3>3. its \o (<<DoubleDash>> \o <<v, y>>) = (its \o <<DoubleDash>>) \o <<v, y>>
      BY <1>1, <3>1, ConcatAssociative
    <3>4. a1 = its \o <<DoubleDash>>
      BY <1>1, <2>2, AppendIsConcat DEF a1
    <3>5. a1 \o <<v, y>> = Append(Append(a1, v), y)
      BY <2>2, <2>3, JoinTwo
    <3> HIDE DEF its
    <3> QED BY <3>2, <3>3, <3>4, <3>5 DEF a2, a3
  <2>7. Range(args) \cap HelpOption # {} <=> HelpStandsAlone
    <3>1. Range(args) = Range(its) \cup {DoubleDash, v, y}
      BY <2>3, <2>4, <2>5, <2>6
    <3>2. DoubleDash \notin HelpOption
      <4>1. DoubleDash.shape = "end"
        BY DEF DoubleDash
      <4>2. \A a \in HelpOption : a.shape # "end"
        BY DEF HelpOption, Short, Long
      <4> QED BY <4>1, <4>2
    <3>3. Range(tail[1]) = {v, y}
      BY <2>2 DEF Range
    <3>4. Range(args) \cap HelpOption # {} <=> (Range(its) \cap HelpOption # {} \/ Ends)
      BY <3>1, <3>2, <3>3
    <3> HIDE DEF its, args, Ends, Asked
    <3>5. Range(its) \cap HelpOption # {} <=> Asked
      BY <1>1 DEF Asked
    <3> QED BY <1>4, <1>6, <3>4, <3>5
  <2>8. ASSUME Faulty(items) PROVE parseOptions(spec, args).err
    <3>1. r.err
      BY <1>1, <2>8
    <3>2. TakeAll(spec, a3) = r
      BY <2>3, <2>4, <2>5, <3>1, FailedStays
    <3>3. Wrong(r).err
      BY <1>3 DEF Reading, Wrong
    <3> QED BY <2>6, <3>1, <3>2, <3>3 DEF parseOptions
  <2>9. ASSUME ~Faulty(items)
        PROVE  LET o == parseOptions(spec, args) IN
               /\ ~o.err /\ o.operands = MeantOperands /\ o.order = r.order /\ o.vals = r.vals
    <3> DEFINE o1 == TakeAll(spec, a1)
               o2 == TakeAll(spec, a2)
               o3 == TakeAll(spec, a3)
               N == OptionNames(cmd)
    <3>1. Ready(r) /\ r.operands = Meant(items) /\ r.operands \in Seq(A)
      BY <1>1, <1>3, <2>9 DEF Agrees, Reading
    <3>2. /\ o1 \in Reading(N, A) /\ Ended(o1)
          /\ o1.order = r.order /\ o1.vals = r.vals /\ o1.operands = r.operands
      BY <1>3, <2>3, <3>1, TakeEnd
    <3> HIDE DEF o1
    <3>3. /\ o2 \in Reading(N, A) /\ Ended(o2)
          /\ o2.order = r.order /\ o2.vals = r.vals /\ o2.operands = Append(r.operands, v)
      <4>1. o2 = Take(spec, o1, v)
        BY <2>4 DEF o1
      <4> QED BY <2>2, <3>2, <4>1, TakeAfterEnd
    <3> HIDE DEF o2
    <3>4. /\ o3 \in Reading(N, A) /\ Ended(o3)
          /\ o3.order = r.order /\ o3.vals = r.vals /\ o3.operands = Append(Append(r.operands, v), y)
      <4>1. o3 = Take(spec, o2, y)
        BY <2>5 DEF o2
      <4> QED BY <2>2, <3>3, <4>1, TakeAfterEnd
    <3> HIDE DEF o3
    <3>5. MeantOperands = Meant(items) \o <<v, y>>
      BY <1>6, <2>2 DEF MeantOperands
    <3>6. r.operands \o <<v, y>> = Append(Append(r.operands, v), y)
      BY <2>2, <3>1, JoinTwo
    <3>7. parseOptions(spec, args) = o3
      BY <2>6, <3>4 DEF parseOptions, Ended, o3
    <3>8. ~o3.err
      BY <3>4 DEF Ended
    <3> QED BY <3>1, <3>4, <3>5, <3>6, <3>7, <3>8
  <2>10. args \in Seq(A)
    BY <2>5, <2>6
  <2> QED BY <2>7, <2>8, <2>9, <2>10 DEF A
<1> QED BY <1>5, <1>6

LEMMA MainRead ==
  ASSUME Composed
  PROVE  LET m == main(Line) IN
         IF HelpStandsAlone THEN m.does = "synopsis" /\ m.cmd = cmd
         ELSE IF Faulty(items) THEN m.does = "usageError"
         ELSE /\ m.does = "run" /\ m.cmd = cmd /\ m.operands = MeantOperands
              /\ m.order = ReadOf(cmd, items).order /\ m.vals = ReadOf(cmd, items).vals
<1>1. cmd \in CommandName /\ link \in BOOLEAN
  BY LinesAssumption DEF Composed
<1> DEFINE args == Arguments(items) \o AfterOptions
           o == parseOptions(lookup(cmd), args)
           m == main(Line)
<1>2. /\ args \in Seq(Argument(cmd))
      /\ Range(args) \cap HelpOption # {} <=> HelpStandsAlone
      /\ Faulty(items) => o.err
      /\ ~Faulty(items) =>
           /\ ~o.err /\ o.operands = MeantOperands
           /\ o.order = ReadOf(cmd, items).order /\ o.vals = ReadOf(cmd, items).vals
  BY <1>1, LineRead
<1>3. m = IF Range(args) \cap HelpOption # {} THEN Outcome("synopsis", cmd, NoOptions)
          ELSE IF o.err THEN Outcome("usageError", cmd, NoOptions)
          ELSE Outcome("run", cmd, o)
  <2> HIDE DEF args
  <2>1. Line = Called \o args
    BY DEF Line, args
  <2> QED BY <1>1, <1>2, <2>1, MainOf
<1> HIDE DEF o, args, m
<1>4. CASE HelpStandsAlone
  BY <1>2, <1>3, <1>4 DEF Outcome, m
<1>5. CASE ~HelpStandsAlone /\ Faulty(items)
  BY <1>2, <1>3, <1>5 DEF Outcome, m
<1>6. CASE ~HelpStandsAlone /\ ~Faulty(items)
  <2>1. m = Outcome("run", cmd, o)
    BY <1>2, <1>3, <1>6
  <2>2. /\ m.does = "run" /\ m.cmd = cmd /\ m.operands = o.operands
        /\ m.order = o.order /\ m.vals = o.vals
    BY <2>1 DEF Outcome
  <2> QED BY <1>2, <1>6, <2>2 DEF m
<1> QED BY <1>4, <1>5, <1>6

LEMMA ReadRight == Composed => ReadAsMeant
<1> SUFFICES ASSUME Composed PROVE ReadAsMeant
  OBVIOUS
<1> DEFINE m == main(Line)
<1>1. IF HelpStandsAlone THEN m.does = "synopsis" /\ m.cmd = cmd
      ELSE IF Faulty(items) THEN m.does = "usageError"
      ELSE /\ m.does = "run" /\ m.cmd = cmd /\ m.operands = MeantOperands
           /\ m.order = ReadOf(cmd, items).order /\ m.vals = ReadOf(cmd, items).vals
  BY MainRead
<1> HIDE DEF m
<1>2. CASE HelpStandsAlone
  BY <1>1, <1>2 DEF ReadAsMeant, m
<1>3. CASE ~HelpStandsAlone /\ Faulty(items)
  <2>1. ~("wrong" \in Kinds) => FALSE
    BY <1>3 DEF HelpStandsAlone, Faulty, Kinds
  <2> QED BY <1>1, <1>3, <2>1 DEF ReadAsMeant, m
<1>4. CASE ~HelpStandsAlone /\ ~Faulty(items)
  <2>1. Agrees(ReadOf(cmd, items), items)
    BY <1>4 DEF Composed, Understood
  <2>2. "wrong" \notin Kinds
    BY <1>4 DEF Faulty, Kinds
  <2>3. Range(m.order) = Set
    BY <1>1, <1>4, <2>1 DEF Agrees, Chosen, Set
  <2>4. DOMAIN m.vals = {it.name : it \in {x \in Range(items) : x.kind = "value"}}
    BY <1>1, <1>4, <2>1 DEF Agrees, Valued
  <2>5. \A i \in DOMAIN items : Settles(items, i) => m.vals[items[i].name] = items[i].val
    BY <1>1, <1>4, <2>1 DEF Agrees
  <2> QED BY <1>1, <1>4, <2>2, <2>3, <2>4, <2>5 DEF ReadAsMeant, m
<1> QED BY <1>2, <1>3, <1>4

\* A line that runs has its options in turn.
LEMMA OptionsInTurn ==
  ASSUME Composed, main(Line).does = "run"
  PROVE  main(Line).order \in Seq(OptionNames(cmd)) /\ InTurn(main(Line).order, items)
<1>1. ~HelpStandsAlone /\ ~Faulty(items)
  BY MainRead
<1>2. main(Line).order = ReadOf(cmd, items).order
  BY <1>1, MainRead
<1>3. ReadOf(cmd, items) \in ReadBy(cmd) /\ Agrees(ReadOf(cmd, items), items)
  BY <1>1 DEF Composed, Understood
<1> QED BY <1>2, <1>3 DEF Agrees, ReadBy, Reading

\* main's account of a line of any length is what its items mean: the command,
\* its operands, its options and their values, or help, or a mistake
\* (main.go:69-122, args.go:56-129).
THEOREM LinesReadAsMeant == Spec => []ReadAsMeant
<1> QED BY LinesUnderstood, ReadRight, PTL

-----------------------------------------------------------------------------
(* What is checked of a line that was read *)

\* Options as the commands declare them, where a check depends on it.
Expects(s) ==
  /\ s.name \in {"mmlsquota", "mmrepquota"} => "--block-size" \in s.values
  /\ s.name \in {"mmchfileset", "mmlinkfileset", "mmunlinkfileset"} => "-J" \in s.values
  /\ s.name = "mmdelfileset" => "-J" \notin s.flags \cup s.values
  /\ s.name \in {"mmcrfileset", "mmchfileset"} => "--inode-limit" \in s.values

LEMMA CommandsExpect == \A s \in commands : Expects(s)
<1>1. \A s \in FilesystemSpec : Expects(s)
  <2>1. \A s \in FilesystemSpec : s.name \in {"mmlscluster", "mmlsfs"}
    BY DEF FilesystemSpec, Accepts
  <2> QED BY <2>1 DEF Expects
<1>2. \A s \in FilesetSpec : Expects(s)
  <2>1. Expects(Accepts("mmlsfileset", {"-d", "-i", "-L", "-Y"}, {}))
    BY DEF Expects, Accepts
  <2>2. Expects(Accepts("mmcrfileset", {}, {"-t", "-J", "--inode-space", "--inode-limit",
                                            "--allow-permission-change"}))
    BY DEF Expects, Accepts
  <2>3. Expects(Accepts("mmchfileset", {}, {"-j", "-t", "-J", "--inode-limit",
                                            "--allow-permission-change"}))
    BY DEF Expects, Accepts
  <2>4. Expects(Accepts("mmdelfileset", {"-f"}, {}))
    BY DEF Expects, Accepts
  <2>5. Expects(Accepts("mmlinkfileset", {}, {"-J"}))
    BY DEF Expects, Accepts
  <2>6. Expects(Accepts("mmunlinkfileset", {"-f"}, {"-J"}))
    BY DEF Expects, Accepts
  <2> QED BY <2>1, <2>2, <2>3, <2>4, <2>5, <2>6, Zenon DEF FilesetSpec
<1>3. \A s \in QuotaSpec : Expects(s)
  <2>1. Expects(Accepts("mmlsquota", {"-e", "-Y"}, {"-u", "-g", "-j", "--block-size"}))
    BY DEF Expects, Accepts
  <2>2. Expects(Accepts("mmrepquota", {"-u", "-g", "-j", "-a", "-e", "-n", "-Y"}, {"--block-size"}))
    BY DEF Expects, Accepts
  <2>3. Expects(Accepts("mmsetquota", {},
                        {"--user", "--group", "--block", "--files", "--default", "--grace"}))
    BY DEF Expects, Accepts
  <2> QED BY <2>1, <2>2, <2>3, Zenon DEF QuotaSpec
<1>4. \A s \in TokenSpec : Expects(s)
  <2>1. \A s \in TokenSpec : s.name \in {"mmcrtoken", "mmlstoken", "mmdeltoken"}
    BY DEF TokenSpec, Accepts
  <2> QED BY <2>1 DEF Expects
<1> QED BY <1>1, <1>2, <1>3, <1>4, Zenon DEF commands

\* Of the items that give an option a value there is a last.
LEMMA SomeSettles ==
  ASSUME NEW T, NEW its \in Seq(T), NEW n, n \in Valued(its)
  PROVE  \E i \in DOMAIN its : Settles(its, i) /\ its[i].name = n
<1> DEFINE m == Len(its)
           gives(i) == its[i].kind = "value" /\ its[i].name = n
           S == {k \in Nat : m - k \in 1..m /\ gives(m - k)}
<1>1. m \in Nat /\ DOMAIN its = 1..m
  OBVIOUS
<1>2. PICK i \in 1..m : gives(i)
  <2>1. PICK x \in Range(its) : x.kind = "value" /\ x.name = n
    BY DEF Valued
  <2> QED BY <1>1, <2>1 DEF Range
<1>3. m - i \in S
  <2>1. m - i \in Nat /\ m - (m - i) = i
    BY <1>1, <1>2
  <2> QED BY <1>2, <2>1
<1>4. PICK k \in S : \A j \in S : k <= j
  <2>1. S \in SUBSET Nat /\ S # {}
    BY <1>3
  <2> HIDE DEF S
  <2> QED BY <2>1, LeastNumber
<1>5. k \in Nat /\ m - k \in 1..m /\ gives(m - k)
  BY <1>4
<1>6. ASSUME NEW j \in ((m - k) + 1)..m PROVE ~gives(j)
  <2>1. m - j \in Nat /\ m - (m - j) = j /\ j \in 1..m /\ ~(k <= m - j)
    BY <1>1, <1>5, <1>6
  <2>2. m - j \notin S
    BY <1>4, <2>1
  <2> QED BY <2>1, <2>2
<1>7. Settles(its, m - k)
  <2>1. its[m - k].kind = "value" /\ its[m - k].name = n
    BY <1>5
  <2>2. \A j \in ((m - k) + 1)..m : ~(its[j].kind = "value" /\ its[j].name = its[m - k].name)
    BY <1>6, <2>1
  <2> QED BY <2>1, <2>2 DEF Settles
<1> QED BY <1>1, <1>5, <1>7

\* A line main runs, as main has read it.
LEMMA RunLine ==
  ASSUME Composed, main(Line).does = "run"
  PROVE  LET m == main(Line) IN
         /\ cmd \in CommandName \ {"mmsetquota"} /\ m.cmd = cmd
         /\ m.operands = MeantOperands
         /\ Range(m.order) = Chosen(items) /\ DOMAIN m.vals = Valued(items)
         /\ \A i \in DOMAIN items : Settles(items, i) => m.vals[items[i].name] = items[i].val
         /\ MeantOperands \in Seq(Argument(cmd))
<1> DEFINE m == main(Line)
<1>1. cmd \in CommandName \ {"mmsetquota"}
  BY LinesAssumption DEF Composed
<1>2. ReadAsMeant
  BY ReadRight
<1>3. ~HelpStandsAlone /\ "wrong" \notin Kinds
  BY <1>2 DEF ReadAsMeant
<1> HIDE DEF m
<1>4. /\ m.cmd = cmd /\ m.operands = MeantOperands
      /\ Range(m.order) = Set
      /\ DOMAIN m.vals = {it.name : it \in {x \in Range(items) : x.kind = "value"}}
      /\ \A i \in DOMAIN items : Settles(items, i) => m.vals[items[i].name] = items[i].val
  BY <1>2, <1>3 DEF ReadAsMeant, m
<1>5. MeantOperands \in Seq(Argument(cmd))
  <2>1. ~Faulty(items)
    BY <1>3 DEF HelpStandsAlone, Faulty, Kinds
  <2>2. ReadOf(cmd, items).operands = Meant(items) /\ ReadOf(cmd, items) \in ReadBy(cmd)
    BY <2>1 DEF Composed, Understood, Agrees
  <2>3. Meant(items) \in Seq(Argument(cmd))
    BY <2>2 DEF ReadBy, Reading
  <2>4. CASE tail = <<>>
    BY <2>3, <2>4, ConcatEmptySeq DEF MeantOperands
  <2>5. CASE tail # <<>>
    <3>1. PICK v \in Values[cmd] : tail = LineEnd(v)
      BY <2>5 DEF Composed
    <3>2. tail[1] \in Seq(Argument(cmd))
      BY <3>1 DEF LineEnd, Argument
    <3> QED BY <2>3, <2>5, <3>2, ConcatProperties DEF MeantOperands
  <2> QED BY <2>4, <2>5
<1> QED BY <1>1, <1>4, <1>5 DEF m, Set, Chosen, Valued

LEMMA OptionsHad ==
  ASSUME Composed, main(Line).does = "run", NEW n, n \notin NoOption
  PROVE  /\ Has(main(Line), n) <=> Given(n)
         /\ Given(n) => n \in OptionNames(cmd)
         /\ Given(n) /\ n \in lookup(cmd).values => n \in Valued(items)
<1>1. /\ cmd \in CommandName /\ Range(main(Line).order) = Chosen(items)
      /\ items \in Seq(Items(cmd))
  BY RunLine DEF Composed
<1>2. Sound(lookup(cmd))
  BY <1>1, LookedUp
<1>3. \A it \in Range(items) : it \in Items(cmd)
  BY <1>1 DEF Range
<1>4. ASSUME NEW it \in Range(items), it.name = n
      PROVE  \/ it.kind = "flag" /\ n \in lookup(cmd).flags
             \/ it.kind = "value" /\ n \in lookup(cmd).values
  <2>1. it \in Items(cmd)
    BY <1>3
  <2>2. CASE it.kind = "operand"
    <3>1. it.name \in NoOption
      BY <2>1, <2>2, OperandName
    <3> QED BY <1>4, <3>1
  <2>3. CASE it.kind \in {"wrong", "help"}
    <3>1. it.name \in NoOption
      BY <2>1, <2>3, ItemForms DEF NoOption
    <3> QED BY <1>4, <3>1
  <2> QED BY <1>4, <2>1, <2>2, <2>3, ItemForms
<1>5. Given(n) <=> n \in Chosen(items)
  BY <1>4 DEF Given, Chosen
<1>6. Given(n) => n \in OptionNames(cmd)
  BY <1>4 DEF Given, OptionNames
<1>7. ASSUME Given(n), n \in lookup(cmd).values PROVE n \in Valued(items)
  <2>1. PICK it \in Range(items) : it.name = n
    BY <1>7 DEF Given
  <2>2. it.kind = "value"
    BY <1>2, <1>4, <1>7, <2>1 DEF Sound
  <2> QED BY <2>1, <2>2 DEF Valued
<1> QED BY <1>1, <1>5, <1>6, <1>7 DEF Has

LEMMA ValuesHad ==
  ASSUME Composed, main(Line).does = "run", NEW n, n \notin NoOption, n \in lookup(cmd).values
  PROVE  /\ Given(n) => \E i \in DOMAIN items : Settles(items, i) /\ items[i].name = n
         /\ \A i \in DOMAIN items : Settles(items, i) /\ items[i].name = n =>
              /\ Given(n) /\ items[i].val \in Values[cmd]
              /\ Value(main(Line), n) = items[i].val.name
<1>1. items \in Seq(Items(cmd))
  BY DEF Composed
<1>2. ASSUME Given(n) PROVE \E i \in DOMAIN items : Settles(items, i) /\ items[i].name = n
  BY <1>1, <1>2, OptionsHad, SomeSettles
<1>3. ASSUME NEW i \in DOMAIN items, Settles(items, i), items[i].name = n
      PROVE  /\ Given(n) /\ items[i].val \in Values[cmd]
             /\ Value(main(Line), n) = items[i].val.name
  <2>1. items[i] \in Items(cmd) /\ items[i] \in Range(items) /\ items[i].kind = "value"
    BY <1>1, <1>3 DEF Range, Settles
  <2>2. Given(n) /\ items[i].val \in Values[cmd]
    BY <1>3, <2>1, ItemForms DEF Given
  <2>3. Has(main(Line), n)
    BY <2>2, OptionsHad
  <2>4. main(Line).vals[n] = items[i].val
    BY <1>3, RunLine
  <2> QED BY <2>2, <2>3, <2>4 DEF Value
<1> QED BY <1>2, <1>3

\* A check of the value of an option is one of the value that counts.
LEMMA SettledChecked ==
  ASSUME Composed, main(Line).does = "run", NEW n, n \notin NoOption, n \in lookup(cmd).values, NEW S
  PROVE  SettledIn(n, S) <=> (Has(main(Line), n) => Value(main(Line), n) \in S)
<1> DEFINE m == main(Line)
<1>1. Has(m, n) <=> Given(n)
  BY OptionsHad
<1>2. /\ Given(n) => \E i \in DOMAIN items : Settles(items, i) /\ items[i].name = n
      /\ \A i \in DOMAIN items : Settles(items, i) /\ items[i].name = n =>
           Given(n) /\ Value(m, n) = items[i].val.name
  BY ValuesHad
<1> HIDE DEF m
<1>3. SettledIn(n, S) <=> (Has(m, n) => Value(m, n) \in S)
  BY <1>1, <1>2 DEF SettledIn
<1> QED BY <1>3 DEF m

\* Whether the checks of a quota report find fault with its line.
LEMMA BlockSizeChecked ==
  ASSUME Composed, main(Line).does = "run", cmd \in {"mmlsquota", "mmrepquota"}
  PROVE  Sized <=> ~BadBlockSize(main(Line))
<1> DEFINE n == "--block-size"
           m == main(Line)
<1>1. cmd \in CommandName
  BY RunLine
<1>2. n \in lookup(cmd).values
  BY <1>1, LookedUp, CommandsExpect DEF Expects
<1>3. n \notin NoOption
  BY DEF NoOption
<1>4. SettledIn(n, Sizes) <=> (Has(m, n) => Value(m, n) \in Sizes)
  BY <1>2, <1>3, SettledChecked
<1> QED BY <1>4, Zenon DEF Sized, BadBlockSize

\* Which limits have parts that the commands take.
LEMMA LimitCut ==
  ASSUME NEW w
  PROVE  /\ Parts(Colon, w)[1] \in InodeCounts <=> w \in InodeCounts \cup CutLimits(STRING)
         /\ /\ Parts(Colon, w)[1] \in InodeCounts
            /\ Len(Parts(Colon, w)) > 1 => Parts(Colon, w)[2] \in InodeCounts \cup {""}
            <=> w \in InodeCounts \cup CutLimits(InodeCounts \cup {""})
<1>1. CASE w \in DOMAIN Colon
  <2>1. Colon[w] \in STRING \X STRING /\ w \notin InodeCounts
    BY <1>1, CutsAssumption
  <2>2. Len(Colon[w]) > 1 /\ Colon[w][2] \in STRING
    BY <2>1
  <2>3. Parts(Colon, w) = Colon[w]
    BY <1>1 DEF Parts
  <2> QED BY <1>1, <2>1, <2>2, <2>3 DEF CutLimits
<1>2. CASE w \notin DOMAIN Colon
  <2>1. Parts(Colon, w) = <<w>>
    BY <1>2 DEF Parts
  <2>2. <<w>>[1] = w /\ ~(Len(<<w>>) > 1)
    OBVIOUS
  <2>3. \A S : w \notin CutLimits(S)
    BY <1>2 DEF CutLimits
  <2> QED BY <2>1, <2>2, <2>3
<1> QED BY <1>1, <1>2

\* Whether the checks of a limit find fault with a line: mmcrfileset looks at
\* both numbers, mmchfileset at the first.
LEMMA LimitChecked ==
  ASSUME Composed, main(Line).does = "run", cmd \in {"mmcrfileset", "mmchfileset"}
  PROVE  LET m == main(Line) IN
         /\ SettledIn("--inode-limit", InodeCounts \cup CutLimits(InodeCounts \cup {""})) <=>
              ~(/\ Has(m, "--inode-limit")
                /\ \/ LimitParts(m)[1] \notin InodeCounts
                   \/ Len(LimitParts(m)) > 1 /\ LimitParts(m)[2] \notin InodeCounts \cup {""})
         /\ SettledIn("--inode-limit", InodeCounts \cup CutLimits(STRING)) <=>
              ~(Has(m, "--inode-limit") /\ LimitParts(m)[1] \notin InodeCounts)
         /\ Counted => SettledIn("--inode-limit", InodeCounts \cup CutLimits(InodeCounts \cup {""}))
         /\ Counted => SettledIn("--inode-limit", InodeCounts \cup CutLimits(STRING))
<1> DEFINE n == "--inode-limit"
           m == main(Line)
           both == InodeCounts \cup CutLimits(InodeCounts \cup {""})
           first == InodeCounts \cup CutLimits(STRING)
           w == Value(m, n)
<1>1. cmd \in CommandName
  BY RunLine
<1>2. n \in lookup(cmd).values
  BY <1>1, LookedUp, CommandsExpect DEF Expects
<1>3. n \notin NoOption
  BY DEF NoOption
<1>4. /\ SettledIn(n, both) <=> (Has(m, n) => w \in both)
      /\ SettledIn(n, first) <=> (Has(m, n) => w \in first)
  BY <1>2, <1>3, SettledChecked
<1>5. (Counted => SettledIn(n, both)) /\ (Counted => SettledIn(n, first))
  BY DEF Counted, SettledIn
<1>6. LimitParts(m) = Parts(Colon, w)
  BY DEF LimitParts
<1>7. /\ LimitParts(m)[1] \in InodeCounts <=> w \in first
      /\ /\ LimitParts(m)[1] \in InodeCounts
         /\ Len(LimitParts(m)) > 1 => LimitParts(m)[2] \in InodeCounts \cup {""}
         <=> w \in both
  BY <1>6, LimitCut
<1> HIDE DEF n, m, both, first, w
<1>8. /\ SettledIn(n, both) <=>
           ~(/\ Has(m, n)
             /\ \/ LimitParts(m)[1] \notin InodeCounts
                \/ Len(LimitParts(m)) > 1 /\ LimitParts(m)[2] \notin InodeCounts \cup {""})
      /\ SettledIn(n, first) <=> ~(Has(m, n) /\ LimitParts(m)[1] \notin InodeCounts)
  BY <1>4, <1>7, Zenon
<1> QED BY <1>5, <1>8 DEF n, m, both, first

LEMMA OperandsNamed ==
  ASSUME Composed, main(Line).does = "run"
  PROVE  /\ Targets(main(Line)) = {MeantOperands[i].name : i \in DOMAIN MeantOperands}
         /\ DOMAIN MeantOperands = 1..Len(MeantOperands) /\ Len(MeantOperands) \in Nat
         /\ Names(main(Line)) = [i \in DOMAIN MeantOperands |-> MeantOperands[i].name]
<1>1. main(Line).operands = MeantOperands /\ MeantOperands \in Seq(Argument(cmd))
  BY RunLine
<1>2. Names(main(Line)) = [i \in DOMAIN MeantOperands |-> MeantOperands[i].name]
  BY <1>1 DEF Names
<1> QED BY <1>1, <1>2 DEF Targets, Range

\* A target has an empty part, or is in a fileset, as the operand says.
LEMMA TargetParts ==
  ASSUME NEW a
  PROVE  (GoodTarget(a.name) <=> GoodOperand(a)) /\ (InFileset(a.name) <=> ~PlainDevice(a))
<1> DEFINE w == a.name
<1>1. CASE w \in DOMAIN Colon
  <2>1. Colon[w] \in STRING \X STRING /\ w # ""
    BY <1>1, CutsAssumption
  <2>2. Len(Colon[w]) = 2
    BY <2>1
  <2>3. Parts(Colon, w) = Colon[w]
    BY <1>1 DEF Parts
  <2>4. GoodTarget(w) <=> GoodOperand(a)
    BY <1>1, <2>1, <2>3, Zenon DEF GoodTarget, GoodOperand
  <2>5. InFileset(w)
    BY <2>2, <2>3 DEF InFileset
  <2> QED BY <1>1, <2>4, <2>5 DEF PlainDevice
<1>2. CASE w \notin DOMAIN Colon
  <2>1. Parts(Colon, w) = <<w>>
    BY <1>2 DEF Parts
  <2>2. Range(<<w>>) = {w} /\ ~(Len(<<w>>) > 1)
    BY DEF Range
  <2>3. GoodTarget(w) <=> "" \notin {w}
    BY <2>1, <2>2, Zenon DEF GoodTarget
  <2>4. GoodOperand(a) <=> ~(w = "")
    BY <1>2, Zenon DEF GoodOperand
  <2>5. "" \notin {w} <=> ~(w = "")
    BY Zenon
  <2>6. ~InFileset(w)
    BY <2>1, <2>2 DEF InFileset
  <2> QED BY <1>2, <2>3, <2>4, <2>5, <2>6, Zenon DEF PlainDevice
<1> QED BY <1>1, <1>2

\* A fileset is found by its junction only when one is given.
LEMMA JunctionChecked ==
  ASSUME Composed, main(Line).does = "run",
         cmd \in {"mmchfileset", "mmdelfileset", "mmlinkfileset", "mmunlinkfileset"}
  PROVE  /\ Value(main(Line), "-J") = "" <=> ~Given("-J")
         /\ cmd = "mmdelfileset" => ~Given("-J")
<1> DEFINE n == "-J"
           m == main(Line)
<1>1. cmd \in CommandName
  BY RunLine
<1>2. Expects(lookup(cmd)) /\ lookup(cmd).name = cmd
  BY <1>1, LookedUp, CommandsExpect
<1>3. n \notin NoOption
  BY DEF NoOption
<1>4. (Has(m, n) <=> Given(n)) /\ (Given(n) => n \in OptionNames(cmd))
  BY <1>3, OptionsHad
<1>5. cmd = "mmdelfileset" => ~Given(n)
  BY <1>2, <1>4 DEF Expects, OptionNames
<1>6. CASE Given(n)
  <2>1. n \in lookup(cmd).values
    BY <1>2, <1>5, <1>6 DEF Expects
  <2>2. PICK i \in DOMAIN items : Settles(items, i) /\ items[i].name = n
    BY <1>3, <1>6, <2>1, ValuesHad
  <2>3. items[i].val \in Values[cmd] /\ Value(m, n) = items[i].val.name
    BY <1>3, <2>1, <2>2, ValuesHad
  <2>4. items[i].val.name \notin {""}
    <3>1. cmd \in CommandName => \A v \in Values[cmd] : v.name \in STRING \ {""}
      BY LinesAssumption, Zenon
    <3> QED BY <1>1, <2>3, <3>1
  <2>5. ~(Value(m, n) = "")
    BY <2>3, <2>4, Zenon
  <2> QED BY <1>5, <1>6, <2>5, Zenon
<1>7. CASE ~Given(n)
  <2>1. ~Has(m, n)
    BY <1>4, <1>7
  <2>2. Value(m, n) = ""
    BY <2>1, Zenon DEF Value
  <2> QED BY <1>7, <2>2, Zenon
<1> QED BY <1>6, <1>7

LEMMA SynopsisKeptTo == Composed => RunsItsSynopsis
<1> DEFINE m == main(Line)
           n == Len(MeantOperands)
           j == Given("-j")
           u == Given("-u")
           g == Given("-g")
           a == Given("-a")
           J == Given("-J")
           idle == cmd = "mmchfileset" /\ ~(\E x \in Attributes : Given(x))
<1> SUFFICES ASSUME Composed, m.does = "run"
             PROVE  ~Refuses(cmd, m) <=> ((Synopsis(n) \/ Lenient(n)) /\ ~idle)
  BY RunLine, Zenon DEF RunsItsSynopsis, Runs
<1>1. n \in Nat /\ Len(m.operands) = n /\ cmd \in CommandName \ {"mmsetquota"}
  BY RunLine, OperandsNamed
<1>2. /\ (Has(m, "-j") <=> j) /\ (Has(m, "-u") <=> u) /\ (Has(m, "-g") <=> g) /\ (Has(m, "-a") <=> a)
  <2>1. "-j" \notin NoOption /\ "-u" \notin NoOption /\ "-g" \notin NoOption /\ "-a" \notin NoOption
    BY DEF NoOption
  <2> QED BY <2>1, OptionsHad
<1>3. ASSUME cmd = "mmchfileset" PROVE Range(m.order) \cap Attributes = {} <=> idle
  <2>1. \A x \in Attributes : x \notin NoOption
    BY DEF Attributes, NoOption
  <2>2. \A x \in Attributes : x \in Range(m.order) <=> Given(x)
    BY <2>1, OptionsHad DEF Has
  <2> QED BY <1>3, <2>2
<1>4. ASSUME cmd \in {"mmchfileset", "mmdelfileset", "mmlinkfileset", "mmunlinkfileset"}
      PROVE  /\ RefusesNames(m) <=> (n = 0 \/ (n = 1 /\ ~J))
             /\ cmd = "mmdelfileset" => ~J
  <2>1. (Value(m, "-J") = "" <=> ~J) /\ (cmd = "mmdelfileset" => ~J)
    BY <1>4, JunctionChecked
  <2> QED BY <1>1, <2>1, Zenon DEF RefusesNames
<1>5. ASSUME cmd \in {"mmlsquota", "mmrepquota"}
      PROVE  (MixesFilesets(m) <=> (j /\ (u \/ g))) /\ (BadBlockSize(m) \/ BadTargets(m) <=> ~QuotaTargetsGood)
  <2>1. BadTargets(m) <=> ~(\A i \in DOMAIN MeantOperands : GoodOperand(MeantOperands[i]))
    BY OperandsNamed, TargetParts DEF BadTargets
  <2>2. Sized <=> ~BadBlockSize(m)
    BY <1>5, BlockSizeChecked
  <2> HIDE DEF m, j, u, g
  <2> QED BY <1>2, <2>1, <2>2, Zenon DEF MixesFilesets, QuotaTargetsGood
<1>6. (\E w \in Targets(m) : InFileset(w)) <=> ~Devices
  BY OperandsNamed, TargetParts DEF Devices
<1>7. n = 0 => Devices /\ (QuotaTargetsGood <=> Sized)
  BY OperandsNamed DEF Devices, QuotaTargetsGood
<1>8. OneOf({"-u", "-g", "-j"}) <=> ~(u /\ g) /\ ~(u /\ j) /\ ~(g /\ j)
  BY DEF OneOf
<1> DEFINE both == SettledIn("--inode-limit", InodeCounts \cup CutLimits(InodeCounts \cup {""}))
           first == SettledIn("--inode-limit", InodeCounts \cup CutLimits(STRING))
<1>19. ASSUME cmd \in {"mmcrfileset", "mmchfileset"}
       PROVE  /\ both <=> ~(/\ Has(m, "--inode-limit")
                            /\ \/ LimitParts(m)[1] \notin InodeCounts
                               \/ Len(LimitParts(m)) > 1 /\ LimitParts(m)[2] \notin InodeCounts \cup {""})
              /\ first <=> ~(Has(m, "--inode-limit") /\ LimitParts(m)[1] \notin InodeCounts)
              /\ (Counted => both) /\ (Counted => first)
  BY <1>19, LimitChecked
<1> HIDE DEF m, n, j, u, g, a, J, idle, both, first
<1>9. CASE cmd \in {"mmlscluster", "mmlstoken"}
  <2>1. Refuses(cmd, m) <=> n > 0
    BY <1>1, <1>9 DEF Refuses, RefusesFirst, RefusesLater, RefusesMmlscluster, RefusesMmlstoken
  <2>2. (Synopsis(n) \/ Lenient(n)) <=> n = 0
    BY <1>9 DEF Synopsis, Lenient
  <2>3. ~idle
    BY <1>9 DEF idle
  <2> QED BY <1>1, <2>1, <2>2, <2>3
<1>10. CASE cmd \in {"mmlsfs", "mmcrtoken", "mmdeltoken"}
  <2>1. Refuses(cmd, m) <=> n = 0
    BY <1>1, <1>10 DEF Refuses, RefusesFirst, RefusesLater, RefusesMmlsfs, RefusesMmcrtoken, RefusesMmdeltoken
  <2>2. (Synopsis(n) \/ Lenient(n)) <=> n >= 1
    <3>1. (Synopsis(n) <=> n = 1) /\ (Lenient(n) <=> n > 1)
      BY <1>10 DEF Synopsis, Lenient
    <3> QED BY <1>1, <3>1
  <2>3. ~idle
    BY <1>10 DEF idle
  <2> QED BY <1>1, <2>1, <2>2, <2>3
<1>11. CASE cmd = "mmlsfileset"
  <2>1. Refuses(cmd, m) <=> n = 0
    BY <1>1, <1>11 DEF Refuses, RefusesFirst, RefusesLater, RefusesMmlsfileset
  <2>2. (Synopsis(n) \/ Lenient(n)) <=> n >= 1
    BY <1>1, <1>11 DEF Synopsis, Lenient
  <2>3. ~idle
    BY <1>11 DEF idle
  <2> QED BY <1>1, <2>1, <2>2, <2>3
<1>12. CASE cmd = "mmcrfileset"
  <2>1. Refuses(cmd, m) <=> RefusesMmcrfileset(m)
    BY <1>12 DEF Refuses, RefusesFirst, RefusesLater
  <2>4. RefusesMmcrfileset(m) <=> (n < 2 \/ ~both)
    BY <1>1, <1>12, <1>19, Zenon DEF RefusesMmcrfileset
  <2>2. (Synopsis(n) \/ Lenient(n)) <=> (n >= 2 /\ both)
    <3>1. Synopsis(n) <=> (n = 2 /\ Counted)
      BY <1>12 DEF Synopsis
    <3>2. Lenient(n) <=> (n >= 2 /\ both)
      BY <1>12 DEF Lenient, both
    <3>3. Counted => both
      BY <1>12, <1>19
    <3>4. (n = 2 \/ n >= 2) <=> n >= 2
      BY <1>1
    <3> QED BY <3>1, <3>2, <3>3, <3>4, Zenon
  <2>3. ~idle
    BY <1>12 DEF idle
  <2> QED BY <1>1, <2>1, <2>2, <2>3, <2>4
<1>13. CASE cmd = "mmchfileset"
  <2>1. Refuses(cmd, m) <=> (RefusesNames(m) \/ RefusesChange(m))
    BY <1>13 DEF Refuses, RefusesFirst, RefusesLater
  <2>2. RefusesChange(m) <=> (~first \/ idle)
    BY <1>3, <1>13, <1>19, Zenon DEF RefusesChange
  <2>3. (Synopsis(n) \/ Lenient(n)) <=> ((n >= 2 \/ (n = 1 /\ J)) /\ first)
    <3>1. Synopsis(n) <=> (n = (IF J THEN 1 ELSE 2) /\ Counted)
      BY <1>13 DEF Synopsis, J
    <3>2. Lenient(n) <=> ((n >= 2 \/ (n = 1 /\ J)) /\ first)
      BY <1>13 DEF Lenient, J, first
    <3>3. Counted => first
      BY <1>13, <1>19
    <3>4. n = (IF J THEN 1 ELSE 2) => n >= 2 \/ (n = 1 /\ J)
      BY <1>1
    <3> QED BY <3>1, <3>2, <3>3, <3>4, Zenon
  <2> QED BY <1>1, <1>4, <1>13, <2>1, <2>2, <2>3
<1>14. CASE cmd = "mmdelfileset"
  <2>1. Refuses(cmd, m) <=> (n = 0 \/ n = 1)
    BY <1>4, <1>14 DEF Refuses, RefusesFirst, RefusesLater
  <2>2. (Synopsis(n) \/ Lenient(n)) <=> n >= 2
    BY <1>1, <1>14 DEF Synopsis, Lenient
  <2>3. ~idle
    BY <1>14 DEF idle
  <2> QED BY <1>1, <2>1, <2>2, <2>3
<1>15. CASE cmd = "mmlinkfileset"
  <2>1. Refuses(cmd, m) <=> (n = 0 \/ (n = 1 /\ ~J))
    BY <1>4, <1>15 DEF Refuses, RefusesFirst, RefusesLater
  <2>2. (Synopsis(n) \/ Lenient(n)) <=> (n >= 2 \/ (n = 1 /\ J))
    BY <1>1, <1>15 DEF Synopsis, Lenient, J
  <2>3. ~idle
    BY <1>15 DEF idle
  <2> QED BY <1>1, <2>1, <2>2, <2>3
<1>16. CASE cmd = "mmunlinkfileset"
  <2>1. Refuses(cmd, m) <=> (n = 0 \/ (n = 1 /\ ~J))
    BY <1>4, <1>16 DEF Refuses, RefusesFirst, RefusesLater
  <2>2. (Synopsis(n) \/ Lenient(n)) <=> (n >= 2 \/ (n = 1 /\ J))
    BY <1>1, <1>16 DEF Synopsis, Lenient, J
  <2>3. ~idle
    BY <1>16 DEF idle
  <2> QED BY <1>1, <2>1, <2>2, <2>3
<1>17. CASE cmd = "mmlsquota"
  <2>1. Refuses(cmd, m) <=> (j /\ (u \/ g)) \/ ~QuotaTargetsGood \/ (u /\ g) \/ (j /\ ~Devices)
    <3>1. Refuses(cmd, m) <=> RefusesMmlsquota(m) \/ RefusesTarget(m)
      BY <1>17 DEF Refuses, RefusesFirst, RefusesLater
    <3>2. RefusesTarget(m) <=> (j /\ ~Devices)
      BY <1>2, <1>6, Zenon DEF RefusesTarget
    <3> QED BY <1>2, <1>5, <1>17, <3>1, <3>2 DEF RefusesMmlsquota
  <2>2. (Synopsis(n) \/ Lenient(n)) <=>
          \/ QuotaTargetsGood /\ OneOf({"-u", "-g", "-j"}) /\ (j => n > 0 /\ Devices)
          \/ j /\ n = 0 /\ OneOf({"-u", "-g", "-j"}) /\ Sized
    BY <1>17 DEF Synopsis, Lenient, j
  <2>3. ~idle
    BY <1>17 DEF idle
  <2>4. n > 0 <=> ~(n = 0)
    BY <1>1
  <2> QED BY <1>7, <1>8, <2>1, <2>2, <2>3, <2>4
<1>18. CASE cmd = "mmrepquota"
  <2>1. Refuses(cmd, m) <=> (j /\ (u \/ g)) \/ ~QuotaTargetsGood \/ (a <=> n > 0)
    <3>1. Refuses(cmd, m) <=> RefusesMmrepquota(m)
      BY <1>18 DEF Refuses, RefusesFirst, RefusesLater
    <3> QED BY <1>1, <1>2, <1>5, <1>18, <3>1 DEF RefusesMmrepquota
  <2>2. (Synopsis(n) \/ Lenient(n)) <=>
          \/ QuotaTargetsGood /\ (a <=> n = 0) /\ (j => ~u /\ ~g /\ Devices)
          \/ j /\ ~u /\ ~g /\ n > 0 /\ ~a /\ QuotaTargetsGood
    BY <1>18 DEF Synopsis, Lenient, j, u, g, a
  <2>3. ~idle
    BY <1>18 DEF idle
  <2>4. n > 0 <=> ~(n = 0)
    BY <1>1
  <2> QED BY <1>7, <1>8, <2>1, <2>2, <2>3, <2>4
<1> QED BY <1>1, <1>9, <1>10, <1>11, <1>12, <1>13, <1>14, <1>15, <1>16, <1>17, <1>18, CommandNames

\* Each command runs the lines of its synopsis and, beyond them, those of
\* Lenient only: what the checks of each run function come to (quota.go:335-372,
\* 453-467, fileset.go:100-103, 326-431, 509-525, token.go:27-30, 120-123).
THEOREM LinesKeepToSynopsis == Spec => []RunsItsSynopsis
<1> QED BY LinesUnderstood, SynopsisKeptTo, PTL

-----------------------------------------------------------------------------
(* Requests and the allowlist *)

\* A path has the shape of a pattern without "**".
Fits(p, s) == Len(p) = Len(s) /\ \A i \in 1..Len(p) : p[i] # "**" /\ (p[i] = "*" \/ p[i] = s[i])

LEMMA FitsJoined ==
  ASSUME NEW S, NEW p \in Seq(S), NEW q \in Seq(S), NEW T, NEW s \in Seq(T), NEW t \in Seq(T),
         Fits(p, s), Fits(q, t)
  PROVE  p \o q \in Seq(S) /\ s \o t \in Seq(T) /\ Fits(p \o q, s \o t)
<1>1. Len(p) \in Nat /\ Len(q) \in Nat /\ Len(s) = Len(p) /\ Len(t) = Len(q)
  BY DEF Fits
<1>2. /\ p \o q \in Seq(S) /\ s \o t \in Seq(T)
      /\ Len(p \o q) = Len(p) + Len(q) /\ Len(s \o t) = Len(s) + Len(t)
  OBVIOUS
<1>3. ASSUME NEW i \in 1..(Len(p) + Len(q))
      PROVE  (p \o q)[i] # "**" /\ ((p \o q)[i] = "*" \/ (p \o q)[i] = (s \o t)[i])
  <2>1. CASE i <= Len(p)
    <3>1. i \in 1..Len(p) /\ (p \o q)[i] = p[i] /\ (s \o t)[i] = s[i]
      BY <1>1, <2>1
    <3> QED BY <3>1 DEF Fits
  <2>2. CASE ~(i <= Len(p))
    <3>1. i - Len(p) \in 1..Len(q) /\ (p \o q)[i] = q[i - Len(p)] /\ (s \o t)[i] = t[i - Len(p)]
      BY <1>1, <2>2
    <3> QED BY <3>1 DEF Fits
  <2> QED BY <2>1, <2>2
<1> QED BY <1>1, <1>2, <1>3 DEF Fits

\* A path that fits a rule that is always on is allowed unless it is to be resolved.
Passes(method, segs) ==
  Gateway!allows({}, method, [root |-> "v2", segs |-> segs]) <=> Range(segs) \cap Gateway!Unresolved = {}

LEMMA FittingPasses ==
  ASSUME NEW rl \in Gateway!rules, rl.feature = "always", NEW method \in rl.methods,
         NEW S, rl.pattern \in Seq(S), NEW T, NEW s \in Seq(T), Fits(rl.pattern, s)
  PROVE  Passes(method, s)
<1> DEFINE p == rl.pattern
           U == Gateway!Unresolved
           path == [root |-> "v2", segs |-> s]
<1>1. DOMAIN p = 1..Len(p) /\ DOMAIN s = 1..Len(s)
  OBVIOUS
<1>2. {i \in DOMAIN p : p[i] = "**"} = {}
  BY <1>1 DEF Fits
<1>3. Gateway!matchPattern(p, s)
  <2>1. Len(s) = Len(p) /\ \A i \in 1..Len(p) : p[i] \in {"*", s[i]}
    BY DEF Fits
  <2> QED BY <1>2, <2>1, Zenon DEF Gateway!matchPattern
<1>4. path.root = "v2" /\ path.segs = s
  OBVIOUS
<1>5. rl \in Gateway!newPolicy({}) /\ Gateway!matchMethod(rl.methods, method)
  BY DEF Gateway!newPolicy, Gateway!matchMethod
<1>6. Range(s) \cap U = {} <=> \A i \in DOMAIN s : s[i] \notin U
  BY DEF Range
<1> HIDE DEF path, U
<1>7. Gateway!allows({}, method, path) <=> \A i \in DOMAIN s : s[i] \notin U
  BY <1>3, <1>4, <1>5, Zenon DEF Gateway!allows, U
<1> QED BY <1>6, <1>7, Zenon DEF Passes, path, U

\* What a rule that is always on lets through, for methods ms and a pattern.
LEMMA RulePasses ==
  ASSUME NEW ms, NEW pat, Gateway!r(ms, pat) \in Gateway!rules, NEW method \in ms,
         NEW S, pat \in Seq(S), NEW T, NEW s \in Seq(T), Fits(pat, s)
  PROVE  Passes(method, s)
<1> DEFINE rl == Gateway!r(ms, pat)
<1>1. rl.feature = "always" /\ rl.methods = ms /\ rl.pattern = pat
  BY DEF Gateway!r
<1>2. rl \in Gateway!rules
  OBVIOUS
<1> HIDE DEF rl
<1> QED BY <1>1, <1>2, FittingPasses

\* The paths below a file system and below a fileset.
LEMMA BelowFits ==
  ASSUME NEW d, NEW f, NEW w \in {"filesets", "quotas", "link"}
  PROVE  /\ \E S, T : /\ Gateway!fs(<<>>) \in Seq(S) /\ Filesystem(d) \in Seq(T)
                      /\ Fits(Gateway!fs(<<>>), Filesystem(d))
         /\ \E S, T : /\ Gateway!fs(<<w>>) \in Seq(S) /\ Filesystem(d) \o <<w>> \in Seq(T)
                      /\ Fits(Gateway!fs(<<w>>), Filesystem(d) \o <<w>>)
         /\ \E S, T : /\ Gateway!fset(<<>>) \in Seq(S) /\ Fileset(d, f) \in Seq(T)
                      /\ Fits(Gateway!fset(<<>>), Fileset(d, f))
         /\ \E S, T : /\ Gateway!fset(<<w>>) \in Seq(S) /\ Fileset(d, f) \o <<w>> \in Seq(T)
                      /\ Fits(Gateway!fset(<<w>>), Fileset(d, f) \o <<w>>)
<1> DEFINE W == {"filesystems", "filesets", "quotas", "link", "*"}
           T == W \cup {d, f}
           two == <<"filesystems", "*">>
           twof == <<"filesets", "*">>
           one == <<w>>
           none == <<>>
           onef == <<f>>
           fsets == <<"filesets">>
           star == <<"*">>
<1>1. /\ two \in Seq(W) /\ Filesystem(d) \in Seq(T) /\ Fits(two, Filesystem(d))
  BY DEF Filesystem, Fits
<1>2. /\ one \in Seq(W) /\ one \in Seq(T) /\ Fits(one, one)
      /\ none \in Seq(W) /\ none \in Seq(T) /\ Fits(none, none)
      /\ fsets \in Seq(W) /\ fsets \in Seq(T) /\ Fits(fsets, fsets)
      /\ star \in Seq(W) /\ onef \in Seq(T) /\ Fits(star, onef)
  BY DEF Fits
<1>3. twof = fsets \o star
  OBVIOUS
<1>4. Filesets(d) = Filesystem(d) \o fsets /\ Fileset(d, f) = Filesets(d) \o onef
  BY DEF Filesets, Fileset
<1>5. /\ Gateway!fs(none) = two \o none /\ Gateway!fs(one) = two \o one
      /\ Gateway!fs(twof) = two \o twof
      /\ Gateway!fset(none) = Gateway!fs(twof) \o none /\ Gateway!fset(one) = Gateway!fs(twof) \o one
  BY DEF Gateway!fs, Gateway!fset
<1> HIDE DEF W, T, two, twof, one, none, onef, fsets, star
<1> DEFINE Joins(p, s) == p \in Seq(W) /\ s \in Seq(T) /\ Fits(p, s)
<1>6. ASSUME NEW p, NEW q, NEW s, NEW t, Joins(p, s), Joins(q, t) PROVE Joins(p \o q, s \o t)
  BY <1>6, FitsJoined
<1>7. /\ Joins(two, Filesystem(d)) /\ Joins(one, one) /\ Joins(none, none) /\ Joins(fsets, fsets)
      /\ Joins(star, onef)
  BY <1>1, <1>2
<1>8. \A x : x \in Seq(T) => x \o none = x
  BY ConcatEmptySeq DEF none
<1>9. (two \o fsets) \o star = two \o twof
  <2>1. two \in Seq(W) /\ fsets \in Seq(W) /\ star \in Seq(W)
    BY <1>7
  <2>2. (two \o fsets) \o star = two \o (fsets \o star)
    BY <2>1, ConcatAssociative
  <2> QED BY <1>3, <2>2, Zenon
<1>10. Joins(two \o none, Filesystem(d)) /\ Joins(two \o one, Filesystem(d) \o one)
  <2>1. Filesystem(d) \o none = Filesystem(d)
    BY <1>7, <1>8
  <2> HIDE DEF Joins
  <2> QED BY <1>6, <1>7, <2>1, Zenon
<1>11. Joins(two \o twof, Fileset(d, f))
  <2> HIDE DEF Joins
  <2>1. Joins(two \o fsets, Filesets(d))
    BY <1>4, <1>6, <1>7, Zenon
  <2>2. Joins((two \o fsets) \o star, Filesets(d) \o onef)
    BY <1>6, <1>7, <2>1, Zenon
  <2> QED BY <1>4, <1>9, <2>2, Zenon
<1>12. Joins((two \o twof) \o none, Fileset(d, f)) /\ Joins((two \o twof) \o one, Fileset(d, f) \o one)
  <2>1. Fileset(d, f) \o none = Fileset(d, f)
    BY <1>8, <1>11
  <2> HIDE DEF Joins
  <2> QED BY <1>6, <1>7, <1>11, <2>1, Zenon
<1>13. /\ Joins(Gateway!fs(none), Filesystem(d)) /\ Joins(Gateway!fs(one), Filesystem(d) \o one)
       /\ Joins(Gateway!fset(none), Fileset(d, f)) /\ Joins(Gateway!fset(one), Fileset(d, f) \o one)
  <2> HIDE DEF Joins
  <2> QED BY <1>5, <1>10, <1>12, Zenon
<1> QED BY <1>13, Zenon DEF one, none

\* Every request a command can make, but for the names in it, is on the allowlist.
LEMMA RequestsPass ==
  ASSUME NEW d, NEW f
  PROVE  /\ \A w \in {"cluster", "nodes", "filesystems"} : Passes("GET", <<w>>)
         /\ Passes("GET", <<"jobs", "1">>)
         /\ Passes("GET", Filesystem(d))
         /\ \A method \in {"GET", "POST"} : Passes(method, Filesets(d))
         /\ \A method \in {"PUT", "DELETE"} : Passes(method, Fileset(d, f))
         /\ \A method \in {"POST", "DELETE"} : Passes(method, Fileset(d, f) \o <<"link">>)
         /\ Passes("GET", Filesystem(d) \o <<"quotas">>)
         /\ Passes("GET", Fileset(d, f) \o <<"quotas">>)
<1> USE DEF Gateway!rules
<1>1. ASSUME NEW w \in {"cluster", "nodes", "filesystems"} PROVE Passes("GET", <<w>>)
  <2> DEFINE s == <<w>>
             ms == {"GET"}
             S == {"cluster", "nodes", "filesystems"}
  <2>1. Gateway!r(ms, s) \in Gateway!rules
    BY DEF Gateway!ClusterRules
  <2>2. s \in Seq(S) /\ Fits(s, s) /\ "GET" \in ms
    BY DEF Fits
  <2> HIDE DEF s, ms, S
  <2> QED BY <2>1, <2>2, RulePasses DEF s
<1>2. Passes("GET", <<"jobs", "1">>)
  <2> DEFINE s == <<"jobs", "1">>
             p == <<"jobs", "*">>
             ms == {"GET"}
             S == {"jobs", "1", "*"}
  <2>1. Gateway!r(ms, p) \in Gateway!rules
    BY DEF Gateway!ClusterRules
  <2>2. p \in Seq(S) /\ s \in Seq(S) /\ Fits(p, s) /\ "GET" \in ms
    BY DEF Fits
  <2> HIDE DEF s, p, ms, S
  <2> QED BY <2>1, <2>2, RulePasses DEF s
<1>3. Passes("GET", Filesystem(d))
  <2> DEFINE ms == {"GET"}
             p == Gateway!fs(<<>>)
             s == Filesystem(d)
  <2>1. Gateway!r(ms, p) \in Gateway!rules
    BY Zenon DEF Gateway!FilesystemRules
  <2>2. "GET" \in ms
    OBVIOUS
  <2>3. PICK S, T : p \in Seq(S) /\ s \in Seq(T) /\ Fits(p, s)
    BY BelowFits
  <2> HIDE DEF s, p, ms
  <2> QED BY <2>1, <2>2, <2>3, RulePasses DEF s
<1>4. ASSUME NEW method \in {"GET", "POST"} PROVE Passes(method, Filesets(d))
  <2> DEFINE ms == {"GET", "POST"}
             p == Gateway!fs(<<"filesets">>)
             s == Filesets(d)
  <2>1. Gateway!r(ms, p) \in Gateway!rules
    BY Zenon DEF Gateway!FilesetRules
  <2>2. method \in ms
    OBVIOUS
  <2>3. PICK S, T : p \in Seq(S) /\ s \in Seq(T) /\ Fits(p, s)
    BY BelowFits DEF Filesets
  <2> HIDE DEF s, p, ms
  <2> QED BY <2>1, <2>2, <2>3, RulePasses DEF s
<1>5. ASSUME NEW method \in {"PUT", "DELETE"} PROVE Passes(method, Fileset(d, f))
  <2> DEFINE ms == {"GET", "PUT", "DELETE"}
             p == Gateway!fset(<<>>)
             s == Fileset(d, f)
  <2>1. Gateway!r(ms, p) \in Gateway!rules
    BY Zenon DEF Gateway!FilesetRules
  <2>2. method \in ms
    OBVIOUS
  <2>3. PICK S, T : p \in Seq(S) /\ s \in Seq(T) /\ Fits(p, s)
    BY BelowFits
  <2> HIDE DEF s, p, ms
  <2> QED BY <2>1, <2>2, <2>3, RulePasses DEF s
<1>6. ASSUME NEW method \in {"POST", "DELETE"} PROVE Passes(method, Fileset(d, f) \o <<"link">>)
  <2> DEFINE ms == {"POST", "DELETE"}
             p == Gateway!fset(<<"link">>)
             s == Fileset(d, f) \o <<"link">>
  <2>1. Gateway!r(ms, p) \in Gateway!rules
    BY Zenon DEF Gateway!FilesetRules
  <2>2. method \in ms
    OBVIOUS
  <2>3. PICK S, T : p \in Seq(S) /\ s \in Seq(T) /\ Fits(p, s)
    BY BelowFits
  <2> HIDE DEF s, p, ms
  <2> QED BY <2>1, <2>2, <2>3, RulePasses DEF s
<1>7. Passes("GET", Filesystem(d) \o <<"quotas">>)
  <2> DEFINE ms == {"GET", "POST"}
             p == Gateway!fs(<<"quotas">>)
             s == Filesystem(d) \o <<"quotas">>
  <2>1. Gateway!r(ms, p) \in Gateway!rules
    BY Zenon DEF Gateway!FilesystemRules
  <2>2. "GET" \in ms
    OBVIOUS
  <2>3. PICK S, T : p \in Seq(S) /\ s \in Seq(T) /\ Fits(p, s)
    BY BelowFits
  <2> HIDE DEF s, p, ms
  <2> QED BY <2>1, <2>2, <2>3, RulePasses DEF s
<1>8. Passes("GET", Fileset(d, f) \o <<"quotas">>)
  <2> DEFINE ms == {"GET", "POST"}
             p == Gateway!fset(<<"quotas">>)
             s == Fileset(d, f) \o <<"quotas">>
  <2>1. Gateway!r(ms, p) \in Gateway!rules
    BY Zenon DEF Gateway!FilesetRules
  <2>2. "GET" \in ms
    OBVIOUS
  <2>3. PICK S, T : p \in Seq(S) /\ s \in Seq(T) /\ Fits(p, s)
    BY BelowFits
  <2> HIDE DEF s, p, ms
  <2> QED BY <2>1, <2>2, <2>3, RulePasses DEF s
<1> QED BY <1>1, <1>2, <1>3, <1>4, <1>5, <1>6, <1>7, <1>8

\* A request the gateway forwards, charged to d if it changes something.
Charged(segs, d) == Len(segs) > 1 /\ segs[1] = "filesystems" /\ segs[2] = d
PassesFor(rq, d) == Passes(rq[1], rq[2]) /\ (rq[1] # "GET" => Charged(rq[2], d))

LEMMA BelowCharged ==
  ASSUME NEW d, NEW f
  PROVE  /\ Charged(Filesets(d), d) /\ Charged(Fileset(d, f) \o <<>>, d)
         /\ Charged(Fileset(d, f) \o <<"link">>, d)
         /\ Fileset(d, f) \o <<>> = Fileset(d, f)
<1> DEFINE S == {"filesystems", "filesets", "link", d, f}
           two == <<"filesystems", d>>
           fsets == <<"filesets">>
           onef == <<f>>
           none == <<>>
           link1 == <<"link">>
<1>1. two \in Seq(S) /\ fsets \in Seq(S) /\ onef \in Seq(S) /\ none \in Seq(S) /\ link1 \in Seq(S)
  OBVIOUS
<1>2. Charged(two, d)
  BY DEF Charged
<1>3. ASSUME NEW a \in Seq(S), NEW b \in Seq(S), Charged(a, d) PROVE a \o b \in Seq(S) /\ Charged(a \o b, d)
  <2>1. Len(a) > 1 /\ Len(b) \in Nat /\ Len(a) \in Nat
    BY <1>3 DEF Charged
  <2>2. Len(a \o b) > 1 /\ (a \o b)[1] = a[1] /\ (a \o b)[2] = a[2]
    BY <2>1
  <2> QED BY <1>3, <2>2 DEF Charged
<1>4. Filesets(d) = two \o fsets /\ Fileset(d, f) = Filesets(d) \o onef
  BY DEF Filesets, Fileset, Filesystem
<1> HIDE DEF S, two, fsets, onef, none, link1
<1>5. Filesets(d) \in Seq(S) /\ Charged(Filesets(d), d)
  BY <1>1, <1>2, <1>3, <1>4
<1>6. Fileset(d, f) \in Seq(S) /\ Charged(Fileset(d, f), d)
  BY <1>1, <1>3, <1>4, <1>5
<1>7. Fileset(d, f) \o none = Fileset(d, f)
  BY <1>6, ConcatEmptySeq DEF none
<1>8. Charged(Fileset(d, f) \o link1, d)
  BY <1>1, <1>3, <1>6
<1> QED BY <1>5, <1>6, <1>7, <1>8, Zenon DEF none, link1

LEMMA WritePasses ==
  ASSUME NEW d, NEW method, NEW path, Passes(method, path), Charged(path, d),
         NEW rq \in Write(method, path)
  PROVE  PassesFor(rq, d)
<1>1. CASE rq = <<method, path>>
  BY <1>1 DEF PassesFor
<1>2. CASE rq = Get(<<"jobs", "1">>)
  <2>1. rq[1] = "GET" /\ rq[2] = <<"jobs", "1">>
    BY <1>2 DEF Get
  <2> QED BY <2>1, RequestsPass, Zenon DEF PassesFor
<1> QED BY <1>1, <1>2 DEF Write

LEMMA GetPasses ==
  ASSUME NEW d, NEW path, Passes("GET", path)
  PROVE  PassesFor(Get(path), d)
<1>1. Get(path)[1] = "GET" /\ Get(path)[2] = path
  BY DEF Get
<1> QED BY <1>1, Zenon DEF PassesFor

LEMMA ChangePasses ==
  ASSUME NEW o, NEW method, NEW last,
         \A f : /\ Passes(method, Fileset(Names(o)[1], f) \o last)
                /\ Charged(Fileset(Names(o)[1], f) \o last, Names(o)[1]),
         NEW rq \in Change(o, method, last)
  PROVE  PassesFor(rq, Names(o)[1])
<1> DEFINE d == Names(o)[1]
<1>1. CASE rq \in Lookup(o)
  <2>1. rq = Get(Filesets(d))
    BY <1>1 DEF Lookup
  <2>2. Passes("GET", Filesets(d))
    BY RequestsPass
  <2> HIDE DEF d
  <2>3. PassesFor(rq, d)
    BY <2>1, <2>2, GetPasses
  <2> QED BY <2>3 DEF d
<1>2. CASE rq \in UNION {Write(method, Fileset(d, f) \o last) : f \in Found(o)}
  <2>1. PICK f \in Found(o) : rq \in Write(method, Fileset(d, f) \o last)
    BY <1>2
  <2>2. Passes(method, Fileset(d, f) \o last) /\ Charged(Fileset(d, f) \o last, d)
    OBVIOUS
  <2> DEFINE path == Fileset(d, f) \o last
  <2> HIDE DEF d, path
  <2>3. PassesFor(rq, d)
    BY <2>1, <2>2, WritePasses DEF path
  <2> QED BY <2>3 DEF d
<1> QED BY <1>1, <1>2 DEF Change

LEMMA QuotaReadsPass ==
  ASSUME NEW w, NEW d, NEW rq \in QuotaReads(w)
  PROVE  PassesFor(rq, d)
<1> DEFINE e == Parts(Colon, w)[1]
<1>1. /\ Passes("GET", Filesystem(e)) /\ Passes("GET", Filesets(e))
      /\ \A f : Passes("GET", Fileset(e, f) \o <<"quotas">>)
  BY RequestsPass
<1>2. Passes("GET", Quotas(w))
  BY RequestsPass, Zenon DEF Quotas
<1>3. CASE rq \in {Get(Filesystem(e)), Get(Filesets(e)), Get(Quotas(w))}
  BY <1>1, <1>2, <1>3, GetPasses
<1>4. CASE rq \in {Get(Fileset(e, f) \o <<"quotas">>) : f \in NamesIn(e)}
  <2>1. PICK f \in NamesIn(e) : rq = Get(Fileset(e, f) \o <<"quotas">>)
    BY <1>4
  <2> DEFINE path == Fileset(e, f) \o <<"quotas">>
  <2>2. Passes("GET", path)
    BY <1>1
  <2> HIDE DEF path
  <2>3. PassesFor(Get(path), d)
    BY <2>2, GetPasses
  <2> QED BY <2>1, <2>3, Zenon DEF path
<1> QED BY <1>3, <1>4, Zenon DEF QuotaReads

\* The requests of each command, when its line gets that far.
LEMMA RequestsOf ==
  ASSUME NEW c, NEW o, ~RefusesFirst(c, o)
  PROVE  /\ c = "mmlscluster" => Requests(c, o) = RequestsMmlscluster(o)
         /\ c = "mmlsfs" => Requests(c, o) = RequestsMmlsfs(o)
         /\ c = "mmlsfileset" => Requests(c, o) = RequestsMmlsfileset(o)
         /\ c = "mmcrfileset" => Requests(c, o) = RequestsMmcrfileset(o)
         /\ c = "mmchfileset" => Requests(c, o) = RequestsMmchfileset(o)
         /\ c = "mmdelfileset" => Requests(c, o) = RequestsMmdelfileset(o)
         /\ c = "mmlinkfileset" => Requests(c, o) = RequestsMmlinkfileset(o)
         /\ c = "mmunlinkfileset" => Requests(c, o) = RequestsMmunlinkfileset(o)
         /\ c = "mmlsquota" => Requests(c, o) = RequestsMmlsquota(o)
         /\ c = "mmrepquota" => Requests(c, o) = RequestsMmrepquota(o)
BY DEF Requests

\* A line that is refused writes nothing.
LEMMA RefusedWritesNothing ==
  ASSUME NEW c, NEW o, NEW rq \in Requests(c, o), rq[1] # "GET"
  PROVE  ~Refuses(c, o)
<1>1. ~RefusesFirst(c, o)
  BY DEF Requests
<1>2. \A path : Get(path)[1] = "GET"
  BY DEF Get
<1>3. ASSUME c = "mmchfileset" PROVE ~RefusesChange(o)
  <2>1. rq \in RequestsMmchfileset(o)
    BY <1>1, <1>3, RequestsOf
  <2>2. \A x \in Lookup(o) : x[1] = "GET"
    BY <1>2 DEF Lookup
  <2> QED BY <2>1, <2>2 DEF RequestsMmchfileset
<1>4. c # "mmlsquota"
  <2>1. SUFFICES ASSUME c = "mmlsquota" PROVE FALSE
    OBVIOUS
  <2>2. rq \in RequestsMmlsquota(o)
    BY <1>1, <2>1, RequestsOf
  <2>3. ASSUME NEW w, NEW x \in QuotaReads(w) PROVE x[1] = "GET"
    BY <1>2, <2>3 DEF QuotaReads
  <2>4. rq = Get(<<"filesystems">>) \/ \E w \in Reached(o) : rq \in QuotaReads(w)
    BY <2>2 DEF RequestsMmlsquota
  <2> QED BY <1>2, <2>3, <2>4
<1> QED BY <1>1, <1>3, <1>4 DEF Refuses, RefusesLater

LEMMA CommandsPass ==
  ASSUME NEW c, NEW o, NEW d, c \in ChangesFileset => d = Names(o)[1], NEW rq \in Requests(c, o)
  PROVE  PassesFor(rq, d)
<1> DEFINE e == Names(o)[1]
           none == <<>>
           link1 == <<"link">>
<1>1. /\ \A w \in {"cluster", "nodes", "filesystems"} : Passes("GET", <<w>>)
      /\ Passes("GET", Filesystem(e))
      /\ \A method \in {"GET", "POST"} : Passes(method, Filesets(e))
      /\ \A f : \A method \in {"PUT", "DELETE"} : Passes(method, Fileset(e, f))
      /\ \A f : \A method \in {"POST", "DELETE"} : Passes(method, Fileset(e, f) \o <<"link">>)
  BY RequestsPass
<1>2. /\ Charged(Filesets(e), e)
      /\ \A f : /\ Charged(Fileset(e, f) \o <<>>, e) /\ Charged(Fileset(e, f) \o <<"link">>, e)
                /\ Fileset(e, f) \o <<>> = Fileset(e, f)
  BY BelowCharged
<1>3. /\ \A f : \A method \in {"PUT", "DELETE"} : Passes(method, Fileset(e, f) \o none) /\ Charged(Fileset(e, f) \o none, e)
      /\ \A f : \A method \in {"POST", "DELETE"} : Passes(method, Fileset(e, f) \o link1) /\ Charged(Fileset(e, f) \o link1, e)
  BY <1>1, <1>2, Zenon DEF none, link1
<1>12. ~RefusesFirst(c, o)
  BY DEF Requests
<1>4. CASE c = "mmlscluster"
  <2>1. rq \in {Get(<<"cluster">>), Get(<<"nodes">>)}
    BY <1>4, <1>12, RequestsOf DEF RequestsMmlscluster
  <2>2. PassesFor(Get(<<"cluster">>), d) /\ PassesFor(Get(<<"nodes">>), d)
    BY <1>1, GetPasses
  <2> QED BY <2>1, <2>2
<1>5. CASE c = "mmlsfs"
  <2>1. rq = Get(<<"filesystems">>)
    BY <1>5, <1>12, RequestsOf DEF RequestsMmlsfs
  <2> QED BY <1>1, <2>1, GetPasses
<1>6. CASE c = "mmlsfileset"
  <2>1. rq = Get(Filesets(e))
    BY <1>6, <1>12, RequestsOf DEF RequestsMmlsfileset
  <2>2. Passes("GET", Filesets(e))
    BY <1>1
  <2> QED BY <2>1, <2>2, GetPasses
<1>7. CASE c = "mmcrfileset"
  <2>1. rq \in Write("POST", Filesets(e)) /\ d = e
    BY <1>7, <1>12, RequestsOf DEF RequestsMmcrfileset, ChangesFileset
  <2>2. Passes("POST", Filesets(e))
    BY <1>1
  <2> HIDE DEF e
  <2> QED BY <1>2, <2>1, <2>2, WritePasses
<1>8. CASE c \in {"mmchfileset", "mmdelfileset", "mmunlinkfileset"}
  <2>4. d = Names(o)[1]
    BY <1>8 DEF ChangesFileset
  <2>5. c = "mmchfileset" => rq \in Change(o, "PUT", none)
    BY <1>12, RequestsOf DEF RequestsMmchfileset, Change
  <2>6. /\ c = "mmdelfileset" => rq \in Change(o, "DELETE", none)
        /\ c = "mmunlinkfileset" => rq \in Change(o, "DELETE", link1)
    BY <1>12, RequestsOf DEF RequestsMmdelfileset, RequestsMmunlinkfileset
  <2>1. rq \in Change(o, "PUT", none) \cup Change(o, "DELETE", none) \cup Change(o, "DELETE", link1)
    BY <1>8, <2>5, <2>6
  <2>2. ASSUME NEW method \in {"PUT", "DELETE"}, rq \in Change(o, method, none) PROVE PassesFor(rq, Names(o)[1])
    <3> HIDE DEF none
    <3> QED BY <1>3, <2>2, ChangePasses
  <2>3. ASSUME rq \in Change(o, "DELETE", link1) PROVE PassesFor(rq, Names(o)[1])
    <3> HIDE DEF link1
    <3> QED BY <1>3, <2>3, ChangePasses
  <2> HIDE DEF none, link1
  <2> QED BY <2>1, <2>2, <2>3, <2>4
<1>9. CASE c = "mmlinkfileset"
  <2>1. d = Names(o)[1] /\ rq \in Change(o, "POST", link1) \cup {Get(Filesystem(e))}
    BY <1>9, <1>12, RequestsOf DEF RequestsMmlinkfileset, ChangesFileset
  <2>2. ASSUME rq \in Change(o, "POST", link1) PROVE PassesFor(rq, Names(o)[1])
    <3> HIDE DEF link1
    <3> QED BY <1>3, <2>2, ChangePasses
  <2>3. PassesFor(Get(Filesystem(e)), d)
    BY <1>1, GetPasses
  <2> HIDE DEF link1
  <2> QED BY <2>1, <2>2, <2>3
<1>10. CASE c \in {"mmlsquota", "mmrepquota"}
  <2>1. rq = Get(<<"filesystems">>) \/ \E w : rq \in QuotaReads(w)
    BY <1>10, <1>12, RequestsOf DEF RequestsMmlsquota, RequestsMmrepquota
  <2>2. PassesFor(Get(<<"filesystems">>), d)
    BY <1>1, GetPasses
  <2> QED BY <2>1, <2>2, QuotaReadsPass
<1>11. ASSUME c \notin {"mmlscluster", "mmlsfs", "mmlsfileset", "mmcrfileset", "mmchfileset", "mmdelfileset",
                       "mmunlinkfileset", "mmlinkfileset", "mmlsquota", "mmrepquota"}
       PROVE FALSE
  BY <1>11 DEF Requests
<1> QED BY <1>4, <1>5, <1>6, <1>7, <1>8, <1>9, <1>10, <1>11

LEMMA RequestsAllowed == Composed => WithinAllowlist
<1> DEFINE m == main(Line)
           d == MeantOperands[1].name
<1> SUFFICES ASSUME Composed, m.does = "run", NEW rq \in Requests(cmd, m)
             PROVE  LET path == [root |-> "v2", segs |-> rq[2]] IN
                    /\ Gateway!allows({}, rq[1], path) <=> Range(rq[2]) \cap Gateway!Unresolved = {}
                    /\ rq[1] # "GET" => Gateway!extractFS(path) = d /\ ~Refuses(cmd, m)
  BY Zenon DEF WithinAllowlist
<1>1. /\ m.operands = MeantOperands
      /\ DOMAIN MeantOperands = 1..Len(MeantOperands) /\ Len(MeantOperands) \in Nat
      /\ Names(m) = [i \in DOMAIN MeantOperands |-> MeantOperands[i].name]
  BY RunLine, OperandsNamed
<1> HIDE DEF m
<1>2. ASSUME cmd \in ChangesFileset PROVE d = Names(m)[1]
  <2>1. Len(m.operands) # 0
    <3>4. ~RefusesFirst(cmd, m)
      BY DEF Requests
    <3>1. cmd = "mmcrfileset" => ~(Len(m.operands) < 2)
      BY <3>4 DEF RefusesFirst, RefusesMmcrfileset
    <3>2. cmd \in ChangesFileset /\ cmd # "mmcrfileset" => ~RefusesNames(m)
      BY <3>4 DEF RefusesFirst, ChangesFileset
    <3>3. ~RefusesNames(m) => ~(Len(m.operands) = 0)
      BY Zenon DEF RefusesNames
    <3> QED BY <1>1, <1>2, <3>1, <3>2, <3>3
  <2>2. 1 \in DOMAIN MeantOperands
    BY <1>1, <2>1
  <2> QED BY <1>1, <2>2
<1> HIDE DEF d
<1>3. PassesFor(rq, d)
  BY <1>2, CommandsPass
<1>4. ASSUME Charged(rq[2], d) PROVE Gateway!extractFS([root |-> "v2", segs |-> rq[2]]) = d
  <2> DEFINE path == [root |-> "v2", segs |-> rq[2]]
  <2>1. path.root = "v2" /\ path.segs = rq[2]
    OBVIOUS
  <2> HIDE DEF path
  <2>2. Gateway!extractFS(path) = path.segs[2]
    BY <1>4, <2>1, Zenon DEF Gateway!extractFS, Charged
  <2> QED BY <1>4, <2>1, <2>2, Zenon DEF Charged, path
<1>5. rq[1] # "GET" => ~Refuses(cmd, m)
  BY RefusedWritesNothing
<1> QED BY <1>3, <1>4, <1>5, Zenon DEF PassesFor, Passes

\* Whatever is named on a line and in the answers of the GUI, the gateway
\* forwards the requests of a line, also of one that is refused once something
\* has been read; and what they change is charged to the file system the line
\* names, and only when the line is not refused (policy.go:42-67).
THEOREM RequestsAreAllowed == Spec => []WithinAllowlist
<1> QED BY LinesUnderstood, RequestsAllowed, PTL

-----------------------------------------------------------------------------
(* What sequences put together have, and in which order *)

\* Of two places in the whole, the first comes from an earlier part or from
\* an earlier place of the same part.
InPlace(t, parts, n) ==
  \A x, y \in DOMAIN t : x < y =>
    \E p, q \in 1..n : \E k \in DOMAIN parts[p], l \in DOMAIN parts[q] :
      /\ t[x] = parts[p][k] /\ t[y] = parts[q][l]
      /\ p < q \/ (p = q /\ k < l)

PutTogether(t, parts, n) ==
  /\ Range(t) = UNION {Range(parts[i]) : i \in 1..n}
  /\ InPlace(t, parts, n)

LEMMA OneMore ==
  ASSUME NEW S, NEW parts, NEW n \in Nat \ {0}, \A i \in 1..n : parts[i] \in Seq(S),
         NEW t \in Seq(S), PutTogether(t, parts, n - 1)
  PROVE  t \o parts[n] \in Seq(S) /\ PutTogether(t \o parts[n], parts, n)
<1> DEFINE s == parts[n]
           u == t \o s
<1>1. n \in 1..n /\ s \in Seq(S) /\ \A i \in 1..(n - 1) : i \in 1..n /\ i < n
  OBVIOUS
<1>2. /\ Len(t) \in Nat /\ Len(s) \in Nat /\ DOMAIN t = 1..Len(t) /\ DOMAIN s = 1..Len(s)
      /\ u \in Seq(S) /\ DOMAIN u = 1..(Len(t) + Len(s))
      /\ \A x \in 1..(Len(t) + Len(s)) : u[x] = IF x <= Len(t) THEN t[x] ELSE s[x - Len(t)]
  BY <1>1, ConcatProperties
<1>3. Range(u) = Range(t) \cup Range(s)
  BY <1>1, RangeConcatenation
<1>4. Range(u) = UNION {Range(parts[i]) : i \in 1..n}
  <2>1. 1..n = 1..(n - 1) \cup {n}
    OBVIOUS
  <2>2. UNION {Range(parts[i]) : i \in 1..n} = (UNION {Range(parts[i]) : i \in 1..(n - 1)}) \cup Range(s)
    <3> DEFINE P == {Range(parts[i]) : i \in 1..n}
               Q == {Range(parts[i]) : i \in 1..(n - 1)}
    <3>1. P = Q \cup {Range(s)}
      BY <2>1
    <3> HIDE DEF P, Q
    <3>2. UNION P = (UNION Q) \cup Range(s)
      BY <3>1
    <3> QED BY <3>2 DEF P, Q
  <2> QED BY <1>3, <2>2 DEF PutTogether
<1> HIDE DEF u
<1>5. ASSUME NEW x \in DOMAIN u, NEW y \in DOMAIN u, x < y
      PROVE  \E p, q \in 1..n : \E k \in DOMAIN parts[p], l \in DOMAIN parts[q] :
               /\ u[x] = parts[p][k] /\ u[y] = parts[q][l]
               /\ p < q \/ (p = q /\ k < l)
  <2>1. CASE y <= Len(t)
    <3>1. x \in DOMAIN t /\ y \in DOMAIN t /\ u[x] = t[x] /\ u[y] = t[y]
      BY <1>2, <1>5, <2>1
    <3>2. PICK p \in 1..(n - 1), q \in 1..(n - 1) : \E k \in DOMAIN parts[p], l \in DOMAIN parts[q] :
            /\ t[x] = parts[p][k] /\ t[y] = parts[q][l]
            /\ p < q \/ (p = q /\ k < l)
      BY <1>5, <3>1 DEF PutTogether, InPlace
    <3>3. p \in 1..n /\ q \in 1..n
      BY <1>1
    <3> QED BY <3>1, <3>2, <3>3
  <2>2. CASE x <= Len(t) /\ ~(y <= Len(t))
    <3>1. x \in DOMAIN t /\ y - Len(t) \in DOMAIN s /\ u[x] = t[x] /\ u[y] = s[y - Len(t)]
      BY <1>2, <1>5, <2>2
    <3>2. t[x] \in UNION {Range(parts[i]) : i \in 1..(n - 1)}
      BY <3>1 DEF PutTogether, Range
    <3>3. PICK p \in 1..(n - 1) : t[x] \in Range(parts[p])
      BY <3>2
    <3>4. PICK k \in DOMAIN parts[p] : t[x] = parts[p][k]
      BY <3>3 DEF Range
    <3>5. p \in 1..n /\ p < n
      BY <1>1
    <3> QED BY <1>1, <3>1, <3>4, <3>5
  <2>3. CASE ~(x <= Len(t)) /\ ~(y <= Len(t))
    <3>1. /\ x - Len(t) \in DOMAIN s /\ y - Len(t) \in DOMAIN s /\ x - Len(t) < y - Len(t)
          /\ u[x] = s[x - Len(t)] /\ u[y] = s[y - Len(t)]
      BY <1>2, <1>5, <2>3
    <3> QED BY <1>1, <3>1
  <2> QED BY <1>2, <1>5, <2>1, <2>2, <2>3
<1>6. InPlace(u, parts, n)
  BY <1>5 DEF InPlace
<1> QED BY <1>2, <1>4, <1>6 DEF PutTogether, u

LEMMA FlatPlaces ==
  ASSUME NEW S, NEW parts, Len(parts) \in Nat, \A i \in 1..Len(parts) : parts[i] \in Seq(S)
  PROVE  Flat(parts) \in Seq(S) /\ PutTogether(Flat(parts), parts, Len(parts))
<1> DEFINE m == Len(parts)
<1>1. PICK f : Unrolls(f, parts) /\ Flat(parts) = f[m]
  BY FlatUnrolls
<1>2. f[0] = <<>> /\ \A i \in 1..m : f[i] = f[i - 1] \o parts[i]
  BY <1>1 DEF Unrolls
<1> DEFINE Fine == {n \in 0..m : f[n] \in Seq(S) /\ PutTogether(f[n], parts, n)}
<1>3. 0 \in Fine
  <2>1. <<>> \in Seq(S) /\ Range(<<>>) = {} /\ DOMAIN <<>> = {} /\ 1..0 = {} /\ 0 \in 0..m
    BY DEF Range
  <2>2. PutTogether(<<>>, parts, 0)
    BY <2>1 DEF PutTogether, InPlace
  <2> QED BY <1>2, <2>1, <2>2
<1>4. ASSUME NEW n \in 1..m, n - 1 \in Fine PROVE n \in Fine
  <2>1. /\ n \in Nat \ {0} /\ n \in 0..m /\ \A i \in 1..n : i \in 1..m
        /\ f[n - 1] \in Seq(S) /\ PutTogether(f[n - 1], parts, n - 1)
    BY <1>4
  <2>2. \A i \in 1..n : parts[i] \in Seq(S)
    BY <2>1
  <2>3. f[n - 1] \o parts[n] \in Seq(S) /\ PutTogether(f[n - 1] \o parts[n], parts, n)
    BY <2>1, <2>2, OneMore
  <2> QED BY <1>2, <2>1, <2>3
<1>5. m \in Nat /\ m \in 0..m
  OBVIOUS
<1>6. 0..m \subseteq Fine
  <2> HIDE DEF Fine, m
  <2> QED BY <1>3, <1>4, <1>5, InductionUpto
<1>7. m \in Fine
  BY <1>5, <1>6
<1> QED BY <1>1, <1>7

\* What of a sequence is in a set, in its order.
KeptInOrder(t, s) ==
  \A x, y \in DOMAIN t : x < y => \E p, q \in DOMAIN s : p < q /\ t[x] = s[p] /\ t[y] = s[q]

LEMMA WherePlaces ==
  ASSUME NEW S, NEW s \in Seq(S), NEW T
  PROVE  /\ Where(s, T) \in Seq(S)
         /\ Range(Where(s, T)) = Range(s) \cap T
         /\ KeptInOrder(Where(s, T), s)
<1> DEFINE parts == [i \in DOMAIN s |-> IF s[i] \in T THEN <<s[i]>> ELSE <<>>]
           n == Len(s)
           t == Where(s, T)
<1>1. n \in Nat /\ DOMAIN s = 1..n /\ DOMAIN parts = 1..n /\ Len(parts) = n
  OBVIOUS
<1>2. \A i \in 1..n : s[i] \in S /\ parts[i] = IF s[i] \in T THEN <<s[i]>> ELSE <<>>
  BY <1>1
<1>3. t = Flat(parts)
  BY DEF Where
<1> HIDE DEF parts, t
<1>4. \A i \in 1..n : /\ parts[i] \in Seq(S)
                      /\ Range(parts[i]) = IF s[i] \in T THEN {s[i]} ELSE {}
                      /\ DOMAIN parts[i] \subseteq {1}
                      /\ \A k \in DOMAIN parts[i] : parts[i][k] = s[i]
  <2> SUFFICES ASSUME NEW i \in 1..n
               PROVE  /\ parts[i] \in Seq(S)
                      /\ Range(parts[i]) = IF s[i] \in T THEN {s[i]} ELSE {}
                      /\ DOMAIN parts[i] \subseteq {1}
                      /\ \A k \in DOMAIN parts[i] : parts[i][k] = s[i]
    OBVIOUS
  <2>1. CASE s[i] \in T
    <3>1. parts[i] = <<s[i]>> /\ s[i] \in S
      BY <1>2, <2>1
    <3> DEFINE e == s[i]
               one == <<e>>
    <3>2. one \in Seq(S) /\ DOMAIN one = {1} /\ one[1] = e /\ Range(one) = {e}
      BY <3>1 DEF Range
    <3> QED BY <2>1, <3>1, <3>2
  <2>2. CASE s[i] \notin T
    <3>1. parts[i] = <<>>
      BY <1>2, <2>2
    <3>2. <<>> \in Seq(S) /\ DOMAIN <<>> = {} /\ Range(<<>>) = {}
      BY DEF Range
    <3> QED BY <2>2, <3>1, <3>2
  <2> QED BY <2>1, <2>2
<1>5. t \in Seq(S) /\ PutTogether(t, parts, n)
  BY <1>1, <1>3, <1>4, FlatPlaces
<1>6. Range(t) = Range(s) \cap T
  <2>1. \A z : z \in Range(s) <=> \E i \in 1..n : z = s[i]
    BY <1>1 DEF Range
  <2>2. Range(t) = UNION {Range(parts[i]) : i \in 1..n}
    BY <1>5 DEF PutTogether
  <2>3. \A z : z \in Range(t) <=> \E i \in 1..n : z \in Range(parts[i])
    BY <2>2
  <2>4. ASSUME NEW i \in 1..n, NEW z PROVE z \in Range(parts[i]) <=> (s[i] \in T /\ z = s[i])
    <3>1. Range(parts[i]) = IF s[i] \in T THEN {s[i]} ELSE {}
      BY <1>4
    <3> QED BY <3>1, Zenon
  <2>5. \A z : z \in Range(t) <=> (z \in Range(s) /\ z \in T)
    <3> SUFFICES ASSUME NEW z PROVE z \in Range(t) <=> (z \in Range(s) /\ z \in T)
      OBVIOUS
    <3>1. ASSUME z \in Range(t) PROVE z \in Range(s) /\ z \in T
      <4>1. PICK i \in 1..n : z \in Range(parts[i])
        BY <2>3, <3>1
      <4>2. s[i] \in T /\ z = s[i]
        BY <2>4, <4>1
      <4> QED BY <2>1, <4>2
    <3>2. ASSUME z \in Range(s), z \in T PROVE z \in Range(t)
      <4>1. PICK i \in 1..n : z = s[i]
        BY <2>1, <3>2
      <4>2. z \in Range(parts[i])
        BY <2>4, <3>2, <4>1
      <4> QED BY <2>3, <4>2
    <3> QED BY <3>1, <3>2
  <2> DEFINE A == Range(t)
             B == Range(s)
  <2> HIDE DEF A, B
  <2>6. A = B \cap T
    BY <2>5 DEF A, B
  <2> QED BY <2>6 DEF A, B
<1>7. ASSUME NEW x \in DOMAIN t, NEW y \in DOMAIN t, x < y
      PROVE  \E p, q \in DOMAIN s : p < q /\ t[x] = s[p] /\ t[y] = s[q]
  <2>1. PICK p \in 1..n, q \in 1..n : \E k \in DOMAIN parts[p], l \in DOMAIN parts[q] :
          /\ t[x] = parts[p][k] /\ t[y] = parts[q][l]
          /\ p < q \/ (p = q /\ k < l)
    BY <1>5, <1>7 DEF PutTogether, InPlace
  <2>2. PICK k \in DOMAIN parts[p], l \in DOMAIN parts[q] :
          /\ t[x] = parts[p][k] /\ t[y] = parts[q][l]
          /\ p < q \/ (p = q /\ k < l)
    BY <2>1
  <2>3. k = 1 /\ l = 1 /\ t[x] = s[p] /\ t[y] = s[q]
    BY <1>4, <2>2
  <2> QED BY <1>1, <2>2, <2>3
<1>8. KeptInOrder(t, s)
  <2> HIDE DEF t
  <2> QED BY <1>7 DEF KeptInOrder
<1> QED BY <1>5, <1>6, <1>8 DEF t

\* The names an operand lists, and those of all operands.
LEMMA ListsSplit ==
  ASSUME NEW w
  PROVE  splitList(w) \in Seq(STRING \cup {w})
<1>1. CASE w \in DOMAIN Comma
  <2>1. Comma[w] \in Seq(STRING) /\ Parts(Comma, w) = Comma[w]
    BY <1>1, CutsAssumption DEF Parts
  <2>2. Comma[w] \in Seq(STRING \cup {w})
    BY <2>1
  <2> QED BY <2>1, <2>2, WherePlaces DEF splitList
<1>2. CASE w \notin DOMAIN Comma
  <2>1. <<w>> \in Seq(STRING \cup {w}) /\ Parts(Comma, w) = <<w>>
    BY <1>2 DEF Parts
  <2> QED BY <2>1, WherePlaces DEF splitList
<1> QED BY <1>1, <1>2

LEMMA NamesSplit ==
  ASSUME NEW names, NEW n \in Nat, DOMAIN names = 1..n
  PROVE  /\ \E S : SplitNames(names) \in Seq(S)
         /\ Range(SplitNames(names)) = UNION {Range(splitList(names[i])) : i \in 1..n}
<1> DEFINE parts == [i \in DOMAIN names |-> splitList(names[i])]
           S == STRING \cup {names[i] : i \in 1..n}
<1>1. DOMAIN parts = 1..n /\ Len(parts) = n
  OBVIOUS
<1>2. ASSUME NEW i \in 1..n PROVE parts[i] = splitList(names[i]) /\ parts[i] \in Seq(S)
  <2>1. splitList(names[i]) \in Seq(STRING \cup {names[i]})
    BY ListsSplit
  <2>2. STRING \cup {names[i]} \subseteq S
    OBVIOUS
  <2> HIDE DEF S
  <2> QED BY <2>1, <2>2
<1> HIDE DEF parts, S
<1>3. Flat(parts) \in Seq(S) /\ PutTogether(Flat(parts), parts, n)
  BY <1>1, <1>2, FlatPlaces
<1>4. UNION {Range(parts[i]) : i \in 1..n} = UNION {Range(splitList(names[i])) : i \in 1..n}
  BY <1>2
<1>5. SplitNames(names) = Flat(parts)
  BY DEF SplitNames, parts
<1> QED BY <1>3, <1>4, <1>5 DEF PutTogether

\* A finite set listed has what is in it.
LEMMA SetListed ==
  ASSUME NEW S, IsFiniteSet(S)
  PROVE  SetToSeq(S) \in Seq(S) /\ Range(SetToSeq(S)) = S
<1> DEFINE n == Cardinality(S)
           t == SetToSeq(S)
<1>1. n \in Nat /\ ExistsBijection(1..n, S)
  BY FS_CardinalityType
<1>2. \E f \in [1..n -> S] : IsInjective(f)
  BY <1>1 DEF ExistsBijection, Bijection, Injection
<1>3. t \in [1..n -> S] /\ IsInjective(t)
  BY <1>2 DEF SetToSeq
<1> HIDE DEF t
<1>4. t \in Injection(1..n, S)
  BY <1>3 DEF Injection
<1>5. Cardinality(1..n) = n /\ IsFiniteSet(1..n)
  <2>1. 1 \in Int /\ n \in Int /\ ~(1 > n) => n - 1 + 1 = n
    BY <1>1
  <2>2. 1 > n => n = 0
    BY <1>1
  <2> HIDE DEF n
  <2> QED BY <1>1, <2>1, <2>2, FS_Interval
<1>6. t \in Surjection(1..n, S)
  <2> HIDE DEF n
  <2> QED BY <1>4, <1>5, FS_Injection DEF n
<1>7. Range(t) = S
  BY <1>3, <1>6 DEF Surjection, Range
<1>8. t \in Seq(S)
  BY <1>1, <1>3
<1> QED BY <1>7, <1>8 DEF t

-----------------------------------------------------------------------------
(* Operands and what becomes of them *)

\* The paths name what they are about.
LEMMA PathNames ==
  ASSUME NEW d, NEW f, NEW w
  PROVE  /\ d \in Range(Filesystem(d) \o <<w>>)
         /\ d \in Range(Filesets(d))
         /\ d \in Range(Fileset(d, f) \o <<>>) /\ f \in Range(Fileset(d, f) \o <<>>)
         /\ d \in Range(Fileset(d, f) \o <<w>>) /\ f \in Range(Fileset(d, f) \o <<w>>)
<1> DEFINE S == {"filesystems", "filesets", d, f, w}
           two == <<"filesystems", d>>
           fsets == <<"filesets">>
           onef == <<f>>
           none == <<>>
           onew == <<w>>
<1>1. two \in Seq(S) /\ fsets \in Seq(S) /\ onef \in Seq(S) /\ none \in Seq(S) /\ onew \in Seq(S)
  OBVIOUS
<1>2. d \in Range(two) /\ f \in Range(onef)
  <2>1. 2 \in DOMAIN two /\ two[2] = d /\ 1 \in DOMAIN onef /\ onef[1] = f
    OBVIOUS
  <2> HIDE DEF two, onef
  <2> QED BY <2>1 DEF Range
<1>3. Filesystem(d) = two /\ Filesets(d) = two \o fsets /\ Fileset(d, f) = Filesets(d) \o onef
  BY DEF Filesets, Fileset, Filesystem
<1> HIDE DEF S, two, fsets, onef, none, onew
<1>4. ASSUME NEW a \in Seq(S), NEW b \in Seq(S) PROVE a \o b \in Seq(S) /\ Range(a \o b) = Range(a) \cup Range(b)
  BY ConcatProperties, RangeConcatenation
<1>5. d \in Range(Filesystem(d) \o onew) /\ Filesets(d) \in Seq(S) /\ d \in Range(Filesets(d))
  BY <1>1, <1>2, <1>3, <1>4
<1>6. Fileset(d, f) \in Seq(S) /\ d \in Range(Fileset(d, f)) /\ f \in Range(Fileset(d, f))
  <2>1. /\ Filesets(d) \o onef \in Seq(S)
        /\ Range(Filesets(d) \o onef) = Range(Filesets(d)) \cup Range(onef)
    BY <1>1, <1>4, <1>5
  <2>2. d \in Range(Filesets(d) \o onef) /\ f \in Range(Filesets(d) \o onef)
    BY <1>2, <1>5, <2>1
  <2> QED BY <1>3, <2>1, <2>2, Zenon
<1>7. /\ d \in Range(Fileset(d, f) \o none) /\ f \in Range(Fileset(d, f) \o none)
      /\ d \in Range(Fileset(d, f) \o onew) /\ f \in Range(Fileset(d, f) \o onew)
  BY <1>1, <1>4, <1>6
<1> QED BY <1>5, <1>7, Zenon DEF none, onew

\* The quota request of a target names both of its parts.
LEMMA TargetNamed ==
  ASSUME NEW w
  PROVE  Range(Parts(Colon, w)) \subseteq Range(Quotas(w))
<1>1. CASE w \in DOMAIN Colon
  <2> DEFINE d == Colon[w][1]
             f == Colon[w][2]
  <2>1. Colon[w] \in STRING \X STRING /\ Parts(Colon, w) = Colon[w]
    BY <1>1, CutsAssumption DEF Parts
  <2>2. Len(Colon[w]) = 2 /\ Range(Colon[w]) = {d, f}
    BY <2>1 DEF Range
  <2>3. Quotas(w) = Fileset(d, f) \o <<"quotas">>
    BY <2>1, <2>2 DEF Quotas, InFileset
  <2> HIDE DEF d, f
  <2> QED BY <2>1, <2>2, <2>3, PathNames
<1>2. CASE w \notin DOMAIN Colon
  <2>1. Parts(Colon, w) = <<w>>
    BY <1>2 DEF Parts
  <2>2. Len(<<w>>) = 1 /\ Range(<<w>>) = {w}
    BY DEF Range
  <2>3. Quotas(w) = Filesystem(w) \o <<"quotas">>
    BY <2>1, <2>2 DEF Quotas, InFileset
  <2> QED BY <2>1, <2>2, <2>3, PathNames
<1> QED BY <1>1, <1>2

\* The parts a command puts names together from are in what it comes to.
LEMMA NamesIncluded ==
  ASSUME NEW names, NEW n \in Nat, DOMAIN names = 1..n, NEW i \in 1..n
  PROVE  Range(splitList(names[i])) \subseteq Range(SplitNames(names))
<1> DEFINE P == [j \in 1..n |-> Range(splitList(names[j]))]
<1>1. Range(SplitNames(names)) = UNION {P[j] : j \in 1..n}
  BY NamesSplit
<1>2. P[i] = Range(splitList(names[i]))
  OBVIOUS
<1> HIDE DEF P
<1> QED BY <1>1, <1>2

\* The file systems mmlsfs shows are those its operands name.
LEMMA FilesystemsNamed ==
  ASSUME NEW o, NEW n \in Nat, DOMAIN Names(o) = 1..n, FilesystemsShown(o) # Unknown, NEW i \in 1..n
  PROVE  (IF Names(o)[i] \in {"all", "all_local"} THEN DOMAIN Gui ELSE {Names(o)[i]})
           \subseteq Range(FilesystemsShown(o))
<1> DEFINE names == Names(o)
           all == SetToSeq(DOMAIN Gui)
           S == DOMAIN Gui \cup {names[j] : j \in 1..n}
           parts == [j \in DOMAIN names |-> IF names[j] \in {"all", "all_local"} THEN all ELSE <<names[j]>>]
<1>1. FilesystemsShown(o) = Flat(parts)
  BY DEF FilesystemsShown
<1>2. all \in Seq(DOMAIN Gui) /\ Range(all) = DOMAIN Gui
  BY GuiAssumption, SetListed
<1>3. DOMAIN parts = 1..n /\ Len(parts) = n
  OBVIOUS
<1>4. ASSUME NEW j \in 1..n
      PROVE  /\ parts[j] \in Seq(S)
             /\ Range(parts[j]) = IF names[j] \in {"all", "all_local"} THEN DOMAIN Gui ELSE {names[j]}
  <2>1. CASE names[j] \in {"all", "all_local"}
    <3>1. parts[j] = all
      BY <2>1
    <3>2. DOMAIN Gui \subseteq S
      OBVIOUS
    <3> HIDE DEF parts, all, S
    <3> QED BY <1>2, <2>1, <3>1, <3>2
  <2>2. CASE names[j] \notin {"all", "all_local"}
    <3>1. parts[j] = <<names[j]>> /\ names[j] \in S
      BY <2>2
    <3>2. Range(<<names[j]>>) = {names[j]}
      BY DEF Range
    <3> HIDE DEF parts, S
    <3> QED BY <2>2, <3>1, <3>2
  <2> QED BY <2>1, <2>2
<1> HIDE DEF parts, S
<1>5. PutTogether(Flat(parts), parts, n)
  BY <1>3, <1>4, FlatPlaces
<1>6. Range(parts[i]) \subseteq Range(Flat(parts))
  BY <1>5 DEF PutTogether
<1>7. Range(parts[i]) = IF names[i] \in {"all", "all_local"} THEN DOMAIN Gui ELSE {names[i]}
  BY <1>4
<1> QED BY <1>1, <1>6, <1>7, Zenon DEF names

\* The filesets mmlsfileset shows have the names it was asked for.
LEMMA FilesetsNamed ==
  ASSUME NEW o, FilesetsShown(o) # Unknown, NEW x, x \in Range(SplitNames(Tail(Names(o))))
  PROVE  x \in {f.name : f \in Range(FilesetsShown(o))}
<1> DEFINE all == Gui[Names(o)[1]]
           asked == SplitNames(Tail(Names(o)))
           byName(n) == CHOOSE f \in Range(all) : f.name = n
           shown == [i \in DOMAIN asked |-> byName(asked[i])]
<1>1. PICK i \in DOMAIN asked : x = asked[i]
  BY DEF Range
<1>2. asked # <<>>
  BY <1>1
<1>3. /\ ~(\E n \in Range(asked) : n \notin {f.name : f \in Range(all)})
      /\ FilesetsShown(o) = shown
  BY <1>2, Zenon DEF FilesetsShown
<1>4. PICK f \in Range(all) : f.name = x
  BY <1>3
<1>5. byName(x) \in Range(all) /\ byName(x).name = x
  BY <1>4, Zenon
<1>6. DOMAIN shown = DOMAIN asked /\ shown[i] = byName(x)
  BY <1>1
<1> HIDE DEF shown, all, asked
<1>7. byName(x) \in Range(shown)
  BY <1>1, <1>6 DEF Range
<1> QED BY <1>3, <1>5, <1>7

\* What a request names.
NamedBy(requests) == UNION {Range(rq[2]) : rq \in requests}

LEMMA RequestNames ==
  ASSUME NEW R, NEW method, NEW path, <<method, path>> \in R
  PROVE  Range(path) \subseteq NamedBy(R)
<1>1. <<method, path>>[2] = path
  OBVIOUS
<1> DEFINE rq == <<method, path>>
<1>2. rq \in R /\ rq[2] = path
  BY <1>1
<1> HIDE DEF rq
<1> QED BY <1>2 DEF NamedBy

\* A change of a fileset names the file system, and the fileset too when the
\* line does.
LEMMA ChangeNames ==
  ASSUME NEW o, NEW method, NEW last \in {<<>>, <<"link">>}, Len(o.operands) \in Nat \ {0},
         NEW R, Change(o, method, last) \subseteq R
  PROVE  /\ Names(o)[1] \in NamedBy(R)
         /\ Len(o.operands) > 1 => Names(o)[2] \in NamedBy(R)
<1> DEFINE d == Names(o)[1]
           f == Names(o)[2]
           path == Fileset(d, f) \o last
<1>1. CASE Len(o.operands) > 1
  <2>1. Found(o) = {f}
    BY <1>1 DEF Found
  <2>2. <<method, path>> \in Write(method, path)
    BY DEF Write
  <2>3. Change(o, method, last) = Lookup(o) \cup UNION {Write(method, Fileset(d, g) \o last) : g \in {f}}
    BY <2>1 DEF Change
  <2>4. Write(method, path) \subseteq Change(o, method, last)
    <3> HIDE DEF d, f
    <3> QED BY <2>3
  <2>5. d \in Range(path) /\ f \in Range(path)
    BY PathNames
  <2> HIDE DEF d, f, path
  <2>6. Range(path) \subseteq NamedBy(R)
    BY <2>2, <2>4, RequestNames
  <2> QED BY <2>5, <2>6 DEF d, f
<1>2. CASE ~(Len(o.operands) > 1)
  <2>1. Get(Filesets(d)) \in Change(o, method, last)
    BY <1>2, Zenon DEF Lookup, Change
  <2>2. <<"GET", Filesets(d)>> \in R
    BY <2>1 DEF Get
  <2> HIDE DEF d
  <2>3. Range(Filesets(d)) \subseteq NamedBy(R)
    BY <2>2, RequestNames
  <2>4. d \in Range(Filesets(d))
    BY PathNames
  <2> QED BY <1>2, <2>3, <2>4 DEF d
<1> QED BY <1>1, <1>2

\* The requests of a command that changes a fileset, or asks for quotas or for
\* filesets, name what its operands do.
LEMMA ChangersName ==
  ASSUME NEW c \in ChangesFileset, NEW o, Len(o.operands) \in Nat \ {0}, ~Refuses(c, o)
  PROVE  /\ Names(o)[1] \in NamedBy(Requests(c, o))
         /\ c # "mmcrfileset" /\ Len(o.operands) > 1 => Names(o)[2] \in NamedBy(Requests(c, o))
<1> DEFINE R == Requests(c, o)
           d == Names(o)[1]
<1>3. ~RefusesFirst(c, o) /\ ~RefusesLater(c, o)
  BY DEF Refuses
<1>1. CASE c = "mmcrfileset"
  <2>1. <<"POST", Filesets(d)>> \in R
    BY <1>1, <1>3, RequestsOf DEF RequestsMmcrfileset, Write
  <2> HIDE DEF d, R
  <2>2. d \in Range(Filesets(d)) /\ Range(Filesets(d)) \subseteq NamedBy(R)
    BY <2>1, PathNames, RequestNames
  <2> QED BY <1>1, <2>2 DEF d, R
<1>2. CASE c # "mmcrfileset"
  <2> DEFINE Some(method, last) == last \in {<<>>, <<"link">>} /\ Change(o, method, last) \subseteq R
  <2>1. \E method, last : Some(method, last)
    <3>1. c = "mmchfileset" => Some("PUT", <<>>)
      BY <1>3, RequestsOf DEF RequestsMmchfileset, RefusesLater
    <3>2. c = "mmdelfileset" => Some("DELETE", <<>>)
      BY <1>3, RequestsOf DEF RequestsMmdelfileset
    <3>3. c = "mmlinkfileset" => Some("POST", <<"link">>)
      BY <1>3, RequestsOf DEF RequestsMmlinkfileset
    <3>4. c = "mmunlinkfileset" => Some("DELETE", <<"link">>)
      BY <1>3, RequestsOf DEF RequestsMmunlinkfileset
    <3>5. c \in {"mmchfileset", "mmdelfileset", "mmlinkfileset", "mmunlinkfileset"}
      BY <1>2 DEF ChangesFileset
    <3> HIDE DEF Some
    <3> QED BY <3>1, <3>2, <3>3, <3>4, <3>5
  <2>2. PICK method, last : Some(method, last)
    BY <2>1
  <2> HIDE DEF R
  <2>3. /\ Names(o)[1] \in NamedBy(R)
        /\ Len(o.operands) > 1 => Names(o)[2] \in NamedBy(R)
    BY <2>2, ChangeNames
  <2> QED BY <2>3 DEF R
<1> QED BY <1>1, <1>2

LEMMA QuotasName ==
  ASSUME NEW c \in {"mmlsquota", "mmrepquota"}, NEW o, NEW w \in Targets(o), o.operands # <<>>,
         ~Refuses(c, o)
  PROVE  Range(Parts(Colon, w)) \subseteq NamedBy(Requests(c, o))
<1> DEFINE R == Requests(c, o)
<1>1. w \in QuotaTargets(o)
  BY Zenon DEF QuotaTargets
<1>2. Get(Quotas(w)) \in QuotaReads(w)
  BY DEF QuotaReads
<1>3. R = {Get(<<"filesystems">>)} \cup UNION {QuotaReads(x) : x \in QuotaTargets(o)}
  <2>1. ~RefusesFirst(c, o) /\ ~RefusesLater(c, o)
    BY DEF Refuses
  <2>2. c = "mmlsquota" => Reached(o) = QuotaTargets(o)
    BY <2>1 DEF RefusesLater, Reached
  <2> QED BY <2>1, <2>2, RequestsOf DEF RequestsMmlsquota, RequestsMmrepquota
<1> HIDE DEF R
<1>4. Get(Quotas(w)) \in R
  BY <1>1, <1>2, <1>3
<1>5. <<"GET", Quotas(w)>> \in R
  BY <1>4 DEF Get
<1>6. Range(Quotas(w)) \subseteq NamedBy(R)
  BY <1>5, RequestNames
<1> QED BY <1>6, TargetNamed DEF R

LEMMA OperandsKept == Composed => OperandsHeeded
<1> DEFINE m == main(Line)
           n == Len(MeantOperands)
           taken == IF cmd = "mmdeltoken" THEN 1 ELSE IF cmd \in ChangesFileset THEN 2 ELSE n
<1> SUFFICES ASSUME Composed, m.does = "run", ~Refuses(cmd, m), NEW i \in DOMAIN MeantOperands, i <= taken
             PROVE  Named(m, i) \subseteq Heeded(m)
  BY Zenon DEF OperandsHeeded, Runs
<1>1. /\ m.operands = MeantOperands /\ cmd \in CommandName \ {"mmsetquota"}
      /\ DOMAIN MeantOperands = 1..n /\ n \in Nat
      /\ Names(m) = [j \in DOMAIN MeantOperands |-> MeantOperands[j].name]
      /\ Targets(m) = {MeantOperands[j].name : j \in DOMAIN MeantOperands}
  BY RunLine, OperandsNamed
<1> DEFINE w == MeantOperands[i].name
           R == Requests(cmd, m)
<1> HIDE DEF m
<1>2. /\ DOMAIN Names(m) = 1..n /\ Names(m)[i] = w /\ w \in Targets(m)
      /\ i \in 1..n /\ n \in Nat \ {0} /\ m.operands # <<>> /\ Len(m.operands) = n
  BY <1>1
<1> HIDE DEF n, w
<1>3. NamedBy(R) \subseteq Heeded(m)
  <2>1. Heeded(m) = NamedBy(R) \cup (IF cmd = "mmcrtoken" THEN Range(CreatesFor(m))
         ELSE IF cmd = "mmcrfileset" THEN {NewFileset(m)}
         ELSE IF cmd = "mmdeltoken" THEN {Deletes(m)}
         ELSE IF cmd = "mmlsfs"
         THEN Range(IF FilesystemsShown(m) = Unknown THEN Names(m) ELSE FilesystemsShown(m))
         ELSE IF cmd # "mmlsfileset" THEN {}
         ELSE IF Names(m)[1] \notin DOMAIN Gui \/ FilesetsShown(m) = Unknown
         THEN Range(SplitNames(Tail(Names(m))))
         ELSE {f.name : f \in Range(FilesetsShown(m))})
    BY Zenon DEF Heeded, NamedBy
  <2> QED BY <2>1, Zenon
<1>4. CASE cmd \in {"mmlsquota", "mmrepquota"}
  <2>1. Named(m, i) = Range(Parts(Colon, w))
    BY <1>4 DEF Named, w
  <2>2. Range(Parts(Colon, w)) \subseteq NamedBy(R)
    BY <1>2, <1>4, QuotasName
  <2> QED BY <1>3, <2>1, <2>2
<1>5. CASE cmd = "mmcrtoken"
  <2>1. Named(m, i) = Range(splitList(w))
    BY <1>5 DEF Named, w
  <2>2. Range(splitList(Names(m)[i])) \subseteq Range(SplitNames(Names(m)))
    BY <1>2, NamesIncluded
  <2>3. Range(CreatesFor(m)) \subseteq Heeded(m)
    BY <1>5 DEF Heeded
  <2> QED BY <1>2, <2>1, <2>2, <2>3, Zenon DEF CreatesFor
<1>6. CASE cmd = "mmlsfileset" /\ i = 1
  <2>1. Named(m, i) = {w}
    BY <1>6 DEF Named, w
  <2>2. <<"GET", Filesets(w)>> \in R
    <3>1. ~RefusesFirst(cmd, m)
      BY DEF Refuses
    <3>2. R = {Get(Filesets(w))}
      BY <1>2, <1>6, <3>1, RequestsOf DEF RequestsMmlsfileset
    <3> QED BY <3>2 DEF Get
  <2> HIDE DEF R
  <2>3. w \in Range(Filesets(w)) /\ Range(Filesets(w)) \subseteq NamedBy(R)
    BY <2>2, PathNames, RequestNames
  <2> QED BY <1>3, <2>1, <2>3
<1>7. CASE cmd = "mmlsfileset" /\ i # 1
  <2> DEFINE rest == Tail(Names(m))
  <2>1. i > 1 /\ i - 1 \in 1..(n - 1) /\ n - 1 \in Nat
    BY <1>2, <1>7
  <2>2. Named(m, i) = Range(splitList(w))
    BY <1>7, <2>1 DEF Named, w
  <2>3. Names(m) \in Seq({MeantOperands[j].name : j \in DOMAIN MeantOperands}) /\ Len(Names(m)) = n
    BY <1>1 DEF n
  <2>4. DOMAIN rest = 1..(n - 1) /\ rest[i - 1] = w
    BY <1>2, <2>1, <2>3
  <2> HIDE DEF rest
  <2>5. Range(splitList(w)) \subseteq Range(SplitNames(rest))
    BY <2>1, <2>4, NamesIncluded
  <2>6. CASE Names(m)[1] \notin DOMAIN Gui \/ FilesetsShown(m) = Unknown
    <3>1. Range(SplitNames(rest)) \subseteq Heeded(m)
      BY <1>7, <2>6 DEF Heeded, rest
    <3> QED BY <2>2, <2>5, <3>1
  <2>7. CASE ~(Names(m)[1] \notin DOMAIN Gui \/ FilesetsShown(m) = Unknown)
    <3>1. {f.name : f \in Range(FilesetsShown(m))} \subseteq Heeded(m)
      BY <1>7, <2>7 DEF Heeded
    <3>2. FilesetsShown(m) # Unknown
      BY <2>7
    <3>3. \A x \in Range(SplitNames(rest)) : x \in {f.name : f \in Range(FilesetsShown(m))}
      BY <3>2, FilesetsNamed DEF rest
    <3> QED BY <2>2, <2>5, <3>1, <3>3
  <2> QED BY <2>6, <2>7
<1>8. CASE cmd = "mmlsfs"
  <2>1. CASE FilesystemsShown(m) = Unknown
    <3>1. Named(m, i) = {w}
      BY <1>8, <2>1 DEF Named, w
    <3>2. Range(Names(m)) \subseteq Heeded(m)
      BY <1>8, <2>1 DEF Heeded
    <3>3. w \in Range(Names(m))
      BY <1>2 DEF Range
    <3> QED BY <3>1, <3>2, <3>3
  <2>2. CASE FilesystemsShown(m) # Unknown
    <3>1. Named(m, i) = IF w \in {"all", "all_local"} THEN DOMAIN Gui ELSE {w}
      BY <1>8, <2>2, Zenon DEF Named, w
    <3>2. Range(FilesystemsShown(m)) \subseteq Heeded(m)
      BY <1>8, <2>2 DEF Heeded
    <3>3. (IF w \in {"all", "all_local"} THEN DOMAIN Gui ELSE {w}) \subseteq Range(FilesystemsShown(m))
      BY <1>2, <2>2, FilesystemsNamed
    <3> QED BY <3>1, <3>2, <3>3
  <2> QED BY <2>1, <2>2
<1>9. CASE cmd \in ChangesFileset
  <2>1. Named(m, i) = {w} /\ (i = 1 \/ i = 2)
    BY <1>2, <1>9 DEF Named, w, ChangesFileset
  <2>2. /\ Names(m)[1] \in NamedBy(R)
        /\ cmd # "mmcrfileset" /\ n > 1 => Names(m)[2] \in NamedBy(R)
    BY <1>2, <1>9, ChangersName
  <2>3. cmd = "mmcrfileset" => Names(m)[2] \in Heeded(m)
    BY DEF Heeded, NewFileset
  <2>4. i = 2 => n > 1
    BY <1>2
  <2> QED BY <1>2, <1>3, <2>1, <2>2, <2>3, <2>4
<1>10. CASE cmd = "mmdeltoken"
  <2>1. Named(m, i) = {w} /\ i = 1
    BY <1>2, <1>10 DEF Named, w
  <2>2. Names(m)[1] \in Heeded(m)
    BY <1>10 DEF Heeded, Deletes
  <2> QED BY <1>2, <2>1, <2>2
<1>11. cmd \notin {"mmlscluster", "mmlstoken"}
  <2>1. cmd \in {"mmlscluster", "mmlstoken"} => ~(Len(m.operands) > 0)
    BY DEF Refuses, RefusesFirst, RefusesMmlscluster, RefusesMmlstoken
  <2> QED BY <1>2, <2>1
<1>12. cmd \in {"mmlsquota", "mmrepquota", "mmcrtoken", "mmlsfileset", "mmlsfs", "mmdeltoken", "mmlscluster",
                "mmlstoken"} \cup ChangesFileset
  BY <1>1, CommandNames DEF ChangesFileset
<1> QED BY <1>4, <1>5, <1>6, <1>7, <1>8, <1>9, <1>10, <1>11, <1>12

\* Whatever is named on a line, a command that runs asks for, shows or creates
\* what each of its operands names, but for the ones it does not take
\* (splitList, args.go:134-142; quotaTargets, quota.go:552-573).
THEOREM OperandsAreHeeded == Spec => []OperandsHeeded
<1>1. Composed => OperandsHeeded
  BY OperandsKept
<1> QED BY <1>1, LinesUnderstood, PTL

-----------------------------------------------------------------------------
(* The figures of an inode space *)

\* What the row of a fileset adds to the inodes shown for a space.
Adds(f, space) == IF f.inodeSpace = space THEN Figures(f).allocInodes ELSE 0

\* f adds up the rows for a space, one after the other.
AddsUp(f, rows, space, m) ==
  /\ f \in [0..m -> Nat]
  /\ f[0] = 0
  /\ \A n \in 1..m : f[n] = f[n - 1] + Adds(rows[n], space)
  /\ Allocated(rows, space) = f[m]

LEMMA AllocatedUpto ==
  ASSUME NEW rows, NEW m \in Nat, Len(rows) = m, NEW space,
         \A n \in 1..m : Adds(rows[n], space) \in Nat
  PROVE  \E f : AddsUp(f, rows, space, m)
<1> DEFINE Sums(f) == f = [n \in 0..m |-> IF n = 0 THEN 0 ELSE f[n - 1] + Adds(rows[n], space)]
           G == [x \in (1..m) \X Nat |-> x[2] + Adds(rows[x[1]], space)]
           upto == CHOOSE f : Sums(f)
<1>1. Allocated(rows, space) = upto[m]
  BY DEF Allocated, Adds
<1>2. G \in Steps(m, Nat)
  <2>1. \A x \in (1..m) \X Nat : x[2] + Adds(rows[x[1]], space) \in Nat
    OBVIOUS
  <2> QED BY <2>1 DEF Steps
<1>3. \A n \in 1..m, s \in Nat : G[<<n, s>>] = s + Adds(rows[n], space)
  OBVIOUS
<1> HIDE DEF G
<1>4. PICK f \in [0..m -> Nat] : Follows(m, G, 0, f)
  BY <1>2, Recursion
<1>5. Sums(f)
  <2>1. \A n \in 1..m : f[n - 1] \in Nat /\ f[n] = f[n - 1] + Adds(rows[n], space)
    <3> TAKE n \in 1..m
    <3>1. n - 1 \in 0..m
      OBVIOUS
    <3> QED BY <1>3, <1>4, <3>1 DEF Follows
  <2>2. \A n \in 0..m : f[n] = IF n = 0 THEN 0 ELSE f[n - 1] + Adds(rows[n], space)
    BY <1>4, <2>1 DEF Follows
  <2>3. f = [n \in 0..m |-> f[n]]
    BY <1>4
  <2> QED BY <2>2, <2>3
<1>6. Sums(upto)
  <2> HIDE DEF Sums
  <2> QED BY <1>5
<1> HIDE DEF upto
<1>7. upto[0] = 0 /\ \A n \in 1..m : upto[n] = upto[n - 1] + Adds(rows[n], space)
  BY <1>6
<1> DEFINE Counts == {n \in 0..m : upto[n] \in Nat}
<1>8. 0..m \subseteq Counts
  <2>1. 0 \in Counts
    BY <1>7
  <2>2. ASSUME NEW n \in 1..m, n - 1 \in Counts PROVE n \in Counts
    BY <1>7, <2>2
  <2> HIDE DEF Counts
  <2> QED BY <2>1, <2>2, InductionUpto
<1>9. upto \in [0..m -> Nat]
  BY <1>6, <1>8
<1> QED BY <1>1, <1>7, <1>9 DEF AddsUp

\* The rows of a space add up to its figures, once for each row of its owner.
LEMMA SpaceAddsUp ==
  ASSUME NEW T, NEW rows \in Seq(T), NEW space, NEW A \in Nat,
         \A f \in T : f.isInodeSpaceOwner \in BOOLEAN /\ f.allocated \in Nat,
         \A f \in T : f.inodeSpace = space => f.allocated = A
  PROVE  Allocated(rows, space)
           = Cardinality({i \in DOMAIN rows : rows[i].inodeSpace = space /\ rows[i].isInodeSpaceOwner}) * A
<1> DEFINE m == Len(rows)
           Owns(f) == f.inodeSpace = space /\ f.isInodeSpaceOwner
           Upto(n) == {i \in 1..n : Owns(rows[i])}
<1>1. m \in Nat /\ DOMAIN rows = 1..m /\ \A n \in 1..m : rows[n] \in T
  OBVIOUS
<1>2. ASSUME NEW f \in T PROVE Adds(f, space) = IF Owns(f) THEN A ELSE 0
  <2>1. Figures(f).allocInodes = IF f.isInodeSpaceOwner THEN f.allocated ELSE 0
    BY DEF Figures, own
  <2> QED BY <2>1 DEF Adds
<1>3. \A n \in 1..m : Adds(rows[n], space) = IF Owns(rows[n]) THEN A ELSE 0
  BY <1>1, <1>2
<1>4. \A n \in 1..m : Adds(rows[n], space) \in Nat
  BY <1>3
<1>5. PICK f : AddsUp(f, rows, space, m)
  BY <1>1, <1>4, AllocatedUpto
<1>10. /\ f \in [0..m -> Nat] /\ f[0] = 0 /\ Allocated(rows, space) = f[m]
       /\ \A n \in 1..m : f[n] = f[n - 1] + Adds(rows[n], space)
  BY <1>5 DEF AddsUp
<1> HIDE DEF m
<1> HIDE DEF Owns
<1> DEFINE Right == {n \in 0..m : /\ IsFiniteSet(Upto(n)) /\ Cardinality(Upto(n)) \in Nat
                                  /\ f[n] = Cardinality(Upto(n)) * A}
<1>6. 0 \in Right
  <2>1. Upto(0) = {}
    OBVIOUS
  <2>2. Cardinality({}) = 0 /\ IsFiniteSet({})
    BY FS_EmptySet
  <2> QED BY <1>1, <1>10, <2>1, <2>2
<1>7. ASSUME NEW n \in 1..m, n - 1 \in Right PROVE n \in Right
  <2>1. /\ IsFiniteSet(Upto(n - 1)) /\ Cardinality(Upto(n - 1)) \in Nat
        /\ f[n - 1] = Cardinality(Upto(n - 1)) * A
        /\ f[n] = f[n - 1] + IF Owns(rows[n]) THEN A ELSE 0
    BY <1>3, <1>10, <1>7
  <2>2. CASE Owns(rows[n])
    <3>1. Upto(n) = Upto(n - 1) \cup {n} /\ n \notin Upto(n - 1)
      BY <1>1, <2>2
    <3> DEFINE U == Upto(n - 1)
               V == Upto(n)
               k == Cardinality(U)
    <3> HIDE DEF U, V
    <3>6. V = U \cup {n} /\ n \notin U /\ IsFiniteSet(U)
      BY <2>1, <3>1, Zenon DEF U, V
    <3>2. IsFiniteSet(V) /\ Cardinality(V) = k + 1
      BY <3>6, FS_AddElement
    <3>3. k \in Nat /\ f[n] = k * A + A
      BY <2>1, <2>2 DEF U
    <3> HIDE DEF k
    <3>4. k * A + A = (k + 1) * A
      BY <3>3
    <3> QED BY <3>2, <3>3, <3>4 DEF V
  <2>3. CASE ~Owns(rows[n])
    <3>1. Upto(n) = Upto(n - 1)
      BY <1>1, <2>3
    <3>2. f[n - 1] \in Nat /\ f[n] = f[n - 1]
      <4>1. n - 1 \in 0..m
        BY <1>1
      <4> QED BY <1>10, <2>1, <2>3, <4>1
    <3>3. n \in 0..m
      BY <1>1
    <3> HIDE DEF Upto
    <3> QED BY <2>1, <3>1, <3>2, <3>3
  <2> QED BY <2>2, <2>3
<1>8. m \in Right
  <2>1. m \in 0..m
    BY <1>1
  <2> HIDE DEF Right
  <2> QED BY <1>1, <1>6, <1>7, <2>1, InductionUpto
<1>9. Upto(m) = {i \in DOMAIN rows : rows[i].inodeSpace = space /\ rows[i].isInodeSpaceOwner}
  BY <1>1 DEF Owns
<1> QED BY <1>10, <1>8, <1>9

\* The filesets shown are the GUI's.
LEMMA ShownAreTheGuis ==
  ASSUME NEW S, NEW o, Names(o) \in Seq(S), Names(o) # <<>>,
         Names(o)[1] \in DOMAIN Gui, FilesetsShown(o) # Unknown
  PROVE  FilesetsShown(o) \in Seq(Range(Gui[Names(o)[1]]))
<1> DEFINE all == Gui[Names(o)[1]]
           asked == SplitNames(Tail(Names(o)))
           byName(n) == CHOOSE f \in Range(all) : f.name = n
           shown == [i \in DOMAIN asked |-> byName(asked[i])]
<1>1. all \in Seq(Range(all))
  BY GuiAssumption
<1>2. CASE asked = <<>>
  <2>1. FilesetsShown(o) = all
    BY <1>2, Zenon DEF FilesetsShown
  <2> QED BY <1>1, <2>1
<1>3. CASE asked # <<>>
  <2>1. /\ ~(\E n \in Range(asked) : n \notin {f.name : f \in Range(all)})
        /\ FilesetsShown(o) = shown
    BY <1>3, Zenon DEF FilesetsShown
  <2>2. ASSUME NEW i \in DOMAIN asked PROVE byName(asked[i]) \in Range(all)
    <3>1. asked[i] \in Range(asked)
      BY DEF Range
    <3>2. PICK f \in Range(all) : f.name = asked[i]
      BY <2>1, <3>1
    <3> QED BY <3>2, Zenon
  <2>3. \E n \in Nat : DOMAIN asked = 1..n
    <3> DEFINE rest == Tail(Names(o))
    <3>1. rest \in Seq(S)
      OBVIOUS
    <3>2. DOMAIN rest = 1..Len(rest) /\ Len(rest) \in Nat
      BY <3>1
    <3> HIDE DEF rest
    <3>3. \E U : SplitNames(rest) \in Seq(U)
      BY <3>2, NamesSplit
    <3>4. PICK U : SplitNames(rest) \in Seq(U)
      BY <3>3
    <3>5. DOMAIN SplitNames(rest) = 1..Len(SplitNames(rest)) /\ Len(SplitNames(rest)) \in Nat
      BY <3>4
    <3> QED BY <3>5 DEF rest
  <2> HIDE DEF all, asked
  <2>4. PICK n \in Nat : DOMAIN asked = 1..n
    BY <2>3
  <2>5. shown \in [1..n -> Range(all)]
    BY <2>2, <2>4
  <2> HIDE DEF shown
  <2>6. shown \in Seq(Range(all))
    BY <2>4, <2>5
  <2> QED BY <2>1, <2>6 DEF all
<1> QED BY <1>2, <1>3

LEMMA SpacesShown == Composed => EachSpaceOnce
<1> DEFINE m == main(Line)
           d == MeantOperands[1].name
           rows == FilesetsShown(m)
           Sum(space) == Cardinality({j \in DOMAIN rows : rows[j].inodeSpace = space /\ rows[j].isInodeSpaceOwner})
<1> SUFFICES ASSUME Composed, cmd = "mmlsfileset", m.does = "run", ~Refuses(cmd, m), d \in DOMAIN Gui, rows # Unknown
             PROVE  /\ Len(MeantOperands) = 1 => rows = Gui[d]
                    /\ \A i \in DOMAIN rows :
                         Allocated(rows, rows[i].inodeSpace) = Sum(rows[i].inodeSpace) * rows[i].allocated
  BY Zenon DEF EachSpaceOnce, Runs
<1>1. /\ m.operands = MeantOperands
      /\ DOMAIN MeantOperands = 1..Len(MeantOperands) /\ Len(MeantOperands) \in Nat
      /\ Names(m) = [i \in DOMAIN MeantOperands |-> MeantOperands[i].name]
  BY RunLine, OperandsNamed
<1>2. ~(Len(m.operands) = 0)
  BY Zenon DEF Refuses, RefusesFirst, RefusesMmlsfileset
<1> DEFINE S == {MeantOperands[i].name : i \in DOMAIN MeantOperands}
<1>3. Names(m)[1] = d /\ Names(m) \in Seq(S) /\ Len(Names(m)) = Len(MeantOperands) /\ Names(m) # <<>>
  BY <1>1, <1>2
<1> HIDE DEF m, d, S
<1>4. ASSUME Len(MeantOperands) = 1 PROVE rows = Gui[d]
  <2> DEFINE names == Names(m)
             rest == Tail(names)
  <2>3. names \in Seq(S) /\ Len(names) = 1 /\ names # <<>>
    BY <1>3, <1>4
  <2> HIDE DEF names
  <2>4. rest \in Seq(S) /\ Len(rest) = 0
    BY <2>3, HeadTailProperties
  <2> HIDE DEF rest
  <2>5. rest = <<>>
    BY <2>4, EmptySeq
  <2>1. Tail(Names(m)) = <<>>
    BY <2>5 DEF names, rest
  <2>2. SplitNames(<<>>) = <<>>
    <3>1. [i \in DOMAIN <<>> |-> splitList(<<>>[i])] = <<>>
      OBVIOUS
    <3> QED BY <3>1, FlatNothing DEF SplitNames
  <2> QED BY <1>3, <2>1, <2>2, Zenon DEF FilesetsShown
<1>5. rows \in Seq(Range(Gui[d]))
  BY <1>3, ShownAreTheGuis
<1> DEFINE T == Range(Gui[d])
<1>6. /\ \A f \in T : f.isInodeSpaceOwner \in BOOLEAN /\ f.allocated \in Nat
      /\ \A f, g \in T : f.inodeSpace = g.inodeSpace => f.allocated = g.allocated
  BY GuiAssumption
<1> HIDE DEF rows, T
<1>7. ASSUME NEW i \in DOMAIN rows
      PROVE  Allocated(rows, rows[i].inodeSpace) = Sum(rows[i].inodeSpace) * rows[i].allocated
  <2> DEFINE space == rows[i].inodeSpace
             A == rows[i].allocated
  <2>1. rows \in Seq(T) /\ rows[i] \in T
    BY <1>5 DEF T
  <2>2. A \in Nat /\ \A f \in T : f.inodeSpace = space => f.allocated = A
    BY <1>6, <2>1
  <2> HIDE DEF space, A
  <2>3. Allocated(rows, space)
          = Cardinality({j \in DOMAIN rows : rows[j].inodeSpace = space /\ rows[j].isInodeSpaceOwner}) * A
    BY <1>6, <2>1, <2>2, SpaceAddsUp
  <2> QED BY <2>3 DEF space, A
<1> QED BY <1>4, <1>7

-----------------------------------------------------------------------------
(* The attributes of a file system *)

LEMMA FunctionIsSequence ==
  ASSUME NEW S, NEW n \in Nat, NEW f \in [1..n -> S]
  PROVE  f \in Seq(S)
OBVIOUS

LEMMA AttributesDiffer ==
  /\ DOMAIN fsAttrs = 1..39 /\ Len(fsAttrs) = 39 /\ fsAttrs \in Seq(Range(fsAttrs))
  /\ \A i, j \in 1..39 : fsAttrs[i] = fsAttrs[j] => i = j
  /\ \A a \in Range(fsAttrs) : a[1] # "-Y"
<1>1. DOMAIN fsAttrs = 1..39 /\ Len(fsAttrs) = 39
  BY DEF fsAttrs
<1>2. fsAttrs = [i \in 1..39 |-> fsAttrs[i]]
  BY DEF fsAttrs
<1>3. ASSUME NEW i \in 1..39, NEW j \in 1..39, fsAttrs[i][2] = fsAttrs[j][2] PROVE i = j
  BY <1>3 DEF fsAttrs
<1>4. \A i \in 1..39 : fsAttrs[i] \in Range(fsAttrs)
  BY <1>1 DEF Range
<1>5. fsAttrs \in [1..39 -> Range(fsAttrs)]
  BY <1>2, <1>4
<1>6. fsAttrs \in Seq(Range(fsAttrs))
  <2> DEFINE R == Range(fsAttrs)
             f == fsAttrs
  <2>1. f \in [1..39 -> R] /\ 39 \in Nat
    BY <1>5
  <2> HIDE DEF R, f
  <2>2. f \in Seq(R)
    BY <2>1, FunctionIsSequence
  <2> QED BY <2>2 DEF R, f
<1>7. \A a \in Range(fsAttrs) : a[1] # "-Y"
  BY DEF fsAttrs, Range
<1> QED BY <1>1, <1>3, <1>6, <1>7

\* The rows of an option.
RowsFor(n) == Where(fsAttrs, {a \in Range(fsAttrs) : a[1] = n})

LEMMA RowsOfOption ==
  ASSUME NEW n
  PROVE  /\ RowsFor(n) \in Seq(Range(fsAttrs))
         /\ Range(RowsFor(n)) = {a \in Range(fsAttrs) : a[1] = n}
         /\ \A k, l \in DOMAIN RowsFor(n) : k < l => RowsFor(n)[k] # RowsFor(n)[l]
<1> DEFINE A == Range(fsAttrs)
           T == {a \in A : a[1] = n}
           t == Where(fsAttrs, T)
<1>1. fsAttrs \in Seq(A) /\ DOMAIN fsAttrs = 1..39 /\ \A i, j \in 1..39 : fsAttrs[i] = fsAttrs[j] => i = j
  BY AttributesDiffer
<1>2. T \subseteq A /\ A \cap T = T /\ Range(fsAttrs) = A /\ RowsFor(n) = t
  BY DEF RowsFor
<1> HIDE DEF A, T, t
<1>3. /\ t \in Seq(A) /\ Range(t) = Range(fsAttrs) \cap T
      /\ KeptInOrder(t, fsAttrs)
  BY <1>1, WherePlaces DEF t
<1>4. ASSUME NEW k \in DOMAIN t, NEW l \in DOMAIN t, k < l PROVE t[k] # t[l]
  <2>1. PICK p \in DOMAIN fsAttrs, q \in DOMAIN fsAttrs : p < q /\ t[k] = fsAttrs[p] /\ t[l] = fsAttrs[q]
    BY <1>3, <1>4 DEF KeptInOrder
  <2>2. p \in 1..39 /\ q \in 1..39
    BY <1>1, Zenon
  <2>3. p # q
    BY <2>1, <2>2
  <2> QED BY <1>1, <2>1, <2>2, <2>3, Zenon
<1>5. t \in Seq(A) /\ Range(t) = T
  BY <1>2, <1>3
<1> QED BY <1>2, <1>4, <1>5 DEF A, T

\* One row is asked for before another: it is another row of the same option,
\* or the row of an option given earlier.
Earlier(given, a, b) ==
  /\ a # b
  /\ a[1] = b[1] \/ \E p, q \in DOMAIN given : p < q /\ a[1] = given[p] /\ b[1] = given[q]

RowsAsked(given) == Flat([i \in DOMAIN given |-> RowsFor(given[i])])

LEMMA AskedInTurn ==
  ASSUME NEW N, NEW given \in Seq(N), \A i, j \in DOMAIN given : i < j => given[i] # given[j]
  PROVE  /\ RowsAsked(given) \in Seq(Range(fsAttrs))
         /\ Range(RowsAsked(given)) = {a \in Range(fsAttrs) : a[1] \in Range(given)}
         /\ \A x, y \in DOMAIN RowsAsked(given) : x < y =>
              Earlier(given, RowsAsked(given)[x], RowsAsked(given)[y])
<1> DEFINE A == Range(fsAttrs)
           parts == [i \in DOMAIN given |-> RowsFor(given[i])]
           n == Len(given)
           t == RowsAsked(given)
<1>1. n \in Nat /\ DOMAIN given = 1..n /\ DOMAIN parts = 1..n /\ Len(parts) = n
  OBVIOUS
<1>2. ASSUME NEW i \in 1..n
      PROVE  /\ parts[i] \in Seq(A) /\ Range(parts[i]) = {a \in A : a[1] = given[i]}
             /\ \A k, l \in DOMAIN parts[i] : k < l => parts[i][k] # parts[i][l]
  <2>1. parts[i] = RowsFor(given[i])
    BY <1>1
  <2> HIDE DEF parts
  <2> QED BY <2>1, RowsOfOption
<1>3. t = Flat(parts)
  BY DEF RowsAsked
<1> HIDE DEF A, parts, n, t
<1>4. t \in Seq(A) /\ PutTogether(t, parts, n)
  BY <1>1, <1>2, <1>3, FlatPlaces
<1>5. \A z : z \in Range(t) <=> z \in A /\ z[1] \in Range(given)
  <2>1. \A z : z \in Range(t) <=> \E i \in 1..n : z \in Range(parts[i])
    BY <1>4 DEF PutTogether
  <2>2. \A z : z \in Range(given) <=> \E i \in 1..n : z = given[i]
    BY <1>1 DEF Range
  <2>3. \A i \in 1..n : \A z : z \in Range(parts[i]) <=> z \in A /\ z[1] = given[i]
    BY <1>2
  <2> SUFFICES ASSUME NEW z PROVE z \in Range(t) <=> z \in A /\ z[1] \in Range(given)
    OBVIOUS
  <2>4. ASSUME z \in Range(t) PROVE z \in A /\ z[1] \in Range(given)
    <3>1. PICK i \in 1..n : z \in Range(parts[i])
      BY <2>1, <2>4
    <3> QED BY <2>2, <2>3, <3>1
  <2>5. ASSUME z \in A, z[1] \in Range(given) PROVE z \in Range(t)
    <3>1. PICK i \in 1..n : z[1] = given[i]
      BY <2>2, <2>5
    <3> QED BY <2>1, <2>3, <2>5, <3>1
  <2> QED BY <2>4, <2>5
<1>6. ASSUME NEW x \in DOMAIN t, NEW y \in DOMAIN t, x < y PROVE Earlier(given, t[x], t[y])
  <2>1. \E p, q \in 1..n : \E k \in DOMAIN parts[p], l \in DOMAIN parts[q] :
          /\ t[x] = parts[p][k] /\ t[y] = parts[q][l]
          /\ p < q \/ (p = q /\ k < l)
    BY <1>4, <1>6 DEF PutTogether, InPlace
  <2>2. PICK p \in 1..n, q \in 1..n : \E k \in DOMAIN parts[p], l \in DOMAIN parts[q] :
          /\ t[x] = parts[p][k] /\ t[y] = parts[q][l]
          /\ p < q \/ (p = q /\ k < l)
    BY <2>1
  <2>3. PICK k \in DOMAIN parts[p], l \in DOMAIN parts[q] :
          /\ t[x] = parts[p][k] /\ t[y] = parts[q][l]
          /\ p < q \/ (p = q /\ k < l)
    BY <2>2
  <2>4. t[x] \in Range(parts[p]) /\ t[y] \in Range(parts[q])
    BY <2>3 DEF Range
  <2>5. t[x][1] = given[p] /\ t[y][1] = given[q]
    BY <1>2, <2>4
  <2>6. CASE p < q
    <3>1. given[p] # given[q]
      BY <1>1, <2>6
    <3> QED BY <1>1, <2>5, <2>6, <3>1 DEF Earlier
  <2>7. CASE p = q /\ k < l
    <3>1. t[x] # t[y]
      BY <1>2, <2>3, <2>7
    <3> QED BY <2>5, <2>7, <3>1 DEF Earlier
  <2> QED BY <2>3, <2>6, <2>7
<1>7. Range(t) = {a \in A : a[1] \in Range(given)}
  BY <1>5
<1> QED BY <1>4, <1>6, <1>7 DEF A, t

\* Rows in the order mmlsfs prints them: mount attributes after all others.
Mounts(a) == a[1] \in mountOptions
Precedes(given, a, b) ==
  \/ ~Mounts(a) /\ Mounts(b)
  \/ (Mounts(a) <=> Mounts(b)) /\ Earlier(given, a, b)

Selected(given) ==
  LET mount == {a \in Range(fsAttrs) : a[1] \in mountOptions}
  IN  Where(RowsAsked(given), Range(fsAttrs) \ mount) \o Where(RowsAsked(given), mount)

LEMMA SelectedInTurn ==
  ASSUME NEW N, NEW given \in Seq(N), \A i, j \in DOMAIN given : i < j => given[i] # given[j]
  PROVE  /\ Selected(given) \in Seq(Range(fsAttrs))
         /\ Range(Selected(given)) = {a \in Range(fsAttrs) : a[1] \in Range(given)}
         /\ \A x, y \in DOMAIN Selected(given) : x < y =>
              Precedes(given, Selected(given)[x], Selected(given)[y])
<1> DEFINE A == Range(fsAttrs)
           mount == {a \in A : a[1] \in mountOptions}
           others == A \ mount
           t == RowsAsked(given)
           u == Where(t, others)
           v == Where(t, mount)
           s == u \o v
<1>1. /\ t \in Seq(A) /\ Range(t) = {a \in A : a[1] \in Range(given)}
      /\ \A x, y \in DOMAIN t : x < y => Earlier(given, t[x], t[y])
  BY AskedInTurn
<1>2. Selected(given) = s
  BY DEF Selected
<1>3. \A a \in A : (a \in mount <=> Mounts(a)) /\ (a \in others <=> ~Mounts(a))
  BY DEF Mounts
<1>4. mount \subseteq A /\ others \subseteq A /\ others \cup mount = A
  OBVIOUS
<1> HIDE DEF A, mount, others, t
<1>5. /\ u \in Seq(A) /\ Range(u) = Range(t) \cap others /\ KeptInOrder(u, t)
      /\ v \in Seq(A) /\ Range(v) = Range(t) \cap mount /\ KeptInOrder(v, t)
  BY <1>1, WherePlaces
<1> HIDE DEF u, v
<1>6. /\ s \in Seq(A) /\ Range(s) = Range(u) \cup Range(v)
      /\ DOMAIN s = 1..(Len(u) + Len(v))
      /\ \A x \in 1..Len(u) : s[x] = u[x]
      /\ \A x \in (Len(u) + 1)..(Len(u) + Len(v)) : s[x] = v[x - Len(u)]
  BY <1>5, ConcatProperties, RangeConcatenation
<1>7. /\ Len(u) \in Nat /\ DOMAIN u = 1..Len(u) /\ Len(v) \in Nat /\ DOMAIN v = 1..Len(v)
  BY <1>5
<1> HIDE DEF s
<1>8. Range(s) = Range(t)
  <2>1. Range(t) \subseteq A
    BY <1>1
  <2> QED BY <1>4, <1>5, <1>6, <2>1
<1>9. ASSUME NEW w, NEW x \in DOMAIN w, NEW y \in DOMAIN w, x < y, KeptInOrder(w, t)
      PROVE  Earlier(given, w[x], w[y])
  <2>1. PICK p \in DOMAIN t, q \in DOMAIN t : p < q /\ w[x] = t[p] /\ w[y] = t[q]
    BY <1>9 DEF KeptInOrder
  <2> QED BY <1>1, <2>1
<1>10. \A x \in DOMAIN u : ~Mounts(u[x])
  <2>1. \A x \in DOMAIN u : u[x] \in Range(u)
    BY DEF Range
  <2> QED BY <1>3, <1>4, <1>5, <2>1
<1>11. \A x \in DOMAIN v : Mounts(v[x])
  <2>1. \A x \in DOMAIN v : v[x] \in Range(v)
    BY DEF Range
  <2> QED BY <1>3, <1>4, <1>5, <2>1
<1>12. ASSUME NEW x \in DOMAIN s, NEW y \in DOMAIN s, x < y PROVE Precedes(given, s[x], s[y])
  <2>1. CASE y <= Len(u)
    <3>1. x \in DOMAIN u /\ y \in DOMAIN u /\ s[x] = u[x] /\ s[y] = u[y]
      BY <1>6, <1>7, <1>12, <2>1
    <3>2. Earlier(given, u[x], u[y])
      BY <1>5, <1>9, <1>12, <3>1
    <3> QED BY <1>10, <3>1, <3>2 DEF Precedes
  <2>2. CASE x <= Len(u) /\ ~(y <= Len(u))
    <3>1. x \in DOMAIN u /\ s[x] = u[x]
      BY <1>6, <1>7, <1>12, <2>2
    <3>2. y - Len(u) \in DOMAIN v /\ s[y] = v[y - Len(u)]
      BY <1>6, <1>7, <1>12, <2>2
    <3> QED BY <1>10, <1>11, <3>1, <3>2 DEF Precedes
  <2>3. CASE ~(x <= Len(u))
    <3> DEFINE k == x - Len(u)
               l == y - Len(u)
    <3>1. k \in DOMAIN v /\ l \in DOMAIN v /\ k < l /\ s[x] = v[k] /\ s[y] = v[l]
      BY <1>6, <1>7, <1>12, <2>3
    <3> HIDE DEF k, l
    <3>2. Earlier(given, v[k], v[l])
      BY <1>5, <1>9, <3>1
    <3> QED BY <1>11, <3>1, <3>2 DEF Precedes
  <2>4. (y <= Len(u)) \/ (x <= Len(u) /\ ~(y <= Len(u))) \/ ~(x <= Len(u))
    OBVIOUS
  <2> QED BY <2>1, <2>2, <2>3, <2>4
<1> QED BY <1>1, <1>2, <1>6, <1>8, <1>12 DEF A

LEMMA SelectsAsked ==
  ASSUME NEW given
  PROVE  selectFsAttrs(given) = IF Selected(given) = <<>> THEN fsAttrs ELSE Selected(given)
<1>1. RowsAsked(given) = Flat([i \in DOMAIN given |-> Where(fsAttrs, {a \in Range(fsAttrs) : a[1] = given[i]})])
  BY DEF RowsAsked, RowsFor
<1> QED BY <1>1, Zenon DEF selectFsAttrs, Selected

\* mmlsfs has the options of its attributes, and -Y.
LEMMA ListingOptions == OptionNames("mmlsfs") = {"-Y"} \cup {a[1] : a \in Range(fsAttrs)}
<1> DEFINE F == {"-Y"} \cup {a[1] : a \in Range(fsAttrs)}
           Right(s) == s.name = "mmlsfs" => s.flags \cup s.values = F
<1>1. \A s \in FilesystemSpec : Right(s)
  <2>1. Accepts("mmlscluster", {"-Y"}, {}).name # "mmlsfs"
    BY DEF Accepts
  <2>2. Right(Accepts("mmlsfs", F, {}))
    BY DEF Accepts
  <2>3. \A s \in FilesystemSpec : s = Accepts("mmlscluster", {"-Y"}, {}) \/ s = Accepts("mmlsfs", F, {})
    BY DEF FilesystemSpec
  <2> HIDE DEF F
  <2> QED BY <2>1, <2>2, <2>3
<1>2. \A s \in FilesetSpec \cup QuotaSpec \cup TokenSpec : s.name # "mmlsfs"
  BY DEF FilesetSpec, QuotaSpec, TokenSpec, Accepts
<1>3. "mmlsfs" \in CommandName
  BY CommandNames
<1>4. lookup("mmlsfs") \in commands /\ lookup("mmlsfs").name = "mmlsfs"
  BY <1>3, LookedUp
<1>5. lookup("mmlsfs") \in FilesystemSpec \/ lookup("mmlsfs") \in FilesetSpec \cup QuotaSpec \cup TokenSpec
  BY <1>4, Zenon DEF commands
<1>6. Right(lookup("mmlsfs"))
  BY <1>1, <1>2, <1>4, <1>5, Zenon
<1> QED BY <1>4, <1>6, Zenon DEF OptionNames

LEMMA NamedGives ==
  ASSUME NEW c, NEW it \in Items(c), it.name \notin NoOption
  PROVE  Gives(it, it.name)
<1>1. it.kind # "operand"
  BY OperandName
<1>2. it.kind \notin {"wrong", "help"}
  BY ItemForms DEF NoOption
<1> QED BY <1>1, <1>2, ItemForms DEF Gives

\* Of the items that give an option there is a first.
LEMMA FirstGives ==
  ASSUME NEW T, NEW its \in Seq(T), NEW n \in Chosen(its)
  PROVE  \E i \in DOMAIN its : Gives(its[i], n) /\ \A j \in 1..i : Gives(its[j], n) => i = j
<1> DEFINE S == {i \in DOMAIN its : Gives(its[i], n)}
<1>1. DOMAIN its = 1..Len(its) /\ Len(its) \in Nat
  OBVIOUS
<1>2. PICK it \in Range(its) : Gives(it, n)
  BY DEF Chosen, Gives
<1>3. PICK k \in DOMAIN its : its[k] = it
  BY DEF Range
<1>4. k \in S /\ S \subseteq Nat
  BY <1>1, <1>2, <1>3
<1>5. PICK i \in S : \A j \in S : i <= j
  <2> HIDE DEF S
  <2> QED BY <1>4, LeastNumber
<1>6. ASSUME NEW j \in 1..i, Gives(its[j], n) PROVE i = j
  <2>1. j \in S
    BY <1>1, <1>5, <1>6
  <2>2. i <= j
    BY <1>5, <2>1
  <2> QED BY <1>4, <1>5, <2>2
<1> QED BY <1>5, <1>6

LEMMA AttributesShown == Composed => AttributesOnce
<1> DEFINE m == main(Line)
           given == m.order
           rows == selectFsAttrs(given)
           asked == Set \ {"-Y"}
           A == Range(fsAttrs)
           Sooner(a, b) ==
             \E i \in DOMAIN items :
               items[i].name = a[1] /\ \A j \in 1..i : items[j].name = b[1] => i = j
           Before(a, b) ==
             \/ a[1] \notin mountOptions /\ b[1] \in mountOptions
             \/ (a[1] \in mountOptions) = (b[1] \in mountOptions) /\ Sooner(a, b)
<1> SUFFICES ASSUME Composed, cmd = "mmlsfs", m.does = "run"
             PROVE  /\ \A i, j \in DOMAIN rows : rows[i] = rows[j] => i = j
                    /\ Range(rows) = {a \in A : asked = {} \/ a[1] \in asked}
                    /\ asked # {} => \A i, j \in DOMAIN rows : i < j => Before(rows[i], rows[j])
  BY Zenon DEF AttributesOnce
<1> DEFINE O == OptionNames("mmlsfs")
<1>1. /\ given \in Seq(O) /\ InTurn(given, items) /\ Range(given) = Chosen(items)
      /\ items \in Seq(Items("mmlsfs")) /\ cmd \in CommandName
  BY OptionsInTurn, RunLine DEF Composed
<1>2. Set = Range(given)
  BY <1>1 DEF Set, Chosen
<1> HIDE DEF m, given
<1>3. \A i, j \in DOMAIN given : i < j => given[i] # given[j]
  <2> TAKE i, j \in DOMAIN given
  <2> HAVE i < j
  <2>1. PICK a \in DOMAIN items : Gives(items[a], given[i]) /\ \A b \in 1..a : ~Gives(items[b], given[j])
    BY <1>1 DEF InTurn
  <2>2. a \in 1..a
    BY <1>1
  <2> QED BY <2>1, <2>2
<1> DEFINE s == Selected(given)
<1> HIDE DEF A, O
<1>4. /\ s \in Seq(A) /\ Range(s) = {a \in A : a[1] \in Range(given)}
      /\ \A x, y \in DOMAIN s : x < y => Precedes(given, s[x], s[y])
  BY <1>1, <1>3, SelectedInTurn DEF A
<1>5. rows = IF s = <<>> THEN fsAttrs ELSE s
  BY SelectsAsked
<1> HIDE DEF s, rows
<1>6. O = {"-Y"} \cup {a[1] : a \in A} /\ \A a \in A : a[1] # "-Y"
  BY ListingOptions, AttributesDiffer DEF A, O
<1>7. Range(given) \subseteq O
  BY <1>1 DEF Range
<1>8. s = <<>> <=> asked = {}
  <2>1. s = <<>> <=> Range(s) = {}
    BY <1>4 DEF Range
  <2>2. \A n \in asked : \E a \in A : a[1] = n
    BY <1>2, <1>6, <1>7
  <2>3. ASSUME NEW a \in Range(s) PROVE a[1] \in asked
    BY <1>2, <1>4, <1>6, <2>3
  <2>4. ASSUME NEW n \in asked PROVE Range(s) # {}
    <3>1. PICK a \in A : a[1] = n
      BY <2>2
    <3>2. a \in Range(s)
      BY <1>2, <1>4, <3>1
    <3> QED BY <3>2
  <2> QED BY <2>1, <2>3, <2>4
<1>9. CASE asked = {}
  <2>1. rows = fsAttrs
    BY <1>5, <1>8, <1>9
  <2>2. \A i, j \in DOMAIN fsAttrs : fsAttrs[i] = fsAttrs[j] => i = j
    BY AttributesDiffer
  <2>3. Range(fsAttrs) = {a \in A : TRUE}
    BY DEF A
  <2> QED BY <1>9, <2>1, <2>2, <2>3
<1>10. CASE asked # {}
  <2>1. rows = s
    BY <1>5, <1>8, <1>10
  <2>2. ASSUME NEW i \in DOMAIN s, NEW j \in DOMAIN s, i < j PROVE s[i] # s[j] /\ Before(s[i], s[j])
    <3> DEFINE a == s[i]
               b == s[j]
    <3>1. Precedes(given, a, b)
      BY <1>4, <2>2
    <3>2. a \in Range(s) /\ b \in Range(s)
      BY DEF Range
    <3> HIDE DEF a, b
    <3>3. a \in A /\ b \in A /\ a[1] \in Range(given) /\ b[1] \in Range(given)
      BY <1>4, <3>2
    <3>4. CASE ~Mounts(a) /\ Mounts(b)
      BY <3>4 DEF Mounts, a, b
    <3>5. CASE (Mounts(a) <=> Mounts(b)) /\ Earlier(given, a, b)
      <4>1. a # b
        BY <3>5 DEF Earlier
      <4>2. \A x \in DOMAIN items : items[x] \in Items("mmlsfs")
        BY <1>1
      <4>3. \A x \in DOMAIN items : \A c \in A : items[x].name = c[1] => Gives(items[x], c[1])
        <5> TAKE x \in DOMAIN items
        <5> TAKE c \in A
        <5> HAVE items[x].name = c[1]
        <5>1. c[1] \notin NoOption
          BY AttributeFlags DEF Ordinary, A
        <5> QED BY <4>2, <5>1, NamedGives
      <4>4. DOMAIN items = 1..Len(items) /\ Len(items) \in Nat
        BY <1>1
      <4>5. Sooner(a, b)
        <5>1. CASE a[1] = b[1]
          <6>1. PICK x \in DOMAIN items :
                  Gives(items[x], a[1]) /\ \A y \in 1..x : Gives(items[y], a[1]) => x = y
            BY <1>1, <3>3, FirstGives
          <6>2. items[x].name = a[1]
            BY <6>1 DEF Gives
          <6>3. ASSUME NEW y \in 1..x, items[y].name = b[1] PROVE x = y
            <7>1. y \in DOMAIN items
              BY <4>4
            <7> QED BY <3>3, <4>3, <5>1, <6>1, <6>3, <7>1
          <6> QED BY <6>2, <6>3
        <5>2. CASE a[1] # b[1]
          <6>1. PICK p \in DOMAIN given, q \in DOMAIN given : p < q /\ a[1] = given[p] /\ b[1] = given[q]
            BY <3>5, <5>2 DEF Earlier
          <6>2. PICK x \in DOMAIN items :
                  Gives(items[x], given[p]) /\ \A y \in 1..x : ~Gives(items[y], given[q])
            BY <1>1, <6>1 DEF InTurn
          <6>3. items[x].name = a[1]
            BY <6>1, <6>2 DEF Gives
          <6>4. ASSUME NEW y \in 1..x, items[y].name = b[1] PROVE x = y
            <7>1. y \in DOMAIN items
              BY <4>4
            <7> QED BY <3>3, <4>3, <6>1, <6>2, <6>4, <7>1
          <6> QED BY <6>3, <6>4
        <5> QED BY <5>1, <5>2
      <4> HIDE DEF Sooner
      <4>6. Before(a, b)
        BY <3>5, <4>5 DEF Mounts
      <4> QED BY <4>1, <4>6 DEF a, b
    <3> QED BY <3>1, <3>4, <3>5 DEF Precedes
  <2> HIDE DEF Before
  <2>3. \A i, j \in DOMAIN s : s[i] = s[j] => i = j
    <3>1. DOMAIN s = 1..Len(s) /\ Len(s) \in Nat
      BY <1>4
    <3> QED BY <2>2, <3>1
  <2>4. Range(s) = {a \in A : asked = {} \/ a[1] \in asked}
    <3>1. \A a \in A : a[1] \in Range(given) <=> a[1] \in asked
      BY <1>2, <1>6
    <3> QED BY <1>4, <1>10, <3>1
  <2> QED BY <2>1, <2>2, <2>3, <2>4
<1> QED BY <1>9, <1>10

\* However often options are given, and whatever the GUI reports, a listing
\* repeats nothing: mark drops repeats, selectFsAttrs keeps the order, and a
\* dependent fileset shows none of the figures of its space (args.go:56-62,
\* fs.go:222-245, fileset.go:46-82).
THEOREM ListingsRepeatNothing == Spec => []ListedOnce
<1>1. Composed => ListedOnce
  BY AttributesShown, SpacesShown DEF ListedOnce
<1> QED BY <1>1, LinesUnderstood, PTL

-----------------------------------------------------------------------------
(* Rows of values *)

\* g is l with m marks of a value from s on, apart from what l ends with.
GrownAt(l, g, i, s, m) ==
  /\ g \in Seq(Nat) /\ s \in Nat /\ Len(l) <= s /\ s + m <= Len(g)
  /\ l = <<>> \/ Len(l) < s \/ l[Len(l)] = Space
  /\ \A k \in 1..Len(g) :
       g[k] = IF k <= Len(l) THEN l[k] ELSE IF s < k /\ k <= s + m THEN i ELSE Space

LEMMA SpacesAre ==
  ASSUME NEW n \in Int
  PROVE  /\ Spaces(n) \in Seq(Nat) /\ Len(Spaces(n)) = IF n < 0 THEN 0 ELSE n
         /\ \A k \in 1..Len(Spaces(n)) : Spaces(n)[k] = Space
<1> DEFINE m == IF n < 0 THEN 0 ELSE n
<1>1. m \in Nat /\ 1..n = 1..m /\ Space \in Nat
  BY DEF Space
<1>2. Spaces(n) = [k \in 1..m |-> Space]
  BY <1>1 DEF Spaces
<1> HIDE DEF m
<1>3. [k \in 1..m |-> Space] \in [1..m -> Nat]
  BY <1>1
<1>4. [k \in 1..m |-> Space] \in Seq(Nat) /\ Len([k \in 1..m |-> Space]) = m
  BY <1>1, <1>3, FunctionIsSequence
<1>5. m = IF n < 0 THEN 0 ELSE n
  BY DEF m
<1> QED BY <1>2, <1>4, <1>5

LEMMA MarksAre ==
  ASSUME NEW i \in Nat, NEW n \in Nat
  PROVE  Text(i, n) \in Seq(Nat) /\ Len(Text(i, n)) = n /\ \A k \in 1..n : Text(i, n)[k] = i
<1>1. Text(i, n) \in [1..n -> Nat]
  BY DEF Text
<1>2. Text(i, n) \in Seq(Nat) /\ Len(Text(i, n)) = n
  BY <1>1, FunctionIsSequence DEF Text
<1> QED BY <1>2 DEF Text

\* A value with spaces before and behind.
Spaced(l, p, i, m, q) == ((l \o Spaces(p)) \o Text(i, m)) \o Spaces(q)
StartOf(l, p) == Len(l) + IF p < 0 THEN 0 ELSE p
EndsWell(l, p) == l = <<>> \/ p > 0 \/ l[Len(l)] = Space

\* A row grows by it.
LEMMA SpacedGrows ==
  ASSUME NEW l \in Seq(Nat), NEW i \in Nat, NEW m \in Nat, NEW p \in Int, NEW q \in Int
  PROVE  /\ Spaced(l, p, i, m, q) \in Seq(Nat)
         /\ EndsWell(l, p) => GrownAt(l, Spaced(l, p, i, m, q), i, StartOf(l, p), m)
         /\ Len(Spaced(l, p, i, m, q)) = StartOf(l, p) + m + IF q < 0 THEN 0 ELSE q
         /\ q > 0 => Spaced(l, p, i, m, q)[Len(Spaced(l, p, i, m, q))] = Space
<1> DEFINE a == Spaces(p)
           b == Text(i, m)
           c == Spaces(q)
           la == l \o a
           lab == la \o b
           g == lab \o c
<1>1. PICK n \in Nat : n = Len(l)
  OBVIOUS
<1>2. PICK pa \in Nat : pa = IF p < 0 THEN 0 ELSE p
  OBVIOUS
<1>3. PICK qa \in Nat : qa = IF q < 0 THEN 0 ELSE q
  OBVIOUS
<1>4. /\ a \in Seq(Nat) /\ b \in Seq(Nat) /\ c \in Seq(Nat)
      /\ Len(b) = m /\ Len(a) = pa /\ Len(c) = qa
      /\ \A k \in 1..pa : a[k] = Space
      /\ \A k \in 1..m : b[k] = i
      /\ \A k \in 1..qa : c[k] = Space
  BY <1>2, <1>3, SpacesAre, MarksAre
<1> HIDE DEF a, b, c
<1>5. PICK s \in Nat : s = n + pa
  OBVIOUS
<1>6. PICK e \in Nat : e = s + m
  OBVIOUS
<1>7. /\ la \in Seq(Nat) /\ Len(la) = s
      /\ \A k \in 1..s : la[k] = IF k <= n THEN l[k] ELSE a[k - n]
  <2>1. l \in Seq(Nat) /\ a \in Seq(Nat) /\ Len(l) = n /\ Len(a) = pa
    BY <1>1, <1>4
  <2>2. /\ la \in Seq(Nat) /\ Len(la) = Len(l) + Len(a)
        /\ \A k \in 1..(Len(l) + Len(a)) : la[k] = IF k <= Len(l) THEN l[k] ELSE a[k - Len(l)]
    BY <2>1, ConcatProperties
  <2> HIDE DEF la
  <2> QED BY <1>5, <2>1, <2>2
<1> HIDE DEF la
<1>8. /\ lab \in Seq(Nat) /\ Len(lab) = e
      /\ \A k \in 1..e : lab[k] = IF k <= s THEN la[k] ELSE b[k - s]
  <2>1. la \in Seq(Nat) /\ b \in Seq(Nat) /\ Len(la) = s /\ Len(b) = m
    BY <1>4, <1>7
  <2>2. /\ lab \in Seq(Nat) /\ Len(lab) = Len(la) + Len(b)
        /\ \A k \in 1..(Len(la) + Len(b)) : lab[k] = IF k <= Len(la) THEN la[k] ELSE b[k - Len(la)]
    BY <2>1, ConcatProperties
  <2> HIDE DEF lab
  <2> QED BY <1>6, <2>1, <2>2
<1> HIDE DEF lab
<1>9. /\ g \in Seq(Nat) /\ Len(g) = e + qa
      /\ \A k \in 1..(e + qa) : g[k] = IF k <= e THEN lab[k] ELSE c[k - e]
  <2>1. lab \in Seq(Nat) /\ c \in Seq(Nat) /\ Len(lab) = e /\ Len(c) = qa
    BY <1>4, <1>8
  <2>2. /\ g \in Seq(Nat) /\ Len(g) = Len(lab) + Len(c)
        /\ \A k \in 1..(Len(lab) + Len(c)) : g[k] = IF k <= Len(lab) THEN lab[k] ELSE c[k - Len(lab)]
    BY <2>1, ConcatProperties
  <2> HIDE DEF g
  <2> QED BY <1>4, <2>1, <2>2
<1> HIDE DEF g
<1>10. ASSUME NEW k \in 1..Len(g)
      PROVE  g[k] = IF k <= n THEN l[k] ELSE IF s < k /\ k <= e THEN i ELSE Space
  <2>1. k \in Nat /\ 1 <= k /\ k <= e + qa /\ k \in 1..(e + qa)
    BY <1>9
  <2>2. CASE k <= s
    <3>1. k \in 1..s /\ k \in 1..e /\ k <= e
      BY <1>6, <2>1, <2>2
    <3>2. g[k] = IF k <= n THEN l[k] ELSE a[k - n]
      BY <1>7, <1>8, <1>9, <2>1, <2>2, <3>1
    <3>3. ~(k <= n) => k - n \in 1..pa
      BY <1>5, <2>1, <2>2
    <3> QED BY <1>4, <2>1, <2>2, <3>2, <3>3
  <2>3. CASE s < k /\ k <= e
    <3>1. k \in 1..e /\ ~(k <= n) /\ ~(k <= s) /\ k - s \in 1..m
      BY <1>5, <1>6, <2>1, <2>3
    <3>2. g[k] = b[k - s]
      BY <1>8, <1>9, <2>1, <2>3, <3>1
    <3> QED BY <1>4, <2>3, <3>1, <3>2
  <2>4. CASE e < k
    <3>1. ~(k <= n) /\ ~(k <= e) /\ k - e \in 1..qa
      BY <1>5, <1>6, <2>1, <2>4
    <3>2. g[k] = c[k - e]
      BY <1>9, <2>1, <3>1
    <3> QED BY <1>4, <3>1, <3>2
  <2> QED BY <2>1, <2>2, <2>3, <2>4
<1>11. n <= s /\ s + m <= Len(g)
  BY <1>5, <1>6, <1>9
<1>12. EndsWell(l, p) => l = <<>> \/ n < s \/ l[n] = Space
  BY <1>1, <1>2, <1>5 DEF EndsWell
<1>13. EndsWell(l, p) => GrownAt(l, g, i, s, m)
  BY <1>1, <1>6, <1>9, <1>10, <1>11, <1>12 DEF GrownAt
<1>14. q > 0 => g[Len(g)] = Space
  <2>1. q > 0 => Len(g) \in 1..Len(g) /\ ~(Len(g) <= n) /\ ~(Len(g) <= e)
    BY <1>3, <1>5, <1>6, <1>9
  <2> QED BY <1>10, <2>1
<1>15. s = StartOf(l, p)
  BY <1>1, <1>2, <1>5 DEF StartOf
<1>16. g = Spaced(l, p, i, m, q)
  BY DEF Spaced, g, lab, la, a, b, c
<1>17. Len(g) = StartOf(l, p) + m + IF q < 0 THEN 0 ELSE q
  BY <1>3, <1>6, <1>9, <1>15
<1> QED BY <1>9, <1>13, <1>14, <1>15, <1>16, <1>17

LEMMA NoSpaces ==
  ASSUME NEW l \in Seq(Nat), NEW p \in Int, NEW i \in Nat, NEW m \in Nat
  PROVE  (l \o Spaces(p)) \o Text(i, m) = Spaced(l, p, i, m, 0)
<1> DEFINE g == (l \o Spaces(p)) \o Text(i, m)
<1>1. Spaces(0) = <<>>
  BY DEF Spaces
<1>2. Spaces(p) \in Seq(Nat) /\ Text(i, m) \in Seq(Nat)
  BY SpacesAre, MarksAre
<1>3. g \in Seq(Nat)
  BY <1>2, ConcatProperties
<1> HIDE DEF g
<1>4. g \o <<>> = g
  BY <1>3, ConcatEmptySeq
<1> QED BY <1>1, <1>4 DEF Spaced, g

\* At a column a value begins there, if the row leaves room.
LEMMA AtGrows ==
  ASSUME NEW l \in Seq(Nat), NEW col \in Int, NEW i \in Nat, NEW m \in Nat
  PROVE  \E s \in Nat :
           /\ GrownAt(l, at(l, col, Text(i, m)), i, s, m)
           /\ Len(at(l, col, Text(i, m))) = s + m
           /\ (col >= 0 /\ (l = <<>> \/ col > Len(l))) => s = col
<1> DEFINE start == IF l # <<>> /\ col <= Len(l) THEN Len(l) + 1 ELSE col
           p == start - Len(l)
           s == StartOf(l, p)
<1>1. Len(l) \in Nat /\ start \in Int /\ p \in Int /\ (l = <<>> => Len(l) = 0)
  OBVIOUS
<1>2. at(l, col, Text(i, m)) = (l \o Spaces(p)) \o Text(i, m)
  BY DEF at, padTo
<1>3. EndsWell(l, p)
  BY <1>1 DEF EndsWell
<1>4. (col >= 0 /\ (l = <<>> \/ col > Len(l))) => s = col
  BY <1>1 DEF StartOf
<1>5. s \in Nat
  BY <1>1 DEF StartOf
<1> HIDE DEF start, p, s
<1>6. at(l, col, Text(i, m)) = Spaced(l, p, i, m, 0)
  BY <1>1, <1>2, NoSpaces
<1>7. GrownAt(l, Spaced(l, p, i, m, 0), i, s, m) /\ Len(Spaced(l, p, i, m, 0)) = s + m
  <2>1. 0 \in Int /\ s + m + (IF 0 < 0 THEN 0 ELSE 0) = s + m
    BY <1>5
  <2> QED BY <1>1, <1>3, <2>1, SpacedGrows DEF s
<1> QED BY <1>4, <1>5, <1>6, <1>7

\* At its column when the row leaves room.
LEMMA AtBegins ==
  ASSUME NEW l \in Seq(Nat), NEW col \in Nat, NEW i \in Nat, NEW m \in Nat, l = <<>> \/ col > Len(l)
  PROVE  LET g == at(l, col, Text(i, m)) IN GrownAt(l, g, i, col, m) /\ Len(g) = col + m
<1>1. col \in Int /\ col >= 0
  OBVIOUS
<1>2. PICK s \in Nat : /\ GrownAt(l, at(l, col, Text(i, m)), i, s, m)
                       /\ Len(at(l, col, Text(i, m))) = s + m
                       /\ (col >= 0 /\ (l = <<>> \/ col > Len(l))) => s = col
  BY <1>1, AtGrows
<1>3. s = col
  BY <1>1, <1>2
<1> QED BY <1>2, <1>3

\* In a field to the left a value begins where the row ends, and a space follows.
LEMMA CellGrows ==
  ASSUME NEW l \in Seq(Nat), NEW width \in Nat, NEW i \in Nat, NEW m \in Nat
  PROVE  /\ cell(l, width, Text(i, m)) \in Seq(Nat)
         /\ l = <<>> \/ l[Len(l)] = Space =>
              /\ \E s \in Nat : GrownAt(l, cell(l, width, Text(i, m)), i, s, m)
              /\ cell(l, width, Text(i, m))[Len(cell(l, width, Text(i, m)))] = Space
<1> DEFINE q == IF m >= width THEN 1 ELSE width - m
           g == cell(l, width, Text(i, m))
<1>1. /\ Text(i, m) \in Seq(Nat) /\ Len(Text(i, m)) = m
      /\ l \o Text(i, m) \in Seq(Nat) /\ Len(l \o Text(i, m)) = Len(l) + m
  <2>1. Text(i, m) \in Seq(Nat) /\ Len(Text(i, m)) = m
    BY MarksAre
  <2> QED BY <2>1, ConcatProperties
<1>2. Spaces(0) = <<>> /\ Spaces(1) = <<Space>>
  BY DEF Spaces
<1>3. l \o Spaces(0) = l
  BY <1>2, ConcatEmptySeq
<1>4. g = (l \o Text(i, m)) \o Spaces(q)
  <2>1. CASE m >= width
    BY <1>1, <1>2, <2>1 DEF cell
  <2>2. CASE ~(m >= width)
    <3>1. Len(l) + width - Len(l \o Text(i, m)) = q
      BY <1>1, <2>2
    <3>2. g = padTo(l \o Text(i, m), Len(l) + width)
      BY <1>1, <2>2 DEF cell
    <3> QED BY <3>1, <3>2 DEF padTo
  <2> QED BY <2>1, <2>2
<1>5. g = Spaced(l, 0, i, m, q)
  BY <1>3, <1>4 DEF Spaced
<1>6. q \in Int /\ q > 0
  OBVIOUS
<1>7. l = <<>> \/ l[Len(l)] = Space => EndsWell(l, 0)
  BY DEF EndsWell
<1>8. StartOf(l, 0) \in Nat
  BY DEF StartOf
<1> HIDE DEF g, q
<1> QED BY <1>5, <1>6, <1>7, <1>8, SpacedGrows DEF g

\* In a field to the right a space goes before it.
LEMMA RcellGrows ==
  ASSUME NEW l \in Seq(Nat), NEW width \in Nat, NEW i \in Nat, NEW m \in Nat
  PROVE  /\ rcell(l, width, Text(i, m)) \in Seq(Nat)
         /\ \E s \in Nat : GrownAt(l, rcell(l, width, Text(i, m)), i, s, m)
<1> DEFINE p == IF m >= width THEN 1 ELSE width - m
           g == rcell(l, width, Text(i, m))
<1>1. Text(i, m) \in Seq(Nat) /\ Len(Text(i, m)) = m
  BY MarksAre
<1>2. Spaces(1) = <<Space>>
  BY DEF Spaces
<1>3. g = (l \o Spaces(p)) \o Text(i, m)
  <2>1. CASE m >= width
    BY <1>1, <1>2, <2>1 DEF rcell
  <2>2. CASE ~(m >= width)
    <3>1. (Len(l) + width - Len(Text(i, m))) - Len(l) = p
      BY <1>1, <2>2
    <3>2. g = padTo(l, Len(l) + width - Len(Text(i, m))) \o Text(i, m)
      BY <1>1, <2>2 DEF rcell
    <3> QED BY <3>1, <3>2 DEF padTo
  <2> QED BY <2>1, <2>2
<1>4. p \in Int /\ p > 0
  OBVIOUS
<1>5. EndsWell(l, p) /\ StartOf(l, p) \in Nat
  BY <1>4 DEF EndsWell, StartOf
<1> HIDE DEF g, p
<1>6. g = Spaced(l, p, i, m, 0)
  BY <1>3, <1>4, NoSpaces
<1> QED BY <1>4, <1>5, <1>6, SpacedGrows DEF g

\* The values printed, and where their columns begin.
Printable == printed \in Seq(Nat \X Seq(Characters))

LEMMA ValuesHave ==
  ASSUME Printable, NEW i \in 1..Len(printed)
  PROVE  Width(i) \in Nat /\ Size(i) \in Nat /\ printed[i][2] \in Seq(Characters)
<1>1. printed[i] \in Nat \X Seq(Characters)
  BY DEF Printable
<1> QED BY <1>1 DEF Width, Size

LEMMA ColumnsAdd ==
  ASSUME Printable
  PROVE  /\ \A i \in 1..Len(printed) : Column(i) \in Nat
         /\ Column(1) = 0
         /\ \A i \in 1..Len(printed) : Column(i + 1) = Column(i) + Width(i) + 2
<1> DEFINE m == Len(printed)
           Sums(f) == f = [n \in 0..m |-> IF n = 0 THEN 0 ELSE f[n - 1] + Width(n) + 2]
           G == [x \in (1..m) \X Nat |-> x[2] + Width(x[1]) + 2]
           upto == CHOOSE f : Sums(f)
<1>1. m \in Nat /\ \A n \in 1..m : Width(n) \in Nat
  BY ValuesHave DEF Printable
<1>2. \A i : Column(i) = upto[i - 1]
  BY DEF Column
<1> HIDE DEF m
<1>3. G \in Steps(m, Nat)
  <2>1. \A x \in (1..m) \X Nat : x[2] + Width(x[1]) + 2 \in Nat
    BY <1>1
  <2> QED BY <2>1 DEF Steps
<1>4. \A n \in 1..m, s \in Nat : G[<<n, s>>] = s + Width(n) + 2
  OBVIOUS
<1> HIDE DEF G
<1>5. PICK f \in [0..m -> Nat] : Follows(m, G, 0, f)
  BY <1>1, <1>3, Recursion
<1>6. Sums(f)
  <2>1. \A n \in 1..m : f[n - 1] \in Nat /\ f[n] = f[n - 1] + Width(n) + 2
    <3> TAKE n \in 1..m
    <3>1. n - 1 \in 0..m
      BY <1>1
    <3> QED BY <1>4, <1>5, <3>1 DEF Follows
  <2>2. \A n \in 0..m : f[n] = IF n = 0 THEN 0 ELSE f[n - 1] + Width(n) + 2
    BY <1>1, <1>5, <2>1 DEF Follows
  <2>3. f = [n \in 0..m |-> f[n]]
    BY <1>5
  <2> QED BY <2>2, <2>3
<1>7. Sums(upto)
  <2> HIDE DEF Sums
  <2> QED BY <1>6
<1> HIDE DEF upto
<1>8. upto[0] = 0 /\ \A n \in 1..m : upto[n] = upto[n - 1] + Width(n) + 2
  BY <1>1, <1>7
<1> DEFINE Counts == {n \in 0..m : upto[n] \in Nat}
<1>9. 0..m \subseteq Counts
  <2>1. 0 \in Counts
    BY <1>1, <1>8
  <2>2. ASSUME NEW n \in 1..m, n - 1 \in Counts PROVE n \in Counts
    BY <1>1, <1>8, <2>2
  <2> HIDE DEF Counts
  <2> QED BY <1>1, <2>1, <2>2, InductionUpto
<1>10. ASSUME NEW i \in 1..m PROVE Column(i) \in Nat /\ Column(i + 1) = Column(i) + Width(i) + 2
  <2>1. i - 1 \in 0..m /\ (i + 1) - 1 = i
    BY <1>1
  <2> QED BY <1>2, <1>8, <1>9, <2>1
<1>11. Column(1) = 0
  <2>1. 1 - 1 = 0
    OBVIOUS
  <2> QED BY <1>2, <1>8, <2>1
<1> QED BY <1>10, <1>11 DEF m

\* Values in fields to the left leave the row ending with a space.
InCell(layout, left, n) == layout # "columns" /\ n \in left
EndsBlank(l) == l = <<>> \/ l[Len(l)] = Space

LEMMA PutGrows ==
  ASSUME Printable, NEW n \in 1..Len(printed), NEW l \in Seq(Nat), NEW layout, NEW left
  PROVE  LET g == Put(layout, left, l, n) IN
         /\ g \in Seq(Nat)
         /\ EndsBlank(l) \/ ~InCell(layout, left, n) => \E s \in Nat : GrownAt(l, g, n, s, Size(n))
         /\ EndsBlank(l) /\ InCell(layout, left, n) => EndsBlank(g)
<1> DEFINE g == Put(layout, left, l, n)
<1>1. n \in Nat /\ Size(n) \in Nat /\ Width(n) \in Nat /\ Column(n) \in Nat
  BY ValuesHave, ColumnsAdd DEF Printable
<1>2. Marks(n) = Text(n, Size(n)) /\ Len(Text(n, Size(n))) = Size(n)
  BY <1>1, MarksAre DEF Marks
<1>3. CASE layout = "columns" /\ n \in left
  <2>1. g = at(l, Column(n), Text(n, Size(n))) /\ ~InCell(layout, left, n)
    BY <1>2, <1>3 DEF Put, InCell
  <2> HIDE DEF g
  <2>2. Column(n) \in Int
    BY <1>1
  <2>3. PICK s \in Nat : GrownAt(l, g, n, s, Size(n))
    BY <1>1, <2>1, <2>2, AtGrows
  <2>4. g \in Seq(Nat)
    BY <2>3 DEF GrownAt
  <2> QED BY <2>1, <2>3, <2>4 DEF g
<1>4. CASE layout = "columns" /\ n \notin left
  <2> DEFINE c == (Column(n) + Width(n)) - Size(n)
  <2>1. g = at(l, c, Text(n, Size(n))) /\ ~InCell(layout, left, n)
    BY <1>2, <1>4 DEF Put, InCell, rightAt
  <2>2. c \in Int
    BY <1>1
  <2> HIDE DEF g, c
  <2>3. PICK s \in Nat : GrownAt(l, g, n, s, Size(n))
    BY <1>1, <2>1, <2>2, AtGrows
  <2>4. g \in Seq(Nat)
    BY <2>3 DEF GrownAt
  <2> QED BY <2>1, <2>3, <2>4 DEF g
<1>5. CASE layout # "columns" /\ n \in left
  <2>1. g = cell(l, Width(n), Text(n, Size(n))) /\ InCell(layout, left, n)
    BY <1>2, <1>5 DEF Put, InCell
  <2> HIDE DEF g
  <2>2. /\ g \in Seq(Nat)
        /\ EndsBlank(l) => (\E s \in Nat : GrownAt(l, g, n, s, Size(n))) /\ g[Len(g)] = Space
    BY <1>1, <2>1, CellGrows DEF EndsBlank
  <2> QED BY <2>1, <2>2 DEF g, EndsBlank
<1>6. CASE layout # "columns" /\ n \notin left
  <2>1. g = rcell(l, Width(n), Text(n, Size(n))) /\ ~InCell(layout, left, n)
    BY <1>2, <1>6 DEF Put, InCell
  <2> HIDE DEF g
  <2>2. g \in Seq(Nat) /\ \E s \in Nat : GrownAt(l, g, n, s, Size(n))
    BY <1>1, <2>1, RcellGrows
  <2> QED BY <2>1, <2>2 DEF g
<1> QED BY <1>3, <1>4, <1>5, <1>6

\* A row is made value by value.
MadeOf(f, layout, left) ==
  /\ f \in [0..Len(printed) -> Seq(Nat)]
  /\ f[0] = <<>>
  /\ \A n \in 1..Len(printed) : f[n] = Put(layout, left, f[n - 1], n)
  /\ Row(layout, left) = f[Len(printed)]

LEMMA RowMade ==
  ASSUME Printable, NEW layout, NEW left
  PROVE  \E f : MadeOf(f, layout, left)
<1> DEFINE m == Len(printed)
           Lays(f) == f = [n \in 0..m |-> IF n = 0 THEN <<>> ELSE Put(layout, left, f[n - 1], n)]
           G == [x \in (1..m) \X Seq(Nat) |-> Put(layout, left, x[2], x[1])]
           row == CHOOSE f : Lays(f)
<1>1. m \in Nat /\ \A n \in 1..m, l \in Seq(Nat) : Put(layout, left, l, n) \in Seq(Nat)
  BY PutGrows DEF Printable
<1>2. Row(layout, left) = row[m]
  BY DEF Row
<1>3. G \in Steps(m, Seq(Nat))
  <2>1. \A x \in (1..m) \X Seq(Nat) : Put(layout, left, x[2], x[1]) \in Seq(Nat)
    BY <1>1
  <2> HIDE DEF m
  <2> QED BY <2>1 DEF Steps
<1>4. \A n \in 1..m, l \in Seq(Nat) : G[<<n, l>>] = Put(layout, left, l, n)
  OBVIOUS
<1> HIDE DEF G, m
<1>5. <<>> \in Seq(Nat)
  OBVIOUS
<1>6. PICK f \in [0..m -> Seq(Nat)] : Follows(m, G, <<>>, f)
  BY <1>1, <1>3, <1>5, Recursion
<1>7. \A n \in 1..m : f[n - 1] \in Seq(Nat) /\ f[n] = Put(layout, left, f[n - 1], n)
  <2> TAKE n \in 1..m
  <2>1. n - 1 \in 0..m
    BY <1>1
  <2> QED BY <1>4, <1>6, <2>1 DEF Follows
<1>8. Lays(f)
  <2>1. \A n \in 0..m : f[n] = IF n = 0 THEN <<>> ELSE Put(layout, left, f[n - 1], n)
    <3> TAKE n \in 0..m
    <3>1. n = 0 \/ (n \in 1..m /\ n # 0)
      BY <1>1
    <3>2. f[0] = <<>>
      BY <1>6 DEF Follows
    <3> QED BY <1>7, <3>1, <3>2
  <2>2. f = [n \in 0..m |-> f[n]]
    BY <1>6
  <2> QED BY <2>1, <2>2
<1>9. Lays(row)
  <2> HIDE DEF Lays
  <2> QED BY <1>8
<1> HIDE DEF row
<1>10. row[0] = <<>> /\ \A n \in 1..m : row[n] = Put(layout, left, row[n - 1], n)
  BY <1>1, <1>9
<1> DEFINE Rows == {n \in 0..m : row[n] \in Seq(Nat)}
<1>11. 0..m \subseteq Rows
  <2>1. 0 \in Rows
    <3>1. 0 \in 0..m
      BY <1>1
    <3>2. row[0] \in Seq(Nat)
      BY <1>5, <1>10, Zenon
    <3> QED BY <3>1, <3>2
  <2>2. ASSUME NEW n \in 1..m, n - 1 \in Rows PROVE n \in Rows
    <3>1. row[n - 1] \in Seq(Nat)
      BY <2>2
    <3> QED BY <1>1, <1>10, <3>1
  <2> HIDE DEF Rows
  <2> QED BY <1>1, <2>1, <2>2, InductionUpto
<1>12. row = [n \in 0..m |-> row[n]]
  BY <1>9
<1>13. row \in [0..m -> Seq(Nat)]
  BY <1>11, <1>12
<1>14. MadeOf(row, layout, left)
  BY <1>2, <1>10, <1>13 DEF MadeOf, m
<1> QED BY <1>14

\* Where the values before the n-th stand on a row, from start on.
Placed(l, start, n) ==
  /\ \A k \in 1..Len(l) : l[k] = Space \/ l[k] \in 1..n
  /\ \A i \in 1..n :
       /\ start[i] \in Nat /\ start[i] + Size(i) <= Len(l)
       /\ \A k \in 1..Len(l) : l[k] = i <=> start[i] < k /\ k <= start[i] + Size(i)
  /\ \A i, j \in 1..n : i < j /\ Size(i) > 0 => start[i] + Size(i) < start[j]

LEMMA PlacedNext ==
  ASSUME Printable, NEW n \in 1..Len(printed), NEW l \in Seq(Nat), NEW g, NEW start,
         Placed(l, start, n - 1), GrownAt(l, g, n, start[n], Size(n))
  PROVE  Placed(g, start, n)
<1>1. /\ g \in Seq(Nat) /\ start[n] \in Nat /\ Len(l) <= start[n] /\ start[n] + Size(n) <= Len(g)
      /\ l = <<>> \/ Len(l) < start[n] \/ l[Len(l)] = Space
      /\ \A k \in 1..Len(g) :
           g[k] = IF k <= Len(l) THEN l[k] ELSE IF start[n] < k /\ k <= start[n] + Size(n) THEN n ELSE Space
  BY DEF GrownAt
<1>2. n \in Nat /\ n - 1 \in Nat /\ n # 0 /\ Space = 0 /\ \A i \in 1..n : Size(i) \in Nat
  BY ValuesHave DEF Printable, Space
<1>3. Len(l) \in Nat /\ Len(g) \in Nat
  BY <1>1
<1>4. ASSUME NEW k \in 1..Len(g) PROVE g[k] = Space \/ g[k] \in 1..n
  <2>1. CASE k <= Len(l)
    <3>1. k \in 1..Len(l) /\ g[k] = l[k]
      BY <1>1, <1>3, <2>1
    <3> QED BY <1>2, <3>1 DEF Placed
  <2>2. CASE ~(k <= Len(l))
    BY <1>1, <1>2, <2>2
  <2> QED BY <2>1, <2>2
<1>5. ASSUME NEW i \in 1..n
      PROVE  /\ start[i] \in Nat /\ start[i] + Size(i) <= Len(g)
             /\ \A k \in 1..Len(g) : g[k] = i <=> start[i] < k /\ k <= start[i] + Size(i)
  <2>1. CASE i = n
    <3>1. ASSUME NEW k \in 1..Len(g), k <= Len(l) PROVE g[k] # n
      <4>1. k \in 1..Len(l) /\ g[k] = l[k]
        BY <1>1, <1>3, <3>1
      <4>2. l[k] = Space \/ l[k] \in 1..(n - 1)
        BY <4>1 DEF Placed
      <4> QED BY <1>2, <4>1, <4>2
    <3>2. ASSUME NEW k \in 1..Len(g) PROVE g[k] = n <=> start[n] < k /\ k <= start[n] + Size(n)
      BY <1>1, <1>2, <1>3, <3>1
    <3> QED BY <1>1, <2>1, <3>2
  <2>2. CASE i # n
    <3>1. i \in 1..(n - 1)
      BY <1>2, <2>2
    <3>2. /\ start[i] \in Nat /\ start[i] + Size(i) <= Len(l)
          /\ \A k \in 1..Len(l) : l[k] = i <=> start[i] < k /\ k <= start[i] + Size(i)
      BY <3>1 DEF Placed
    <3>3. Size(i) \in Nat /\ i \in Nat /\ i # 0
      BY <1>2
    <3>4. ASSUME NEW k \in 1..Len(g) PROVE g[k] = i <=> start[i] < k /\ k <= start[i] + Size(i)
      <4>1. CASE k <= Len(l)
        <5>1. k \in 1..Len(l) /\ g[k] = l[k]
          BY <1>1, <1>3, <4>1
        <5> QED BY <3>2, <5>1
      <4>2. CASE ~(k <= Len(l))
        <5>1. g[k] # i
          BY <1>1, <1>2, <2>2, <3>3, <4>2
        <5>2. ~(k <= start[i] + Size(i))
          BY <1>3, <3>2, <3>3, <4>2
        <5> QED BY <5>1, <5>2
      <4> QED BY <4>1, <4>2
    <3>5. start[i] + Size(i) <= Len(g)
      BY <1>1, <1>2, <1>3, <3>2, <3>3
    <3> QED BY <3>2, <3>4, <3>5
  <2> QED BY <2>1, <2>2
<1>6. ASSUME NEW i \in 1..n, NEW j \in 1..n, i < j, Size(i) > 0 PROVE start[i] + Size(i) < start[j]
  <2>1. i \in 1..(n - 1)
    BY <1>2, <1>6
  <2>2. /\ start[i] \in Nat /\ start[i] + Size(i) <= Len(l)
        /\ \A k \in 1..Len(l) : l[k] = i <=> start[i] < k /\ k <= start[i] + Size(i)
    BY <2>1 DEF Placed
  <2>3. CASE j # n
    <3>1. j \in 1..(n - 1)
      BY <1>2, <2>3
    <3> QED BY <1>6, <2>1, <3>1 DEF Placed
  <2>4. CASE j = n
    <3>1. Size(i) \in Nat /\ i \in Nat /\ i # 0
      BY <1>2
    <3>2. Len(l) > 0 /\ l # <<>>
      BY <1>3, <1>6, <2>2, <3>1
    <3>3. CASE Len(l) < start[n]
      BY <1>1, <1>3, <2>2, <2>4, <3>1, <3>3
    <3>4. CASE l[Len(l)] = Space
      <4>1. Len(l) \in 1..Len(l)
        BY <1>3, <3>2
      <4>2. ~(start[i] < Len(l) /\ Len(l) <= start[i] + Size(i))
        BY <1>2, <2>2, <3>1, <3>4, <4>1
      <4>3. start[i] + Size(i) < Len(l)
        BY <1>3, <1>6, <2>2, <3>1, <4>2
      <4> QED BY <1>1, <1>3, <2>2, <2>4, <3>1, <4>3
    <3> QED BY <1>1, <3>2, <3>3, <3>4
  <2> QED BY <2>3, <2>4
<1> QED BY <1>4, <1>5, <1>6 DEF Placed

\* A row on which every value is placed can be read.
LEMMA PlacedReadable ==
  ASSUME Printable, NEW l \in Seq(Nat), NEW start, Placed(l, start, Len(printed))
  PROVE  Readable(l)
<1> DEFINE m == Len(printed)
<1>1. /\ m \in Nat /\ Len(l) \in Nat /\ DOMAIN printed = 1..m /\ DOMAIN l = 1..Len(l) /\ Space = 0
      /\ \A i \in 1..m : Size(i) \in Nat
  BY ValuesHave DEF Printable, Space
<1>2. /\ \A k \in 1..Len(l) : l[k] = Space \/ l[k] \in 1..m
      /\ \A i \in 1..m :
           /\ start[i] \in Nat /\ start[i] + Size(i) <= Len(l)
           /\ \A k \in 1..Len(l) : l[k] = i <=> start[i] < k /\ k <= start[i] + Size(i)
      /\ \A i, j \in 1..m : i < j /\ Size(i) > 0 => start[i] + Size(i) < start[j]
  BY DEF Placed
<1> HIDE DEF m
<1>3. ASSUME NEW i \in 1..m
      PROVE  LET marks == {k \in DOMAIN l : l[k] = i} IN
             /\ Cardinality(marks) = Size(i)
             /\ marks # {} => marks = Min(marks)..Max(marks)
  <2> DEFINE marks == {k \in DOMAIN l : l[k] = i}
             a == start[i] + 1
             b == start[i] + Size(i)
  <2>1. start[i] \in Nat /\ Size(i) \in Nat /\ a \in Int /\ b \in Int /\ b <= Len(l)
    BY <1>1, <1>2
  <2>2. marks = a..b
    <3>1. \A k \in 1..Len(l) : l[k] = i <=> k \in a..b
      BY <1>1, <1>2, <2>1
    <3>2. \A k \in a..b : k \in 1..Len(l)
      BY <1>1, <2>1
    <3>3. marks = {k \in 1..Len(l) : l[k] = i}
      BY <1>1
    <3> HIDE DEF a, b, marks
    <3> QED BY <3>1, <3>2, <3>3
  <2>3. Cardinality(a..b) = Size(i)
    <3>1. Cardinality(a..b) = IF a > b THEN 0 ELSE b - a + 1
      <4> HIDE DEF a, b
      <4> QED BY <2>1, FS_Interval
    <3> QED BY <2>1, <3>1
  <2> HIDE DEF marks, a, b
  <2>4. marks # {} => marks = Min(marks)..Max(marks)
    <3> SUFFICES ASSUME marks # {} PROVE Min(marks) = a /\ Max(marks) = b
      BY <2>2
    <3>1. a <= b /\ a \in marks /\ b \in marks /\ \A x \in marks : x \in Int /\ a <= x /\ x <= b
      BY <2>1, <2>2
    <3>2. Min(marks) \in marks /\ \A x \in marks : Min(marks) <= x
      BY <3>1 DEF Min
    <3>3. Max(marks) \in marks /\ \A x \in marks : Max(marks) >= x
      BY <3>1 DEF Max
    <3>4. Min(marks) = a
      <4>1. Min(marks) \in Int /\ a <= Min(marks)
        BY <3>1, <3>2
      <4>2. Min(marks) <= a
        BY <3>1, <3>2
      <4> QED BY <2>1, <4>1, <4>2
    <3>5. Max(marks) = b
      <4>1. Max(marks) \in Int /\ Max(marks) <= b
        BY <3>1, <3>3
      <4>2. Max(marks) >= b
        BY <3>1, <3>3
      <4> QED BY <2>1, <4>1, <4>2
    <3> QED BY <3>4, <3>5
  <2>5. Cardinality(marks) = Size(i)
    BY <2>2, <2>3, Zenon
  <2> QED BY <2>4, <2>5, Zenon DEF marks
<1>4. ASSUME NEW j \in 1..Len(l), NEW k \in 1..Len(l), j < k, l[j] # Space, l[k] # Space, l[j] # l[k]
      PROVE  l[j] < l[k] /\ j + 1 < k
  <2>1. PICK x \in 1..m : x = l[j]
    BY <1>2, <1>4
  <2>2. PICK y \in 1..m : y = l[k]
    BY <1>2, <1>4
  <2>3. x \in Nat /\ y \in Nat /\ x # y /\ j \in Nat /\ k \in Nat
    BY <1>1, <1>4, <2>1, <2>2
  <2>4. /\ start[x] \in Nat /\ start[x] < j /\ j <= start[x] + Size(x) /\ Size(x) \in Nat
        /\ start[y] \in Nat /\ start[y] < k /\ k <= start[y] + Size(y) /\ Size(y) \in Nat
    BY <1>1, <1>2, <2>1, <2>2
  <2>5. Size(x) > 0 /\ Size(y) > 0
    BY <2>3, <2>4
  <2>6. ~(y < x)
    <3> SUFFICES ASSUME y < x PROVE FALSE
      OBVIOUS
    <3>1. start[y] + Size(y) < start[x]
      BY <1>2, <2>5
    <3> QED BY <1>4, <2>3, <2>4, <3>1
  <2>7. start[x] + Size(x) < start[y]
    BY <1>2, <2>3, <2>5, <2>6
  <2> QED BY <2>1, <2>2, <2>3, <2>4, <2>6, <2>7
<1>5. \A k \in 1..(Len(l) - 1) : l[k] = Space \/ l[k + 1] = Space \/ l[k] = l[k + 1]
  <2> SUFFICES ASSUME NEW k \in 1..(Len(l) - 1), l[k] # Space, l[k + 1] # Space, l[k] # l[k + 1] PROVE FALSE
    OBVIOUS
  <2>1. k \in 1..Len(l) /\ k + 1 \in 1..Len(l) /\ k < k + 1 /\ ~(k + 1 < k + 1)
    BY <1>1
  <2> QED BY <1>4, <2>1
<1>6. \A j, k \in DOMAIN l : j < k /\ l[j] # Space /\ l[k] # Space => l[j] <= l[k]
  <2> SUFFICES ASSUME NEW j \in 1..Len(l), NEW k \in 1..Len(l), j < k, l[j] # Space, l[k] # Space
               PROVE  l[j] <= l[k]
    BY <1>1
  <2>1. l[j] \in Nat /\ l[k] \in Nat
    OBVIOUS
  <2> QED BY <1>4, <2>1
<1> QED BY <1>1, <1>3, <1>5, <1>6 DEF Readable

\* Every value is placed somewhere.
LEMMA RowPlaced ==
  ASSUME Printable, NEW layout, NEW left, NEW f, MadeOf(f, layout, left),
         layout = "columns" \/ \A n \in left, j \in 1..Len(printed) : j <= n => j \in left
  PROVE  \E start : /\ Placed(f[Len(printed)], start, Len(printed))
                    /\ \A n \in 1..Len(printed) : GrownAt(f[n - 1], f[n], n, start[n], Size(n))
<1> DEFINE m == Len(printed)
           start == [n \in 1..m |-> CHOOSE s \in Nat : GrownAt(f[n - 1], f[n], n, s, Size(n))]
<1>1. /\ m \in Nat /\ f \in [0..m -> Seq(Nat)] /\ f[0] = <<>>
      /\ \A n \in 1..m : f[n] = Put(layout, left, f[n - 1], n)
  BY DEF MadeOf, Printable
<1>2. \A n \in 1..m : n - 1 \in 0..m /\ n \in 0..m /\ f[n - 1] \in Seq(Nat)
  BY <1>1
<1>3. \A n \in 0..m : InCell(layout, left, n) => EndsBlank(f[n])
  <2> DEFINE Blank == {n \in 0..m : InCell(layout, left, n) => EndsBlank(f[n])}
  <2>1. 0 \in Blank
    BY <1>1 DEF EndsBlank
  <2>2. ASSUME NEW n \in 1..m, n - 1 \in Blank PROVE n \in Blank
    <3> SUFFICES ASSUME InCell(layout, left, n) PROVE EndsBlank(f[n])
      BY <1>2
    <3>1. EndsBlank(f[n - 1])
      <4>1. n - 1 = 0 \/ (n - 1 \in 1..m /\ n - 1 <= n)
        BY <1>1
      <4>2. n - 1 = 0 \/ InCell(layout, left, n - 1)
        BY <4>1 DEF InCell
      <4> QED BY <1>1, <2>2, <4>2 DEF EndsBlank
    <3> QED BY <1>1, <1>2, <3>1, PutGrows
  <2>3. 0..m \subseteq Blank
    <3> HIDE DEF Blank
    <3> QED BY <1>1, <2>1, <2>2, InductionUpto
  <2> QED BY <2>3
<1>4. ASSUME NEW n \in 1..m PROVE GrownAt(f[n - 1], f[n], n, start[n], Size(n))
  <2>1. EndsBlank(f[n - 1]) \/ ~InCell(layout, left, n)
    <3> SUFFICES ASSUME InCell(layout, left, n) PROVE EndsBlank(f[n - 1])
      OBVIOUS
    <3>1. n - 1 = 0 \/ (n - 1 \in 1..m /\ n - 1 <= n)
      BY <1>1
    <3>2. n - 1 = 0 \/ InCell(layout, left, n - 1)
      BY <3>1 DEF InCell
    <3> QED BY <1>1, <1>2, <1>3, <3>2 DEF EndsBlank
  <2>2. \E s \in Nat : GrownAt(f[n - 1], f[n], n, s, Size(n))
    BY <1>1, <1>2, <2>1, PutGrows
  <2> QED BY <2>2
<1> HIDE DEF start
<1> DEFINE Good == {n \in 0..m : Placed(f[n], start, n)}
<1>5. 0 \in Good
  <2>1. Len(f[0]) = 0
    BY <1>1
  <2> QED BY <1>1, <2>1 DEF Placed
<1>6. ASSUME NEW n \in 1..m, n - 1 \in Good PROVE n \in Good
  <2>1. Placed(f[n - 1], start, n - 1) /\ f[n - 1] \in Seq(Nat) /\ n \in 0..m
    BY <1>2, <1>6
  <2>2. Placed(f[n], start, n)
    BY <1>4, <2>1, PlacedNext
  <2> QED BY <2>1, <2>2
<1>7. m \in 0..m /\ 0..m \subseteq Good
  <2> HIDE DEF Good, m
  <2>1. m \in Nat
    BY <1>1
  <2>2. 0..m \subseteq Good
    BY <1>5, <1>6, <2>1, InductionUpto
  <2> QED BY <2>1, <2>2
<1>8. Placed(f[m], start, m)
  BY <1>7
<1> QED BY <1>4, <1>8

\* A value begins at its column when those before it leave room.
RoomFor(left, i) == Size(i) # 0 /\ \A j \in 1..(i - 1) : Leaves(left, j)

LEMMA BeginsAtColumn ==
  ASSUME Printable, NEW left, NEW f, MadeOf(f, "columns", left),
         NEW i \in 1..Len(printed), i \in left, RoomFor(left, i)
  PROVE  Row("columns", left)[Column(i) + 1] = i
<1> DEFINE m == Len(printed)
<1>1. /\ m \in Nat /\ f \in [0..m -> Seq(Nat)] /\ f[0] = <<>>
      /\ \A n \in 1..m : f[n] = Put("columns", left, f[n - 1], n)
      /\ Row("columns", left) = f[m]
  BY DEF MadeOf, Printable
<1>2. /\ \A n \in 1..m : Size(n) \in Nat /\ Width(n) \in Nat /\ Column(n) \in Nat
      /\ \A n \in 1..m : Column(n + 1) = Column(n) + Width(n) + 2
      /\ Column(1) = 0
  BY ValuesHave, ColumnsAdd
<1>3. ASSUME NEW n \in 1..m, n \in left, f[n - 1] = <<>> \/ Column(n) > Len(f[n - 1])
      PROVE  GrownAt(f[n - 1], f[n], n, Column(n), Size(n)) /\ Len(f[n]) = Column(n) + Size(n)
  <2> DEFINE l == f[n - 1]
  <2>1. n - 1 \in 0..m /\ n \in Nat
    BY <1>1
  <2>5. l \in Seq(Nat)
    BY <1>1, <2>1
  <2>6. Column(n) \in Int /\ Column(n) >= 0 /\ Size(n) \in Nat
    BY <1>2
  <2>2. Marks(n) = Text(n, Size(n)) /\ f[n] = at(l, Column(n), Text(n, Size(n)))
    BY <1>1, <1>3 DEF Put, Marks
  <2>3. l = <<>> \/ Column(n) > Len(l)
    BY <1>3
  <2> HIDE DEF l
  <2>4. GrownAt(l, f[n], n, Column(n), Size(n)) /\ Len(f[n]) = Column(n) + Size(n)
    <3> DEFINE c == Column(n)
               z == Size(n)
    <3>1. n \in Nat /\ c \in Nat /\ z \in Nat /\ (l = <<>> \/ c > Len(l))
      BY <1>2, <2>1, <2>3
    <3> HIDE DEF c, z
    <3>2. GrownAt(l, at(l, c, Text(n, z)), n, c, z) /\ Len(at(l, c, Text(n, z))) = c + z
      BY <2>5, <3>1, AtBegins
    <3> QED BY <2>2, <3>2, Zenon DEF c, z
  <2> QED BY <2>4 DEF l
<1>14. ASSUME NEW n \in 1..m, n \notin left, Size(n) <= Width(n),
              f[n - 1] = <<>> \/ Column(n) > Len(f[n - 1])
       PROVE  Len(f[n]) = Column(n) + Width(n)
  <2> DEFINE l == f[n - 1]
             z == Size(n)
             c == (Column(n) + Width(n)) - z
  <2>1. n - 1 \in 0..m /\ n \in Nat
    BY <1>1
  <2>2. l \in Seq(Nat)
    BY <1>1, <2>1
  <2>3. Column(n) \in Nat /\ Width(n) \in Nat /\ z \in Nat
    BY <1>2
  <2>4. c \in Nat /\ c >= Column(n) /\ c + z = Column(n) + Width(n)
    BY <1>14, <2>3
  <2>5. Marks(n) = Text(n, z) /\ Len(Marks(n)) = z
    BY <2>1, <2>3, MarksAre DEF Marks
  <2>6. f[n] = at(l, c, Text(n, z))
    BY <1>1, <1>14, <2>5 DEF Put, rightAt
  <2>7. l = <<>> \/ c > Len(l)
    BY <1>14, <2>2, <2>3, <2>4
  <2> HIDE DEF l, z, c
  <2>8. Len(at(l, c, Text(n, z))) = c + z
    BY <2>1, <2>2, <2>3, <2>4, <2>7, AtBegins
  <2> QED BY <2>4, <2>6, <2>8
<1> DEFINE Room == {n \in 0..m : n < i /\ n > 0 => Len(f[n]) < Column(n + 1)}
<1>4. 0 \in Room
  BY <1>1
<1>5. ASSUME NEW n \in 1..m, n - 1 \in Room PROVE n \in Room
  <2> SUFFICES ASSUME n < i PROVE Len(f[n]) < Column(n + 1)
    BY <1>1
  <2>1. f[n - 1] = <<>> \/ Column(n) > Len(f[n - 1])
    <3>1. CASE n = 1
      BY <1>1, <3>1
    <3>2. CASE n # 1
      <4>1. n - 1 < i /\ n - 1 > 0 /\ (n - 1) + 1 = n
        BY <3>2
      <4>2. Len(f[n - 1]) < Column((n - 1) + 1)
        BY <1>5, <4>1
      <4>3. f[n - 1] \in Seq(Nat) /\ Column(n) \in Nat
        <5>1. n - 1 \in 0..m
          BY <1>1
        <5> QED BY <1>1, <1>2, <5>1
      <4>4. Len(f[n - 1]) < Column(n) /\ Len(f[n - 1]) \in Nat
        BY <4>1, <4>2, <4>3
      <4> QED BY <4>3, <4>4
    <3> QED BY <3>1, <3>2
  <2>2. n \in 1..(i - 1)
    BY <1>1
  <2>3. Size(n) <= Width(n) \/ (n \in left /\ Size(n) < 2 + Width(n))
    BY <2>2 DEF RoomFor, Leaves
  <2>4. CASE n \in left
    <3>1. Len(f[n]) = Column(n) + Size(n)
      BY <1>3, <2>1, <2>4
    <3> QED BY <1>2, <2>3, <3>1
  <2>5. CASE n \notin left
    <3>1. Len(f[n]) = Column(n) + Width(n)
      BY <1>14, <2>1, <2>3, <2>5
    <3> QED BY <1>2, <3>1
  <2> QED BY <2>4, <2>5
<1>6. 0..m \subseteq Room
  <2> HIDE DEF Room, m
  <2> QED BY <1>1, <1>4, <1>5, InductionUpto
<1>7. f[i - 1] = <<>> \/ Column(i) > Len(f[i - 1])
  <2>1. CASE i = 1
    BY <1>1, <2>1
  <2>2. CASE i # 1
    <3>1. i - 1 \in 0..m /\ i - 1 < i /\ i - 1 > 0 /\ (i - 1) + 1 = i
      BY <1>1, <2>2
    <3>2. Len(f[i - 1]) < Column((i - 1) + 1)
      BY <1>6, <3>1
    <3>3. f[i - 1] \in Seq(Nat) /\ Column(i) \in Nat
      BY <1>1, <1>2, <3>1
    <3>4. Len(f[i - 1]) < Column(i) /\ Len(f[i - 1]) \in Nat
      BY <3>1, <3>2, <3>3
    <3> QED BY <3>3, <3>4
  <2> QED BY <2>1, <2>2
<1>8. GrownAt(f[i - 1], f[i], i, Column(i), Size(i)) /\ Len(f[i]) = Column(i) + Size(i)
  BY <1>3, <1>7
<1> DEFINE k == Column(i) + 1
           Stays == {n \in 0..m : n >= i => k <= Len(f[n]) /\ f[n][k] = i}
<1>9. i \in Nat /\ i >= 1 /\ k \in Nat /\ k >= 1 /\ Column(i) \in Nat /\ Size(i) > 0 /\ Size(i) \in Nat
  BY <1>2 DEF RoomFor
<1>10. 0 \in Stays
  BY <1>1, <1>9
<1>11. ASSUME NEW n \in 1..m, n - 1 \in Stays PROVE n \in Stays
  <2> SUFFICES ASSUME n >= i PROVE k <= Len(f[n]) /\ f[n][k] = i
    BY <1>1
  <2>1. CASE n = i
    <3>1. f[i] \in Seq(Nat) /\ f[i - 1] \in Seq(Nat) /\ Len(f[i - 1]) <= Column(i)
      <4>1. i \in 0..m /\ i - 1 \in 0..m
        BY <1>1
      <4> QED BY <1>1, <1>8, <4>1 DEF GrownAt
    <3>2. k \in 1..Len(f[i]) /\ ~(k <= Len(f[i - 1])) /\ Column(i) < k /\ k <= Column(i) + Size(i)
      BY <1>8, <1>9, <3>1
    <3>3. f[i][k] = i
      BY <1>8, <3>2 DEF GrownAt
    <3> QED BY <2>1, <3>2, <3>3
  <2>2. CASE n # i
    <3>1. n - 1 >= i /\ n - 1 \in 0..m /\ n \in 0..m /\ f[n - 1] \in Seq(Nat)
      <4>1. n - 1 >= i /\ n - 1 \in 0..m /\ n \in 0..m
        BY <1>1, <1>9, <2>2
      <4> QED BY <1>1, <4>1
    <3>2. k <= Len(f[n - 1]) /\ f[n - 1][k] = i
      BY <1>11, <3>1
    <3>3. ~InCell("columns", left, n)
      BY DEF InCell
    <3>4. PICK s \in Nat : GrownAt(f[n - 1], f[n], n, s, Size(n))
      BY <1>1, <3>1, <3>3, PutGrows
    <3>5. /\ f[n] \in Seq(Nat) /\ Len(f[n - 1]) <= s /\ s + Size(n) <= Len(f[n]) /\ Size(n) \in Nat
          /\ \A x \in 1..Len(f[n]) : x <= Len(f[n - 1]) => f[n][x] = f[n - 1][x]
      BY <1>2, <3>4 DEF GrownAt
    <3>6. k \in 1..Len(f[n])
      BY <1>9, <3>1, <3>2, <3>5
    <3> QED BY <3>2, <3>5, <3>6
  <2> QED BY <2>1, <2>2
<1>12. m \in 0..m /\ 0..m \subseteq Stays
  <2> HIDE DEF Stays, m
  <2>1. m \in Nat
    BY <1>1
  <2>2. 0..m \subseteq Stays
    BY <1>10, <1>11, <2>1, InductionUpto
  <2> QED BY <2>1, <2>2
<1>13. m >= i
  BY <1>1
<1> QED BY <1>1, <1>12, <1>13

\* Rows of any values can be read.
LEMMA ApartWhenPrintable == Printable => ValuesApart
<1> SUFFICES ASSUME Printable PROVE ValuesApart
  OBVIOUS
<1>1. DOMAIN printed = 1..Len(printed) /\ Len(printed) \in Nat
  BY DEF Printable
<1>2. ASSUME NEW layout, NEW left,
             layout = "columns" \/ \A n \in left, j \in 1..Len(printed) : j <= n => j \in left
      PROVE  Readable(Row(layout, left))
  <2>1. PICK f : MadeOf(f, layout, left)
    BY RowMade
  <2>2. PICK start : Placed(f[Len(printed)], start, Len(printed))
    BY <1>2, <2>1, RowPlaced
  <2>3. f[Len(printed)] \in Seq(Nat) /\ Row(layout, left) = f[Len(printed)]
    <3>1. Len(printed) \in 0..Len(printed)
      BY <1>1
    <3> QED BY <2>1, <3>1 DEF MadeOf
  <2> QED BY <2>2, <2>3, PlacedReadable
<1>3. ASSUME NEW left \in SUBSET (DOMAIN printed), NEW i \in left, RoomFor(left, i)
      PROVE  Row("columns", left)[Column(i) + 1] = i
  <2>1. PICK f : MadeOf(f, "columns", left)
    BY RowMade
  <2>2. i \in 1..Len(printed)
    BY <1>1
  <2> QED BY <1>3, <2>1, <2>2, BeginsAtColumn
<1>4. \A n \in DOMAIN printed : Readable(Row("fields", 1..n))
  <2> TAKE n \in DOMAIN printed
  <2>1. \A k \in 1..n, j \in 1..Len(printed) : j <= k => j \in 1..n
    BY <1>1
  <2> QED BY <1>2, <2>1
<1>5. \A left \in SUBSET (DOMAIN printed) : Readable(Row("columns", left))
  BY <1>2
<1> QED BY <1>3, <1>4, <1>5, Zenon DEF ValuesApart, RoomFor

-----------------------------------------------------------------------------
(* Records read back *)

TakesChars(f, s) == f = [n \in 0..Len(s) |-> IF n = 0 THEN NothingTaken ELSE TakeChar(f[n - 1], s[n])]

LEMMA TakesCharsExists ==
  ASSUME NEW s, Len(s) \in Nat
  PROVE  \E f : TakesChars(f, s)
<1> DEFINE m == Len(s)
           Made == {n \in 0..m : \E f : f = [i \in 0..n |-> IF i = 0 THEN NothingTaken
                                                              ELSE TakeChar(f[i - 1], s[i])]}
<1>1. 0 \in Made
  <2> DEFINE g == [i \in 0..0 |-> NothingTaken]
  <2>1. g = [i \in 0..0 |-> IF i = 0 THEN NothingTaken ELSE TakeChar(g[i - 1], s[i])]
    OBVIOUS
  <2>2. 0 \in 0..m
    OBVIOUS
  <2> HIDE DEF g
  <2> QED BY <2>1, <2>2
<1>2. ASSUME NEW n \in 1..m, n - 1 \in Made PROVE n \in Made
  <2>1. PICK f : f = [i \in 0..(n - 1) |-> IF i = 0 THEN NothingTaken ELSE TakeChar(f[i - 1], s[i])]
    BY <1>2
  <2> DEFINE g == [i \in 0..n |-> IF i = n THEN TakeChar(f[n - 1], s[n]) ELSE f[i]]
  <2>2. ASSUME NEW i \in 0..n
        PROVE  g[i] = IF i = 0 THEN NothingTaken ELSE TakeChar(g[i - 1], s[i])
    <3>1. CASE i = n
      <4>1. n - 1 \in 0..n /\ n - 1 # n /\ n # 0
        OBVIOUS
      <4> QED BY <3>1, <4>1
    <3>2. CASE i # n
      <4>1. i \in 0..(n - 1) /\ (i # 0 => i - 1 \in 0..n /\ i - 1 # n)
        BY <3>2
      <4>2. f[i] = IF i = 0 THEN NothingTaken ELSE TakeChar(f[i - 1], s[i])
        BY <2>1, <4>1
      <4> QED BY <3>2, <4>1, <4>2
    <3> QED BY <3>1, <3>2
  <2>3. g = [i \in 0..n |-> g[i]]
    OBVIOUS
  <2> HIDE DEF g
  <2>4. g = [i \in 0..n |-> IF i = 0 THEN NothingTaken ELSE TakeChar(g[i - 1], s[i])]
    BY <2>2, <2>3
  <2> QED BY <2>4
<1>3. m \in Nat
  OBVIOUS
<1>4. m \in 0..m /\ 0..m \subseteq Made
  <2> HIDE DEF Made, m
  <2> QED BY <1>1, <1>2, <1>3, InductionUpto
<1> QED BY <1>4 DEF TakesChars

LEMMA TakenTakes ==
  ASSUME NEW s, Len(s) \in Nat
  PROVE  \E f : TakesChars(f, s) /\ Taken(s) = f[Len(s)]
<1> DEFINE out == CHOOSE f : f = [n \in 0..Len(s) |-> IF n = 0 THEN NothingTaken
                                                      ELSE TakeChar(f[n - 1], s[n])]
<1>1. TakesChars(out, s)
  BY TakesCharsExists DEF TakesChars
<1>2. Taken(s) = out[Len(s)]
  BY DEF Taken
<1> HIDE DEF out
<1> QED BY <1>1, <1>2

LEMMA TakenNothing == Taken(<<>>) = NothingTaken
<1>1. PICK f : TakesChars(f, <<>>) /\ Taken(<<>>) = f[0]
  BY TakenTakes
<1> QED BY <1>1 DEF TakesChars

LEMMA TakenAppend ==
  ASSUME NEW T, NEW s \in Seq(T), NEW c \in T
  PROVE  Taken(Append(s, c)) = TakeChar(Taken(s), c)
<1> DEFINE m == Len(s)
           more == Append(s, c)
<1>1. /\ m \in Nat /\ Len(more) = m + 1
      /\ \A i \in 1..m : more[i] = s[i]
      /\ more[m + 1] = c
  BY AppendProperties
<1> HIDE DEF more
<1>2. PICK f : TakesChars(f, s) /\ Taken(s) = f[m]
  BY <1>1, TakenTakes
<1>3. PICK g : TakesChars(g, more) /\ Taken(more) = g[m + 1]
  BY <1>1, TakenTakes
<1>4. /\ f[0] = NothingTaken /\ g[0] = NothingTaken
      /\ \A i \in 1..m : f[i] = TakeChar(f[i - 1], s[i]) /\ g[i] = TakeChar(g[i - 1], s[i])
      /\ g[m + 1] = TakeChar(g[m], c)
  <2>1. f[0] = NothingTaken /\ \A i \in 1..m : f[i] = TakeChar(f[i - 1], s[i])
    BY <1>1, <1>2 DEF TakesChars
  <2>2. g[0] = NothingTaken /\ \A i \in 1..(m + 1) : g[i] = TakeChar(g[i - 1], more[i])
    BY <1>1, <1>3 DEF TakesChars
  <2>3. m + 1 \in 1..(m + 1) /\ (m + 1) - 1 = m /\ \A i \in 1..m : i \in 1..(m + 1)
    BY <1>1
  <2> QED BY <1>1, <2>1, <2>2, <2>3
<1> DEFINE Same == {n \in Nat : f[n] = g[n]}
<1>5. 0..m \subseteq Same
  <2>1. 0 \in Same
    BY <1>4
  <2>2. ASSUME NEW n \in 1..m, n - 1 \in Same PROVE n \in Same
    <3>1. n \in Nat /\ f[n - 1] = g[n - 1]
      BY <1>1, <2>2
    <3> QED BY <1>4, <3>1
  <2> HIDE DEF Same
  <2> QED BY <1>1, <2>1, <2>2, InductionUpto
<1>6. f[m] = g[m]
  BY <1>1, <1>5
<1> QED BY <1>2, <1>3, <1>4, <1>6 DEF more

LEMMA AppendsEscape ==
  ASSUME NEW a
  PROVE  /\ Append(<<>>, "%") = <<"%">> /\ Len(<<"%">>) = 1
         /\ Len(Append(<<"%">>, a)) = 2 /\ Append(<<"%">>, a)[2] = a
<1> DEFINE p == <<"%">>
<1>1. p \in Seq({"%", a}) /\ Len(p) = 1 /\ a \in {"%", a} /\ Append(<<>>, "%") = p
  OBVIOUS
<1> HIDE DEF p
<1>2. Len(Append(p, a)) = Len(p) + 1 /\ Append(p, a)[Len(p) + 1] = a
  BY <1>1, AppendProperties
<1>3. Len(Append(p, a)) = 2 /\ Append(p, a)[2] = a
  BY <1>1, <1>2
<1> QED BY <1>1, <1>3 DEF p

\* A character with no escape under way.
LEMMA TakeOne ==
  ASSUME NEW fields, NEW field, NEW c
  PROVE  TakeChar(Reader(fields, field, <<>>), c)
           = IF c = "%" THEN Reader(fields, field, <<"%">>)
             ELSE IF c = ":" THEN Reader(Append(fields, field), <<>>, <<>>)
             ELSE Reader(fields, Append(field, c), <<>>)
<1> DEFINE r == Reader(fields, field, <<>>)
<1>1. r.fields = fields /\ r.field = field /\ r.escape = <<>>
  BY DEF Reader
<1>2. Len(<<>>) # 1 /\ Len(<<>>) # 2
  OBVIOUS
<1>3. Append(<<>>, "%") = <<"%">>
  BY AppendsEscape, Zenon
<1> HIDE DEF r
<1> QED BY <1>1, <1>2, <1>3, Zenon DEF TakeChar, r

\* The two characters after the escape character.
LEMMA TakeEscape ==
  ASSUME NEW fields, NEW field, NEW a, NEW b
  PROVE  TakeChar(TakeChar(Reader(fields, field, <<"%">>), a), b)
           = Reader(fields, Append(field, Unescaped(<<a, b>>)), <<>>)
<1> DEFINE p == <<"%">>
           e == Append(p, a)
           r == Reader(fields, field, p)
           q == Reader(fields, field, e)
<1>1. Len(p) = 1 /\ Len(e) = 2 /\ e[2] = a
  BY AppendsEscape, Zenon
<1>2. Len(p) # 2
  BY <1>1
<1>3. r.fields = fields /\ r.field = field /\ r.escape = p
  BY DEF Reader
<1>4. q.fields = fields /\ q.field = field /\ q.escape = e
  BY DEF Reader
<1> HIDE DEF p, e, r, q
<1>5. TakeChar(r, a) = q
  BY <1>1, <1>2, <1>3, Zenon DEF TakeChar, q, e
<1>6. TakeChar(q, b) = Reader(fields, Append(field, Unescaped(<<a, b>>)), <<>>)
  BY <1>1, <1>4, Zenon DEF TakeChar
<1> QED BY <1>5, <1>6, Zenon DEF r, p

\* What is written of a record.
Escapes == {"0", "2", "3", "5", "A", "D", "F"}
Letters == Characters \cup Escapes \cup {"%", ":"}

LEMMA CodesAre ==
  ASSUME NEW c \in DOMAIN Code
  PROVE  /\ Unescaped(Code[c]) = c
         /\ Code[c] = <<Code[c][1], Code[c][2]>>
         /\ Code[c][1] \in Escapes /\ Code[c][2] \in Escapes
<1>1. \A x \in DOMAIN Code : \E a, b \in Escapes : Code[x] = <<a, b>>
  BY DEF Code, Escapes
<1>2. \A x, y \in DOMAIN Code : Code[x] = Code[y] => x = y
  BY DEF Code
<1>3. Unescaped(Code[c]) = c
  BY <1>2, Zenon DEF Unescaped
<1>4. PICK a \in Escapes, b \in Escapes : Code[c] = <<a, b>>
  BY <1>1
<1> QED BY <1>3, <1>4

\* The first so many of a sequence.
Prefix(s, n) == [i \in 1..n |-> s[i]]

LEMMA PrefixGrows ==
  ASSUME NEW T, NEW s \in Seq(T)
  PROVE  /\ Prefix(s, 0) = <<>> /\ Prefix(s, Len(s)) = s
         /\ \A n \in 1..Len(s) : Prefix(s, n - 1) \in Seq(T) /\ Append(Prefix(s, n - 1), s[n]) = Prefix(s, n)
<1>1. Len(s) \in Nat /\ DOMAIN s = 1..Len(s) /\ s = [i \in 1..Len(s) |-> s[i]]
  OBVIOUS
<1>2. Prefix(s, 0) = <<>> /\ Prefix(s, Len(s)) = s
  BY <1>1 DEF Prefix
<1>3. ASSUME NEW n \in 1..Len(s)
      PROVE  Prefix(s, n - 1) \in Seq(T) /\ Append(Prefix(s, n - 1), s[n]) = Prefix(s, n)
  <2> DEFINE p == Prefix(s, n - 1)
             q == Prefix(s, n)
             r == Append(p, s[n])
  <2>1. n \in Nat /\ n - 1 \in Nat /\ s[n] \in T /\ \A i \in 1..n : s[i] \in T
    BY <1>1
  <2>2. p \in [1..(n - 1) -> T] /\ q \in [1..n -> T]
    BY <2>1 DEF Prefix
  <2>3. p \in Seq(T) /\ Len(p) = n - 1 /\ q \in Seq(T) /\ Len(q) = n
    <3> HIDE DEF p, q
    <3> QED BY <2>1, <2>2, FunctionIsSequence
  <2>4. (\A i \in 1..(n - 1) : p[i] = s[i]) /\ \A i \in 1..n : q[i] = s[i]
    BY DEF Prefix
  <2> HIDE DEF p, q
  <2>5. /\ r \in Seq(T) /\ Len(r) = n /\ r[n] = s[n]
        /\ \A i \in 1..(n - 1) : r[i] = p[i]
    BY <2>1, <2>3, AppendProperties
  <2> HIDE DEF r
  <2>6. \A i \in 1..n : r[i] = q[i]
    <3> TAKE i \in 1..n
    <3>1. i = n \/ i \in 1..(n - 1)
      BY <2>1
    <3> QED BY <2>4, <2>5, <3>1
  <2>7. r = q
    BY <2>3, <2>5, <2>6, SeqEqual
  <2> QED BY <2>3, <2>7 DEF p, q, r
<1> QED BY <1>2, <1>3

Encoded(c, e) == IF c \in e THEN <<"%">> \o Code[c] ELSE <<c>>
EscapesEnough(e) == {"%", ":"} \subseteq e /\ e \subseteq DOMAIN Code

\* A character that is written, escaped or not, is read.
LEMMA CharTaken ==
  ASSUME NEW s \in Seq(Letters), NEW c \in Characters, NEW e, EscapesEnough(e), NEW fields, NEW field,
         Taken(s) = Reader(fields, field, <<>>)
  PROVE  /\ Encoded(c, e) \in Seq(Letters)
         /\ Taken(s \o Encoded(c, e)) = Reader(fields, Append(field, c), <<>>)
<1>1. c \in Letters /\ "%" \in Letters /\ Escapes \subseteq Letters
  BY DEF Letters
<1>2. CASE c \in e
  <2>1. c \in DOMAIN Code
    BY <1>2 DEF EscapesEnough
  <2>2. PICK a \in Escapes, b \in Escapes : Code[c] = <<a, b>> /\ Unescaped(<<a, b>>) = c
    BY <2>1, CodesAre
  <2> DEFINE p == <<"%">>
             ab == <<a, b>>
  <2>3. a \in Letters /\ b \in Letters /\ p \in Seq(Letters) /\ ab \in Seq(Letters)
    BY <1>1, <2>2
  <2>4. Encoded(c, e) = p \o ab
    BY <1>2, <2>2 DEF Encoded
  <2>5. p \o ab \in Seq(Letters)
    <3> HIDE DEF p, ab
    <3> QED BY <2>3, ConcatProperties
  <2>6. s \o (p \o ab) = (s \o p) \o ab
    <3> HIDE DEF p, ab
    <3> QED BY <2>3, ConcatAssociative
  <2> DEFINE t == Append(s, "%")
  <2>7. t = s \o p /\ t \in Seq(Letters)
    BY <1>1, AppendIsConcat, AppendProperties
  <2> HIDE DEF p, t
  <2>8. t \o ab = Append(Append(t, a), b) /\ Append(t, a) \in Seq(Letters)
    BY <2>3, <2>7, JoinTwo, AppendProperties
  <2>9. Taken(t) = Reader(fields, field, <<"%">>)
    BY <1>1, TakenAppend, TakeOne DEF t
  <2>10. Taken(Append(Append(t, a), b)) = Reader(fields, Append(field, c), <<>>)
    <3>1. Taken(Append(t, a)) = TakeChar(Taken(t), a)
      BY <2>3, <2>7, TakenAppend
    <3>2. Taken(Append(Append(t, a), b)) = TakeChar(Taken(Append(t, a)), b)
      BY <2>3, <2>8, TakenAppend
    <3>3. Taken(Append(Append(t, a), b)) = TakeChar(TakeChar(Reader(fields, field, <<"%">>), a), b)
      BY <2>9, <3>1, <3>2, Zenon
    <3>4. TakeChar(TakeChar(Reader(fields, field, <<"%">>), a), b)
            = Reader(fields, Append(field, Unescaped(<<a, b>>)), <<>>)
      BY TakeEscape
    <3> HIDE DEF ab
    <3> QED BY <2>2, <3>3, <3>4
  <2> QED BY <2>4, <2>5, <2>6, <2>7, <2>8, <2>10, Zenon
<1>3. CASE c \notin e
  <2>1. c # "%" /\ c # ":"
    BY <1>3 DEF EscapesEnough
  <2>2. Encoded(c, e) = <<c>> /\ <<c>> \in Seq(Letters)
    BY <1>1, <1>3 DEF Encoded
  <2>3. s \o <<c>> = Append(s, c)
    BY <1>1, AppendIsConcat
  <2>4. Taken(Append(s, c)) = Reader(fields, Append(field, c), <<>>)
    <3>1. Taken(Append(s, c)) = TakeChar(Taken(s), c)
      BY <1>1, TakenAppend
    <3>2. TakeChar(Reader(fields, field, <<>>), c) = Reader(fields, Append(field, c), <<>>)
      BY <2>1, TakeOne
    <3> QED BY <3>1, <3>2
  <2> QED BY <2>2, <2>3, <2>4, Zenon
<1> QED BY <1>2, <1>3

\* And so is a value.
LEMMA ValueTaken ==
  ASSUME NEW s \in Seq(Letters), NEW v \in Seq(Characters), NEW e, EscapesEnough(e), NEW fields,
         Taken(s) = Reader(fields, <<>>, <<>>)
  PROVE  /\ yEncodeChars(v, e) \o <<":">> \in Seq(Letters)
         /\ Taken(s \o (yEncodeChars(v, e) \o <<":">>)) = Reader(Append(fields, v), <<>>, <<>>)
<1> DEFINE m == Len(v)
           parts == [i \in DOMAIN v |-> Encoded(v[i], e)]
           colon == <<":">>
<1>1. m \in Nat /\ DOMAIN v = 1..m /\ \A n \in 1..m : v[n] \in Characters
  OBVIOUS
<1>2. Len(parts) = m
  BY <1>1
<1>3. yEncodeChars(v, e) = Flat(parts)
  BY DEF yEncodeChars, Encoded
<1>4. \A n \in 1..m : parts[n] = Encoded(v[n], e)
  BY <1>1
<1> HIDE DEF parts
<1>5. PICK f : Unrolls(f, parts) /\ Flat(parts) = f[m]
  BY <1>1, <1>2, FlatUnrolls
<1>6. f[0] = <<>> /\ \A n \in 1..m : f[n] = f[n - 1] \o parts[n]
  BY <1>1, <1>2, <1>5 DEF Unrolls
<1> HIDE DEF m
<1> DEFINE Fine(n) == f[n] \in Seq(Letters) /\ Taken(s \o f[n]) = Reader(fields, Prefix(v, n), <<>>)
           Good == {n \in 0..m : Fine(n)}
<1>7. 0 \in Good
  <2>1. s \o <<>> = s /\ <<>> \in Seq(Letters)
    BY ConcatEmptySeq
  <2>2. Prefix(v, 0) = <<>>
    BY PrefixGrows
  <2>3. Fine(0)
    BY <1>6, <2>1, <2>2, Zenon
  <2>4. 0 \in 0..m
    BY <1>1
  <2> QED BY <2>3, <2>4
<1>8. ASSUME NEW n \in 1..m, n - 1 \in Good PROVE n \in Good
  <2> DEFINE before == f[n - 1]
             new == Encoded(v[n], e)
             t == s \o before
  <2>1. before \in Seq(Letters) /\ Taken(t) = Reader(fields, Prefix(v, n - 1), <<>>)
    BY <1>8
  <2>2. f[n] = before \o new
    BY <1>4, <1>6
  <2>3. Append(Prefix(v, n - 1), v[n]) = Prefix(v, n)
    BY PrefixGrows DEF m
  <2>4. t \in Seq(Letters)
    BY <2>1, ConcatProperties
  <2> HIDE DEF before, new, t
  <2>5. new \in Seq(Letters) /\ Taken(t \o new) = Reader(fields, Prefix(v, n), <<>>)
    <3>1. v[n] \in Characters
      BY <1>1
    <3>2. /\ new \in Seq(Letters)
          /\ Taken(t \o new) = Reader(fields, Append(Prefix(v, n - 1), v[n]), <<>>)
      <4> DEFINE c == v[n]
                 field == Prefix(v, n - 1)
      <4>1. c \in Characters /\ Taken(t) = Reader(fields, field, <<>>)
        BY <2>1, <3>1
      <4> HIDE DEF c, field
      <4>2. /\ Encoded(c, e) \in Seq(Letters)
            /\ Taken(t \o Encoded(c, e)) = Reader(fields, Append(field, c), <<>>)
        BY <2>4, <4>1, CharTaken
      <4> QED BY <4>2, Zenon DEF c, field, new
    <3> QED BY <2>3, <3>2, Zenon
  <2>6. s \o (before \o new) = t \o new
    BY <2>1, <2>5, ConcatAssociative DEF t
  <2>7. before \o new \in Seq(Letters)
    BY <2>1, <2>5, ConcatProperties
  <2>8. Fine(n)
    BY <2>2, <2>5, <2>6, <2>7, Zenon
  <2>9. n \in 0..m
    BY <1>1
  <2> QED BY <2>8, <2>9
<1>9. Fine(m)
  <2>1. 0..m \subseteq Good
    <3> HIDE DEF Good
    <3> QED BY <1>1, <1>7, <1>8, InductionUpto
  <2>2. m \in 0..m
    BY <1>1
  <2> QED BY <2>1, <2>2
<1>10. Prefix(v, m) = v
  BY PrefixGrows DEF m
<1> DEFINE w == Flat(parts)
           t == s \o w
<1>11. w \in Seq(Letters) /\ Taken(t) = Reader(fields, v, <<>>)
  BY <1>5, <1>9, <1>10, Zenon
<1>12. t \in Seq(Letters) /\ ":" \in Letters /\ colon \in Seq(Letters)
  <2>1. ":" \in Letters
    BY DEF Letters
  <2>2. t \in Seq(Letters)
    <3> HIDE DEF w
    <3> QED BY <1>11, ConcatProperties
  <2> QED BY <2>1, <2>2
<1> HIDE DEF w
<1>13. t \o colon = Append(t, ":")
  <2> HIDE DEF t
  <2> QED BY <1>12, AppendIsConcat DEF colon
<1>14. Taken(Append(t, ":")) = Reader(Append(fields, v), <<>>, <<>>)
  <2> HIDE DEF t
  <2>1. Taken(Append(t, ":")) = TakeChar(Taken(t), ":")
    BY <1>12, TakenAppend
  <2>2. TakeChar(Reader(fields, v, <<>>), ":") = Reader(Append(fields, v), <<>>, <<>>)
    BY TakeOne
  <2> QED BY <1>11, <2>1, <2>2, Zenon
<1> HIDE DEF colon
<1>15. s \o (w \o colon) = t \o colon /\ w \o colon \in Seq(Letters)
  BY <1>11, <1>12, ConcatAssociative, ConcatProperties
<1> HIDE DEF t
<1> QED BY <1>3, <1>13, <1>14, <1>15, Zenon DEF w, colon

\* And so is a record.
LEMMA RecordTaken == Printable => RecordReadsBack
<1> SUFFICES ASSUME Printable PROVE RecordReadsBack
  OBVIOUS
<1> DEFINE m == Len(printed)
           values == [i \in DOMAIN printed |-> printed[i][2]]
<1>1. m \in Nat /\ DOMAIN printed = 1..m
  BY DEF Printable
<1>2. \A n \in 1..m : printed[n][2] \in Seq(Characters)
  BY ValuesHave
<1>3. values \in [1..m -> Seq(Characters)]
  BY <1>1, <1>2
<1> HIDE DEF values, m
<1>4. values \in Seq(Seq(Characters)) /\ Len(values) = m
  BY <1>1, <1>3, FunctionIsSequence
<1>5. DOMAIN values = 1..m /\ \A n \in 1..m : values[n] \in Seq(Characters)
  BY <1>3
<1>6. ASSUME NEW paths PROVE FieldsOf(printRow(values, paths)) = values
  <2> DEFINE set(n) == IF n \in paths THEN {"%", ":", "/", "-", "\n"} ELSE {"%", ":", "\n"}
             parts == [i \in DOMAIN values |->
                         (IF i \in paths THEN yEncodePath(values[i]) ELSE yEncode(values[i])) \o <<":">>]
  <2>1. \A n : EscapesEnough(set(n))
    BY DEF EscapesEnough, Code
  <2>2. Len(parts) = m
    BY <1>1, <1>5
  <2>3. \A n \in 1..m : parts[n] = yEncodeChars(values[n], set(n)) \o <<":">>
    BY <1>5 DEF yEncode, yEncodePath
  <2>4. printRow(values, paths) = Flat(parts)
    BY DEF printRow
  <2> HIDE DEF parts, set
  <2>5. PICK f : Unrolls(f, parts) /\ Flat(parts) = f[m]
    BY <1>1, <2>2, FlatUnrolls
  <2>6. f[0] = <<>> /\ \A n \in 1..m : f[n] = f[n - 1] \o parts[n]
    <3>1. f = [n \in 0..m |-> IF n = 0 THEN <<>> ELSE f[n - 1] \o parts[n]]
      BY <2>2, <2>5, Zenon DEF Unrolls
    <3>2. m \in Nat
      BY <1>1
    <3> QED BY <3>1, <3>2
  <2> DEFINE Fine(n) == f[n] \in Seq(Letters) /\ Taken(f[n]) = Reader(Prefix(values, n), <<>>, <<>>)
             Good == {n \in 0..m : Fine(n)}
  <2>7. 0 \in Good
    <3>1. Prefix(values, 0) = <<>>
      BY <1>4, PrefixGrows
    <3>2. <<>> \in Seq(Letters) /\ 0 \in 0..m
      BY <1>1
    <3> QED BY <2>6, <3>1, <3>2, TakenNothing DEF NothingTaken
  <2>8. ASSUME NEW n \in 1..m, n - 1 \in Good PROVE n \in Good
    <3> DEFINE s == f[n - 1]
               new == yEncodeChars(values[n], set(n)) \o <<":">>
    <3>1. s \in Seq(Letters) /\ Taken(s) = Reader(Prefix(values, n - 1), <<>>, <<>>)
      BY <2>8
    <3>2. f[n] = s \o new
      BY <2>3, <2>6
    <3>3. Append(Prefix(values, n - 1), values[n]) = Prefix(values, n)
      BY <1>4, PrefixGrows
    <3>4. values[n] \in Seq(Characters) /\ EscapesEnough(set(n))
      BY <1>5, <2>1
    <3> HIDE DEF s
    <3>5. /\ new \in Seq(Letters)
          /\ Taken(s \o new) = Reader(Append(Prefix(values, n - 1), values[n]), <<>>, <<>>)
      BY <3>1, <3>4, ValueTaken, Zenon
    <3> HIDE DEF new
    <3>6. s \o new \in Seq(Letters)
      BY <3>1, <3>5, ConcatProperties
    <3>7. Fine(n)
      BY <3>2, <3>3, <3>5, <3>6, Zenon
    <3>8. n \in 0..m
      BY <1>1
    <3> QED BY <3>7, <3>8
  <2>9. Fine(m)
    <3>1. 0..m \subseteq Good
      <4> HIDE DEF Good
      <4> QED BY <1>1, <2>7, <2>8, InductionUpto
    <3>2. m \in 0..m
      BY <1>1
    <3> QED BY <3>1, <3>2
  <2>10. Prefix(values, m) = values
    BY <1>4, PrefixGrows
  <2>11. Taken(Flat(parts)) = Reader(values, <<>>, <<>>)
    BY <2>5, <2>9, <2>10, Zenon
  <2> QED BY <2>4, <2>11 DEF FieldsOf, Reader
<1> QED BY <1>6, Zenon DEF RecordReadsBack, values

-----------------------------------------------------------------------------
(* What is printed *)

LEMMA PrintableInit == Init => Printable
BY DEF Init, Printable

LEMMA PrintableNext == Printable /\ [Next]_vars => Printable'
<1> SUFFICES ASSUME Printable, [Next]_vars PROVE Printable'
  OBVIOUS
<1>1. CASE PrintValue
  <2>1. PICK width \in Widths, text \in SeqOf(Characters, MaxText[Len(printed) + 1]) :
          printed' = Append(printed, <<width, text>>)
    BY <1>1 DEF PrintValue
  <2>2. Widths \subseteq Nat /\ MaxText \in Seq(Nat)
    BY LinesAssumption, Zenon
  <2>3. MaxText[Len(printed) + 1] \in Nat
    <3>1. Len(printed) < Len(MaxText)
      BY <1>1, Zenon DEF PrintValue
    <3>2. Len(printed) \in Nat
      BY DEF Printable
    <3> QED BY <2>2, <3>1, <3>2
  <2>4. text \in Seq(Characters)
    <3> DEFINE b == MaxText[Len(printed) + 1]
    <3>1. PICK n \in 0..b : text \in [1..n -> Characters]
      BY <2>1 DEF SeqOf
    <3>2. n \in Nat
      BY <2>3, <3>1
    <3> QED BY <3>1, <3>2, FunctionIsSequence
  <2>5. width \in Nat
    BY <2>1, <2>2
  <2>6. <<width, text>> \in Nat \X Seq(Characters)
    BY <2>4, <2>5
  <2> QED BY <2>1, <2>6, AppendProperties DEF Printable
<1>2. CASE ~PrintValue
  <2>1. printed' = printed
    BY <1>2 DEF Next, Compose, EndOptions, vars
  <2> QED BY <2>1 DEF Printable
<1> QED BY <1>1, <1>2

\* Whatever values are printed, in columns and fields of any widths, a row shows
\* each whole and apart from the next, and a -Y record reads back as the values
\* it was made of, separators and escape characters included (format.go:10-75,
\* 109-160).
THEOREM RowsAndRecordsReadBack == Spec => []PrintedReadsBack
<1>1. Printable => PrintedReadsBack
  BY ApartWhenPrintable, RecordTaken DEF PrintedReadsBack
<1> QED BY <1>1, PrintableInit, PrintableNext, PTL DEF Spec
=============================================================================
