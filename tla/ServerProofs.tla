---------------------------- MODULE ServerProofs ----------------------------
(***************************************************************************)
(* TLAPS proofs about Server, for any configurations, any files put in place *)
(* and any number of mishaps.                                               *)
(***************************************************************************)
EXTENDS Server, TLAPS

\* How far the pair being generated has got.  Its serial is that of no file
\* there was, so it makes no pair before its key is written.
Generating ==
  /\ pc \in {"openCert", "writeCert", "openKey", "writeKey"} => serial \in Serial
  /\ pc = "openCert" => cert = Absent /\ key # serial
  /\ pc = "writeCert" => cert = Torn /\ key # serial
  /\ pc = "openKey" => cert = serial /\ key # serial
  /\ pc = "writeKey" => cert = serial /\ key = Torn

IInv == TypeOK /\ Generating /\ HalfPairHasCause

\* There is always a serial no file carries.
LEMMA FreshSerial ==
  ASSUME NEW c, NEW k
  PROVE  LET n == CHOOSE n \in Serial : n \notin {c, k} IN n \in Serial /\ n # c /\ n # k
<1>1. \E n \in Serial : n \notin {c, k}
  BY DEF Serial
<1> QED BY <1>1

LEMMA ServerInit == Init => IInv
<1> SUFFICES ASSUME Init
             PROVE  IInv
  OBVIOUS
<1>1. cert \in {Absent, Own} /\ key \in {Absent, Own}
  BY ServerAssumption DEF Init
<1>2. conf \in Config
  BY DEF Init, Blank, Config, Value
<1>3. TypeOK
  BY <1>1, <1>2, ServerAssumption DEF Init, TypeOK, Content, Control
<1>4. Generating /\ HalfPairHasCause
  BY <1>1 DEF Init, Generating, HalfPairHasCause, HalfPair, Usable, Absent, Own
<1> QED BY <1>3, <1>4 DEF IInv

\* A process that ends leaves the files as they are, and half a pair after it
\* counts as its mishap.
LEMMA MishapKeeps == IInv /\ Mishap => IInv'
<1> SUFFICES ASSUME IInv, Mishap
             PROVE  IInv'
  OBVIOUS
<1>1. mishaps' = mishaps + 1 /\ mishaps \in Nat /\ mishaps' \in 0..MaxMishap
  BY ServerAssumption DEF IInv, TypeOK, Mishap
<1>2. TypeOK'
  BY <1>1 DEF IInv, TypeOK, Mishap, Exit, Control, Blank, Config, Value
<1>3. Generating' /\ HalfPairHasCause'
  BY <1>1 DEF Mishap, Exit, Generating, HalfPairHasCause
<1> QED BY <1>2, <1>3 DEF IInv

LEMMA ServerStep == IInv /\ [Next]_vars => IInv'
<1> SUFFICES ASSUME IInv, [Next]_vars
             PROVE  IInv'
  OBVIOUS
<1> USE DEF IInv
<1>d. /\ Torn # Absent /\ Torn # Own /\ Absent # Own
      /\ Serial \cap {Absent, Torn, Own} = {}
  BY DEF Torn, Absent, Own, Serial
<1>b. Blank \in Config
  BY DEF Blank, Config, Value
<1>1. CASE UNCHANGED vars
  BY <1>1 DEF vars, TypeOK, Generating, HalfPairHasCause, HalfPair, Usable
<1>2. CASE Start
  BY <1>2 DEF Start, TypeOK, Control, Generating, HalfPairHasCause, HalfPair, Usable
<1>3. CASE Load
  <2>1. CASE Loads(confFile)
    <3>1. /\ pc = "load" /\ pc' \in {"stat", "listen"}
          /\ conf' = confFile /\ UNCHANGED <<confFile, serial, cert, key, mishaps>>
      BY <1>3, <2>1 DEF Load
    <3> QED BY <3>1, ServerAssumption
            DEF TypeOK, Control, Generating, HalfPairHasCause, HalfPair, Usable
  <2>2. CASE ~Loads(confFile)
    <3>1. pc = "load" /\ Exit /\ UNCHANGED <<confFile, cert, key, mishaps>>
      BY <1>3, <2>2 DEF Load
    <3> QED BY <3>1, <1>b DEF Exit, TypeOK, Control, Generating, HalfPairHasCause, HalfPair, Usable
  <2> QED BY <2>1, <2>2
<1>4. CASE Stat
  <2>1. CASE HaveCert
    BY <1>4, <2>1 DEF Stat, TypeOK, Control, Generating, HalfPairHasCause, HalfPair, Usable
  <2>2. CASE ~HaveCert
    <3>1. serial' \in Serial /\ serial' # cert /\ serial' # key
      BY <1>4, <2>2, FreshSerial DEF Stat
    <3> QED BY <1>4, <2>2, <3>1
            DEF Stat, HaveCert, TypeOK, Control, Generating, HalfPairHasCause, HalfPair
  <2> QED BY <2>1, <2>2
<1>5. CASE OpenCert
  BY <1>5 DEF OpenCert, TypeOK, Content, Control, Generating, HalfPairHasCause, HalfPair
<1>6. CASE WriteCert
  BY <1>6 DEF WriteCert, TypeOK, Content, Control, Generating, HalfPairHasCause, HalfPair
<1>7. CASE OpenKey
  BY <1>7 DEF OpenKey, TypeOK, Content, Control, Generating, HalfPairHasCause, HalfPair
<1>8. CASE WriteKey
  BY <1>8, <1>d DEF WriteKey, TypeOK, Content, Control, Generating, HalfPairHasCause, HalfPair, Usable
<1>9. CASE Listen
  <2>1. CASE conf.tls => Usable
    <3>1. pc' = "serving" /\ UNCHANGED <<confFile, conf, serial, cert, key, mishaps>>
      BY <1>9, <2>1, Zenon DEF Listen
    <3> QED BY <3>1 DEF TypeOK, Control, Generating, HalfPairHasCause, HalfPair
  <2>2. CASE ~(conf.tls => Usable)
    <3>1. pc = "listen" /\ Exit /\ UNCHANGED <<confFile, cert, key, mishaps>>
      BY <1>9, <2>2, Zenon DEF Listen
    <3> QED BY <3>1, <1>b DEF Exit, TypeOK, Control, Generating, HalfPairHasCause, HalfPair, Usable
  <2> QED BY <2>1, <2>2
<1>10. CASE GenerateFails \/ ListenFails \/ Crash
  BY <1>10, MishapKeeps DEF GenerateFails, ListenFails, Crash
<1>11. CASE Edit
  BY <1>11 DEF Edit, TypeOK, Generating, HalfPairHasCause, HalfPair, Usable
<1> QED BY <1>1, <1>2, <1>3, <1>4, <1>5, <1>6, <1>7, <1>8, <1>9, <1>10, <1>11
        DEF Next, Startup

LEMMA ServerInvariant == Spec => []IInv
<1>1. Init => IInv
  BY ServerInit
<1>2. IInv /\ [Next]_vars => IInv'
  BY ServerStep
<1> QED BY <1>1, <1>2, PTL DEF Spec

\* Every variable of the process has its type.
THEOREM ServerTypeCorrect == Spec => []TypeOK
BY ServerInvariant, PTL DEF IInv

\* Half a pair is the operator's or a mishap's doing, for any number of them
\* (main.go:199-228).
THEOREM HalfPairsHaveCauses == Spec => []HalfPairHasCause
BY ServerInvariant, PTL DEF IInv

\* No certificate that has its key is ever replaced (main.go:179-181).
THEOREM PairsStay == Spec => PairStays
<1>1. IInv /\ [Next]_vars => [Usable => UNCHANGED <<cert, key>>]_vars
  <2> SUFFICES ASSUME IInv, Next, Usable
               PROVE  UNCHANGED <<cert, key>>
    BY DEF vars
  <2>1. pc \notin {"openCert", "writeCert", "openKey", "writeKey"}
    BY DEF IInv, Generating, Usable, Absent, Torn, Serial
  <2> QED BY <2>1 DEF Next, Startup, Start, Load, Stat, OpenCert, WriteCert, OpenKey, WriteKey,
                      Listen, GenerateFails, ListenFails, Crash, Mishap, Edit
<1> QED BY <1>1, ServerInvariant, PTL DEF Spec, PairStays
=============================================================================
