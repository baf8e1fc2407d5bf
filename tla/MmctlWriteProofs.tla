-------------------------- MODULE MmctlWriteProofs --------------------------
(***************************************************************************)
(* TLAPS proofs about MmctlWrite, for any plans of any length, and through   *)
(* MmctlSetquota for any command lines.                                     *)
(*                                                                         *)
(* The inductive invariant says where the command stands: what is before     *)
(* the write at hand is settled, what is after it has not begun, and a final *)
(* status once read stays what it is.                                       *)
(*                                                                         *)
(* Of mmsetquota, that the plan it makes of a line is what the line asks for. *)
(* What splitList leaves of a list is proved by induction over its parts.     *)
(***************************************************************************)
EXTENDS MmctlSetquota, Inductions, SequenceTheorems

\* Where the command stands with the write at hand.
AtHand ==
  /\ phase # "exited" => at \in Write /\ exit = "none"
  /\ phase = "exited" => exit # "none"
  /\ phase \in {"send", "posted"} => job[at] = "none"
  /\ phase = "done" => job[at] = "completed"
  /\ phase \in {"accepted", "poll", "asked", "answered", "sleep"} => job[at] # "none"
  /\ phase = "answered" => seen # "none" /\ (seen \in JobEnd => job[at] = seen)

Before == \A n \in Write : n < at => Settled(n)
After == \A n \in Write : at < n => job[n] = "none"

\* How the command ended.
Ended ==
  /\ exit = "ok" => \A n \in Write : Settled(n)
  /\ exit = "failed" => at \in Write /\ (trouble \/ expired \/ job[at] \in {"exited", "stopped"})

IInv == TypeOK /\ AtHand /\ Before /\ After /\ Ended

-----------------------------------------------------------------------------
LEMMA WriteInit == Init => IInv
<1> SUFFICES ASSUME NEW p \in Plans, Begins(p)
             PROVE  IInv
  BY DEF Init
<1> USE DEF Begins
<1>1. p \in Seq(Change) /\ Write = 1..Len(p) /\ Len(p) \in Nat
  BY PlansAssumption DEF Write
<1>2. p # <<>> => Len(p) > 0
  <2>1. p # <<>> => Len(p) \in Nat \ {0}
    BY <1>1, EmptySeq, Zenon
  <2> QED BY <2>1
<1>3. TypeOK
  <2>1. at \in 0..Len(plan)
    BY <1>1, <1>2
  <2>2. phase \in Phase /\ exit \in {"none", "ok", "failed", "usage"}
    BY DEF Phase
  <2>3. job \in [Write -> JobState] /\ seen \in JobState
    BY DEF JobState
  <2> QED BY <1>1, <2>1, <2>2, <2>3 DEF TypeOK
<1>4. AtHand /\ Before /\ After /\ Ended
  BY <1>1, <1>2 DEF AtHand, Before, After, Ended, JobEnd
<1> QED BY <1>3, <1>4 DEF IInv

\* A write done and settled takes the command to the next one or to its end.
LEMMA SucceedStep ==
  ASSUME IInv, phase # "exited", Settled(at), Succeed, plan' = plan,
         job' = job, trouble' = trouble, seen' \in {seen, "none"},
         expired' = expired, unread \subseteq unread', unread' \in SUBSET Write
  PROVE  IInv'
<1> USE DEF IInv, Write
<1>1. at \in 1..Len(plan) /\ Len(plan) \in Nat /\ plan \in Seq(Change) /\ exit = "none"
  BY DEF AtHand, TypeOK
<1>2. \A n \in Write : n <= at => Settled(n)'
  BY <1>1 DEF Before, Settled
<1>3. CASE at < Len(plan)
  <2>1. at' = at + 1 /\ phase' = "send" /\ exit' = exit
    BY <1>3 DEF Succeed
  <2>2. TypeOK'
    BY <2>1, <1>1, <1>3 DEF TypeOK, Phase, JobState
  <2>3. job'[at'] = "none"
    BY <2>1, <1>1, <1>3 DEF After
  <2>4. AtHand'
    BY <2>1, <2>3, <1>1, <1>3 DEF AtHand
  <2>5. Before' /\ After'
    BY <2>1, <1>1, <1>2 DEF Before, After
  <2> QED BY <2>1, <2>2, <2>4, <2>5, <1>1 DEF Ended
<1>4. CASE ~(at < Len(plan))
  <2>1. at' = at /\ phase' = "exited" /\ exit' = "ok"
    BY <1>4 DEF Succeed
  <2>2. TypeOK'
    BY <2>1, <1>1 DEF TypeOK, Phase, JobState
  <2>3. \A n \in Write : Settled(n)'
    BY <1>1, <1>2, <1>4
  <2> QED BY <2>1, <2>2, <2>3, <1>1 DEF AtHand, Before, After, Ended, Settled
<1> QED BY <1>3, <1>4

\* A failure with a cause ends the command.
LEMMA FailStep ==
  ASSUME IInv, phase # "exited", Fail, plan' = plan, at' = at, job' = job,
         trouble' \in BOOLEAN, seen' \in {seen, "none"}, expired' = expired, unread' = unread,
         trouble' \/ expired \/ job[at] \in {"exited", "stopped"}
  PROVE  IInv'
<1> USE DEF IInv, Write, Fail
<1>1. TypeOK'
  BY DEF TypeOK, Phase, JobState
<1>2. AtHand' /\ Before' /\ After' /\ Ended'
  BY DEF AtHand, Before, After, Ended, Settled
<1> QED BY <1>1, <1>2

LEMMA WriteStep == IInv /\ [Next]_vars => IInv'
<1> SUFFICES ASSUME IInv, [Next]_vars
             PROVE  IInv'
  OBVIOUS
<1> USE DEF IInv, Write
<1>t. /\ plan \in Seq(Change) /\ Len(plan) \in Nat /\ DOMAIN plan = 1..Len(plan)
      /\ job \in [DOMAIN plan -> JobState]
  BY DEF TypeOK
<1>1. CASE UNCHANGED vars
  BY <1>1 DEF vars, TypeOK, AtHand, Before, After, Ended, Settled
<1>2. CASE Send /\ UNCHANGED plan
  BY <1>2, <1>t DEF Send, TypeOK, Phase, AtHand, Before, After, Ended, Settled
<1>3. CASE NothingToFollow /\ UNCHANGED plan
  <2>1. Settled(at)
    BY <1>3 DEF NothingToFollow, AtHand, Settled
  <2> QED BY <2>1, <1>3, SucceedStep DEF NothingToFollow, TypeOK
<1>4. CASE FollowJob /\ UNCHANGED plan
  <2>1. CASE phase' = "poll" /\ expired' = FALSE /\ UNCHANGED <<at, exit, unread>>
    BY <2>1, <1>4, <1>t DEF FollowJob, TypeOK, Phase, AtHand, Before, After, Ended, Settled
  <2>2. CASE Succeed /\ unread' = unread \cup {at} /\ UNCHANGED expired
    <3> DEFINE unr == unread \cup {at}
    <3>1. at \in Write /\ phase = "accepted" /\ exit = "none"
      BY <1>4 DEF FollowJob, AtHand
    <3>2. CASE at < Len(plan)
      <4>1. at' = at + 1 /\ phase' = "send" /\ exit' = exit /\ job' = job /\ plan' = plan
        BY <3>2, <2>2, <1>4 DEF Succeed, FollowJob
      <4>2. TypeOK'
        BY <4>1, <3>1, <3>2, <2>2, <1>4, <1>t DEF TypeOK, Phase, FollowJob
      <4>3. job[at + 1] = "none"
        BY <3>1, <3>2, <1>t DEF After
      <4>4. AtHand' /\ Before' /\ After' /\ Ended'
        BY <4>1, <4>3, <3>1, <3>2, <2>2, <1>4, <1>t
           DEF AtHand, Before, After, Ended, Settled, FollowJob
      <4> QED BY <4>2, <4>4
    <3>3. CASE ~(at < Len(plan))
      <4>1. at' = at /\ phase' = "exited" /\ exit' = "ok" /\ job' = job /\ plan' = plan
        BY <3>3, <2>2, <1>4 DEF Succeed, FollowJob
      <4>2. TypeOK'
        BY <4>1, <3>1, <2>2, <1>4, <1>t DEF TypeOK, Phase, FollowJob
      <4>3. \A n \in Write : Settled(n)'
        BY <4>1, <3>1, <3>3, <2>2, <1>t DEF Before, Settled
      <4> QED BY <4>1, <4>2, <4>3, <3>1, <2>2, <1>4, <1>t
              DEF AtHand, Before, After, Ended, Settled, FollowJob
    <3> QED BY <3>2, <3>3
  <2> QED BY <2>1, <2>2, <1>4 DEF FollowJob
<1>5. CASE Poll /\ UNCHANGED plan
  BY <1>5, <1>t DEF Poll, TypeOK, Phase, AtHand, Before, After, Ended, Settled
<1>6. CASE JobRuns /\ UNCHANGED plan
  <2>1. CASE expired
    BY <2>1, <1>6, FailStep DEF JobRuns, TypeOK
  <2>2. CASE ~expired
    BY <2>2, <1>6, <1>t DEF JobRuns, TypeOK, Phase, JobState, AtHand, Before, After, Ended, Settled
  <2> QED BY <2>1, <2>2
<1>7. CASE JobOver /\ UNCHANGED plan
  <2>1. seen \in JobEnd /\ job[at] = seen
    BY <1>7 DEF JobOver, StillRunning, AtHand, TypeOK, JobState
  <2>2. CASE Done(seen)
    <3>1. Settled(at)
      BY <2>1, <2>2 DEF Done, Settled
    <3> QED BY <3>1, <2>2, <1>7, SucceedStep DEF JobOver, TypeOK
  <2>3. CASE ~Done(seen)
    <3>1. job[at] \in {"exited", "stopped"}
      BY <2>1, <2>3 DEF Done, JobEnd
    <3> QED BY <3>1, <2>3, <1>7, FailStep DEF JobOver, TypeOK
  <2> QED BY <2>2, <2>3
<1>8. CASE Wake /\ UNCHANGED plan
  BY <1>8, <1>t DEF Wake, TypeOK, Phase, AtHand, Before, After, Ended, Settled
<1>9. CASE GuiAccepts /\ UNCHANGED plan
  <2>1. at \in Write /\ job' = [job EXCEPT ![at] = "running"] /\ phase = "posted"
    BY <1>9 DEF GuiAccepts, AtHand
  <2>2. TypeOK'
    BY <2>1, <1>9, <1>t DEF GuiAccepts, TypeOK, Phase, JobState
  <2>3. AtHand' /\ Before' /\ After' /\ Ended'
    BY <2>1, <1>9, <1>t DEF GuiAccepts, AtHand, Before, After, Ended, Settled
  <2> QED BY <2>2, <2>3
<1>10. CASE GuiDoesAtOnce /\ UNCHANGED plan
  <2>1. at \in Write /\ job' = [job EXCEPT ![at] = "completed"] /\ phase = "posted"
    BY <1>10 DEF GuiDoesAtOnce, AtHand
  <2>2. TypeOK'
    BY <2>1, <1>10, <1>t DEF GuiDoesAtOnce, TypeOK, Phase, JobState, JobEnd
  <2>3. AtHand' /\ Before' /\ After' /\ Ended'
    BY <2>1, <1>10, <1>t DEF GuiDoesAtOnce, AtHand, Before, After, Ended, Settled
  <2> QED BY <2>2, <2>3
<1>11. CASE WriteRefused /\ UNCHANGED plan
  BY <1>11, FailStep DEF WriteRefused
<1>12. CASE GuiReportsJob /\ UNCHANGED plan
  <2>1. at \in Write /\ job[at] # "none" /\ seen' = job[at]
    BY <1>12 DEF GuiReportsJob, AtHand
  <2> QED BY <2>1, <1>12, <1>t
          DEF GuiReportsJob, TypeOK, Phase, AtHand, Before, After, Ended, Settled
<1>13. CASE AnswerLost /\ UNCHANGED plan
  BY <1>13, FailStep DEF AnswerLost, Awaiting
<1>14. CASE Expire /\ UNCHANGED plan
  BY <1>14, <1>t DEF Expire, TypeOK, AtHand, Before, After, Ended, Settled
<1>15. ASSUME NEW n \in Write, JobEnds(n), UNCHANGED plan
       PROVE  IInv'
  <2>1. PICK s \in JobEnd : job' = [job EXCEPT ![n] = s]
    BY <1>15 DEF JobEnds
  <2>2. TypeOK'
    BY <2>1, <1>15, <1>t DEF JobEnds, TypeOK, JobState
  <2>3. \A m \in Write : m # n => job'[m] = job[m]
    BY <2>1, <1>t
  <2>4. job[n] = "running" /\ job'[n] = s
    BY <2>1, <1>15, <1>t DEF JobEnds
  <2>5. AtHand'
    BY <2>3, <2>4, <1>15 DEF JobEnds, AtHand, JobEnd
  <2>6. \A m \in Write : Settled(m) => Settled(m)'
    BY <2>3, <2>4, <1>15 DEF JobEnds, Settled
  <2>7. Before' /\ After' /\ Ended'
    BY <2>3, <2>4, <2>6, <1>15 DEF JobEnds, Before, After, Ended
  <2> QED BY <2>2, <2>5, <2>7
<1> QED BY <1>1, <1>2, <1>3, <1>4, <1>5, <1>6, <1>7, <1>8, <1>9, <1>10, <1>11, <1>12,
           <1>13, <1>14, <1>15 DEF Next, Client, Outside

LEMMA WriteInvariant == Spec => []IInv
<1>1. Init => IInv
  BY WriteInit
<1>2. IInv /\ [Next]_vars => IInv'
  BY WriteStep
<1> QED BY <1>1, <1>2, PTL DEF Spec

\* Every variable of a command that makes changes has its type, for any plans.
THEOREM WriteTypeCorrect == Spec => []TypeOK
BY WriteInvariant, PTL DEF IInv

\* mmctl never reports success before the GUI has made every change whose answer
\* it could read, however long the plan (client.go:115-118, 149-152).
THEOREM SuccessIsDone == Spec => []SuccessMeansDone
<1>1. IInv => SuccessMeansDone
  BY DEF IInv, Ended, SuccessMeansDone
<1> QED BY <1>1, WriteInvariant, PTL

\* Wherever a command stops, what the GUI has begun is a prefix of its plan
\* (quota.go:663-667).
THEOREM PrefixOfChanges == Spec => []ChangesFormAPrefix
<1>1. IInv => ChangesFormAPrefix
  <2> SUFFICES ASSUME IInv, NEW n \in Write, job[n] # "none", NEW m \in 1..(n - 1)
               PROVE  Settled(m)
    BY DEF ChangesFormAPrefix
  <2>1. n \in 1..Len(plan) /\ Len(plan) \in Nat /\ Write = 1..Len(plan) /\ at \in Nat
    BY DEF Write, IInv, TypeOK
  <2>2. n <= at
    BY <2>1 DEF IInv, After
  <2> QED BY <2>1, <2>2 DEF IInv, Before
<1> QED BY <1>1, WriteInvariant, PTL

\* A failure mmctl reports is never made up: a request went wrong, two minutes
\* passed, or the job did not complete (client.go:157-198).
THEOREM FailuresHaveCauses == Spec => []FailureHasCause
<1>1. IInv => FailureHasCause
  BY DEF IInv, Ended, FailureHasCause
<1> QED BY <1>1, WriteInvariant, PTL

\* mmsetquota, on any lines, is a command of that kind: what is proved of
\* MmctlWrite holds of it.
THEOREM SetquotaIsWrite == SetquotaSpec => Spec
<1>1. SetquotaInit => Init
  BY LinesAssumption DEF SetquotaInit, Init
<1>2. [SetquotaNext]_setquotaVars => [Next]_vars
  BY DEF SetquotaNext, setquotaVars
<1> QED BY <1>1, <1>2, PTL DEF SetquotaSpec, Spec

-----------------------------------------------------------------------------
(* What splitList leaves of a list *)

LEMMA AppendAdds ==
  ASSUME NEW T, NEW s \in Seq(T), NEW x \in T
  PROVE  Append(s, x) \in Seq(T) /\ ToSet(Append(s, x)) = ToSet(s) \cup {x}
<1>1. /\ Append(s, x) \in Seq(T) /\ Len(s) \in Nat
      /\ Len(Append(s, x)) = Len(s) + 1
      /\ \A i \in 1..Len(s) : Append(s, x)[i] = s[i]
      /\ Append(s, x)[Len(s) + 1] = x
  BY AppendProperties
<1>2. /\ DOMAIN Append(s, x) = 1..(Len(s) + 1) /\ DOMAIN s = 1..Len(s)
  BY <1>1
<1>3. 1..(Len(s) + 1) = 1..Len(s) \cup {Len(s) + 1}
  BY <1>1
<1> QED BY <1>1, <1>2, <1>3 DEF ToSet

\* What splitList keeps: every part but the empty ones.
LEMMA SplitListKeeps ==
  ASSUME NEW T, NEW parts \in Seq(T)
  PROVE  splitList(parts) \in Seq(T) /\ ToSet(splitList(parts)) = ToSet(parts) \ {""}
<1> DEFINE m == Len(parts)
           step(n, s) == IF parts[n] = "" THEN s ELSE Append(s, parts[n])
           G == [x \in (1..m) \X Seq(T) |-> step(x[1], x[2])]
           out == CHOOSE g : g = [n \in 0..m |-> IF n = 0 THEN <<>>
                                                 ELSE IF parts[n] = "" THEN g[n - 1]
                                                 ELSE Append(g[n - 1], parts[n])]
<1>1. m \in Nat /\ DOMAIN parts = 1..m /\ \A n \in 1..m : parts[n] \in T
  OBVIOUS
<1>2. ASSUME NEW n \in 1..m, NEW s \in Seq(T)
      PROVE  /\ step(n, s) \in Seq(T)
             /\ "" \notin ToSet(s) => ToSet(step(n, s)) = (ToSet(s) \cup {parts[n]}) \ {""}
  <2>1. CASE parts[n] = ""
    BY <2>1
  <2>2. CASE parts[n] # ""
    <3>1. Append(s, parts[n]) \in Seq(T) /\ ToSet(Append(s, parts[n])) = ToSet(s) \cup {parts[n]}
      BY <1>1, AppendAdds
    <3> QED BY <2>2, <3>1
  <2> QED BY <2>1, <2>2
<1>3. \E f \in [0..m -> Seq(T)] : Follows(m, G, <<>>, f)
  <2>1. G \in Steps(m, Seq(T))
    BY <1>2 DEF Steps
  <2>2. <<>> \in Seq(T)
    OBVIOUS
  <2> HIDE DEF G
  <2> QED BY <1>1, <2>1, <2>2, Recursion
<1>4. PICK f \in [0..m -> Seq(T)] : f[0] = <<>> /\ \A n \in 1..m : f[n] = step(n, f[n - 1])
  <2>1. PICK f \in [0..m -> Seq(T)] : Follows(m, G, <<>>, f)
    BY <1>3
  <2>2. ASSUME NEW n \in 1..m PROVE f[n] = step(n, f[n - 1])
    <3>1. f[n] = G[<<n, f[n - 1]>>]
      BY <2>1 DEF Follows
    <3>2. f[n - 1] \in Seq(T)
      BY <1>1
    <3> HIDE DEF step
    <3> QED BY <3>1, <3>2
  <2> QED BY <2>1, <2>2 DEF Follows
<1>5. out = [n \in 0..m |-> IF n = 0 THEN <<>> ELSE step(n, out[n - 1])]
  <2>1. f = [n \in 0..m |-> IF n = 0 THEN <<>> ELSE step(n, f[n - 1])]
    <3>1. \A n \in 0..m : f[n] = IF n = 0 THEN <<>> ELSE step(n, f[n - 1])
      <4> HIDE DEF step
      <4> QED BY <1>1, <1>4
    <3> HIDE DEF step
    <3> QED BY <3>1
  <2> QED BY <2>1
<1>6. splitList(parts) = out[m]
  BY DEF splitList
<1> HIDE DEF out, step
<1> DEFINE Good == {n \in 0..m : out[n] \in Seq(T) /\ ToSet(out[n]) = {parts[i] : i \in 1..n} \ {""}}
<1>7. 0..m \subseteq Good
  <2>1. 0 \in Good
    <3>1. out[0] = <<>>
      BY <1>1, <1>5
    <3>2. <<>> \in Seq(T) /\ ToSet(<<>>) = {} /\ 1..0 = {} /\ 0 \in 0..m
      BY <1>1 DEF ToSet
    <3>3. {parts[i] : i \in 1..0} \ {""} = {}
      BY <3>2
    <3> QED BY <3>1, <3>2, <3>3
  <2>2. ASSUME NEW n \in 1..m, n - 1 \in Good PROVE n \in Good
    <3>1. n \in 0..m /\ n # 0 /\ 1..n = 1..(n - 1) \cup {n}
      BY <1>1
    <3>2. out[n - 1] \in Seq(T) /\ ToSet(out[n - 1]) = {parts[i] : i \in 1..(n - 1)} \ {""}
      BY <2>2
    <3>3. out[n] = step(n, out[n - 1])
      BY <1>5, <3>1
    <3>4. {parts[i] : i \in 1..n} = {parts[i] : i \in 1..(n - 1)} \cup {parts[n]}
      BY <3>1
    <3>5. /\ out[n] \in Seq(T)
          /\ ToSet(out[n]) = (ToSet(out[n - 1]) \cup {parts[n]}) \ {""}
      BY <1>2, <3>2, <3>3
    <3> QED BY <3>1, <3>2, <3>4, <3>5
  <2> HIDE DEF Good
  <2> QED BY <1>1, <2>1, <2>2, InductionUpto
<1>8. m \in 0..m
  BY <1>1
<1>9. m \in Good
  BY <1>7, <1>8
<1>10. ToSet(parts) = {parts[i] : i \in 1..m}
  BY <1>1 DEF ToSet
<1> QED BY <1>6, <1>9, <1>10

-----------------------------------------------------------------------------
(* What a line asks for *)

\* The values of one limit option: the soft limit, the hard limit, 0 for what
\* is left out.
LEMMA LimitPairs ==
  ASSUME NEW v \in Cut
  PROVE  limitPair(v) = SoftAndHard(v)
<1>1. Len(v) \in {1, 2} /\ v \in Seq(STRING)
  BY DEF Cut
<1>2. CASE Len(v) = 1
  BY <1>2 DEF limitPair, OrZero, SoftAndHard
<1>3. CASE Len(v) = 2
  BY <1>3 DEF limitPair, OrZero, SoftAndHard
<1> QED BY <1>1, <1>2, <1>3

LEMMA Option ==
  ASSUME NEW S, NEW o \in Optional(S)
  PROVE  Has(o) => Value(o) \in S
<1> SUFFICES ASSUME Has(o) PROVE o[1] \in S
  BY DEF Value
<1>1. o \in Seq(S) /\ Len(o) <= 1
  BY DEF Optional
<1>2. Len(o) \in Nat /\ Len(o) # 0
  BY <1>1, EmptySeq DEF Has, None
<1> QED BY <1>1, <1>2

\* A target is good when none of its parts is empty.
LEMMA Targets ==
  ASSUME NEW p \in Cut
  PROVE  /\ GoodTarget(p) <=> "" \notin ToSet(p)
         /\ TargetOf(p) = [fs |-> p[1], fileset |-> IF Len(p) = 2 THEN p[2] ELSE ""]
<1>1. p \in Seq(STRING) /\ Len(p) \in {1, 2} /\ DOMAIN p = 1..Len(p)
  BY DEF Cut
<1>2. CASE Len(p) = 1
  <2>1. DOMAIN p = {1} /\ ~(Len(p) > 1) /\ ~(Len(p) = 2)
    BY <1>1, <1>2
  <2>2. ToSet(p) = {p[1]}
    BY <2>1 DEF ToSet
  <2> QED BY <2>1, <2>2, Zenon DEF GoodTarget, TargetOf
<1>3. CASE Len(p) = 2
  <2>1. DOMAIN p = {1, 2} /\ Len(p) > 1
    BY <1>1, <1>3
  <2>2. ToSet(p) = {p[1], p[2]}
    BY <2>1 DEF ToSet
  <2>3. GoodTarget(p) <=> "" \notin ToSet(p)
    BY <2>1, <2>2 DEF GoodTarget
  <2> QED BY <1>3, <2>1, <2>3, Zenon DEF TargetOf
<1> QED BY <1>1, <1>2, <1>3, Zenon

LEMMA QuotaTypes ==
  ASSUME NEW s
  PROVE  LET t == ToLower(s) IN
         /\ quotaTypeName(s) = "" <=> t \notin DOMAIN Types
         /\ t \in DOMAIN Types => quotaTypeName(s) = Types[t]
         /\ t \in DOMAIN Types => (Types[t] = "FILESET" <=> t = "fileset")
<1> DEFINE t == ToLower(s)
<1>1. DOMAIN Types = {"user", "group", "fileset"}
  BY DEF Types
<1>2. quotaTypeName(s) = "" <=> t \notin {"user", "group", "fileset"}
  BY DEF quotaTypeName
<1>3. Types["user"] = "USR" /\ Types["group"] = "GRP" /\ Types["fileset"] = "FILESET"
  BY DEF Types
<1>4. ASSUME t \in {"user", "group", "fileset"}
      PROVE  quotaTypeName(s) = Types[t] /\ (Types[t] = "FILESET" <=> t = "fileset")
  BY <1>3, <1>4 DEF quotaTypeName
<1> QED BY <1>1, <1>2, <1>4, Zenon

\* A line and what is heeded of it.
LEMMA HeededParts ==
  ASSUME NEW l \in CommandLine
  PROVE  LET h == Heeded(l) IN
         /\ h.operands = l.operands /\ h.grace = l.grace
         /\ \A f \in {"block", "files"} : h[f] = l[f]
         /\ h.default = IF Has(l.grace) THEN None ELSE l.default
         /\ h.user = IF Has(l.grace) \/ Has(l.default) THEN None ELSE l.user
         /\ h.group = IF Has(l.grace) \/ Has(l.default) THEN None ELSE l.group
BY DEF Heeded, CommandLine

GoodLine(l) ==
  Len(l.operands) = 1 /\ GoodTarget(l.operands[1]) /\ (Has(l.block) \/ Has(l.files))

LEMMA BadLine ==
  ASSUME NEW l \in CommandLine, ~GoodLine(l)
  PROVE  Requests(l) = <<>> /\ ~InSynopsis(Heeded(l))
<1>1. Requests(l) = <<>>
  BY DEF GoodLine, Requests
<1>2. CASE Len(l.operands) = 1
  <2>1. l.operands[1] \in Cut
    BY <1>2 DEF CommandLine
  <2>2. GoodTarget(l.operands[1]) <=> "" \notin ToSet(l.operands[1])
    BY <2>1, Targets
  <2> QED BY <1>1, <1>2, <2>2, HeededParts DEF GoodLine, InSynopsis
<1>3. CASE Len(l.operands) # 1
  BY <1>1, <1>3, HeededParts DEF InSynopsis
<1> QED BY <1>2, <1>3

\* Every write of a line carries the same fields.
Carried(l) == IF Has(l.grace) THEN Periods(l) ELSE Limits(l)

LEMMA CarriedIsAsked ==
  ASSUME NEW l \in CommandLine
  PROVE  /\ DOMAIN Carried(l) = {g \in {"block", "files"} : Has(Heeded(l)[g])}
         /\ \A f \in DOMAIN Carried(l) : Carried(l)[f] = Asked(Heeded(l), f)
<1>1. DOMAIN Carried(l) = Fields(l)
  BY DEF Carried, Periods, Limits
<1>2. \A f \in {"block", "files"} : Heeded(l)[f] = l[f] /\ Heeded(l).grace = l.grace
  BY HeededParts
<1>3. ASSUME NEW f \in Fields(l) PROVE Carried(l)[f] = Asked(Heeded(l), f)
  <2>1. f \in {"block", "files"} /\ Has(l[f])
    BY <1>3 DEF Fields
  <2>2. l[f] \in Optional(Cut)
    BY <2>1 DEF CommandLine
  <2>3. Value(l[f]) \in Cut
    BY <2>1, <2>2, Option
  <2>4. limitPair(Value(l[f])) = SoftAndHard(Value(l[f]))
    BY <2>3, LimitPairs
  <2> QED BY <1>2, <1>3, <2>1, <2>4 DEF Carried, Periods, Limits, Asked
<1> QED BY <1>1, <1>2, <1>3 DEF Fields

\* A plan of one write, and one with a write for each of some names.
About(p) == {Setting(p[n]) : n \in DOMAIN p}
OfEach(type, coll, names) == {<<"setQuota", type, coll, n>> : n \in names}

LEMMA OneWrite ==
  ASSUME NEW r
  PROVE  /\ <<r>> # <<>>
         /\ \A n \in DOMAIN <<r>> : <<r>>[n] = r
         /\ About(<<r>>) = {Setting(r)}
<1>1. DOMAIN <<r>> = {1} /\ <<r>>[1] = r /\ <<r>> # <<>>
  OBVIOUS
<1> QED BY <1>1 DEF About

ForEach(coll, type, ids, fields) ==
  [i \in DOMAIN ids |-> Request("setQuota", coll, type, ids[i], fields)]

LEMMA WriteForEach ==
  ASSUME NEW T, NEW ids \in Seq(T), NEW type, type # "FILESET", NEW coll, NEW fields
  PROVE  LET p == ForEach(coll, type, ids, fields) IN
         /\ p = <<>> <=> ToSet(ids) = {}
         /\ \A n \in DOMAIN p : p[n].fields = fields
         /\ About(p) = OfEach(type, coll, ToSet(ids))
<1> DEFINE p == ForEach(coll, type, ids, fields)
<1>0. p = [i \in DOMAIN ids |-> Request("setQuota", coll, type, ids[i], fields)]
  BY DEF ForEach
<1> HIDE DEF p
<1>1. DOMAIN p = DOMAIN ids /\ DOMAIN ids = 1..Len(ids) /\ Len(ids) \in Nat
  BY <1>0
<1>2. \A i \in DOMAIN ids : p[i].fields = fields
  BY <1>0 DEF Request
<1>3. \A i \in DOMAIN ids : Setting(p[i]) = <<"setQuota", type, coll, ids[i]>>
  BY <1>0 DEF Request, Setting
<1>4. p = <<>> <=> ToSet(ids) = {}
  <2>1. p = <<>> => DOMAIN p = {}
    OBVIOUS
  <2>2. CASE DOMAIN ids = {}
    BY <1>1, <2>1, <2>2 DEF ToSet
  <2>3. CASE DOMAIN ids # {}
    BY <1>1, <2>1, <2>3 DEF ToSet
  <2> QED BY <2>2, <2>3
<1> HIDE DEF Setting
<1>5. About(p) = OfEach(type, coll, ToSet(ids))
  BY <1>1, <1>3 DEF ToSet, About, OfEach
<1>6. \A n \in DOMAIN p : p[n].fields = fields
  BY <1>1, <1>2, Zenon
<1> QED BY <1>4, <1>5, <1>6, Zenon DEF p

\* The lines that are refused though the synopsis has them.
OfBoth(h) == Has(h.user) /\ Has(h.group)

\* What a plan has to be: h is what is heeded of its line.
Suits(p, h, fields) ==
  /\ p = <<>> <=> ~InSynopsis(h) \/ OfBoth(h)
  /\ \A n \in DOMAIN p : p[n].fields = fields
  /\ p # <<>> => About(p) = Things(h)

LEMMA NoWriteSuits ==
  ASSUME NEW h, NEW fields, ~InSynopsis(h) \/ OfBoth(h)
  PROVE  Suits(<<>>, h, fields)
BY DEF Suits

LEMMA OneWriteSuits ==
  ASSUME NEW h, NEW r, InSynopsis(h), ~OfBoth(h), Things(h) = {Setting(r)}
  PROVE  Suits(<<r>>, h, r.fields)
<1> DEFINE p == <<r>>
<1>1. p # <<>> /\ (\A n \in DOMAIN p : p[n] = r) /\ About(p) = {Setting(r)}
  BY OneWrite
<1> HIDE DEF p
<1>2. \A n \in DOMAIN p : p[n].fields = r.fields
  BY <1>1
<1> QED BY <1>1, <1>2 DEF Suits, p

\* The plan of a line that begins well.
LEMMA PlanSuitsLine ==
  ASSUME NEW l \in CommandLine, GoodLine(l)
  PROVE  Suits(Requests(l), Heeded(l), Carried(l))
<1> DEFINE h == Heeded(l)
           op == l.operands[1]
           target == TargetOf(op)
           where == <<op[1], IF Len(op) = 2 THEN op[2] ELSE "">>
<1>1. /\ Len(l.operands) = 1 /\ (Has(l.block) \/ Has(l.files))
      /\ op \in Cut /\ "" \notin ToSet(op) /\ GoodTarget(op)
  <2>1. Len(l.operands) = 1 /\ (Has(l.block) \/ Has(l.files)) /\ GoodTarget(op)
    BY DEF GoodLine
  <2>2. op \in Cut
    BY <2>1 DEF CommandLine
  <2> QED BY <2>1, <2>2, Targets
<1>2. /\ target.fs = op[1] /\ target.fileset = (IF Len(op) = 2 THEN op[2] ELSE "")
      /\ path(target) = where
      /\ target.fileset # "" <=> Len(op) = 2
  <2>1. target = [fs |-> op[1], fileset |-> IF Len(op) = 2 THEN op[2] ELSE ""]
    BY <1>1, Targets
  <2>2. Len(op) = 2 => op[2] # ""
    <3>1. Len(op) = 2 => Len(op) > 1
      OBVIOUS
    <3> QED BY <1>1, <3>1 DEF GoodTarget
  <2> HIDE DEF op, target
  <2>3. target.fs = op[1] /\ target.fileset = (IF Len(op) = 2 THEN op[2] ELSE "")
    BY <2>1
  <2> QED BY <2>2, <2>3 DEF path, where
<1>3. /\ h.operands = l.operands /\ h.grace = l.grace /\ h.block = l.block /\ h.files = l.files
      /\ h.default = IF Has(l.grace) THEN None ELSE l.default
      /\ h.user = IF Has(l.grace) \/ Has(l.default) THEN None ELSE l.user
      /\ h.group = IF Has(l.grace) \/ Has(l.default) THEN None ELSE l.group
  BY HeededParts
<1>4. ~Has(None)
  BY DEF Has
<1> HIDE DEF h, op, target, where
<1>5. CASE Has(l.grace)
  <2> DEFINE type == quotaTypeName(Value(l.grace))
             r == Request("setGracePeriod", where, type, "", Periods(l))
  <2>1. Requests(l) = IF type = "" THEN <<>> ELSE <<r>>
    BY <1>1, <1>2, <1>5, Zenon DEF Requests, setGracePeriod, op, target
  <2>2. InSynopsis(h) <=> ToLower(Value(l.grace)) \in DOMAIN Types
    <3>1. h.grace = l.grace /\ ~Has(h.default) /\ ~Has(h.user) /\ ~Has(h.group)
      BY <1>3, <1>4, <1>5, Zenon
    <3> QED BY <1>1, <1>3, <1>5, <3>1, Zenon DEF InSynopsis, ofNames, op
  <2>6. ~OfBoth(h)
    BY <1>3, <1>4, <1>5, Zenon DEF OfBoth
  <2>3. /\ type = "" <=> ToLower(Value(l.grace)) \notin DOMAIN Types
        /\ type # "" => type = Types[ToLower(Value(l.grace))]
    BY QuotaTypes, Zenon
  <2>4. CASE type = ""
    BY <2>1, <2>2, <2>3, <2>4, NoWriteSuits, Zenon DEF h
  <2>5. CASE type # ""
    <3>1. Things(h) = {<<"setGracePeriod", type, where, "">>}
      BY <1>3, <1>5, <2>3, <2>5 DEF Things, where, op
    <3>2. Setting(r) = <<"setGracePeriod", type, where, "">> /\ r.fields = Carried(l)
      BY <1>5 DEF Setting, Request, Carried
    <3>3. Requests(l) = <<r>> /\ InSynopsis(h)
      BY <2>1, <2>2, <2>3, <2>5, Zenon
    <3> HIDE DEF r
    <3>4. Suits(<<r>>, h, r.fields)
      BY <2>6, <3>1, <3>2, <3>3, OneWriteSuits, Zenon
    <3> QED BY <3>2, <3>3, <3>4, Zenon DEF h
  <2> QED BY <2>4, <2>5
<1>6. CASE ~Has(l.grace) /\ Has(l.default)
  <2> DEFINE type == quotaTypeName(Value(l.default))
             r == Request("setDefaultQuota", where, type, "", Limits(l))
             bad == type = "" \/ (type = "FILESET" /\ Len(op) = 2)
  <2>1. Requests(l) = IF bad THEN <<>> ELSE <<r>>
    BY <1>1, <1>2, <1>6, Zenon DEF Requests, setDefaultQuota, op, target
  <2>2. InSynopsis(h) <=>
          /\ ToLower(Value(l.default)) \in DOMAIN Types
          /\ ToLower(Value(l.default)) = "fileset" => Len(op) # 2
    <3>1. h.default = l.default /\ ~Has(h.grace) /\ ~Has(h.user) /\ ~Has(h.group)
      BY <1>3, <1>4, <1>6, Zenon
    <3> QED BY <1>1, <1>3, <1>6, <3>1, Zenon DEF InSynopsis, ofNames, op
  <2>6. ~OfBoth(h)
    BY <1>3, <1>4, <1>6, Zenon DEF OfBoth
  <2>3. /\ type = "" <=> ToLower(Value(l.default)) \notin DOMAIN Types
        /\ type # "" => type = Types[ToLower(Value(l.default))] /\ (type = "FILESET" <=> ToLower(Value(l.default)) = "fileset")
    BY QuotaTypes, Zenon
  <2>4. CASE bad
    <3>1. Requests(l) = <<>> /\ ~InSynopsis(h)
      BY <2>1, <2>2, <2>3, <2>4
    <3> QED BY <3>1, NoWriteSuits, Zenon DEF h
  <2>5. CASE ~bad
    <3>1. Things(h) = {<<"setDefaultQuota", type, where, "">>}
      BY <1>3, <1>6, <2>3, <2>5 DEF Things, where, op
    <3>2. Setting(r) = <<"setDefaultQuota", type, where, "">> /\ r.fields = Carried(l)
      BY <1>6 DEF Setting, Request, Carried
    <3>3. Requests(l) = <<r>> /\ InSynopsis(h)
      BY <2>1, <2>2, <2>3, <2>5
    <3> HIDE DEF r
    <3>4. Suits(<<r>>, h, r.fields)
      BY <2>6, <3>1, <3>2, <3>3, OneWriteSuits, Zenon
    <3> QED BY <3>2, <3>3, <3>4, Zenon DEF h
  <2> QED BY <2>4, <2>5
<1>7. CASE ~Has(l.grace) /\ ~Has(l.default)
  <2> DEFINE users == splitList(Value(l.user))
             groups == splitList(Value(l.group))
             Each(type, ids) == ForEach(where, type, ids, Limits(l))
             r == Request("setQuota", <<op[1], "">>, "FILESET", target.fileset, Limits(l))
  <2>1. Requests(l) = IF Has(l.user) /\ Has(l.group) THEN <<>>
                      ELSE IF Has(l.user) THEN Each("USR", users)
                      ELSE IF Has(l.group) THEN Each("GRP", groups)
                      ELSE IF target.fileset = "" THEN <<>> ELSE <<r>>
    BY <1>1, <1>2, <1>7, Zenon DEF Requests, setQuota, ForEach, op, target
  <2>2. /\ h.grace = l.grace /\ h.default = l.default /\ h.user = l.user /\ h.group = l.group
        /\ Carried(l) = Limits(l)
    BY <1>3, <1>7, Zenon DEF Carried
  <2>3. InSynopsis(h) <=>
          /\ Len(op) = 2 \/ Has(l.user) \/ Has(l.group)
          /\ \A o \in {l.user, l.group} : Has(o) => Names(o) # {}
    BY <1>1, <1>3, <1>7, <2>2, Zenon DEF InSynopsis, ofNames, op
  <2>o. OfBoth(h) <=> Has(l.user) /\ Has(l.group)
    BY <2>2, Zenon DEF OfBoth
  <2>4. Things(h) =
          IF Has(l.user) \/ Has(l.group)
          THEN OfEach("USR", where, Names(l.user)) \cup OfEach("GRP", where, Names(l.group))
          ELSE {<<"setQuota", "FILESET", where, "">>}
    BY <1>3, <1>7, <2>2, Zenon DEF Things, where, op, ofNames, OfEach
  <2>5. ASSUME NEW o \in Optional(Seq(STRING)), Has(o)
        PROVE  splitList(Value(o)) \in Seq(STRING) /\ ToSet(splitList(Value(o))) = Names(o)
    <3>1. Value(o) \in Seq(STRING)
      BY <2>5, Option
    <3> QED BY <2>5, <3>1, SplitListKeeps DEF Names
  <2>6. l.user \in Optional(Seq(STRING)) /\ l.group \in Optional(Seq(STRING))
    BY DEF CommandLine
  <2>7. \A o : ~Has(o) => Names(o) = {}
    BY DEF Names
  <2>e. \A t : OfEach(t, where, {}) = {}
    BY DEF OfEach
  <2>8. CASE Has(l.user) /\ Has(l.group)
    <3>1. Requests(l) = <<>> /\ OfBoth(h)
      BY <2>1, <2>8, <2>o, Zenon
    <3> QED BY <3>1, NoWriteSuits, Zenon DEF h
  <2>9. ASSUME NEW type \in {"USR", "GRP"}, NEW ids \in Seq(STRING),
               InSynopsis(h) <=> ToSet(ids) # {}, Requests(l) = Each(type, ids),
               Things(h) = OfEach(type, where, ToSet(ids)), ~OfBoth(h)
        PROVE  Suits(Requests(l), h, Carried(l))
    <3> DEFINE p == Each(type, ids)
    <3>1. /\ p = <<>> <=> ToSet(ids) = {}
          /\ \A n \in DOMAIN p : p[n].fields = Limits(l)
          /\ About(p) = OfEach(type, where, ToSet(ids))
      <4>1. type # "FILESET"
        BY <2>9
      <4> QED BY <4>1, WriteForEach, Zenon
    <3> HIDE DEF p
    <3>2. Requests(l) = p
      BY <2>9 DEF p
    <3> QED BY <2>2, <2>9, <3>1, <3>2 DEF Suits
  <2> HIDE DEF Each, users, groups
  <2>10. CASE Has(l.user) /\ ~Has(l.group)
    <3>1. users \in Seq(STRING) /\ ToSet(users) = Names(l.user) /\ Names(l.group) = {}
      BY <2>5, <2>6, <2>7, <2>10 DEF users
    <3>2. Requests(l) = Each("USR", users) /\ (InSynopsis(h) <=> ToSet(users) # {})
      BY <2>1, <2>3, <2>10, <3>1
    <3>3. Things(h) = OfEach("USR", where, ToSet(users))
      <4>1. Things(h) = OfEach("USR", where, ToSet(users)) \cup OfEach("GRP", where, {})
        <5>1. Things(h) = OfEach("USR", where, Names(l.user)) \cup OfEach("GRP", where, Names(l.group))
          BY <2>4, <2>10
        <5> QED BY <3>1, <5>1
      <4>2. \A S : S \cup {} = S /\ {} \cup S = S
        OBVIOUS
      <4> QED BY <2>e, <4>1, <4>2
    <3> QED BY <2>9, <2>10, <2>o, <3>1, <3>2, <3>3 DEF h
  <2>11. CASE ~Has(l.user) /\ Has(l.group)
    <3>1. groups \in Seq(STRING) /\ ToSet(groups) = Names(l.group) /\ Names(l.user) = {}
      BY <2>5, <2>6, <2>7, <2>11 DEF groups
    <3>2. Requests(l) = Each("GRP", groups) /\ (InSynopsis(h) <=> ToSet(groups) # {})
      BY <2>1, <2>3, <2>11, <3>1
    <3>3. Things(h) = OfEach("GRP", where, ToSet(groups))
      <4>1. Things(h) = OfEach("USR", where, {}) \cup OfEach("GRP", where, ToSet(groups))
        <5>1. Things(h) = OfEach("USR", where, Names(l.user)) \cup OfEach("GRP", where, Names(l.group))
          BY <2>4, <2>11
        <5> QED BY <3>1, <5>1
      <4>2. \A S : S \cup {} = S /\ {} \cup S = S
        OBVIOUS
      <4> QED BY <2>e, <4>1, <4>2
    <3> QED BY <2>9, <2>11, <2>o, <3>1, <3>2, <3>3 DEF h
  <2>12. CASE ~Has(l.user) /\ ~Has(l.group)
    <3>1. InSynopsis(h) <=> target.fileset # ""
      BY <1>2, <2>3, <2>12, Zenon
    <3>2. Requests(l) = IF target.fileset = "" THEN <<>> ELSE <<r>>
      BY <2>1, <2>12, Zenon
    <3>3. CASE target.fileset = ""
      BY <3>1, <3>2, <3>3, NoWriteSuits, Zenon DEF h
    <3>4. CASE target.fileset # ""
      <4>1. Setting(r) = <<"setQuota", "FILESET", <<op[1], target.fileset>>, "">> /\ r.fields = Limits(l)
        BY DEF Setting, Request
      <4>2. where = <<op[1], target.fileset>>
        BY <1>2, Zenon DEF where
      <4>3. Things(h) = {Setting(r)}
        BY <2>4, <2>12, <4>1, <4>2, Zenon
      <4> HIDE DEF r
      <4>4. Suits(<<r>>, h, r.fields)
        BY <2>12, <2>o, <3>1, <3>4, <4>3, OneWriteSuits, Zenon
      <4> QED BY <2>2, <3>2, <3>4, <4>1, <4>4, Zenon DEF h
    <3> QED BY <3>3, <3>4
  <2> QED BY <2>8, <2>10, <2>11, <2>12
<1> QED BY <1>5, <1>6, <1>7

\* The writes of a line are what it asks for: none when it is refused, and
\* otherwise each setting it is about with the values it gives.
LEMMA PlanIsWanted ==
  ASSUME NEW l \in CommandLine, plan = Requests(l)
  PROVE  /\ plan = <<>> <=> ~InSynopsis(Heeded(l)) \/ OfBoth(Heeded(l))
         /\ Settings(Write) \subseteq Wanted(Heeded(l))
         /\ plan # <<>> => Settings(Write) = Wanted(Heeded(l))
<1> DEFINE h == Heeded(l)
<1>1. CASE ~GoodLine(l)
  BY <1>1, BadLine DEF Settings, Write, Wanted
<1>2. CASE GoodLine(l)
  <2>1. Suits(plan, h, Carried(l))
    BY <1>2, PlanSuitsLine
  <2>2. CASE plan = <<>>
    BY <2>1, <2>2 DEF Suits, Settings, Write, Wanted
  <2>3. CASE plan # <<>>
    <3> HIDE DEF h
    <3>1. /\ InSynopsis(h) /\ \A n \in Write : plan[n].fields = Carried(l)
          /\ About(plan) = Things(h)
      BY <2>1, <2>3 DEF Suits, Write
    <3>2. /\ DOMAIN Carried(l) = {g \in {"block", "files"} : Has(h[g])}
          /\ \A f \in DOMAIN Carried(l) : Carried(l)[f] = Asked(h, f)
      BY CarriedIsAsked, Zenon DEF h
    <3>3. Wanted(h) = {<<t, f, Asked(h, f)>> : t \in Things(h), f \in DOMAIN Carried(l)}
      BY <3>1, <3>2 DEF Wanted
    <3>4. Settings(Write) = {<<t, f, Carried(l)[f]>> : t \in Things(h), f \in DOMAIN Carried(l)}
      <4>1. Settings(Write) =
              UNION {{<<Setting(plan[n]), f, Carried(l)[f]>> : f \in DOMAIN Carried(l)} : n \in Write}
        BY <3>1 DEF Settings
      <4> QED BY <3>1, <4>1 DEF About, Write
    <3> QED BY <2>1, <3>2, <3>3, <3>4 DEF Suits, h
  <2> QED BY <2>2, <2>3
<1> QED BY <1>1, <1>2

-----------------------------------------------------------------------------
(* mmsetquota *)

\* A step never touches the plan, and ends the command at most once, in success
\* or failure.
LEMMA EndsOnce ==
  ASSUME IInv, [Next]_vars
  PROVE  /\ plan' = plan
         /\ exit' = exit \/ (plan # <<>> /\ exit # "usage" /\ exit' # "usage")
<1>1. CASE phase = "exited"
  <2>1. CASE UNCHANGED vars
    BY <2>1 DEF vars
  <2>2. CASE \E n \in Write : JobEnds(n) /\ UNCHANGED plan
    BY <2>2 DEF JobEnds
  <2>3. CASE Next /\ ~\E n \in Write : JobEnds(n)
    BY <1>1, <2>3
       DEF Next, Client, Outside, Send, NothingToFollow, FollowJob, Poll, JobRuns, JobOver, Wake,
           GuiAccepts, GuiDoesAtOnce, WriteRefused, GuiReportsJob, AnswerLost, Awaiting, Expire
  <2> QED BY <2>1, <2>2, <2>3 DEF Next, Client, Outside
<1>2. CASE phase # "exited"
  <2>1. at \in Write /\ exit = "none"
    BY <1>2 DEF IInv, AtHand
  <2>2. plan # <<>>
    BY <2>1 DEF Write
  <2>3. plan' = plan
    BY DEF vars, Next, Client, Outside
  <2>4. exit' \in {exit, "ok", "failed"}
    BY DEF vars, Next, Client, Outside, Send, NothingToFollow, FollowJob, Poll, JobRuns, JobOver, Wake,
           GuiAccepts, GuiDoesAtOnce, WriteRefused, GuiReportsJob, AnswerLost, Expire, JobEnds,
           Succeed, Fail
  <2> QED BY <2>1, <2>2, <2>3, <2>4
<1> QED BY <1>1, <1>2

\* The plan is that of the line, and only an empty one is refused.
Planned ==
  /\ line \in Lines
  /\ plan = Requests(line)
  /\ exit = "usage" <=> plan = <<>>

LEMMA PlannedInvariant == SetquotaSpec => [](IInv /\ Planned)
<1>1. SetquotaInit => Planned
  BY DEF SetquotaInit, Planned, Begins
<1>2. IInv /\ Planned /\ [SetquotaNext]_setquotaVars => Planned'
  <2> SUFFICES ASSUME IInv, Planned, [SetquotaNext]_setquotaVars
               PROVE  Planned'
    OBVIOUS
  <2>1. [Next]_vars /\ line' = line
    BY DEF SetquotaNext, setquotaVars
  <2>2. plan' = plan /\ (exit' = exit \/ (plan # <<>> /\ exit # "usage" /\ exit' # "usage"))
    BY <2>1, EndsOnce
  <2>3. Requests(line)' = Requests(line)
    BY <2>1
  <2> QED BY <2>1, <2>2, <2>3 DEF Planned
<1> QED BY <1>1, <1>2, SetquotaIsWrite, WriteInvariant, PTL DEF SetquotaSpec

LEMMA PlannedIsWanted ==
  ASSUME Planned
  PROVE  /\ plan = <<>> <=> ~InSynopsis(Heeded(line)) \/ OfBoth(Heeded(line))
         /\ Settings(Write) \subseteq Wanted(Heeded(line))
         /\ plan # <<>> => Settings(Write) = Wanted(Heeded(line))
<1>1. line \in CommandLine /\ plan = Requests(line)
  BY LinesAssumption DEF Planned
<1> QED BY <1>1, PlanIsWanted

\* mmsetquota refuses exactly the lines its synopsis does not allow and those
\* that name users and groups, whatever is on the line (quota.go:608-632, 676).
THEOREM SynopsisKept == SetquotaSpec => []KeepsToSynopsis
<1>1. IInv /\ Planned => KeepsToSynopsis
  BY PlannedIsWanted DEF Planned, KeepsToSynopsis, OfBoth
<1> QED BY <1>1, PlannedInvariant, PTL

\* No job is ever started for a setting that the line does not name, whatever
\* the line and however the command ends (quota.go:608-673).
THEOREM NothingElseChanged == SetquotaSpec => []NothingElse
<1>1. IInv /\ Planned => NothingElse
  <2>1. Settings({n \in Write : job[n] # "none"}) \subseteq Settings(Write)
    BY DEF Settings
  <2> QED BY <2>1, PlannedIsWanted DEF NothingElse
<1> QED BY <1>1, PlannedInvariant, PTL

\* A command that ends well, each of its answers read, has set every limit its
\* line asks for, whatever the line (quota.go:593-595, 637-673).
THEOREM LimitsAreAsked == SetquotaSpec => []LimitsAsAsked
<1>1. IInv /\ Planned => LimitsAsAsked
  <2> SUFFICES ASSUME IInv, Planned, exit = "ok", unread = {}
               PROVE  Wanted(Heeded(line)) \subseteq Settings({n \in Write : job[n] = "completed"})
    BY DEF LimitsAsAsked
  <2>1. {n \in Write : job[n] = "completed"} = Write
    BY DEF IInv, Ended, Settled
  <2>2. plan # <<>>
    BY DEF Planned
  <2> QED BY <2>1, <2>2, PlannedIsWanted
<1> QED BY <1>1, PlannedInvariant, PTL
=============================================================================
