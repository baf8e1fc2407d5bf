----------------------------- MODULE MmctlWrite -----------------------------
(***************************************************************************)
(* How mmctl makes changes (scaleWrite and waitJob of cmd/mmctl/client.go). *)
(* The GUI answers a write with a job that runs on its own; mmctl polls the *)
(* job until it ends, a request fails or two minutes have passed, and only  *)
(* then goes on to the next write (the loop over the ids of mmsetquota) or  *)
(* exits.  The writes of a command are its plan.  Most commands make one;   *)
(* one that refuses its operands or options makes none.                     *)
(***************************************************************************)
EXTENDS Naturals, Sequences

CONSTANTS
  Change,  \* what one write may ask for
  Plans    \* the plans of the commands

ASSUME PlansAssumption == Plans \subseteq Seq(Change)

\* The jobs of the GUI, as the GUI knows them.  "completed" is COMPLETED with
\* exit code 0, "exited" COMPLETED with another, "stopped" any other end.
JobEnd == {"completed", "exited", "stopped"}
JobState == {"none", "running"} \cup JobEnd

VARIABLES
  plan,     \* the writes the command makes, in order
  at,       \* the write mmctl is making
  phase,    \* where it is in scaleWrite and waitJob
  expired,  \* the deadline of waitJob has passed
  seen,     \* the job status in the answer on its way back
  exit,     \* what the command ends with
  job,      \* the job of each write
  trouble,  \* a request was refused or its answer lost or unusable
  unread    \* the writes whose answer did not parse

vars == <<plan, at, phase, expired, seen, exit, job, trouble, unread>>

Write == DOMAIN plan

Phase ==
  {"send", "posted", "accepted", "done", "poll", "asked", "answered", "sleep", "exited"}

\* A request is under way, or the answer to it.
Awaiting == {"posted", "accepted", "done", "asked", "answered"}

TypeOK ==
  /\ plan \in Seq(Change)
  /\ at \in 0..Len(plan)
  /\ phase \in Phase
  /\ expired \in BOOLEAN
  /\ seen \in JobState
  /\ exit \in {"none", "ok", "failed", "usage"}
  /\ job \in [Write -> JobState]
  /\ trouble \in BOOLEAN
  /\ unread \in SUBSET Write

\* A command with plan p: on its way to the first write, or refused.
Begins(p) ==
  /\ plan = p
  /\ IF p = <<>> THEN at = 0 /\ phase = "exited" /\ exit = "usage"
     ELSE at = 1 /\ phase = "send" /\ exit = "none"
  /\ expired = FALSE
  /\ seen = "none"
  /\ job = [n \in Write |-> "none"]
  /\ trouble = FALSE
  /\ unread = {}

Init == \E p \in Plans : Begins(p)

-----------------------------------------------------------------------------
Fail == phase' = "exited" /\ exit' = "failed"

\* scaleWrite returns nil: the next write, or the end of the command.
Succeed ==
  IF at < Len(plan)
  THEN at' = at + 1 /\ phase' = "send" /\ UNCHANGED exit
  ELSE phase' = "exited" /\ exit' = "ok" /\ UNCHANGED at

Send ==
  /\ phase = "send"
  /\ phase' = "posted"
  /\ UNCHANGED <<at, expired, seen, exit, job, trouble, unread>>

\* The GUI takes the write on and starts a job.
GuiAccepts ==
  /\ phase = "posted"
  /\ phase' = "accepted"
  /\ job' = [job EXCEPT ![at] = "running"]
  /\ UNCHANGED <<at, expired, seen, exit, trouble, unread>>

\* The GUI does the write at once; its answer carries no job.
GuiDoesAtOnce ==
  /\ phase = "posted"
  /\ phase' = "done"
  /\ job' = [job EXCEPT ![at] = "completed"]
  /\ UNCHANGED <<at, expired, seen, exit, trouble, unread>>

\* waitJob finds no job to follow.
NothingToFollow ==
  /\ phase = "done"
  /\ Succeed
  /\ UNCHANGED <<expired, seen, job, trouble, unread>>

\* The write is refused (a status of 400 or more) or does not get through.
WriteRefused ==
  /\ phase = "posted"
  /\ Fail
  /\ trouble' = TRUE
  /\ UNCHANGED <<at, expired, seen, job, unread>>

\* Mutant of FollowJob: the job is started and not followed.
FollowJobNot ==
  /\ phase = "accepted"
  /\ Succeed
  /\ UNCHANGED <<expired, seen, job, trouble, unread>>

\* waitJob starts with the job's id and two minutes.  An answer it finds no job
\* in, because it does not parse, counts as that of a write done at once.
FollowJob ==
  /\ phase = "accepted"
  /\ \/ phase' = "poll" /\ expired' = FALSE /\ UNCHANGED <<at, exit, unread>>
     \/ Succeed /\ unread' = unread \cup {at} /\ UNCHANGED expired
  /\ UNCHANGED <<seen, job, trouble>>

Poll ==
  /\ phase = "poll"
  /\ phase' = "asked"
  /\ UNCHANGED <<at, expired, seen, exit, job, trouble, unread>>

\* The GUI reads the job's status; the job may move on before mmctl hears.
GuiReportsJob ==
  /\ phase = "asked"
  /\ seen' = job[at]
  /\ phase' = "answered"
  /\ UNCHANGED <<at, expired, exit, job, trouble, unread>>

\* Mutants of Done: the exit code is not looked at; the status is misspelt.
DoneWhateverExit(s) == s \in {"completed", "exited"}
DoneNever(s) == FALSE

\* What waitJob makes of a status: any but RUNNING is final.
StillRunning(s) == s = "running"
Done(s) == s = "completed"

\* Mutant of JobRuns: the deadline is not looked at.
JobRunsForEver ==
  /\ phase = "answered"
  /\ StillRunning(seen)
  /\ phase' = "sleep"
  /\ seen' = "none"
  /\ UNCHANGED <<at, expired, exit, job, trouble, unread>>

\* RUNNING: asked again after half a second, unless the deadline has passed.
JobRuns ==
  /\ phase = "answered"
  /\ StillRunning(seen)
  /\ IF expired THEN Fail ELSE phase' = "sleep" /\ UNCHANGED exit
  /\ seen' = "none"
  /\ UNCHANGED <<at, expired, job, trouble, unread>>

JobOver ==
  /\ phase = "answered"
  /\ ~StillRunning(seen)
  /\ IF Done(seen) THEN Succeed ELSE Fail /\ UNCHANGED at
  /\ seen' = "none"
  /\ UNCHANGED <<expired, job, trouble, unread>>

\* The answer to the write or to a poll is lost or is an error of the gateway
\* (502), or that to a poll is not the JSON expected: the command ends, the job
\* goes on.
AnswerLost ==
  /\ phase \in Awaiting \ {"posted"}
  /\ Fail
  /\ trouble' = TRUE
  /\ seen' = "none"
  /\ UNCHANGED <<at, expired, job, unread>>

Wake ==
  /\ phase = "sleep"
  /\ phase' = "poll"
  /\ UNCHANGED <<at, expired, seen, exit, job, trouble, unread>>

Expire ==
  /\ phase \in {"poll", "asked", "answered", "sleep"}
  /\ ~expired
  /\ expired' = TRUE
  /\ UNCHANGED <<at, phase, seen, exit, job, trouble, unread>>

\* The GUI's side: a job ends, one way or another.
JobEnds(n) ==
  /\ job[n] = "running"
  /\ \E s \in JobEnd : job' = [job EXCEPT ![n] = s]
  /\ UNCHANGED <<at, phase, expired, seen, exit, trouble, unread>>

-----------------------------------------------------------------------------
Client ==
  /\ Send \/ NothingToFollow \/ FollowJob \/ Poll \/ JobRuns \/ JobOver \/ Wake
  /\ UNCHANGED plan
Outside ==
  /\ \/ GuiAccepts \/ GuiDoesAtOnce \/ WriteRefused \/ GuiReportsJob
     \/ AnswerLost \/ Expire
     \/ \E n \in Write : JobEnds(n)
  /\ UNCHANGED plan

Next == Client \/ Outside

Spec == Init /\ [][Next]_vars

\* mmctl goes on while it waits for no answer, and time passes.  Nothing says
\* that a request is ever answered, or that a job ever ends.
Fairness ==
  /\ WF_vars((Send \/ Poll \/ Wake) /\ UNCHANGED plan)
  /\ WF_vars(Expire /\ UNCHANGED plan)

-----------------------------------------------------------------------------
(* Properties *)

\* The GUI has made the change, or its answer could not be read.
Settled(n) == job[n] = "completed" \/ n \in unread

\* mmctl exits 0 only when every change it was asked for has been made: not
\* when a job has only been started, was cancelled or exited with an error
\* (client.go:115-118).  The one exception is a write whose answer did not
\* parse: it counts as done, job or not (client.go:149-152).
SuccessMeansDone == exit = "ok" => \A n \in Write : Settled(n)

\* The changes are made in the order given and none is begun unless all before
\* it have been made: a failure leaves a prefix (quota.go:663-667).
ChangesFormAPrefix ==
  \A n \in Write : job[n] # "none" => \A m \in 1..(n - 1) : Settled(m)

\* A failure that is reported has a cause: a request that went wrong, two
\* minutes of waiting, or a job that was not seen to complete.
FailureHasCause ==
  exit = "failed" => trouble \/ expired \/ job[at] # "completed"

\* The command ends even if a job never does; only a request that is never
\* answered can keep it, since the HTTP client has no timeout (client.go:31,
\* 155-182).
HangsOnlyOnARequest ==
  <>(exit # "none") \/ <>[](phase \in Awaiting)
=============================================================================
