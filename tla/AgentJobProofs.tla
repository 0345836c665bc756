---------------------------- MODULE AgentJobProofs ----------------------------
(***************************************************************************)
(* Proofs about AgentJobQueue, for any jobs, workers, lease length, clock  *)
(* lag, number of attempts and concurrency.                                *)
(***************************************************************************)
EXTENDS AgentJobProps, FiniteSetTheorems, TLAPS

USE AttemptsAssumption, LeaseAssumption, WorkersAssumption

-----------------------------------------------------------------------------
(***************************************************************************)
(* The shape of a step of one run: how the run record, the row and filed   *)
(* may change. Everything else follows from the shape.                     *)
(***************************************************************************)

\* What one step does to the record of run r, and to what it filed.
RunShape(r) ==
    /\ run[r].ctl # "idle"
    /\ \E x \in RunType :
         /\ run' = [run EXCEPT ![r] = x]
         /\ x.ctl # "idle"
         /\ x.owner = run[r].owner
         /\ x.exec = "NEEDS_APPROVAL" => r \in filed'
         /\ x.ctl = "writing" => x.exec \in Terminal
    /\ active' \subseteq Runs
    /\ proc' = proc
    /\ filed' = filed \/ filed' = filed \cup {r}

\* A write by the run whose attempt the row is in.
OwnWrite(r) ==
    /\ row[Job(r)].worker = run[r].owner
    /\ row[Job(r)].attempt = r[2]
    /\ row[Job(r)].status \in Holding
    /\ \/ \E s \in Holding : row' = [row EXCEPT ![Job(r)].status = s]
       \/ \E s \in Terminal : /\ s = "NEEDS_APPROVAL" => r \in filed
                              /\ row' = [row EXCEPT ![Job(r)] = Settled(Job(r), s)]
       \/ row' = [row EXCEPT ![Job(r)] = NextAttempt(Job(r))]

\* A heartbeat, which is not fenced by the attempt.
LeaseExtension(r) ==
    /\ row[Job(r)].status \in Holding
    /\ \E l \in LeaseFloor .. LeaseTicks :
          row' = [row EXCEPT ![Job(r)].lease = l]

RowShape(r) == row' = row \/ (filed' = filed /\ (OwnWrite(r) \/ LeaseExtension(r)))

StepShape(r) == RunShape(r) /\ RowShape(r)

-----------------------------------------------------------------------------
\* A run is a pair of a job and an attempt number.
LEMMA RunsArePairs ==
    ASSUME NEW r \in Runs
    PROVE  Job(r) \in Jobs /\ r[2] \in Attempts /\ r = <<Job(r), r[2]>>
BY DEF Runs, Job

\* Forgetting a finished run and unwinding a rejected one keep the type, the
\* owner, and whether the run was ever claimed.
LEMMA KeptShape ==
    ASSUME NEW x \in RunType, x.ctl # "idle"
    PROVE  /\ Kept(x) \in RunType
           /\ Kept(x).ctl # "idle"
           /\ Kept(x).owner = x.owner
           /\ Kept(x).exec = "NEEDS_APPROVAL" => x.exec = "NEEDS_APPROVAL"
           /\ Kept(x).ctl = x.ctl
           /\ x.ctl = "writing" => Kept(x).exec = x.exec
BY DEF Kept, RunType, NoRun, Ctl, Exec, Causes, Working, Beating, Terminal, Returned

LEMMA UnwoundShape ==
    ASSUME NEW x \in RunType, x.ctl # "idle"
    PROVE  /\ Unwound(x) \in RunType
           /\ Unwound(x).ctl \in {"releasing", "done"}
           /\ Unwound(x).owner = x.owner
           /\ Unwound(x).exec = x.exec
BY DEF Unwound, RunType, Ctl, Beating

LEMMA AbortedShape ==
    ASSUME NEW x \in RunType, x.ctl # "idle", NEW c \in Causes
    PROVE  /\ Aborted(x, c) \in RunType
           /\ Aborted(x, c).ctl \in {x.ctl, "releasing", "done"}
           /\ Aborted(x, c).owner = x.owner
           /\ Aborted(x, c).exec = x.exec
<1> DEFINE marked == [x EXCEPT !.cause = c]
<1>1. /\ marked \in RunType /\ marked.ctl = x.ctl
      /\ marked.owner = x.owner /\ marked.exec = x.exec
  BY DEF RunType
<1>2. /\ Unwound(marked) \in RunType
      /\ Unwound(marked).ctl \in {"releasing", "done"}
      /\ Unwound(marked).owner = x.owner
      /\ Unwound(marked).exec = x.exec
  BY <1>1, UnwoundShape
<1>3. Aborted(x, c) \in {x, Unwound(marked), marked}
  BY DEF Aborted
<1> QED BY <1>1, <1>2, <1>3

\* Replacing the record of a claimed run by a well-formed one has RunShape.
LEMMA BecomeShape ==
    ASSUME IInv, NEW r \in Runs, run[r].ctl # "idle",
           NEW x \in RunType, x.ctl # "idle", x.owner = run[r].owner,
           x.exec = "NEEDS_APPROVAL" => r \in filed',
           x.ctl = "writing" => x.exec \in Terminal,
           Become(r, x), proc' = proc,
           filed' = filed \/ filed' = filed \cup {r}
    PROVE  RunShape(r)
<1>1. /\ Kept(x) \in RunType /\ Kept(x).ctl # "idle" /\ Kept(x).owner = x.owner
      /\ Kept(x).exec = "NEEDS_APPROVAL" => x.exec = "NEEDS_APPROVAL"
      /\ Kept(x).ctl = x.ctl
      /\ x.ctl = "writing" => Kept(x).exec = x.exec
  BY KeptShape
<1>2. run' = [run EXCEPT ![r] = Kept(x)]
  BY DEF Become
<1>3. active' \subseteq Runs
  BY DEF Become, Removed, IInv, TypeOK
<1> QED BY <1>1, <1>2, <1>3 DEF RunShape

\* A call that is rejected has RunShape.
LEMMA ThrowShape ==
    ASSUME IInv, NEW r \in Runs, run[r].ctl # "idle",
           Throw(r), proc' = proc, filed' = filed
    PROVE  RunShape(r)
<1>1. run[r] \in RunType
  BY DEF IInv, TypeOK
<1>2. /\ Unwound(run[r]) \in RunType
      /\ Unwound(run[r]).ctl \in {"releasing", "done"}
      /\ Unwound(run[r]).owner = run[r].owner
      /\ Unwound(run[r]).exec = run[r].exec
  BY <1>1, UnwoundShape
<1>3. run[r].exec = "NEEDS_APPROVAL" => r \in filed
  BY DEF IInv, RunHistory
<1> QED BY <1>2, <1>3, BecomeShape DEF Throw

LEMMA AbortShape ==
    ASSUME IInv, NEW r \in Runs, run[r].ctl # "idle", NEW c \in Causes,
           Abort(r, c), proc' = proc, filed' = filed
    PROVE  RunShape(r)
<1>1. run[r] \in RunType
  BY DEF IInv, TypeOK
<1>2. /\ Aborted(run[r], c) \in RunType
      /\ Aborted(run[r], c).ctl \in {run[r].ctl, "releasing", "done"}
      /\ Aborted(run[r], c).owner = run[r].owner
      /\ Aborted(run[r], c).exec = run[r].exec
  BY <1>1, AbortedShape
<1>3. /\ run[r].exec = "NEEDS_APPROVAL" => r \in filed
      /\ run[r].ctl = "writing" => run[r].exec \in Terminal
  BY DEF IInv, RunHistory
<1> QED BY <1>2, <1>3, BecomeShape DEF Abort

\* A promise that resolves has RunShape.
LEMMA ReturnShape ==
    ASSUME IInv, NEW r \in Runs, run[r].ctl # "idle", NEW o \in Returned,
           o = "NEEDS_APPROVAL" => r \in filed', run[r].exec \in Working,
           Return(r, o), proc' = proc,
           filed' = filed \/ filed' = filed \cup {r}
    PROVE  RunShape(r)
<1> DEFINE returned == [run[r] EXCEPT !.exec = o]
<1>1. run[r] \in RunType
  BY DEF IInv, TypeOK
<1>2. /\ returned \in RunType /\ returned.ctl = run[r].ctl
      /\ returned.owner = run[r].owner /\ returned.exec = o
  BY <1>1 DEF RunType, Exec
<1>3. /\ Unwound(returned) \in RunType
      /\ Unwound(returned).ctl \in {"releasing", "done"}
      /\ Unwound(returned).owner = run[r].owner
      /\ Unwound(returned).exec = o
  BY <1>2, UnwoundShape
<1>4. run[r].ctl # "writing"
  BY DEF IInv, RunHistory, Working, Terminal
<1>5. CASE run[r].ctl # "racing"
  BY <1>2, <1>4, <1>5, BecomeShape DEF Return
<1>6. CASE run[r].ctl = "racing" /\ o \in Terminal
  <2>1. [returned EXCEPT !.ctl = "writing"] \in RunType
    BY <1>2 DEF RunType, Ctl, Beating
  <2> QED BY <2>1, <1>2, <1>6, BecomeShape DEF Return, RunType
<1>7. CASE run[r].ctl = "racing" /\ o = "ABORTED"
  BY <1>3, <1>7, BecomeShape DEF Return, Terminal
<1>8. CASE run[r].ctl = "racing" /\ o = "FAILED_RETRYABLE"
  <2>1. [returned EXCEPT !.ctl = "releasing"] \in RunType
    BY <1>2 DEF RunType, Ctl, Beating
  <2> QED BY <2>1, <1>2, <1>8, BecomeShape DEF Return, RunType, Terminal
<1> QED BY <1>5, <1>6, <1>7, <1>8 DEF Returned

\* A repository call that is fenced by owner, attempt and lease has StepShape
\* when the row it writes is one of the three forms of OwnWrite.
LEMMA CallShape ==
    ASSUME IInv, NEW r \in Runs, run[r].ctl # "idle",
           NEW matches \in BOOLEAN, NEW newRow, NEW x \in RunType,
           x.ctl # "idle", x.owner = run[r].owner,
           x.exec = "NEEDS_APPROVAL" => r \in filed,
           x.ctl = "writing" => x.exec \in Terminal,
           matches /\ row' = [row EXCEPT ![Job(r)] = newRow] => OwnWrite(r),
           Call(r, matches, newRow, x)
    PROVE  StepShape(r)
<1>1. proc' = proc /\ filed' = filed
  BY DEF Call
<1>2. CASE matches /\ row' = [row EXCEPT ![Job(r)] = newRow] /\ Become(r, x)
  <2>1. RunShape(r)
    BY <1>1, <1>2, BecomeShape
  <2> QED BY <1>1, <1>2, <2>1 DEF StepShape, RowShape
<1>3. CASE matches /\ row' = [row EXCEPT ![Job(r)] = newRow] /\ Throw(r)
  <2>1. RunShape(r)
    BY <1>1, <1>3, ThrowShape
  <2> QED BY <1>1, <1>3, <2>1 DEF StepShape, RowShape
<1>4. CASE row' = row /\ Throw(r)
  <2>1. RunShape(r)
    BY <1>1, <1>4, ThrowShape
  <2> QED BY <1>1, <1>4, <2>1 DEF StepShape, RowShape
<1> QED BY <1>2, <1>3, <1>4 DEF Call

\* A run in this control state has been claimed, and moving it on keeps its
\* type, its owner and what its executor returned.
LEMMA AtShape ==
    ASSUME IInv, NEW r \in Runs, NEW c \in {"requeueing", "done"}
    PROVE  /\ At(r, c) \in RunType
           /\ At(r, c).ctl = c
           /\ At(r, c).owner = run[r].owner
           /\ At(r, c).exec = "NEEDS_APPROVAL" => r \in filed
BY DEF At, IInv, TypeOK, RunType, Ctl, Beating, RunHistory

\* Every step of a run has StepShape.
LEMMA RunStepShape ==
    ASSUME IInv, NEW r \in Runs, RunStep(r)
    PROVE  StepShape(r)
<1> USE DEF IInv, TypeOK
<1>t. Job(r) \in Jobs /\ run[r] \in RunType /\ row[Job(r)] \in RowType
  BY RunsArePairs
<1>1. CASE Quarantine(r)
  <2>1. ASSUME Fenced(r, LeaseTicks - row[Job(r)].lease),
               row[Job(r)].status = "CLAIMED",
               row' = [row EXCEPT ![Job(r)] = Settled(Job(r), "FAILED_SECURITY")]
        PROVE  OwnWrite(r)
    BY <2>1 DEF OwnWrite, Fenced, Holding, Terminal
  <2>2. run[r].ctl # "idle"
    BY <1>1 DEF Quarantine
  <2> QED BY <1>1, <2>1, <2>2, AtShape, CallShape DEF Quarantine
<1>2. CASE Launch(r)
  <2>1. [run[r] EXCEPT !.ctl = "starting"] \in RunType
    BY <1>t DEF RunType, Ctl
  <2>2. active' \subseteq Runs
    BY <1>2 DEF Launch, Removed
  <2> QED BY <1>2, <1>t, <2>1, <2>2
      DEF Launch, StepShape, RunShape, RowShape, RunHistory, RunType
<1>3. CASE Timeout(r)
  <2>1. run[r].ctl # "idle"
    BY <1>3 DEF Timeout, HasTimers, Beating
  <2> QED BY <1>3, <2>1, AbortShape DEF Timeout, Causes, StepShape, RowShape
<1>4. CASE Executor(r)
  <2>1. run[r].exec \in Working /\ run[r].ctl # "idle"
    BY <1>4 DEF Executor, Decide, Operate, File, Working, RunHistory, NoRun
  <2>2. row' = row /\ proc' = proc
    BY <1>4 DEF Executor, Decide, Operate, File
  <2>3. ASSUME NEW e \in Working, Proceed(r, e), filed' = filed
        PROVE  RunShape(r)
    <3>1. CASE run[r].cause # "none"
      BY <2>1, <2>2, <2>3, <3>1, ReturnShape DEF Proceed, Returned
    <3>2. CASE run[r].cause = "none"
      <4>1. [run[r] EXCEPT !.exec = e] \in RunType
        BY <1>t DEF RunType, Exec
      <4>2. run[r].ctl # "writing" /\ e # "NEEDS_APPROVAL"
        BY <2>1 DEF RunHistory, Working, Terminal
      <4> QED BY <1>t, <2>1, <2>2, <2>3, <3>2, <4>1, <4>2, BecomeShape
          DEF Proceed, RunType
    <3> QED BY <3>1, <3>2
  <2>4. CASE Decide(r)
    BY <2>1, <2>2, <2>3, <2>4, ReturnShape
    DEF Decide, Returned, Terminal, Working, StepShape, RowShape
  <2>5. CASE Operate(r)
    BY <2>1, <2>2, <2>3, <2>5, ReturnShape
    DEF Operate, Returned, Terminal, Working, StepShape, RowShape
  <2>6. CASE File(r)
    BY <2>1, <2>2, <2>6, ReturnShape
    DEF File, Returned, Terminal, StepShape, RowShape
  <2> QED BY <1>4, <2>4, <2>5, <2>6 DEF Executor
<1>5. ASSUME NEW d \in Lags, Started(r, d)
      PROVE  StepShape(r)
  <2> DEFINE next == [run[r] EXCEPT !.ctl = "racing", !.exec = "deciding"]
  <2>1. next \in RunType /\ next.ctl = "racing" /\ next.owner = run[r].owner
        /\ next.exec = "deciding"
    BY <1>t DEF RunType, Ctl, Beating, Exec, Working
  <2>2. ASSUME Fenced(r, d), row[Job(r)].status = "CLAIMED",
               row' = [row EXCEPT ![Job(r)] = [row[Job(r)] EXCEPT !.status = "RUNNING"]]
        PROVE  OwnWrite(r)
    BY <1>t, <2>2 DEF OwnWrite, Fenced, Holding
  <2>3. run[r].ctl # "idle"
    BY <1>5 DEF Started
  <2> QED BY <1>5, <2>1, <2>2, <2>3, CallShape DEF Started
<1>6. ASSUME NEW d \in Lags, Heartbeat(r, d)
      PROVE  StepShape(r)
  <2>1. run[r].ctl # "idle"
    BY <1>6 DEF Heartbeat, HasTimers, Beating
  <2>2. proc' = proc /\ filed' = filed
    BY <1>6 DEF Heartbeat
  <2>3. RunShape(r)
    <3>1. CASE run' = run /\ active' = active
      BY <1>t, <2>1, <2>2, <3>1 DEF RunShape, RunHistory
    <3>2. CASE Abort(r, "lost")
      BY <2>1, <2>2, <3>2, AbortShape DEF Causes
    <3> QED BY <1>6, <3>1, <3>2 DEF Heartbeat
  <2>4. LeaseTicks - d \in LeaseFloor .. LeaseTicks
    BY DEF Lags, LeaseFloor
  <2>5. row' = row \/ LeaseExtension(r)
    BY <1>6, <2>4 DEF Heartbeat, LeaseExtension, Holding
  <2> QED BY <2>2, <2>3, <2>5 DEF StepShape, RowShape
<1>7. ASSUME NEW d \in Lags, WriteOutcome(r, d)
      PROVE  StepShape(r)
  <2>1. run[r].ctl # "idle" /\ run[r].exec \in Terminal
    BY <1>7 DEF WriteOutcome, RunHistory
  <2>2. ASSUME Fenced(r, d), row[Job(r)].status = "RUNNING",
               row' = [row EXCEPT ![Job(r)] = Settled(Job(r), run[r].exec)]
        PROVE  OwnWrite(r)
    BY <2>1, <2>2 DEF OwnWrite, Fenced, Holding, RunHistory
  <2> QED BY <1>7, <2>1, <2>2, AtShape, CallShape DEF WriteOutcome
<1>8. ASSUME NEW d \in Lags, Release(r, d)
      PROVE  StepShape(r)
  <2>1. ASSUME Fenced(r, d), row[Job(r)].status = "RUNNING",
               row' = [row EXCEPT ![Job(r)] =
                         [row[Job(r)] EXCEPT !.status = "FAILED_RETRYABLE"]]
        PROVE  OwnWrite(r)
    BY <1>t, <2>1 DEF OwnWrite, Fenced, Holding
  <2>2. run[r].ctl # "idle"
    BY <1>8 DEF Release
  <2> QED BY <1>8, <2>1, <2>2, AtShape, CallShape DEF Release
<1>9. ASSUME NEW d \in Lags, Requeue(r, d)
      PROVE  StepShape(r)
  <2>1. run[r].ctl # "idle"
    BY <1>9 DEF Requeue
  <2>2. ASSUME Fenced(r, d), row[Job(r)].status = "FAILED_RETRYABLE",
               row' = [row EXCEPT ![Job(r)] = NextAttempt(Job(r))]
        PROVE  OwnWrite(r)
    BY <2>2 DEF OwnWrite, Fenced, Holding
  <2>3. CASE Call(r, Fenced(r, d) /\ row[Job(r)].status = "FAILED_RETRYABLE",
                  NextAttempt(Job(r)), At(r, "done"))
    BY <2>1, <2>2, <2>3, AtShape, CallShape
  <2>4. CASE Become(r, At(r, "done")) /\ row' = row /\ proc' = proc /\ filed' = filed
    <3>1. RunShape(r)
      BY <2>1, <2>4, AtShape, BecomeShape
    <3> QED BY <2>4, <3>1 DEF StepShape, RowShape
  <2> QED BY <1>9, <2>3, <2>4 DEF Requeue
<1> QED BY <1>1, <1>2, <1>3, <1>4, <1>5, <1>6, <1>7, <1>8, <1>9 DEF RunStep

-----------------------------------------------------------------------------
(***************************************************************************)
(* The inductive invariant.                                                *)
(***************************************************************************)

\* What the two ways of writing a row off yield.
LEMMA WrittenRows ==
    ASSUME IInv, NEW j \in Jobs
    PROVE  /\ \A s \in Status : /\ Settled(j, s) \in RowType
                                /\ Settled(j, s).status = s
                                /\ Settled(j, s).worker = NoWorker
                                /\ Settled(j, s).attempt = row[j].attempt
           /\ row[j].attempt < MaxAttempts =>
                /\ NextAttempt(j) \in RowType
                /\ NextAttempt(j).status \in {"QUEUED", "FAILED_FINAL"}
                /\ NextAttempt(j).worker = NoWorker
                /\ NextAttempt(j).attempt = row[j].attempt + 1
                /\ NextAttempt(j).status = "FAILED_FINAL"
                     <=> row[j].attempt + 1 = MaxAttempts
<1>1. row[j] \in RowType
  BY DEF IInv, TypeOK
<1>2. 0 \in LeaseFloor .. LeaseTicks
  BY DEF LeaseFloor
<1>3. \A s \in Status : /\ Settled(j, s) \in RowType
                        /\ Settled(j, s).status = s
                        /\ Settled(j, s).worker = NoWorker
                        /\ Settled(j, s).attempt = row[j].attempt
  BY <1>1, <1>2 DEF Settled, RowType
<1>4. ASSUME row[j].attempt < MaxAttempts
      PROVE  /\ NextAttempt(j) \in RowType
             /\ NextAttempt(j).status \in {"QUEUED", "FAILED_FINAL"}
             /\ NextAttempt(j).worker = NoWorker
             /\ NextAttempt(j).attempt = row[j].attempt + 1
             /\ NextAttempt(j).status = "FAILED_FINAL"
                  <=> row[j].attempt + 1 = MaxAttempts
  <2> DEFINE s == IF row[j].attempt + 1 >= MaxAttempts THEN "FAILED_FINAL" ELSE "QUEUED"
  <2>1. s \in Status /\ s \in {"QUEUED", "FAILED_FINAL"}
    BY DEF Status, Terminal
  <2>2. row[j].attempt \in Nat /\ row[j].attempt + 1 \in 0 .. MaxAttempts
    BY <1>1, <1>4 DEF RowType
  <2>3. NextAttempt(j) = [Settled(j, s) EXCEPT !.attempt = row[j].attempt + 1]
    BY DEF NextAttempt
  <2> QED BY <1>3, <1>4, <2>1, <2>2, <2>3 DEF RowType
<1> QED BY <1>3, <1>4

LEMMA InitInvariant == Init => IInv
<1> SUFFICES ASSUME Init PROVE IInv
  OBVIOUS
<1>1. TypeOK
  BY DEF Init, TypeOK, RowType, RunType, NoRun, Status, Ctl, Exec, Causes, LeaseFloor
<1>2. LeaseDiscipline /\ AttemptsLeft /\ ApprovalHasProposal
  BY DEF Init, LeaseDiscipline, AttemptsLeft, ApprovalHasProposal, Holding
<1>3. FreshToken /\ RunHistory
  BY DEF Init, FreshToken, RunHistory, NoRun
<1> QED BY <1>1, <1>2, <1>3 DEF IInv

\* How a leased row may change: it stays leased by the same worker under the
\* same attempt, it settles, or it goes back with one more attempt used.
Stays(j, z) ==
    /\ z.status \in Holding
    /\ z.worker = row[j].worker
    /\ z.attempt = row[j].attempt

Settles(j, z) ==
    /\ z.status \in Terminal
    /\ z.worker = NoWorker
    /\ z.attempt = row[j].attempt
    /\ z.status = "NEEDS_APPROVAL" => Current(j) \in filed

GoesBack(j, z) ==
    /\ z.status \in {"QUEUED", "FAILED_FINAL"}
    /\ z.worker = NoWorker
    /\ z.attempt = row[j].attempt + 1
    /\ z.status = "FAILED_FINAL" <=> row[j].attempt + 1 = MaxAttempts

Moved(j) ==
    /\ row[j].status \in Holding
    /\ \E z \in RowType : /\ row' = [row EXCEPT ![j] = z]
                          /\ Stays(j, z) \/ Settles(j, z) \/ GoesBack(j, z)

RunsKept ==
    /\ run' \in [Runs -> RunType]
    /\ \A s \in Runs : /\ run'[s].ctl = "idle" <=> run[s].ctl = "idle"
                       /\ run'[s].owner = run[s].owner

RowInvariants == LeaseDiscipline /\ FreshToken /\ AttemptsLeft /\ ApprovalHasProposal

\* The parts of the invariant about rows survive every such change.
LEMMA MovedInvariant ==
    ASSUME IInv, NEW j \in Jobs, Moved(j), RunsKept, filed \subseteq filed'
    PROVE  row' \in [Jobs -> RowType] /\ RowInvariants'
<1> USE DEF IInv, TypeOK, RowInvariants
<1>1. PICK z \in RowType : /\ row' = [row EXCEPT ![j] = z]
                           /\ Stays(j, z) \/ Settles(j, z) \/ GoesBack(j, z)
  BY DEF Moved
<1>2. /\ row' \in [Jobs -> RowType]
      /\ row'[j] = z
      /\ \A k \in Jobs : k # j => row'[k] = row[k]
  BY <1>1
<1>3. /\ row[j].status \in Holding
      /\ row[j].attempt \in 0 .. MaxAttempts /\ row[j].attempt < MaxAttempts
      /\ row[j].worker # NoWorker
  BY DEF Moved, AttemptsLeft, LeaseDiscipline, RowType, Holding, Terminal
<1>4. \A k \in Jobs : row[k].attempt \in Nat
  BY DEF RowType
<1>5. LeaseDiscipline'
  <2> SUFFICES ASSUME NEW k \in Jobs
               PROVE  /\ row'[k].status \in Holding <=> row'[k].worker # NoWorker
                      /\ row'[k].status \in Holding =>
                           /\ run'[<<k, row'[k].attempt>>].ctl # "idle"
                           /\ run'[<<k, row'[k].attempt>>].owner = row'[k].worker
    BY DEF LeaseDiscipline, Current
  <2>1. row[k].status \in Holding => Current(k) \in Runs
    BY <1>4 DEF Current, Runs, Attempts, AttemptsLeft, Holding, Terminal, RowType
  <2>2. /\ row[k].status \in Holding <=> row[k].worker # NoWorker
        /\ row[k].status \in Holding =>
             run'[Current(k)].ctl # "idle" /\ run'[Current(k)].owner = row[k].worker
    BY <2>1 DEF LeaseDiscipline, RunsKept
  <2>3. CASE k # j
    BY <1>2, <2>2, <2>3 DEF Current
  <2>4. CASE k = j /\ Stays(j, z)
    BY <1>2, <1>3, <2>2, <2>4 DEF Stays, Current
  <2>5. CASE k = j /\ (Settles(j, z) \/ GoesBack(j, z))
    BY <1>2, <2>5 DEF Settles, GoesBack, Holding, Terminal
  <2> QED BY <1>1, <2>3, <2>4, <2>5
<1>6. FreshToken'
  <2> SUFFICES ASSUME NEW s \in Runs, run'[s].ctl # "idle"
               PROVE  /\ row'[Job(s)].status # "ABSENT"
                      /\ s[2] <= row'[Job(s)].attempt
                      /\ row'[Job(s)].status = "QUEUED" => s[2] < row'[Job(s)].attempt
    BY DEF FreshToken, Job
  <2>1. Job(s) \in Jobs /\ s[2] \in Nat
    BY RunsArePairs DEF Attempts
  <2>2. /\ row[Job(s)].status # "ABSENT"
        /\ s[2] <= row[Job(s)].attempt
        /\ row[Job(s)].status = "QUEUED" => s[2] < row[Job(s)].attempt
    BY DEF FreshToken, RunsKept
  <2>3. CASE Job(s) # j
    BY <1>2, <2>1, <2>2, <2>3
  <2>4. CASE Job(s) = j
    BY <1>1, <1>2, <1>4, <2>1, <2>2, <2>4
    DEF Stays, Settles, GoesBack, Holding, Terminal
  <2> QED BY <2>3, <2>4
<1>7. AttemptsLeft'
  BY <1>1, <1>2, <1>3 DEF AttemptsLeft, Stays, Settles, GoesBack, Holding, Terminal
<1>8. ApprovalHasProposal'
  BY <1>1, <1>2, <1>3
  DEF ApprovalHasProposal, Current, Stays, Settles, GoesBack, Holding, Terminal
<1> QED BY <1>2, <1>5, <1>6, <1>7, <1>8

\* A write of a run moves its row in one of these ways.
LEMMA WriteMoves ==
    ASSUME IInv, NEW r \in Runs, OwnWrite(r) \/ LeaseExtension(r)
    PROVE  Moved(Job(r))
<1> USE DEF IInv, TypeOK
<1> DEFINE j == Job(r)
<1>1. j \in Jobs /\ r = <<j, r[2]>> /\ row[j] \in RowType /\ row[j].status \in Holding
  BY RunsArePairs DEF OwnWrite, LeaseExtension
<1>2. row[j].attempt < MaxAttempts
  BY <1>1 DEF AttemptsLeft, Holding, Terminal
<1>3. ASSUME NEW s \in Holding, row' = [row EXCEPT ![j].status = s]
      PROVE  Moved(j)
  <2> DEFINE z == [row[j] EXCEPT !.status = s]
  <2>1. z \in RowType /\ Stays(j, z)
    BY <1>1 DEF RowType, Stays, Status
  <2>2. row' = [row EXCEPT ![j] = z]
    BY <1>1, <1>3
  <2> QED BY <1>1, <2>1, <2>2 DEF Moved
<1>4. ASSUME NEW l \in LeaseFloor .. LeaseTicks, row' = [row EXCEPT ![j].lease = l]
      PROVE  Moved(j)
  <2> DEFINE z == [row[j] EXCEPT !.lease = l]
  <2>1. z \in RowType /\ Stays(j, z)
    BY <1>1 DEF RowType, Stays
  <2>2. row' = [row EXCEPT ![j] = z]
    BY <1>1, <1>4
  <2> QED BY <1>1, <2>1, <2>2 DEF Moved
<1>5. ASSUME NEW s \in Terminal, s = "NEEDS_APPROVAL" => r \in filed,
             row[j].attempt = r[2],
             row' = [row EXCEPT ![j] = Settled(j, s)]
      PROVE  Moved(j)
  <2>1. Settled(j, s) \in RowType /\ Settles(j, Settled(j, s))
    BY <1>1, <1>5, WrittenRows DEF Settles, Current, Status
  <2> QED BY <1>1, <1>5, <2>1 DEF Moved
<1>6. ASSUME row' = [row EXCEPT ![j] = NextAttempt(j)]
      PROVE  Moved(j)
  <2>1. NextAttempt(j) \in RowType /\ GoesBack(j, NextAttempt(j))
    BY <1>1, <1>2, WrittenRows DEF GoesBack
  <2> QED BY <1>1, <1>6, <2>1 DEF Moved
<1> QED BY <1>3, <1>4, <1>5, <1>6 DEF OwnWrite, LeaseExtension

\* A step of a run keeps the invariant: by its shape alone.
LEMMA RunStepInvariant ==
    ASSUME IInv, NEW r \in Runs, StepShape(r)
    PROVE  IInv'
<1> USE DEF IInv, TypeOK
<1>1. PICK x \in RunType :
         /\ run' = [run EXCEPT ![r] = x]
         /\ x.ctl # "idle"
         /\ x.owner = run[r].owner
         /\ x.exec = "NEEDS_APPROVAL" => r \in filed'
         /\ x.ctl = "writing" => x.exec \in Terminal
  BY DEF StepShape, RunShape
<1>2. /\ run[r].ctl # "idle" /\ proc' = proc /\ active' \subseteq Runs
      /\ filed \subseteq filed' /\ filed' \subseteq Runs
  BY DEF StepShape, RunShape
<1>3. RunsKept
  BY <1>1, <1>2 DEF RunsKept
<1>4. RunHistory'
  BY <1>1, <1>2 DEF RunHistory
<1>5. row' \in [Jobs -> RowType] /\ RowInvariants'
  <2>1. CASE row' = row
    <3>1. \A j \in Jobs : row[j].status \in Holding => Current(j) \in Runs
      BY DEF AttemptsLeft, Current, Runs, RowType, Attempts, Holding, Terminal
    <3>2. LeaseDiscipline'
      BY <1>3, <2>1, <3>1 DEF LeaseDiscipline, Current, RunsKept
    <3>3. FreshToken'
      BY <1>3, <2>1 DEF FreshToken, RunsKept
    <3>4. AttemptsLeft' /\ ApprovalHasProposal'
      BY <1>2, <2>1 DEF AttemptsLeft, ApprovalHasProposal, Current
    <3> QED BY <2>1, <3>2, <3>3, <3>4 DEF RowInvariants
  <2>2. CASE OwnWrite(r) \/ LeaseExtension(r)
    BY <1>2, <1>3, <2>2, RunsArePairs, WriteMoves, MovedInvariant
  <2> QED BY <2>1, <2>2 DEF StepShape, RowShape
<1> QED BY <1>2, <1>3, <1>4, <1>5 DEF RunsKept, RowInvariants

\* A change of rows that leaves runs alone and keeps status, owner and attempt
\* of every row but those that are submitted keeps the invariant.
LEMMA RowsOnlyInvariant ==
    ASSUME IInv, UNCHANGED <<run, active, proc, filed>>,
           row' \in [Jobs -> RowType],
           \A j \in Jobs : /\ row'[j].worker = row[j].worker
                           /\ row'[j].attempt = row[j].attempt
                           /\ \/ row'[j].status = row[j].status
                              \/ row[j].status = "ABSENT" /\ row'[j].status = "QUEUED"
    PROVE  IInv'
<1> USE DEF IInv, TypeOK
<1>1. TypeOK' /\ RunHistory'
  BY DEF RunHistory
<1>2. LeaseDiscipline'
  BY DEF LeaseDiscipline, Current, Holding
<1>3. FreshToken'
  BY RunsArePairs DEF FreshToken, Job
<1>4. AttemptsLeft' /\ ApprovalHasProposal'
  BY DEF AttemptsLeft, ApprovalHasProposal, Current, Terminal
<1> QED BY <1>1, <1>2, <1>3, <1>4

LEMMA SubmitInvariant ==
    ASSUME IInv, NEW j \in Jobs, Submit(j) PROVE IInv'
BY RowsOnlyInvariant DEF Submit, IInv, TypeOK, RowType, Status

LEMMA TickInvariant ==
    ASSUME IInv, Tick PROVE IInv'
<1>1. ASSUME NEW j \in Jobs
      PROVE  /\ row'[j] \in RowType
             /\ row'[j].worker = row[j].worker
             /\ row'[j].attempt = row[j].attempt
             /\ row'[j].status = row[j].status
  <2>1. row[j] \in RowType
    BY DEF IInv, TypeOK
  <2>2. row[j].lease > LeaseFloor => row[j].lease - 1 \in LeaseFloor .. LeaseTicks
    BY <2>1 DEF RowType, LeaseFloor
  <2> QED BY <2>1, <2>2 DEF Tick, RowType
<1>2. row' \in [Jobs -> RowType]
  BY <1>1 DEF Tick
<1> QED BY <1>1, <1>2, RowsOnlyInvariant DEF Tick

LEMMA ReclaimMoves ==
    ASSUME IInv, NEW w \in Workers, NEW j \in Jobs, NEW d \in Lags, Reclaim(w, j, d)
    PROVE  Moved(j)
<1>1. row[j].attempt < MaxAttempts /\ row[j].status \in Holding
  BY DEF IInv, AttemptsLeft, Reclaim, Holding, Terminal
<1>2. NextAttempt(j) \in RowType /\ GoesBack(j, NextAttempt(j))
  BY <1>1, WrittenRows DEF GoesBack
<1> QED BY <1>1, <1>2 DEF Moved, Reclaim

LEMMA ReclaimInvariant ==
    ASSUME IInv, NEW w \in Workers, NEW j \in Jobs, NEW d \in Lags, Reclaim(w, j, d)
    PROVE  IInv'
<1>1. Moved(j) /\ RunsKept
  BY ReclaimMoves DEF RunsKept, IInv, TypeOK, Reclaim
<1>2. row' \in [Jobs -> RowType] /\ RowInvariants'
  BY <1>1, MovedInvariant DEF Reclaim
<1> QED BY <1>2 DEF IInv, TypeOK, RowInvariants, RunHistory, Reclaim

LEMMA ClaimInvariant ==
    ASSUME IInv, NEW w \in Workers, NEW j \in Jobs, NEW d \in Lags, ClaimNext(w, j, d)
    PROVE  IInv'
<1> USE DEF IInv, TypeOK
<1> DEFINE r == Current(j)
           z == [row[j] EXCEPT !.status = "CLAIMED", !.worker = w,
                               !.lease = LeaseTicks - d]
<1>1. /\ row[j].status = "QUEUED" /\ row[j].attempt < MaxAttempts
      /\ row[j] \in RowType
      /\ UNCHANGED <<active, proc, filed>>
  BY DEF ClaimNext, Claimable
<1>2. r = <<j, row[j].attempt>> /\ r \in Runs /\ row[j].attempt \in Nat
  BY <1>1 DEF Current, Runs, Attempts, RowType
<1>3. /\ z \in RowType /\ z.status = "CLAIMED" /\ z.worker = w
      /\ z.attempt = row[j].attempt
  <2>1. LeaseTicks - d \in LeaseFloor .. LeaseTicks
    BY DEF Lags, LeaseFloor
  <2> QED BY <1>1, <2>1 DEF RowType, Status, Holding
<1>4. row' = [row EXCEPT ![j] = z]
  BY <1>1 DEF ClaimNext
<1>5. /\ row' \in [Jobs -> RowType] /\ row'[j] = z
      /\ \A k \in Jobs : k # j => row'[k] = row[k]
  BY <1>1, <1>3, <1>4
<1>6. run[r] = NoRun
  BY <1>1, <1>2 DEF FreshToken, RunHistory, Job
<1>7. PICK ctl \in {"claimed", "done"} :
         run' = [run EXCEPT ![r].owner = w, ![r].ctl = ctl]
  BY DEF ClaimNext
<1> DEFINE x == [NoRun EXCEPT !.owner = w, !.ctl = ctl]
<1>8. x \in RunType /\ x.ctl = ctl /\ x.owner = w /\ x.exec = "none"
  BY <1>7 DEF NoRun, RunType, Ctl, Exec, Causes
<1>9. /\ run' \in [Runs -> RunType] /\ run'[r] = x
      /\ \A s \in Runs : s # r => run'[s] = run[s]
  BY <1>2, <1>6, <1>7, <1>8
<1> HIDE DEF r, x, z
<1>10. LeaseDiscipline'
  <2> SUFFICES ASSUME NEW k \in Jobs
               PROVE  /\ row'[k].status \in Holding <=> row'[k].worker # NoWorker
                      /\ row'[k].status \in Holding =>
                           /\ run'[<<k, row'[k].attempt>>].ctl # "idle"
                           /\ run'[<<k, row'[k].attempt>>].owner = row'[k].worker
    BY DEF LeaseDiscipline, Current
  <2>1. CASE k = j
    <3>1. <<k, row'[k].attempt>> = r
      BY <1>2, <1>3, <1>5, <2>1
    <3> QED BY <1>3, <1>5, <1>7, <1>8, <1>9, <2>1, <3>1 DEF Holding
  <2>2. CASE k # j
    <3>1. row[k].status \in Holding => <<k, row[k].attempt>> \in Runs
      BY DEF Runs, Attempts, AttemptsLeft, Holding, Terminal, RowType
    <3> QED BY <1>2, <1>5, <1>9, <2>2, <3>1 DEF LeaseDiscipline, Current
  <2> QED BY <2>1, <2>2
<1>11. FreshToken'
  <2> SUFFICES ASSUME NEW s \in Runs, run'[s].ctl # "idle"
               PROVE  /\ row'[Job(s)].status # "ABSENT"
                      /\ s[2] <= row'[Job(s)].attempt
                      /\ row'[Job(s)].status = "QUEUED" => s[2] < row'[Job(s)].attempt
    BY DEF FreshToken, Job
  <2>1. CASE s = r
    BY <1>2, <1>3, <1>5, <2>1 DEF Job
  <2>2. CASE s # r
    <3>1. /\ row[Job(s)].status # "ABSENT"
          /\ s[2] <= row[Job(s)].attempt
          /\ row[Job(s)].status = "QUEUED" => s[2] < row[Job(s)].attempt
      BY <1>9, <2>2 DEF FreshToken
    <3> QED BY <1>3, <1>5, <3>1, RunsArePairs
  <2> QED BY <2>1, <2>2
<1>12. AttemptsLeft' /\ ApprovalHasProposal'
  BY <1>1, <1>3, <1>5 DEF AttemptsLeft, ApprovalHasProposal, Current
<1>13. RunHistory'
  BY <1>1, <1>7, <1>8, <1>9 DEF RunHistory
<1> QED BY <1>1, <1>5, <1>9, <1>10, <1>11, <1>12, <1>13

LEMMA ProcessInvariant ==
    ASSUME IInv, NEW w \in Workers, Start(w) \/ Shutdown(w) \/ Exit(w)
    PROVE  IInv'
<1> USE DEF IInv, TypeOK
<1>1. row' = row /\ filed' = filed
  BY DEF Start, Shutdown, Exit
<1>2. active' \subseteq Runs /\ proc' \in [Workers -> {"off", "up", "stopping", "dead"}]
  BY DEF Start, Shutdown, Exit
<1>3. run' = [s \in Runs |-> run'[s]] /\ \A s \in Runs :
         /\ run'[s] \in RunType
         /\ run'[s].ctl = "idle" <=> run[s].ctl = "idle"
         /\ run'[s].owner = run[s].owner
         /\ run[s].ctl = "idle" => run'[s] = run[s]
         /\ run'[s].exec = "NEEDS_APPROVAL" => run[s].exec = "NEEDS_APPROVAL"
         /\ run'[s].ctl = "writing" => run'[s].exec = run[s].exec /\ run[s].ctl = "writing"
  <2>1. CASE Start(w)
    BY <2>1 DEF Start
  <2>2. CASE Shutdown(w)
    <3>0. run' = [s \in Runs |-> run'[s]]
      BY <2>2 DEF Shutdown
    <3> SUFFICES ASSUME NEW s \in Runs
                 PROVE  /\ run'[s] \in RunType
                        /\ run'[s].ctl = "idle" <=> run[s].ctl = "idle"
                        /\ run'[s].owner = run[s].owner
                        /\ run[s].ctl = "idle" => run'[s] = run[s]
                        /\ run'[s].exec = "NEEDS_APPROVAL" => run[s].exec = "NEEDS_APPROVAL"
                        /\ run'[s].ctl = "writing" =>
                             run'[s].exec = run[s].exec /\ run[s].ctl = "writing"
      BY <3>0
    <3>1. run'[s] = IF s \in active /\ run[s].owner = w
                    THEN Aborted(run[s], "release") ELSE run[s]
      BY <2>2 DEF Shutdown
    <3>2. run[s].owner = w => run[s].ctl # "idle"
      BY DEF RunHistory, NoRun
    <3> QED BY <3>1, <3>2, AbortedShape DEF Causes
  <2>3. CASE Exit(w)
    <3>0. run' = [s \in Runs |-> run'[s]]
      BY <2>3 DEF Exit
    <3> SUFFICES ASSUME NEW s \in Runs
                 PROVE  /\ run'[s] \in RunType
                        /\ run'[s].ctl = "idle" <=> run[s].ctl = "idle"
                        /\ run'[s].owner = run[s].owner
                        /\ run[s].ctl = "idle" => run'[s] = run[s]
                        /\ run'[s].exec = "NEEDS_APPROVAL" => run[s].exec = "NEEDS_APPROVAL"
                        /\ run'[s].ctl = "writing" =>
                             run'[s].exec = run[s].exec /\ run[s].ctl = "writing"
      BY <3>0
    <3> DEFINE x == [run[s] EXCEPT !.ctl = "done", !.exec = "none"]
    <3>1. run'[s] = IF run[s].owner = w THEN Kept(x) ELSE run[s]
      BY <2>3 DEF Exit
    <3>2. run[s].owner = w => run[s].ctl # "idle"
      BY DEF RunHistory, NoRun
    <3>3. /\ x \in RunType /\ x.ctl = "done" /\ x.exec = "none"
          /\ x.owner = run[s].owner
      BY DEF RunType, Ctl, Exec
    <3> HIDE DEF x
    <3> QED BY <3>1, <3>2, <3>3, KeptShape
  <2> QED BY <2>1, <2>2, <2>3
<1>4. TypeOK'
  BY <1>1, <1>2, <1>3
<1>5. LeaseDiscipline'
  <2>1. \A j \in Jobs : row[j].status \in Holding => Current(j) \in Runs
    BY DEF Current, Runs, Attempts, AttemptsLeft, Holding, Terminal, RowType
  <2> QED BY <1>1, <1>3, <2>1 DEF LeaseDiscipline, Current
<1>6. FreshToken'
  BY <1>1, <1>3 DEF FreshToken, Job
<1>7. AttemptsLeft' /\ ApprovalHasProposal'
  BY <1>1 DEF AttemptsLeft, ApprovalHasProposal, Current
<1>8. RunHistory'
  BY <1>1, <1>3 DEF RunHistory
<1> QED BY <1>4, <1>5, <1>6, <1>7, <1>8

LEMMA NextInvariant == IInv /\ [Next]_vars => IInv'
<1> SUFFICES ASSUME IInv, [Next]_vars PROVE IInv'
  OBVIOUS
<1>1. CASE Tick
  BY <1>1, TickInvariant
<1>2. ASSUME NEW j \in Jobs, Submit(j) PROVE IInv'
  BY <1>2, SubmitInvariant
<1>3. ASSUME NEW w \in Workers, WorkerStep(w) PROVE IInv'
  BY <1>3, ProcessInvariant, ReclaimInvariant, ClaimInvariant DEF WorkerStep
<1>4. ASSUME NEW r \in Runs, RunStep(r) PROVE IInv'
  BY <1>4, RunStepShape, RunStepInvariant
<1>5. CASE UNCHANGED vars
  <2> USE <1>5 DEF vars
  <2>1. TypeOK' /\ LeaseDiscipline' /\ RunHistory'
    BY DEF IInv, TypeOK, LeaseDiscipline, RunHistory, Current
  <2>2. FreshToken' /\ AttemptsLeft' /\ ApprovalHasProposal'
    BY DEF IInv, FreshToken, AttemptsLeft, ApprovalHasProposal, Current, Job
  <2> QED BY <2>1, <2>2 DEF IInv
<1> QED BY <1>1, <1>2, <1>3, <1>4, <1>5 DEF Next

\* The inductive invariant holds in every reachable state.
THEOREM Invariance == Spec => []IInv
BY InitInvariant, NextInvariant, PTL DEF Spec

\* Every variable of the queue keeps its type, for any number of jobs, workers
\* and attempts.
THEOREM TypeCorrect == Spec => []TypeOK
<1>1. IInv => TypeOK
  BY DEF IInv
<1> QED BY <1>1, Invariance, PTL

\* A row holds a lease exactly while it is in a lease-holding state, and then
\* its run belongs to the worker named in the row.
THEOREM LeasesAreDisciplined == Spec => []LeaseDiscipline
<1>1. IInv => LeaseDiscipline
  BY DEF IInv
<1> QED BY <1>1, Invariance, PTL

\* The attempt number with which a row is claimed was never used before.
THEOREM TokensAreFresh == Spec => []FreshToken
<1>1. IInv => FreshToken
  BY DEF IInv
<1> QED BY <1>1, Invariance, PTL

\* No open row has used up its attempts.
THEOREM OpenRowsHaveAttempts == Spec => []AttemptsLeft
<1>1. IInv => AttemptsLeft
  BY DEF IInv
<1> QED BY <1>1, Invariance, PTL

\* A NEEDS_APPROVAL answer points at a proposal that was committed.
THEOREM ApprovalsArePresent == Spec => []ApprovalHasProposal
<1>1. IInv => ApprovalHasProposal
  BY DEF IInv
<1> QED BY <1>1, Invariance, PTL

-----------------------------------------------------------------------------
(***************************************************************************)
(* Action properties and the refinement of JobContract.                    *)
(***************************************************************************)

\* What any step does to the table: nothing to the fields that matter, a
\* submission, a claim, or a move of one leased row.
Calm(j) ==
    /\ row'[j].status = row[j].status
    /\ row'[j].worker = row[j].worker
    /\ row'[j].attempt = row[j].attempt
    /\ row[j].status \in Terminal => row'[j] = row[j]

RowStep ==
    \/ \A j \in Jobs : Calm(j)
    \/ /\ filed' = filed
       /\ \E j \in Jobs :
            /\ \A k \in Jobs : k # j => row'[k] = row[k]
            /\ \/ /\ row[j].status = "ABSENT"
                  /\ row'[j].status = "QUEUED"
                  /\ row'[j].attempt = row[j].attempt
               \/ /\ row[j].status = "QUEUED"
                  /\ row'[j].status = "CLAIMED"
                  /\ row'[j].attempt = row[j].attempt
               \/ Moved(j)

LEMMA NextRowStep ==
    ASSUME IInv, [Next]_vars PROVE RowStep
<1> USE DEF IInv, TypeOK
<1>1. CASE Tick
  <2>1. \A j \in Jobs : row[j].status \in Terminal => row[j].worker = NoWorker
    BY DEF LeaseDiscipline, Holding, Terminal
  <2>2. ASSUME NEW j \in Jobs PROVE Calm(j)
    BY <1>1, <2>1 DEF Tick, Calm
  <2> QED BY <2>2 DEF RowStep
<1>2. ASSUME NEW j \in Jobs, Submit(j) PROVE RowStep
  <2>1. /\ filed' = filed
        /\ \A k \in Jobs : k # j => row'[k] = row[k]
        /\ row[j].status = "ABSENT"
        /\ row'[j].status = "QUEUED"
        /\ row'[j].attempt = row[j].attempt
    BY <1>2 DEF Submit, RowType
  <2> QED BY <2>1 DEF RowStep
<1>3. ASSUME NEW w \in Workers, WorkerStep(w) PROVE RowStep
  <2>1. CASE Start(w) \/ Shutdown(w) \/ Exit(w)
    BY <2>1 DEF Start, Shutdown, Exit, RowStep, Calm
  <2>2. ASSUME NEW j \in Jobs, NEW d \in Lags, Reclaim(w, j, d) PROVE RowStep
    <3>1. Moved(j)
      BY <2>2, ReclaimMoves
    <3>2. filed' = filed /\ \A k \in Jobs : k # j => row'[k] = row[k]
      BY <2>2 DEF Reclaim
    <3> QED BY <3>1, <3>2 DEF RowStep
  <2>3. ASSUME NEW j \in Jobs, NEW d \in Lags, ClaimNext(w, j, d) PROVE RowStep
    <3>1. /\ filed' = filed
          /\ row[j].status = "QUEUED"
          /\ row' = [row EXCEPT ![j].status = "CLAIMED", ![j].worker = w,
                                ![j].lease = LeaseTicks - d]
      BY <2>3 DEF ClaimNext, Claimable
    <3>2. /\ \A k \in Jobs : k # j => row'[k] = row[k]
          /\ row'[j].status = "CLAIMED"
          /\ row'[j].attempt = row[j].attempt
      BY <3>1 DEF RowType
    <3> QED BY <3>1, <3>2 DEF RowStep
  <2> QED BY <1>3, <2>1, <2>2, <2>3 DEF WorkerStep
<1>4. ASSUME NEW r \in Runs, RunStep(r) PROVE RowStep
  <2>1. CASE row' = row
    BY <2>1 DEF RowStep, Calm
  <2>2. CASE filed' = filed /\ (OwnWrite(r) \/ LeaseExtension(r))
    <3>1. Job(r) \in Jobs /\ Moved(Job(r))
      BY <2>2, RunsArePairs, WriteMoves
    <3>2. \A k \in Jobs : k # Job(r) => row'[k] = row[k]
      BY <3>1 DEF Moved
    <3> QED BY <2>2, <3>1, <3>2 DEF RowStep
  <2> QED BY <1>4, <2>1, <2>2, RunStepShape DEF StepShape, RowShape
<1>5. CASE UNCHANGED vars
  BY <1>5 DEF vars, RowStep, Calm
<1> QED BY <1>1, <1>2, <1>3, <1>4, <1>5 DEF Next

\* A settled row is never written again.
THEOREM SettledForever == Spec => SettledIsFinal
<1>1. IInv /\ [Next]_vars => [\A j \in Jobs : row[j].status \in Terminal => row'[j] = row[j]]_vars
  <2> SUFFICES ASSUME IInv, [Next]_vars, NEW j \in Jobs, row[j].status \in Terminal
               PROVE  row'[j] = row[j]
    OBVIOUS
  <2>1. RowStep
    BY NextRowStep
  <2>2. row[j].status \notin Holding \cup {"ABSENT", "QUEUED"}
    BY DEF Holding, Terminal
  <2> QED BY <2>1, <2>2 DEF RowStep, Calm, Moved
<1> QED BY <1>1, Invariance, PTL DEF Spec, SettledIsFinal

\* A run whose attempt is over changes neither status, owner nor attempt of
\* the row, whichever of its steps it takes.
THEOREM StaleRunsAreFenced == Spec => StaleRunIsFenced
<1> DEFINE Untouched(r) == /\ row'[Job(r)].status = row[Job(r)].status
                           /\ row'[Job(r)].worker = row[Job(r)].worker
                           /\ row'[Job(r)].attempt = row[Job(r)].attempt
           Fence == \A r \in Runs : r[2] # row[Job(r)].attempt /\ run'[r] # run[r]
                                      => Untouched(r)
<1>1. IInv /\ [Next]_vars => [Fence]_vars
  <2> SUFFICES ASSUME IInv, Next, NEW r \in Runs,
                      r[2] # row[Job(r)].attempt, run'[r] # run[r]
               PROVE  Untouched(r)
    BY DEF vars
  <2> USE DEF IInv, TypeOK
  <2>1. CASE Tick \/ \E j \in Jobs : Submit(j)
    BY <2>1 DEF Tick, Submit
  <2>2. ASSUME NEW w \in Workers, WorkerStep(w) PROVE Untouched(r)
    <3>1. ASSUME NEW j \in Jobs, NEW d \in Lags, ClaimNext(w, j, d) PROVE FALSE
      <4>1. r # Current(j)
        BY <2>2 DEF Current, Job
      <4>2. PICK ctl \in {"claimed", "done"} :
               run' = [run EXCEPT ![Current(j)].owner = w, ![Current(j)].ctl = ctl]
        BY <3>1 DEF ClaimNext
      <4> QED BY <4>1, <4>2
    <3>2. ASSUME NEW j \in Jobs, NEW d \in Lags, Reclaim(w, j, d) PROVE FALSE
      BY <3>2 DEF Reclaim
    <3>3. CASE Start(w) \/ Shutdown(w) \/ Exit(w)
      BY <3>3 DEF Start, Shutdown, Exit
    <3> QED BY <2>2, <3>1, <3>2, <3>3 DEF WorkerStep
  <2>3. ASSUME NEW s \in Runs, RunStep(s) PROVE Untouched(r)
    <3>1. StepShape(s)
      BY <2>3, RunStepShape
    <3>2. s = r
      BY <3>1 DEF StepShape, RunShape
    <3>3. row[Job(r)] \in RowType /\ Job(r) \in Jobs
      BY RunsArePairs
    <3>4. CASE LeaseExtension(r)
      BY <3>3, <3>4 DEF LeaseExtension, RowType
    <3> QED BY <3>1, <3>2, <3>4 DEF StepShape, RowShape, OwnWrite
  <2> QED BY <2>1, <2>2, <2>3 DEF Next
<1> QED BY <1>1, Invariance, PTL DEF Spec, StaleRunIsFenced

\* What any step files: at most one card, of an attempt the job has reached,
\* and then it leaves the table alone.
LEMMA NextFiling ==
    ASSUME IInv, [Next]_vars
    PROVE  \/ filed' = filed
           \/ /\ row' = row
              /\ \E r \in Runs : /\ filed' = filed \cup {r}
                                 /\ row[Job(r)].status # "ABSENT"
                                 /\ r[2] <= row[Job(r)].attempt
<1>1. CASE \E r \in Runs : RunStep(r)
  <2> PICK r \in Runs : RunStep(r)
    BY <1>1
  <2>1. StepShape(r)
    BY RunStepShape
  <2>2. row[Job(r)].status # "ABSENT" /\ r[2] <= row[Job(r)].attempt
    BY <2>1 DEF IInv, FreshToken, StepShape, RunShape
  <2> QED BY <2>1, <2>2 DEF StepShape, RunShape, RowShape
<1>2. CASE Tick \/ (\E j \in Jobs : Submit(j)) \/ (\E w \in Workers : WorkerStep(w))
  BY <1>2 DEF Tick, Submit, WorkerStep, Start, Shutdown, Exit, Reclaim, ClaimNext
<1>3. CASE UNCHANGED vars
  BY <1>3 DEF vars
<1> QED BY <1>1, <1>2, <1>3 DEF Next

LEMMA InitRefines == Init => JC!ContractInit
BY DEF Init, JC!ContractInit, Phases, PhaseOf, Tries, Holding

\* Every step of the queue is a step of the contract or leaves it unchanged.
LEMMA StepRefines ==
    ASSUME IInv, [Next]_vars
    PROVE  [JC!ContractNext]_(JC!contractVars)
<1> USE DEF IInv, TypeOK
<1>1. CASE \A j \in Jobs : Calm(j)
  <2>1. Phases' = Phases /\ Tries' = Tries
    BY <1>1 DEF Calm, Phases, Tries
  <2>2. CASE filed' = filed
    BY <2>1, <2>2 DEF JC!contractVars
  <2>3. ASSUME NEW r \in Runs, filed' = filed \cup {r},
               row[Job(r)].status # "ABSENT", r[2] <= row[Job(r)].attempt
        PROVE  JC!ContractNext
    <3>1. /\ Job(r) \in Jobs /\ r[2] \in 0 .. MaxAttempts - 1 /\ r = <<Job(r), r[2]>>
          /\ row[Job(r)].attempt \in 0 .. MaxAttempts
      BY RunsArePairs DEF Attempts, RowType
    <3>2. JC!PutCard(Job(r), r[2])
      BY <2>1, <2>3, <3>1 DEF JC!PutCard, Phases, PhaseOf, Tries
    <3> QED BY <3>1, <3>2 DEF JC!ContractNext
  <2> QED BY <2>2, <2>3, NextFiling
<1>2. ASSUME NEW j \in Jobs, filed' = filed,
             \A k \in Jobs : k # j => row'[k] = row[k],
             \/ /\ row[j].status = "ABSENT"
                /\ row'[j].status = "QUEUED"
                /\ row'[j].attempt = row[j].attempt
             \/ /\ row[j].status = "QUEUED"
                /\ row'[j].status = "CLAIMED"
                /\ row'[j].attempt = row[j].attempt
             \/ Moved(j)
      PROVE  [JC!ContractNext]_(JC!contractVars)
  <2>1. /\ Phases' = [Phases EXCEPT ![j] = PhaseOf(row'[j].status)]
        /\ Tries' = [Tries EXCEPT ![j] = row'[j].attempt]
        /\ Phases[j] = PhaseOf(row[j].status) /\ Tries[j] = row[j].attempt
    BY <1>2 DEF Phases, Tries
  <2>2. CASE row[j].status = "ABSENT" /\ row'[j].status = "QUEUED"
             /\ row'[j].attempt = row[j].attempt
    <3>1. JC!Accept(j)
      BY <1>2, <2>1, <2>2 DEF JC!Accept, PhaseOf, Tries, Holding
    <3> QED BY <3>1 DEF JC!ContractNext
  <2>3. CASE row[j].status = "QUEUED" /\ row'[j].status = "CLAIMED"
             /\ row'[j].attempt = row[j].attempt
    BY <1>2, <2>1, <2>3 DEF JC!contractVars, PhaseOf, Holding, Phases, Tries
  <2>4. CASE Moved(j)
    <3>1. PICK z \in RowType : /\ row' = [row EXCEPT ![j] = z]
                               /\ Stays(j, z) \/ Settles(j, z) \/ GoesBack(j, z)
      BY <2>4 DEF Moved
    <3>2. row'[j] = z /\ row[j].status \in Holding /\ PhaseOf(row[j].status) = "pending"
      BY <2>4, <3>1 DEF Moved, PhaseOf
    <3>3. CASE Stays(j, z)
      BY <1>2, <2>1, <3>2, <3>3 DEF JC!contractVars, Stays, PhaseOf, Phases, Tries
    <3>4. CASE Settles(j, z)
      <4>1. PhaseOf(z.status) = z.status
        BY <3>4 DEF Settles, PhaseOf, Holding, Terminal
      <4>2. JC!Settle(j, z.status)
        BY <1>2, <2>1, <3>2, <3>4, <4>1 DEF JC!Settle, Settles, Current, Tries
      <4> QED BY <3>4, <4>2 DEF JC!ContractNext, Settles
    <3>5. CASE GoesBack(j, z)
      <4>1. row[j].attempt < MaxAttempts
        BY <3>2 DEF AttemptsLeft, Holding, Terminal
      <4>2. PhaseOf(z.status) = IF row[j].attempt + 1 = MaxAttempts
                                THEN "FAILED_FINAL" ELSE "pending"
        BY <3>5 DEF GoesBack, PhaseOf, Holding
      <4>3. JC!GiveBack(j)
        BY <1>2, <2>1, <3>2, <3>5, <4>1, <4>2 DEF JC!GiveBack, GoesBack
      <4> QED BY <4>3 DEF JC!ContractNext
    <3> QED BY <3>1, <3>3, <3>4, <3>5
  <2> QED BY <1>2, <2>2, <2>3, <2>4
<1> QED BY <1>1, <1>2, NextRowStep DEF RowStep

\* The queue implements the contract of its clients.
THEOREM Refinement == Spec => ImplementsContract
BY InitRefines, StepRefines, Invariance, PTL DEF Spec, ImplementsContract, JC!Contract

-----------------------------------------------------------------------------
(***************************************************************************)
(* The map of a loop, and who takes rows away: what a step does to the     *)
(* control state of a run.                                                 *)
(***************************************************************************)

\* Nothing goes back to waiting for its claim's reply, and only a launch enters
\* a run in the map, which was waiting for it.
Orderly(r) ==
    /\ run'[r].owner = run[r].owner
    /\ \A s \in Runs \ {r} : run'[s] = run[s]
    /\ run'[r].ctl = "claimed" => run[r].ctl = "claimed"
    /\ active' \subseteq IF run[r].ctl = "claimed" THEN active \cup {r} ELSE active

LEMMA BecomeOrderly ==
    ASSUME IInv, NEW r \in Runs, NEW x \in RunType, x.ctl # "idle", x.owner = run[r].owner,
           x.ctl = "claimed" => run[r].ctl = "claimed", Become(r, x)
    PROVE  Orderly(r) /\ run'[r].ctl = x.ctl
<1>1. Kept(x).owner = x.owner /\ Kept(x).ctl = x.ctl
  BY KeptShape
<1>2. run' = [run EXCEPT ![r] = Kept(x)] /\ active' \subseteq active
  BY DEF Become, Removed
<1> QED BY <1>1, <1>2 DEF Orderly, IInv, TypeOK

LEMMA ThrowOrderly ==
    ASSUME IInv, NEW r \in Runs, run[r].ctl # "idle", Throw(r)
    PROVE  Orderly(r) /\ run'[r].ctl \in {"releasing", "done"}
<1>1. run[r] \in RunType
  BY DEF IInv, TypeOK
<1> QED BY <1>1, UnwoundShape, BecomeOrderly DEF Throw

\* A rejected await moves a run on, whichever state it waited in.
LEMMA ThrowMoves ==
    ASSUME IInv, NEW r \in Runs, run[r].ctl \in {"claimed", "writing", "requeueing"}, Throw(r)
    PROVE  run'[r] # run[r]
BY ThrowOrderly

LEMMA AbortOrderly ==
    ASSUME IInv, NEW r \in Runs, run[r].ctl # "idle", NEW c \in Causes, Abort(r, c)
    PROVE  Orderly(r)
<1>1. run[r] \in RunType
  BY DEF IInv, TypeOK
<1> QED BY <1>1, AbortedShape, BecomeOrderly DEF Abort

LEMMA CallOrderly ==
    ASSUME IInv, NEW r \in Runs, run[r].ctl # "idle",
           NEW matches, NEW newRow, NEW x \in RunType,
           x.ctl \notin {"idle", "claimed"}, x.owner = run[r].owner,
           Call(r, matches, newRow, x)
    PROVE  Orderly(r) /\ run'[r].ctl \in {x.ctl, "releasing", "done"}
BY ThrowOrderly, BecomeOrderly DEF Call

LEMMA ReturnOrderly ==
    ASSUME IInv, NEW r \in Runs, run[r].ctl # "idle", NEW o \in Returned, Return(r, o)
    PROVE  Orderly(r)
<1> DEFINE returned == [run[r] EXCEPT !.exec = o]
<1>1. run[r] \in RunType
  BY DEF IInv, TypeOK
<1>2. /\ returned \in RunType /\ returned.ctl = run[r].ctl
      /\ returned.owner = run[r].owner
  BY <1>1 DEF RunType, Exec
<1>3. /\ Unwound(returned) \in RunType
      /\ Unwound(returned).ctl \in {"releasing", "done"}
      /\ Unwound(returned).owner = run[r].owner
  BY <1>2, UnwoundShape
<1>4. ASSUME NEW c \in {"writing", "releasing"}
      PROVE  /\ [returned EXCEPT !.ctl = c] \in RunType
             /\ [returned EXCEPT !.ctl = c].ctl = c
             /\ [returned EXCEPT !.ctl = c].owner = run[r].owner
  BY <1>2 DEF RunType, Ctl, Beating
<1> HIDE DEF returned
<1>5. \/ Become(r, returned) \/ Become(r, Unwound(returned))
      \/ \E c \in {"writing", "releasing"} : Become(r, [returned EXCEPT !.ctl = c])
  BY DEF Return, returned
<1> QED BY <1>2, <1>3, <1>4, <1>5, BecomeOrderly

LEMMA RunStepOrderly ==
    ASSUME IInv, NEW r \in Runs, RunStep(r)
    PROVE  Orderly(r)
<1> USE DEF IInv, TypeOK
<1>t. run[r] \in RunType
  OBVIOUS
<1>1. CASE Quarantine(r)
  BY <1>1, AtShape, CallOrderly DEF Quarantine
<1>2. CASE Launch(r)
  BY <1>t, <1>2 DEF Launch, Removed, Orderly, RunType
<1>3. CASE Timeout(r)
  BY <1>3, AbortOrderly DEF Timeout, HasTimers, Beating, Causes
<1>4. CASE Executor(r)
  <2>1. run[r].exec \in Working /\ run[r].ctl # "idle"
    BY <1>4 DEF Executor, Decide, Operate, File, Working, RunHistory, NoRun
  <2>2. ASSUME NEW e \in Working, Proceed(r, e)
        PROVE  Orderly(r)
    <3>1. CASE run[r].cause # "none"
      BY <2>1, <2>2, <3>1, ReturnOrderly DEF Proceed, Returned
    <3>2. CASE run[r].cause = "none"
      <4>1. /\ [run[r] EXCEPT !.exec = e] \in RunType
            /\ [run[r] EXCEPT !.exec = e].ctl = run[r].ctl
            /\ [run[r] EXCEPT !.exec = e].owner = run[r].owner
        BY <1>t DEF RunType, Exec
      <4> QED BY <2>1, <2>2, <3>2, <4>1, BecomeOrderly DEF Proceed
    <3> QED BY <3>1, <3>2
  <2>3. CASE Decide(r)
    BY <2>1, <2>2, <2>3, ReturnOrderly DEF Decide, Returned, Terminal, Working
  <2>4. CASE Operate(r)
    BY <2>1, <2>2, <2>4, ReturnOrderly DEF Operate, Returned, Terminal, Working
  <2>5. CASE File(r)
    BY <2>1, <2>5, ReturnOrderly DEF File, Returned, Terminal
  <2> QED BY <1>4, <2>3, <2>4, <2>5 DEF Executor
<1>5. ASSUME NEW d \in Lags, Started(r, d)
      PROVE  Orderly(r)
  <2> DEFINE next == [run[r] EXCEPT !.ctl = "racing", !.exec = "deciding"]
  <2>1. next \in RunType /\ next.ctl = "racing" /\ next.owner = run[r].owner
    BY <1>t DEF RunType, Ctl, Beating, Exec, Working
  <2> QED BY <1>5, <2>1, CallOrderly DEF Started
<1>6. ASSUME NEW d \in Lags, Heartbeat(r, d)
      PROVE  Orderly(r)
  <2>1. CASE UNCHANGED <<run, active>>
    BY <2>1 DEF Orderly
  <2>2. CASE Abort(r, "lost")
    BY <1>6, <2>2, AbortOrderly DEF Heartbeat, HasTimers, Beating, Causes
  <2> QED BY <1>6, <2>1, <2>2 DEF Heartbeat
<1>7. ASSUME NEW d \in Lags, WriteOutcome(r, d) \/ Release(r, d) \/ Requeue(r, d)
      PROVE  Orderly(r)
  <2>1. run[r].ctl # "idle"
    BY <1>7 DEF WriteOutcome, Release, Requeue
  <2> QED BY <1>7, <2>1, AtShape, CallOrderly, BecomeOrderly DEF WriteOutcome, Release, Requeue
<1> QED BY <1>1, <1>2, <1>3, <1>4, <1>5, <1>6, <1>7 DEF RunStep

\* The entries of a loop's map with the claims that it waits for: a loop looks
\* at the size of the map only while it waits for none.
SeatsOf(w) == {r \in Runs : run[r].owner = w /\ (r \in active \/ run[r].ctl = "claimed")}

SeatInv ==
    \A w \in Workers : IsFiniteSet(SeatsOf(w)) /\ Cardinality(SeatsOf(w)) <= Concurrency

LEMMA FewerSeats ==
    ASSUME SeatInv, \A w \in Workers : SeatsOf(w)' \subseteq SeatsOf(w)
    PROVE  SeatInv'
<1> SUFFICES ASSUME NEW w \in Workers
             PROVE  IsFiniteSet(SeatsOf(w)') /\ Cardinality(SeatsOf(w)') <= Concurrency
  BY DEF SeatInv
<1>1. IsFiniteSet(SeatsOf(w)) /\ Cardinality(SeatsOf(w)) <= Concurrency
  BY DEF SeatInv
<1>2. IsFiniteSet(SeatsOf(w)') /\ Cardinality(SeatsOf(w)') <= Cardinality(SeatsOf(w))
  BY <1>1, FS_Subset
<1>3. Cardinality(SeatsOf(w)') \in Nat /\ Cardinality(SeatsOf(w)) \in Nat
  BY <1>1, <1>2, FS_CardinalityType
<1> QED BY <1>1, <1>2, <1>3, ConcurrencyAssumption

\* A claim is sent while there is room and no other claim on its way.
LEMMA ClaimSeats ==
    ASSUME IInv, SeatInv, NEW w \in Workers, NEW j \in Jobs, NEW d \in Lags, ClaimNext(w, j, d)
    PROVE  SeatInv'
<1> USE DEF IInv, TypeOK
<1>1. row[j].status = "QUEUED" /\ row[j].attempt < MaxAttempts /\ row[j] \in RowType
  BY DEF ClaimNext, Claimable
<1>2. Current(j) \in Runs /\ Job(Current(j)) = j /\ Current(j)[2] = row[j].attempt
  BY <1>1 DEF Current, Runs, Attempts, RowType, Job
<1>3. run[Current(j)].ctl = "idle"
  BY <1>1, <1>2 DEF FreshToken, RowType
<1>4. run[Current(j)].owner = NoWorker
  BY <1>2, <1>3 DEF RunHistory, NoRun
<1>5. PICK ctl \in {"claimed", "done"} :
         run' = [run EXCEPT ![Current(j)].owner = w, ![Current(j)].ctl = ctl]
  BY DEF ClaimNext
<1>6. /\ active' = active
      /\ \A s \in Runs : s # Current(j) => run'[s] = run[s]
      /\ run'[Current(j)].owner = w
  BY <1>2, <1>5 DEF ClaimNext, RunType
<1>7. ASSUME NEW v \in Workers, v # w
      PROVE  IsFiniteSet(SeatsOf(v)') /\ Cardinality(SeatsOf(v)') <= Concurrency
  <2>1. SeatsOf(v)' = SeatsOf(v)
    BY <1>2, <1>4, <1>6, <1>7 DEF SeatsOf
  <2> QED BY <2>1 DEF SeatInv
<1>8. IsFiniteSet(SeatsOf(w)') /\ Cardinality(SeatsOf(w)') <= Concurrency
  <2>1. SeatsOf(w) = active \cap OwnedBy(w)
    BY DEF SeatsOf, OwnedBy, ClaimNext, Polling
  <2>2. IsFiniteSet(SeatsOf(w)) /\ Cardinality(SeatsOf(w)) < Concurrency
    BY <2>1 DEF SeatInv, ClaimNext
  <2>3. SeatsOf(w)' \subseteq SeatsOf(w) \cup {Current(j)}
    BY <1>6 DEF SeatsOf
  <2>4. /\ IsFiniteSet(SeatsOf(w) \cup {Current(j)})
        /\ Cardinality(SeatsOf(w)) \in Nat
        /\ Cardinality(SeatsOf(w) \cup {Current(j)}) <= Cardinality(SeatsOf(w)) + 1
    <3>1. Cardinality(SeatsOf(w)) \in Nat
      BY <2>2, FS_CardinalityType
    <3>2. /\ IsFiniteSet(SeatsOf(w) \cup {Current(j)})
          /\ \/ Cardinality(SeatsOf(w) \cup {Current(j)}) = Cardinality(SeatsOf(w))
             \/ Cardinality(SeatsOf(w) \cup {Current(j)}) = Cardinality(SeatsOf(w)) + 1
      BY <2>2, FS_AddElement
    <3> HIDE DEF SeatsOf
    <3> QED BY <3>1, <3>2
  <2>5. /\ IsFiniteSet(SeatsOf(w)')
        /\ Cardinality(SeatsOf(w)') <= Cardinality(SeatsOf(w) \cup {Current(j)})
    BY <2>3, <2>4, FS_Subset
  <2>6. Cardinality(SeatsOf(w)') \in Nat /\ Cardinality(SeatsOf(w) \cup {Current(j)}) \in Nat
    BY <2>4, <2>5, FS_CardinalityType
  <2> QED BY <2>2, <2>4, <2>5, <2>6, ConcurrencyAssumption
<1> QED BY <1>7, <1>8 DEF SeatInv

\* The runs of a process that is told to stop, or ends.
LEMMA ProcessSeats ==
    ASSUME IInv, NEW w \in Workers, Start(w) \/ Shutdown(w) \/ Exit(w), NEW v \in Workers
    PROVE  SeatsOf(v)' \subseteq SeatsOf(v)
<1> USE DEF IInv, TypeOK
<1>1. CASE Start(w)
  BY <1>1 DEF Start, SeatsOf
<1>2. CASE Shutdown(w)
  <2>1. ASSUME NEW r \in Runs
        PROVE  run'[r].owner = run[r].owner /\ (run'[r].ctl = "claimed" => run[r].ctl = "claimed")
    <3>1. CASE r \in active /\ run[r].owner = w
      <4>1. run[r] \in RunType /\ run[r].ctl # "idle"
        BY <3>1 DEF RunHistory, NoRun
      <4> QED BY <1>2, <3>1, <4>1, AbortedShape DEF Shutdown, Causes
    <3>2. CASE ~(r \in active /\ run[r].owner = w)
      BY <1>2, <3>2 DEF Shutdown
    <3> QED BY <3>1, <3>2
  <2> QED BY <1>2, <2>1 DEF Shutdown, SeatsOf
<1>3. CASE Exit(w)
  <2>1. ASSUME NEW r \in Runs
        PROVE  run'[r].owner = run[r].owner /\ (run'[r].ctl = "claimed" => run[r].ctl = "claimed")
    <3>1. CASE run[r].owner = w
      <4> DEFINE x == [run[r] EXCEPT !.ctl = "done", !.exec = "none"]
      <4>1. x \in RunType /\ x.ctl = "done" /\ x.owner = run[r].owner
        BY DEF RunType, Ctl, Exec
      <4>2. run'[r] = Kept(x)
        BY <1>3, <3>1 DEF Exit
      <4> QED BY <4>1, <4>2, KeptShape
    <3>2. CASE run[r].owner # w
      BY <1>3, <3>2 DEF Exit
    <3> QED BY <3>1, <3>2
  <2> QED BY <1>3, <2>1 DEF Exit, SeatsOf
<1> QED BY <1>1, <1>2, <1>3

LEMMA NextSeats ==
    ASSUME IInv, SeatInv, [Next]_vars
    PROVE  SeatInv'
<1>1. CASE UNCHANGED <<run, active>>
  BY <1>1, FewerSeats DEF SeatsOf
<1>2. ASSUME NEW r \in Runs, RunStep(r)
      PROVE  SeatInv'
  BY <1>2, RunStepOrderly, FewerSeats DEF Orderly, SeatsOf
<1>3. ASSUME NEW w \in Workers, WorkerStep(w)
      PROVE  SeatInv'
  <2>1. ASSUME NEW j \in Jobs, NEW d \in Lags, Reclaim(w, j, d)
        PROVE  UNCHANGED <<run, active>>
    BY <2>1 DEF Reclaim
  <2> QED BY <1>1, <1>3, <2>1, ProcessSeats, FewerSeats, ClaimSeats DEF WorkerStep
<1> QED BY <1>1, <1>2, <1>3 DEF Next, Tick, Submit, vars

\* The map of a loop stays within its concurrency, however claims, launches,
\* answers, shutdowns and lost replies follow each other.
THEOREM MapsStaySmall == Spec => []MapWithinConcurrency
<1>1. Init => SeatInv
  <2> SUFFICES ASSUME Init, NEW w \in Workers
               PROVE  IsFiniteSet(SeatsOf(w)) /\ Cardinality(SeatsOf(w)) <= Concurrency
    BY DEF SeatInv
  <2>1. SeatsOf(w) = {}
    BY DEF Init, NoRun, SeatsOf
  <2> QED BY <2>1, FS_EmptySet, ConcurrencyAssumption
<1>2. SeatInv => MapWithinConcurrency
  <2> SUFFICES ASSUME SeatInv, NEW w \in Workers
               PROVE  Cardinality(active \cap OwnedBy(w)) <= Concurrency
    BY DEF MapWithinConcurrency
  <2>1. IsFiniteSet(SeatsOf(w)) /\ Cardinality(SeatsOf(w)) <= Concurrency
    BY DEF SeatInv
  <2>2. active \cap OwnedBy(w) \subseteq SeatsOf(w)
    BY DEF OwnedBy, SeatsOf
  <2>3. /\ IsFiniteSet(active \cap OwnedBy(w))
        /\ Cardinality(active \cap OwnedBy(w)) <= Cardinality(SeatsOf(w))
    BY <2>1, <2>2, FS_Subset
  <2>4. Cardinality(active \cap OwnedBy(w)) \in Nat /\ Cardinality(SeatsOf(w)) \in Nat
    BY <2>1, <2>3, FS_CardinalityType
  <2> QED BY <2>1, <2>3, <2>4, ConcurrencyAssumption
<1> QED BY <1>1, <1>2, NextSeats, Invariance, PTL DEF Spec

\* A step that settles or requeues a leased row is a step of the row's own run,
\* which moves on by it, or comes after the lease ran out on some clock.
THEOREM OnlyExpiryTakes == Spec => OnlyExpiryTakesAway
<1> DEFINE Taken(j) == /\ row[j].status \in Holding
                       /\ row'[j].status \in {"QUEUED"} \cup Terminal
                       /\ run'[Current(j)] = run[Current(j)]
<1>1. IInv /\ [Next]_vars
        => [\A j \in Jobs : Taken(j) => \E d \in Lags : LeaseExpired(j, d)]_vars
  <2> SUFFICES ASSUME IInv, Next, NEW j \in Jobs, Taken(j)
               PROVE  \E d \in Lags : LeaseExpired(j, d)
    BY DEF vars
  <2> USE DEF IInv, TypeOK
  <2>0. row'[j].status # row[j].status /\ row'[j].status \notin Holding /\ row[j] \in RowType
    BY DEF Holding, Terminal
  <2>1. CASE Tick \/ \E k \in Jobs : Submit(k)
    <3>1. CASE Tick
      BY <2>0, <3>1 DEF Tick, RowType
    <3>2. ASSUME NEW k \in Jobs, Submit(k)
          PROVE  FALSE
      <4>1. k # j
        BY <3>2 DEF Submit, Holding
      <4> QED BY <2>0, <3>2, <4>1 DEF Submit
    <3> QED BY <2>1, <3>1, <3>2
  <2>2. ASSUME NEW w \in Workers, WorkerStep(w)
        PROVE  \E d \in Lags : LeaseExpired(j, d)
    <3>1. CASE Start(w) \/ Shutdown(w) \/ Exit(w)
      BY <2>0, <3>1 DEF Start, Shutdown, Exit
    <3>2. ASSUME NEW k \in Jobs, NEW d \in Lags, Reclaim(w, k, d)
          PROVE  LeaseExpired(j, d)
      BY <2>0, <3>2 DEF Reclaim
    <3>3. ASSUME NEW k \in Jobs, NEW d \in Lags, ClaimNext(w, k, d)
          PROVE  FALSE
      <4>1. row' = [row EXCEPT ![k].status = "CLAIMED", ![k].worker = w,
                               ![k].lease = LeaseTicks - d]
        BY <3>3 DEF ClaimNext
      <4> QED BY <2>0, <4>1 DEF Holding, RowType
    <3> QED BY <2>2, <3>1, <3>2, <3>3 DEF WorkerStep
  <2>3. ASSUME NEW r \in Runs, RunStep(r)
        PROVE  FALSE
    <3>1. StepShape(r) /\ Job(r) \in Jobs /\ row[Job(r)] \in RowType
      BY <2>3, RunStepShape, RunsArePairs
    <3>2. OwnWrite(r) /\ Job(r) = j
      <4>1. CASE LeaseExtension(r)
        BY <2>0, <3>1, <4>1 DEF LeaseExtension, RowType
      <4> QED BY <2>0, <3>1, <4>1 DEF StepShape, RowShape, OwnWrite
    <3>3. r = Current(j)
      BY <3>2, RunsArePairs DEF OwnWrite, Current
    <3>4. run'[r] = run[r]
      BY <3>3
    <3>5. CASE Quarantine(r) \/ \E d \in Lags : WriteOutcome(r, d) \/ Requeue(r, d)
      <4>1. run[r].ctl \in {"claimed", "writing", "requeueing"}
        BY <3>5 DEF Quarantine, WriteOutcome, Requeue
      <4>2. Throw(r) \/ Become(r, At(r, "done"))
        BY <3>5 DEF Quarantine, WriteOutcome, Requeue, Call
      <4>3. Become(r, At(r, "done")) => run'[r].ctl = "done"
        BY <4>1, AtShape, BecomeOrderly
      <4> QED BY <3>4, <4>1, <4>2, <4>3, ThrowMoves
    <3>6. CASE Launch(r) \/ Timeout(r) \/ Executor(r)
      BY <2>0, <3>6 DEF Launch, Timeout, Executor, Decide, Operate, File
    <3>7. ASSUME NEW d \in Lags, Started(r, d) \/ Release(r, d) \/ Heartbeat(r, d)
          PROVE  FALSE
      <4>1. CASE Started(r, d)
        BY <2>0, <3>1, <3>2, <4>1 DEF Started, Call, Holding, RowType
      <4>2. CASE Release(r, d)
        BY <2>0, <3>1, <3>2, <4>2 DEF Release, Call, Holding, RowType
      <4>3. CASE Heartbeat(r, d)
        BY <2>0, <3>1, <3>2, <4>3 DEF Heartbeat, RowType
      <4> QED BY <3>7, <4>1, <4>2, <4>3
    <3> QED BY <2>3, <3>5, <3>6, <3>7 DEF RunStep
  <2> QED BY <2>1, <2>2, <2>3 DEF Next
<1> QED BY <1>1, Invariance, PTL DEF Spec, OnlyExpiryTakesAway
=============================================================================
