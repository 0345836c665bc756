---------------------------- MODULE AgentJobQueue ----------------------------
(***************************************************************************)
(* The agent job queue: rows of AgentJob in Postgres, the worker processes *)
(* that lease them, and what one worker does with one leased row.          *)
(*                                                                         *)
(*  - a row is moved only by single-statement compare-and-set updates of   *)
(*    AgentJobRepository (submit, claimNext, reclaimExpiredLease,          *)
(*    heartbeat, requeue, transition);                                     *)
(*  - a run is one call of runJob in a worker's loop. A row's attempt      *)
(*    number grows every time it goes back to QUEUED, so a run is named by *)
(*    the pair <<job, attempt>> it was claimed with;                       *)
(*  - inside a run two activities proceed side by side: the control flow   *)
(*    of runJob (run.ctl) and the promise of executeAgentJob (run.exec),   *)
(*    which keeps going after runJob has given up on it.                   *)
(*                                                                         *)
(* Time is relative: row.lease is leaseExpiresAt minus the current time,   *)
(* in ticks. Every repository call compares the lease with a `now' its     *)
(* caller read up to MaxLag ticks before the update commits, and every     *)
(* call may fail, or commit and lose its reply.                            *)
(***************************************************************************)
EXTENDS Integers, FiniteSets

CONSTANTS
    Jobs,          \* idempotency keys, numbered in the order of createdAt
    Workers,       \* worker processes; a restarted process is a new worker
    Reliable,      \* the workers that are neither killed nor told to stop
    MaxAttempts,   \* AGENT_JOB_MAX_ATTEMPTS
    LeaseTicks,    \* AGENT_JOB_LEASE_MS, in ticks
    MaxLag,        \* how many ticks old a caller's `now' can be
    Concurrency,   \* runs a worker's loop starts at the same time
    Proposing,     \* the jobs whose operation is create_action_proposal
    Poison,        \* the jobs whose stored payload no longer parses
    NoWorker       \* the null of workerId, leaseExpiresAt and heartbeatAt

ASSUME JobsAssumption == Jobs \subseteq Nat
ASSUME WorkersAssumption == NoWorker \notin Workers /\ Reliable \subseteq Workers
ASSUME AttemptsAssumption == MaxAttempts \in Nat \ {0}
ASSUME LeaseAssumption == LeaseTicks \in Nat /\ MaxLag \in Nat /\ MaxLag < LeaseTicks
ASSUME ConcurrencyAssumption == Concurrency \in Nat \ {0}

Attempts == 0 .. MaxAttempts - 1
Runs == Jobs \X Attempts
Lags == 0 .. MaxLag
LeaseFloor == -(MaxLag + 1)     \* older leases are all equally expired

Terminal == {"SUCCEEDED", "NEEDS_APPROVAL", "NEEDS_EXTERNAL_EXECUTOR",
             "FAILED_FINAL", "FAILED_SECURITY"}
Holding == {"CLAIMED", "RUNNING", "FAILED_RETRYABLE"}
Status == {"ABSENT", "QUEUED"} \cup Holding \cup Terminal

\* The control flow of claimNext/launch/runJob, and of its execute promise.
Beating == {"racing", "writing", "releasing", "requeueing"}
Ctl == {"idle", "claimed", "starting", "done"} \cup Beating
Working == {"deciding", "operating", "filing"}
Returned == Terminal \cup {"FAILED_RETRYABLE", "ABORTED"}
Exec == {"none"} \cup Working \cup Returned
\* Why a run was aborted: RuntimeTimeoutError and WorkerShutdownError give the
\* row back ("release"), LeaseLostError and a failed heartbeat call do not.
Causes == {"none", "lost", "release"}

VARIABLES
    row,      \* the AgentJob table
    run,      \* what is left in memory of every run
    active,   \* the union of the workers' `active' maps, as a set of runs
    proc,     \* the worker processes
    filed     \* the runs whose executor committed an ActionProposal row

vars == <<row, run, active, proc, filed>>

NoRun == [owner |-> NoWorker, ctl |-> "idle", exec |-> "none",
          cause |-> "none", caught |-> FALSE]

Init ==
    /\ row = [j \in Jobs |-> [status |-> "ABSENT", worker |-> NoWorker,
                              attempt |-> 0, lease |-> 0]]
    /\ run = [r \in Runs |-> NoRun]
    /\ active = {}
    /\ proc = [w \in Workers |-> "off"]
    /\ filed = {}

-----------------------------------------------------------------------------
(***************************************************************************)
(* Rows.                                                                   *)
(***************************************************************************)

Job(r) == r[1]
Current(j) == <<j, row[j].attempt>>

\* Lease still valid / already expired for a caller whose clock reading is
\* d ticks old: leaseExpiresAt > now, leaseExpiresAt < now.
LeaseAlive(j, d) == row[j].lease + d > 0
LeaseExpired(j, d) == row[j].lease + d < 0

\* Mutant: a where clause with worker and lease but without the attempt.
Fenced_NoAttempt(r, d) ==
    row[Job(r)].worker = run[r].owner /\ LeaseAlive(Job(r), d)

\* The where clause of a leased transition or requeue by run r.
Fenced(r, d) ==
    /\ row[Job(r)].worker = run[r].owner
    /\ row[Job(r)].attempt = r[2]
    /\ LeaseAlive(Job(r), d)

\* Mutant: settling without clearing workerId and leaseExpiresAt.
Settled_KeepsLease(j, status) == [row[j] EXCEPT !.status = status]

Settled(j, status) ==
    [row[j] EXCEPT !.status = status, !.worker = NoWorker, !.lease = 0]

\* Mutants: the attempt number is not incremented; one attempt too many.
NextAttempt_SameToken(j) == Settled(j, "QUEUED")
NextAttempt_OneTooMany(j) ==
    [Settled(j, IF row[j].attempt + 1 > MaxAttempts THEN "FAILED_FINAL"
                                                    ELSE "QUEUED")
        EXCEPT !.attempt = row[j].attempt + 1]

\* One more attempt consumed: back to the queue, or finally failed.
NextAttempt(j) ==
    [Settled(j, IF row[j].attempt + 1 >= MaxAttempts THEN "FAILED_FINAL"
                                                     ELSE "QUEUED")
        EXCEPT !.attempt = row[j].attempt + 1]

-----------------------------------------------------------------------------
(***************************************************************************)
(* Runs.                                                                   *)
(***************************************************************************)

OwnedBy(w) == {r \in Runs : run[r].owner = w}

\* Map.delete(job.id) in worker w: whatever run is stored under the job.
Removed(w, j) == {r \in active : ~(Job(r) = j /\ run[r].owner = w)}

\* The run record after a step. Nothing remains in memory of a run once both
\* runJob and the executor's promise have ended; active.delete is in runJob's
\* finally block.
Kept(x) ==
    IF x.ctl = "done" /\ x.exec \notin Working
    THEN [NoRun EXCEPT !.owner = x.owner, !.ctl = "done"] ELSE x

Become(r, x) ==
    /\ run' = [run EXCEPT ![r] = Kept(x)]
    /\ active' = IF x.ctl = "done" /\ run[r].ctl # "done"
                 THEN Removed(run[r].owner, Job(r)) ELSE active

\* A rejected await, or the abort that interrupts Promise.race: a timeout or a
\* shutdown outranks any other error and releases the row, once; after any
\* other failure the row is left alone.
Unwound(x) ==
    IF x.cause = "release" /\ ~x.caught
    THEN [x EXCEPT !.ctl = "releasing", !.caught = TRUE]
    ELSE [x EXCEPT !.ctl = "done"]

Throw(r) == Become(r, Unwound(run[r]))

\* controller.abort(cause): only the first abort counts, and only a run that
\* already waits in Promise.race is interrupted by it.
Aborted(x, cause) ==
    LET marked == [x EXCEPT !.cause = cause]
    IN  IF x.cause # "none" THEN x
        ELSE IF x.ctl = "racing" THEN Unwound(marked) ELSE marked

Abort(r, cause) == Become(r, Aborted(run[r], cause))

\* A repository call of run r: committed with its reply seen or lost, or not
\* committed (the where clause matched no row, or the database failed).
Call(r, matches, newRow, next) ==
    /\ UNCHANGED <<proc, filed>>
    /\ \/ /\ matches
          /\ row' = [row EXCEPT ![Job(r)] = newRow]
          /\ Become(r, next) \/ Throw(r)
       \/ UNCHANGED row /\ Throw(r)

At(r, ctl) == [run[r] EXCEPT !.ctl = ctl]

-----------------------------------------------------------------------------
(***************************************************************************)
(* Submission, time and worker processes.                                  *)
(***************************************************************************)

\* submit: a first submission creates the row; a repeated one hits the unique
\* idempotency key and returns the row unchanged.
Submit(j) ==
    /\ row[j].status = "ABSENT"
    /\ \A k \in Jobs : k < j => row[k].status # "ABSENT"
    /\ row' = [row EXCEPT ![j].status = "QUEUED"]
    /\ UNCHANGED <<run, active, proc, filed>>

Tick ==
    /\ row' = [j \in Jobs |->
                 IF row[j].worker # NoWorker /\ row[j].lease > LeaseFloor
                 THEN [row[j] EXCEPT !.lease = @ - 1] ELSE row[j]]
    /\ UNCHANGED <<run, active, proc, filed>>

Start(w) ==
    /\ proc[w] = "off"
    /\ proc' = [proc EXCEPT ![w] = "up"]
    /\ UNCHANGED <<row, run, active, filed>>

\* WorkerLoop.shutdown: aborts the runs that are in the map at this moment.
Shutdown(w) ==
    /\ w \notin Reliable
    /\ proc[w] = "up"
    /\ proc' = [proc EXCEPT ![w] = "stopping"]
    /\ run' = [r \in Runs |-> IF r \in active /\ run[r].owner = w
                              THEN Aborted(run[r], "release") ELSE run[r]]
    /\ UNCHANGED <<row, active, filed>>

\* The process ends: at once, or killed by launchd some time after a SIGTERM.
Exit(w) ==
    /\ w \notin Reliable
    /\ proc[w] \in {"up", "stopping"}
    /\ proc' = [proc EXCEPT ![w] = "dead"]
    /\ run' = [r \in Runs |->
                 IF run[r].owner = w
                 THEN Kept([run[r] EXCEPT !.ctl = "done", !.exec = "none"])
                 ELSE run[r]]
    /\ active' = {r \in active : run[r].owner # w}
    /\ UNCHANGED <<row, filed>>

-----------------------------------------------------------------------------
(***************************************************************************)
(* The poll loop: reclaim one expired lease, then claim while there is room.*)
(***************************************************************************)

\* Mutant: polling on an interval, with no wait for a claim in flight.
Polling_Overlapping(w) == proc[w] = "up"

\* The loop awaits each of its calls before the next.
Polling(w) == proc[w] = "up" /\ \A r \in OwnedBy(w) : run[r].ctl # "claimed"

\* Mutants: FAILED_RETRYABLE rows are not reclaimed; live leases are.
Reclaim_WorkingOnly(w, j, d) ==
    /\ Polling(w)
    /\ row[j].status \in {"CLAIMED", "RUNNING"}
    /\ LeaseExpired(j, d)
    /\ row' = [row EXCEPT ![j] = NextAttempt(j)]
    /\ UNCHANGED <<run, active, proc, filed>>
Reclaim_AnyLease(w, j, d) ==
    /\ Polling(w)
    /\ row[j].status \in Holding
    /\ row' = [row EXCEPT ![j] = NextAttempt(j)]
    /\ UNCHANGED <<run, active, proc, filed>>

Reclaim(w, j, d) ==
    /\ Polling(w)
    /\ row[j].status \in Holding
    /\ LeaseExpired(j, d)
    /\ \A k \in Jobs : row[k].status \in Holding => row[j].lease <= row[k].lease
    /\ row' = [row EXCEPT ![j] = NextAttempt(j)]
    /\ UNCHANGED <<run, active, proc, filed>>

Claimable(j) ==
    /\ row[j].status = "QUEUED"
    /\ row[j].worker = NoWorker
    /\ row[j].attempt < MaxAttempts

\* The committed claim; the reply may be lost, and then no run is launched.
ClaimNext(w, j, d) ==
    /\ Polling(w)
    /\ Cardinality(active \cap OwnedBy(w)) < Concurrency
    /\ Claimable(j)
    /\ \A k \in Jobs : Claimable(k) => j <= k
    /\ row' = [row EXCEPT ![j].status = "CLAIMED", ![j].worker = w,
                          ![j].lease = LeaseTicks - d]
    /\ \E ctl \in {"claimed", "done"} :
          run' = [run EXCEPT ![Current(j)].owner = w, ![Current(j)].ctl = ctl]
    /\ UNCHANGED <<active, proc, filed>>

\* normalizeAgentJob throws inside claimNext. The row is finalized under the
\* `now' of the claim itself, so its lease cannot look expired.
Quarantine(r) ==
    /\ run[r].ctl = "claimed"
    /\ Job(r) \in Poison
    /\ Call(r, Fenced(r, LeaseTicks - row[Job(r)].lease)
                 /\ row[Job(r)].status = "CLAIMED",
            Settled(Job(r), "FAILED_SECURITY"), At(r, "done"))

\* launch: no look at `stopping' between the claim's reply and this point.
Launch(r) ==
    /\ run[r].ctl = "claimed"
    /\ Job(r) \notin Poison
    /\ run' = [run EXCEPT ![r].ctl = "starting"]
    /\ active' = Removed(run[r].owner, Job(r)) \cup {r}
    /\ UNCHANGED <<row, proc, filed>>

-----------------------------------------------------------------------------
(***************************************************************************)
(* runJob.                                                                 *)
(***************************************************************************)

\* CLAIMED -> RUNNING, then the timers start and the executor is called.
Started(r, d) ==
    /\ run[r].ctl = "starting"
    /\ Call(r, Fenced(r, d) /\ row[Job(r)].status = "CLAIMED",
            [row[Job(r)] EXCEPT !.status = "RUNNING"],
            [run[r] EXCEPT !.ctl = "racing", !.exec = "deciding"])

\* The heartbeat and timeout timers run from the executor's start to the end
\* of runJob.
HasTimers(r) == run[r].ctl \in Beating /\ run[r].exec # "none"

\* Mutant: the lease is lengthened instead of set from `now'.
Heartbeat_Adds(r, d) ==
    /\ HasTimers(r)
    /\ row[Job(r)].worker = run[r].owner
    /\ row' = [row EXCEPT ![Job(r)].lease = @ + LeaseTicks]
    /\ UNCHANGED <<run, active, proc, filed>>

\* heartbeat: matched by worker and live lease, not by attempt.
Heartbeat(r, d) ==
    LET mine == /\ row[Job(r)].worker = run[r].owner
                /\ row[Job(r)].status \in {"CLAIMED", "RUNNING"}
                /\ LeaseAlive(Job(r), d)
        Extended == row' = [row EXCEPT ![Job(r)].lease = LeaseTicks - d]
    IN  /\ HasTimers(r)
        /\ UNCHANGED <<proc, filed>>
        /\ \/ mine /\ Extended /\ UNCHANGED <<run, active>>
           \/ mine /\ Extended /\ Abort(r, "lost")
           \/ ~mine /\ UNCHANGED row /\ Abort(r, "lost")
           \/ UNCHANGED row /\ Abort(r, "lost")

\* Mutant: a runtime timer that never fires.
Timeout_Never(r) == FALSE /\ Abort(r, "release")

Timeout(r) ==
    /\ HasTimers(r)
    /\ run[r].cause = "none"
    /\ Abort(r, "release")
    /\ UNCHANGED <<row, proc, filed>>

\* RUNNING -> the status the executor returned.
WriteOutcome(r, d) ==
    /\ run[r].ctl = "writing"
    /\ Call(r, Fenced(r, d) /\ row[Job(r)].status = "RUNNING",
            Settled(Job(r), run[r].exec), At(r, "done"))

\* Mutant: the release is an update by id alone.
Release_ById(r, d) ==
    /\ run[r].ctl = "releasing"
    /\ Call(r, d \in Lags,
            [row[Job(r)] EXCEPT !.status = "FAILED_RETRYABLE"], At(r, "requeueing"))

\* releaseRetryable: RUNNING -> FAILED_RETRYABLE, which keeps the lease ...
Release(r, d) ==
    /\ run[r].ctl = "releasing"
    /\ Call(r, Fenced(r, d) /\ row[Job(r)].status = "RUNNING",
            [row[Job(r)] EXCEPT !.status = "FAILED_RETRYABLE"], At(r, "requeueing"))

\* ... and then requeue, a second transaction. A requeue that matches no row
\* returns null and does not throw.
Requeue(r, d) ==
    /\ run[r].ctl = "requeueing"
    /\ \/ Call(r, Fenced(r, d) /\ row[Job(r)].status = "FAILED_RETRYABLE",
               NextAttempt(Job(r)), At(r, "done"))
       \/ /\ ~(Fenced(r, d) /\ row[Job(r)].status = "FAILED_RETRYABLE")
          /\ Become(r, At(r, "done"))
          /\ UNCHANGED <<row, proc, filed>>

-----------------------------------------------------------------------------
(***************************************************************************)
(* executeAgentJob, whether or not runJob still waits for it.              *)
(***************************************************************************)

Return(r, outcome) ==
    LET returned == [run[r] EXCEPT !.exec = outcome]
    IN  Become(r, IF run[r].ctl # "racing" THEN returned
                  ELSE IF outcome \in Terminal THEN [returned EXCEPT !.ctl = "writing"]
                  ELSE IF outcome = "ABORTED" THEN Unwound(returned)
                  ELSE [returned EXCEPT !.ctl = "releasing"])

\* assertNotAborted, then on to the next stage.
Proceed(r, exec) ==
    IF run[r].cause # "none" THEN Return(r, "ABORTED")
    ELSE Become(r, [run[r] EXCEPT !.exec = exec])

\* The router's decision: rejected, sent to an external executor, or accepted.
Decide(r) ==
    /\ run[r].exec = "deciding"
    /\ \/ \E o \in {"FAILED_SECURITY", "NEEDS_EXTERNAL_EXECUTOR"} : Return(r, o)
       \/ Proceed(r, "operating")
    /\ UNCHANGED <<row, proc, filed>>

\* The registry operation up to its last assertNotAborted before the insert.
Operate(r) ==
    /\ run[r].exec = "operating"
    /\ \/ \E o \in {"FAILED_FINAL", "FAILED_RETRYABLE"} : Return(r, o)
       \/ Job(r) \notin Proposing /\ Return(r, "SUCCEEDED")
       \/ Proceed(r, "filing")
    /\ UNCHANGED <<row, proc, filed>>

\* Mutant: the answer does not wait for the commit.
File_AnswersFirst(r) ==
    /\ run[r].exec = "filing"
    /\ filed' \in {filed, filed \cup {r}}
    /\ Return(r, IF Job(r) \in Proposing THEN "NEEDS_APPROVAL" ELSE "SUCCEEDED")
    /\ UNCHANGED <<row, proc>>

\* The insert of the proposal (or of the READ record) commits or fails; the
\* abort signal is not read again.
File(r) ==
    /\ run[r].exec = "filing"
    /\ \/ /\ filed' = filed \cup {r}
          /\ \/ Return(r, IF Job(r) \in Proposing THEN "NEEDS_APPROVAL" ELSE "SUCCEEDED")
             \/ Return(r, "FAILED_RETRYABLE")
       \/ /\ \E o \in {"FAILED_FINAL", "FAILED_RETRYABLE"} : Return(r, o)
          /\ UNCHANGED filed
    /\ UNCHANGED <<row, proc>>

-----------------------------------------------------------------------------
Executor(r) == Decide(r) \/ Operate(r) \/ File(r)

RunStep(r) ==
    \/ Quarantine(r)
    \/ Launch(r)
    \/ Timeout(r)
    \/ Executor(r)
    \/ \E d \in Lags : \/ Started(r, d)
                       \/ Heartbeat(r, d)
                       \/ WriteOutcome(r, d)
                       \/ Release(r, d)
                       \/ Requeue(r, d)

WorkerStep(w) ==
    \/ Start(w)
    \/ Shutdown(w)
    \/ Exit(w)
    \/ \E j \in Jobs, d \in Lags : Reclaim(w, j, d) \/ ClaimNext(w, j, d)

Next ==
    \/ Tick
    \/ \E j \in Jobs : Submit(j)
    \/ \E w \in Workers : WorkerStep(w)
    \/ \E r \in Runs : RunStep(r)

Spec == Init /\ [][Next]_vars
=============================================================================
