----------------------------- MODULE AgentJobProps -----------------------------
(***************************************************************************)
(* What is asked of AgentJobQueue: its type invariant, the inductive       *)
(* invariant and its parts, action properties, the refinement of           *)
(* JobContract, and liveness under the fairness of the worker processes.   *)
(***************************************************************************)
EXTENDS AgentJobQueue

RowType == [status : Status, worker : Workers \cup {NoWorker},
            attempt : 0 .. MaxAttempts, lease : LeaseFloor .. LeaseTicks]
RunType == [owner : Workers \cup {NoWorker}, ctl : Ctl, exec : Exec,
            cause : Causes, caught : BOOLEAN]

\* Every variable keeps its type.
TypeOK ==
    /\ row \in [Jobs -> RowType]
    /\ run \in [Runs -> RunType]
    /\ active \subseteq Runs
    /\ proc \in [Workers -> {"off", "up", "stopping", "dead"}]
    /\ filed \subseteq Runs

-----------------------------------------------------------------------------
\* A row names a worker and carries a lease exactly while it is in a
\* lease-holding state, so that no row is out of reach of both claimNext
\* (QUEUED, no lease) and reclaimExpiredLease (lease-holding, with a lease),
\* and the run the row was claimed for belongs to that worker.
LeaseDiscipline ==
    \A j \in Jobs :
        /\ row[j].status \in Holding <=> row[j].worker # NoWorker
        /\ row[j].status \in Holding =>
             run[Current(j)].ctl # "idle" /\ run[Current(j)].owner = row[j].worker

\* The attempt number is a fencing token: a row that waits in the queue has a
\* number under which no run was ever claimed, and no run is ahead of its row.
FreshToken ==
    \A r \in Runs : run[r].ctl # "idle" =>
        /\ row[Job(r)].status # "ABSENT"
        /\ r[2] <= row[Job(r)].attempt
        /\ row[Job(r)].status = "QUEUED" => r[2] < row[Job(r)].attempt

\* No row that can still run has used up its attempts; it settles instead of
\* waiting in the queue for a claimNext that skips it.
AttemptsLeft ==
    \A j \in Jobs : row[j].status \notin Terminal => row[j].attempt < MaxAttempts

\* A job is reported as NEEDS_APPROVAL only when the very attempt that
\* reported it committed the proposal, however the run was interrupted.
ApprovalHasProposal ==
    \A j \in Jobs : row[j].status = "NEEDS_APPROVAL" => Current(j) \in filed

\* A run that was never claimed has not touched anything, and an answer that
\* names a proposal is held only by a run that committed one.
RunHistory ==
    \A r \in Runs :
        /\ run[r].ctl = "idle" => run[r] = NoRun
        /\ run[r].exec = "NEEDS_APPROVAL" => r \in filed
        /\ run[r].ctl = "writing" => run[r].exec \in Terminal

\* The strengthening that is inductive.
IInv ==
    /\ TypeOK
    /\ LeaseDiscipline
    /\ FreshToken
    /\ AttemptsLeft
    /\ ApprovalHasProposal
    /\ RunHistory

\* The loop's map never holds more runs of one worker than its concurrency,
\* although the size is read before the claim is awaited and the entry is set
\* only after it.
MapWithinConcurrency ==
    \A w \in Workers : Cardinality(active \cap OwnedBy(w)) <= Concurrency

-----------------------------------------------------------------------------
\* A settled row is never written again: not by the run that lost its lease,
\* not by its heartbeat, not by the reclaim of a slow second worker.
SettledIsFinal ==
    [][\A j \in Jobs : row[j].status \in Terminal => row'[j] = row[j]]_vars

\* A step of a run whose attempt is over (its lease expired and the row was
\* reclaimed, perhaps by the same worker) never changes the status, the owner
\* or the attempt of the row: the owner/attempt/lease CAS of worker-loop.ts.
StaleRunIsFenced ==
    [][\A r \in Runs :
         r[2] # row[Job(r)].attempt /\ run'[r] # run[r] =>
            /\ row'[Job(r)].status = row[Job(r)].status
            /\ row'[Job(r)].worker = row[Job(r)].worker
            /\ row'[Job(r)].attempt = row[Job(r)].attempt]_vars

\* A row that a worker holds is taken from it by somebody else's step only
\* after the lease ran out on some clock: shutdown, heartbeats and answers of
\* one worker leave the rows of the others alone.
OnlyExpiryTakesAway ==
    [][\A j \in Jobs :
         /\ row[j].status \in Holding
         /\ row'[j].status \in {"QUEUED"} \cup Terminal
         /\ run'[Current(j)] = run[Current(j)]
         => \E d \in Lags : LeaseExpired(j, d)]_vars

-----------------------------------------------------------------------------
\* The queue implements the contract its clients rely on.
PhaseOf(status) == IF status \in {"QUEUED"} \cup Holding THEN "pending" ELSE status
Phases == [j \in Jobs |-> PhaseOf(row[j].status)]
Tries == [j \in Jobs |-> row[j].attempt]

JC == INSTANCE JobContract WITH phase <- Phases, tries <- Tries, cards <- filed

ImplementsContract == JC!Contract

-----------------------------------------------------------------------------
(***************************************************************************)
(* Fairness: timers fire, the database answers, the poll loop of a process *)
(* that stays up goes round, launchd starts the process. Nothing is        *)
(* assumed of the executor, which may hang, nor of the heartbeat.          *)
(***************************************************************************)
LoopFairness ==
    /\ WF_vars(Tick)
    /\ \A w \in Workers :
          /\ WF_vars(Start(w))
          /\ WF_vars(\E j \in Jobs, d \in Lags : Reclaim(w, j, d))
          /\ WF_vars(\E j \in Jobs, d \in Lags : ClaimNext(w, j, d))
    /\ \A r \in Runs :
          /\ WF_vars(Quarantine(r))
          /\ WF_vars(Launch(r))
          /\ WF_vars(Timeout(r))
          /\ WF_vars(\E d \in Lags : Started(r, d))
          /\ WF_vars(\E d \in Lags : WriteOutcome(r, d))
          /\ WF_vars(\E d \in Lags : Release(r, d))
          /\ WF_vars(\E d \in Lags : Requeue(r, d))

\* launchd kills a process that is still there ExitTimeOut after SIGTERM.
KillFairness == \A w \in Workers : WF_vars(proc[w] = "stopping" /\ Exit(w))

FairSpec == Spec /\ LoopFairness /\ KillFairness

\* Every submitted job settles, whatever hangs, crashes or loses replies, as
\* long as one worker stays up.
EveryJobSettles ==
    \A j \in Jobs : row[j].status = "QUEUED" ~> row[j].status \in Terminal

=============================================================================
