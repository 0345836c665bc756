# Verification of the CRM's concurrent core

This directory holds TLA+ models of the parts of this repository where several
processes, handlers or scheduled passes work on the same rows: what they do is
model-checked with TLC on small instances, and the central results are proved
with TLAPS for instances of any size. `PROJECT.json` lists components, runs,
mutants, the map from definitions to source lines, findings, hazards and
theorems. Paths below are relative to the repository, whose application lives
under `src/` (so `src/lib/...` is `src/src/lib/...` in the map).

## 1. The system

The program is a CRM for group-buying campaigns: a Next.js application over
Postgres (Prisma), an agent worker that runs jobs for a chat bridge, scheduled
passes started by the host's crontab, and scripts that keep all of it running on
one machine. Most of it is request-scoped CRUD, rendering and derivation. What is
hard is where work outlives a request.

| Component | State | Operations | Talks to | What is hard | What makes it correct |
|---|---|---|---|---|---|
| **Agent job queue** (`repositories/agentJobRepository.ts`, `lib/agent-worker/*`, `scripts/agent-worker.ts`) | `AgentJob` rows; each worker's `active` map, timers and abort signals | submit, claimNext, reclaimExpiredLease, heartbeat, transition, requeue; runJob, shutdown | bridge over a socket; the proposal inbox | leases and clocks, crashes, lost replies, aborts that race an insert | one owner at a time, a job settles once and does settle, an answer names a card that exists |
| **Action proposals** (`repositories/actionProposalRepository.ts`, `lib/agent/approve-proposal.ts`, the reject and bulk-approve routes) | `ActionProposal` and its event log | create, approve (two transactions and a failure record), reject | the write actions, the calendar rows, the notifications | double clicks, a retry next to a slow call, a commit whose reply is lost | executed at most once; the status tells whether the action took effect |
| **Automatic executor** (`lib/agent/auto-execute/*`) | an advisory lock, per-pass counters, verdict events | a pass: sweep, read, judge, approve | action proposals, Slack | a lock that lapses, counters read once, people deciding at the same time | limits hold, nothing stays stuck, people's decisions stand |
| **Calendar inbound** (`lib/calendar-inbound/*`) | one row per calendar event with a fingerprint and a proposal | scan, and the marks after approval, rejection, failure | action proposals | judgements from reads that are up to 55 s old | a change of an event is applied once, and is not forgotten |
| Calendar outbound (`lib/google-calendar-sync.ts`) | a ledger of events in Google Calendar | create, update, delete, adopt | Google's API | crash between the API call and the row | one event per campaign, no orphans |
| **Incident ledger and notifications** (`lib/cron-incident.ts`, `lib/system-task-status.ts`, the incident-outbox route, `infra/selfhost/incident-notify.sh`) | incidents, acknowledgement columns | record, escalate, resolve, list, acknowledge | every scheduled job, the host's scripts | acknowledged after sending, closed from stale reads | an incident is reported at least once and not after it healed |
| Order and settlement sync (`lib/order-converter/*`) | order snapshots, caches of closed campaigns | sync windows, invalidate | the Naver API | partial windows, stale caches | no order lost between two windows |
| Campaigns and groups (`services/campaign*.ts`, `lib/campaign-status-sync.ts`) | campaign status, group membership | scheduled transition, edits, propagation | calendar outbound, checklists | a status judged at the start of a run and written later | nobody's later decision is overwritten |
| Price sheet application (`lib/price-sheet/apply-executor.ts`) | a second approval state machine | approve, apply | deals and products | as for proposals | applied at most once |
| Services, write actions, derivations, pages, companion programs | rows, or nothing | one transaction per request, computation, rendering | | little concurrency | left to unit tests |

Five are modelled: the job queue, the proposals, the automatic executor, calendar
inbound and the incident ledger. The first four are one system: a job of the queue files
a proposal (`executor.ts`, `createActionProposal`), as the calendar scan does; people
or the automatic executor decide about it, and approval executes the write action
and marks the calendar row. They are composed where their steps can interfere:
`AutoExecute` and `CalendarInbound` both extend `ProposalApproval` and share its
variables. The queue and the inbox meet in one insert, which the queue's model
keeps as the variable `filed` and the inbox's as the action `Create`; neither
reads the other's rows otherwise. The incident ledger stands alone: it sees of the
other parts only whether a scheduled job succeeded.

## 2. The modules

| Module | Role |
|---|---|
| `AgentJobQueue` | rows, runs, worker processes: one action per repository call, timer, executor stage and process event |
| `JobContract` | what the bridge may rely on: a job is pending, then settles once, after a bounded number of attempts |
| `AgentJobProps` | invariants, action properties, the refinement of `JobContract`, fairness and liveness |
| `AgentJobProofs` | theorems about `AgentJobQueue` |
| `ProposalApproval` | the inbox: every call of a handler, interruptible between its database round trips |
| `ProposalLifecycle` | the table of allowed transitions, with the effect in the step to EXECUTED |
| `ProposalProps`, `ProposalProofs` | properties and theorems of `ProposalApproval` |
| `AutoExecute` | passes of the automatic executor over `ProposalApproval` |
| `AutoProps`, `AutoProofs` | its limits, its restraint, its liveness; theorems about it |
| `CalendarInbound` | an event, its row and the scans, over `ProposalApproval` |
| `CalendarProps`, `CalendarProofs` | what may not happen twice, what may not be forgotten; theorems about `CalendarInbound` |
| `IncidentLedger` | the runs of a scheduled job, the ledger, the list of messages, the host script |
| `IncidentProps`, `IncidentProofs` | properties and theorems of `IncidentLedger` |
| `MCAgentJobQueue`, `MCProposals`, `MCAuto`, `MCCalendar`, `MCIncidents` | instances: model values, symmetry, authors, slots and fingerprints |

In the component modules a definition `X_Word` right before `X` is a mutant of `X`:
the form a plausible bug would give that code. It is used by no specification;
replacing `X` by it makes TLC find the property violated that `PROJECT.json`
pairs with it.

### AgentJobQueue

A row of `AgentJob` is `row[j]`: status, worker, attempt, and the lease as the
difference between `leaseExpiresAt` and now, in ticks, so that time can go on for
ever in finitely many states. `NoWorker` stands for the three columns that are
cleared together. Every repository method is one compare-and-set statement in the
code and one step here; its where clause is `Fenced`, `Claimable`, `LeaseAlive` or
`LeaseExpired`, and it may match or not, fail, or commit and lose its reply
(`Call`). A caller's `now` is read before the statement commits, up to `MaxLag`
ticks.

A run is a call of `runJob`. Because a row's attempt number grows whenever it goes
back to the queue, `<<job, attempt>>` names a run. `run[r].ctl` is how far `runJob`
got and `run[r].exec` how far the promise of `executeAgentJob` got, which goes on
after `runJob` has given up on it. `cause` is why the run was aborted: a lost
lease leaves the row alone, a timeout or a shutdown releases it. `active` is the
union of the workers' maps. When both halves of a run have ended, nothing of it
remains in memory and the record is reset.

What a job computes is left out: the router and the operation may give any answer.
`filed` are the runs that committed a row in the inbox. The status
`RESOURCE_DEFERRED` is not modelled because no code writes it, and the operation
`apply_product_mappings`, whose work is an external call, is left out.

### ProposalApproval and AutoExecute

`approveProposal` is four to five round trips, and so is `call[c]`: `Read` (the
checks), `Approve` (tx1), `Execute` (tx2), `CheckFailable` and `RecordFailure` (the
transition to FAILED). A transition with `expectedFrom` is a compare and set and
one step. One without it reads the status, checks the table and updates by id:
under READ COMMITTED that is a check and a later blind write, two steps. A call
that is refused changes nothing and is left out. The event log is reduced to the
last approver and the number of approvals of a proposal, bounded by `MaxApprovals`.

`Faults` says what can go wrong besides crashes and failing actions: `"tx1"` (tx1
commits and its reply is lost), `"commit"` (the connection breaks while tx2
commits: the transaction stays `inflight` on the server and lands later, or does
not), `"record"` (FAILED cannot be recorded), `"lock"` (the advisory lock of a long
pass, or of a scan of the calendar, lapses under it). `SteadySpec` is the inbox
without the commit that lands late, for instances that do not have that fault.

A pass takes the lock and notes its stuck approvals (`StartPass`), sweeps them
(`Sweep`), reads candidates, count and slots (`Gather`), then judges candidates in
any order (`Judge`) and approves through the same `Read`, `Approve`, ... as a
person. A verdict (payload, limits of the amount, the Slack message) is any
verdict. The three reads of `Gather` are one step: only SYSTEM_AUTO writes the
events they read, and passes exclude each other. The window of recently changed
slots never expires in the model, and shadow mode, which approves nothing, is
left out.

### CalendarInbound

Events share nothing but a scan's caps, so one event is modelled. `edition` counts
the owner's edits of it and `Fingerprint` tells which of them look the same. `row` is
its `CalendarInboundEvent`: status (a hint that is waited for keeps its stage),
fingerprint, proposal. `updatedAt` is kept as `fresh`, the set of scans whose
version of the row is still the current one: any write empties it.

A scan (`runCalendarInbound`, `scanCalendarInbound`) takes the advisory lock and
lists the event (`Start`), reads the row (`ReadRow`) and the status of its proposal
(`ReadStatus`), and judges the event by these reads: `Triage` is the function of that
name. Depending on it the scan passes over (`PassOver`), waits for a model's hint
(`Await`), or evaluates (`Settle`): nothing to do, adopted, or a draft, which lets
go of the row's proposal, closes the card it replaces (`Retire`), creates the new
one (`File`) and links it (`Link`). Every write is conditional on the version read,
but for the upsert of a row that was not there.

The calls of the inbox are those of `ProposalApproval`. tx1 claims the row (`Claim`)
and so fails when the row points elsewhere. What the decision means for the row
(`markInboundAdopted`, `resetInboundForRetry`, `markInboundRejected`) is written
after the commit, outside of it (`Mark`). `Losses` says what may be lost: a mark, the
closing of a replaced card, a judgement (an exception) or the touch after one, or
everything in memory. The
lock may lapse once. How a title is parsed and a campaign found is any outcome.

### IncidentLedger

A chain is one cron slot with its retries, or one press of the button, which is
not retried. Chains overlap. `End` writes the outcome to `SystemTaskStatus`;
a failure then goes through `recordIncidentOccurrence`, one action per round trip
of its transaction: `Find` takes the advisory lock of the signature and looks for
an open incident, `FindFold` looks for any incident a retry can join under the lock
of the job, and `Count`, `Fold` or `Create` write and commit. A success goes through
`Resolve`. `now` counts the ends of runs, so that an incident's `seen` (`lastSeenAt`)
and the moment of the job's last success, which is all `healedSince` asks of
`SystemTaskStatus` (`task`, 0 when the last status is another), compare as the
timestamps do. A failure is dated before the lock is waited for, so `Look` takes any
moment since the run ended: another run may succeed before the row is written, and the
incident then counts as healed.

A round of the host script is `Poll` (the open incidents are read), `Escalate` for
each, `ReadPending` and `ReadTask` (the recheck before an alarm), `Suppress` for those
that healed, `ReadRecovered`, `Send` for each message and `Post`, the
acknowledgement. `Digest` and `PostDigest` are the daily message. `marks` are the
columns `alertedAt`, `recoveryAlertedAt`, `digestedAt`, `suppressedAt` of a row; `told`
is what reached the owner. Two variables are no state of the program and are there for
properties: `blame` records whose failures an incident collects, `held` the incidents
whose alarm the limit of a day kept back. `Losses` says which write, message or
acknowledgement may fail; `"status"` is either write to `SystemTaskStatus`, of RUNNING or
of the outcome.

## 3. The runs

### Passing

| Run | Instance | Shows |
|---|---|---|
| `job_two_workers` | one job, two attempts, two workers that may crash at any point, leases of two ticks, clocks one tick stale, 306,212 states | `LeaseDiscipline`, `FreshToken`, `AttemptsLeft`, `ApprovalHasProposal`, `SettledIsFinal`, `StaleRunIsFenced`, `OnlyExpiryTakesAway`, `ImplementsContract` |
| `job_liveness` | a worker that may hang, crash or be stopped, and one that stays up, 82,139 states | `EveryJobSettles` |
| `job_poison` | a job whose payload does not parse between two good ones, one worker, concurrency one, 38,906 states | `EveryJobSettles`, `MapWithinConcurrency`: the poisoned job does not stop those behind it |
| `proposal_overlap` | two overlapping calls, three approvers, two proposals (one without payload, one that can be completed), faults `tx1`, `record`, 21,997 states | `ExclusiveApproval`, `StatusMatchesEffects`, `ImplementsLifecycle` |
| `auto_limits` | three proposals, two for one slot, two approvals a day, a person and a restart, no faults, 896,125 states | `DailyLimit`, `AutoOncePerSlot`, `PeopleAreSpared` |
| `auto_faults` | two passes, a person, all faults, a midnight and a restart, 198,916 states | `ApprovalSticks`, `AutoOnlyFromPending`, `RejectedStays`, `AutoNeverStuck` |
| `calendar_overlap` | one event, two scans whose lock may lapse once, two calls, two proposals, lost marks, 1,402,153 states | `ClaimedRowStays`, `AppliedOnce`, `NoDeadCards`, `OnlyFirstSightTakes`, `AnsweredIsNotAsked` |
| `calendar_judges` | the same event with an edit, one scan and one call, lost marks, exceptions, restarts and FAILED that is not recorded, 104,946 states | `RowTellsItsProposal`, `AppliedOnce`, `NothingIsForgotten` |
| `incidents` | a cron slot with a retry and a button press that overlap, an error that may pass and one that does not, two rows, every loss, 57,945 states | `OneIncidentPerCause`, `RetriesDoNotAlarm`, `RecoveryIsTrue`, `ClosedStaysClosed`, `NothingGoesUntold`, `GoodNewsFollows` |

Each component has one type invariant too, in its first run.

Why the bounds are enough to be interesting. Two attempts are the least for a stale
run to meet its successor, and with them the last attempt, where the row fails
instead of queueing, is reached as well. Two workers are the least for a reclaim
by somebody else; a worker that re-claims its own row needs one. A lease of two ticks with a clock
one tick stale has all four cases of alive and expired for two callers. Two calls
on a proposal are the least for a race, two approvals for a retry next to the call
that failed. Three proposals with a limit of two are the least where an approval
that failed must be counted for the limit to hold.

Two proposals are the least for an event to be asked about twice, and for a new card
to meet the retry of the one it replaces; a history that needs a third card is not
covered. Two
scans matter only once a lock has lapsed, and a lock that lapses twice only makes
room for a third scan. The edit is in the run with one scan: a change is judged by
whichever scan comes next. Two chains are the least for failures that race and for
a second failure in a row; the retry makes the third recording. Two causes of
different kinds share the two rows, so that a retry with another error than the first
has an incident to join, and a row closed early leaves room for one that opens after.

The runs say `CHECK_DEADLOCK FALSE` because the systems may stop: every job is
settled and every worker dead, or every proposal is decided.

### Violated on purpose

Each of these states a sentence of the repository that the code does not keep.
The findings in `PROJECT.json` quote the sentence and the lines.

| Run | What TLC shows |
|---|---|
| `proposal_lost_commit` | The connection breaks while tx2 commits; FAILED is written over EXECUTED; the retry executes a second time. "An executed proposal is not executed again." |
| `proposal_stale_payload` | Two retries of a FAILED proposal overlap, one with completed fields; the slower one claims it in the second round and executes the payload from before. "A retry runs with the same values." |
| `calendar_changes` | A card is rejected between `createProposal` (`scan.ts:481`) and the save that links it to the row (`:483`): there is no row to mark yet. The row then waits for a proposal that is closed, `Triage` calls that handled before it looks at the fingerprint, and no later edit of the event is judged. "If the fingerprint changes, the scan judges it again." |

`NothingIsForgotten` is the same statement with that case excepted (`Unmarked`): it
shows that nothing else than an open proposal and a missing mark holds a change up.
There is a second way into `Unmarked`, which the proof of `RowTellsItsProposal` came
upon and which needs two calls. The mark of a failed execution (`resetInboundForRetry`)
is written outside of the transaction. If, by the time it lands, the owner's retry has
executed and a scan has judged a later edit to need nothing (which keeps the row's
proposal), the row says PENDING_RETRY for a proposal that is EXECUTED: `Triage` calls that
handled, whatever the event says from then on. That is why `RowTellsItsProposal` speaks of open proposals.

Four more sentences were read against the code and do not hold. They have no run
here; each needs a coincidence of milliseconds or a loss the code elsewhere accepts.

- "Nothing is committed after lease loss/timeout/shutdown" (`executor.ts:136`): an abort
  between the check of the signal and the insert of `:1408` finds a committed
  proposal, and the retry of the job files a second one.
- "Runtime timeout 300 s" (`worker-loop.ts:15`): an abort that arrives while CLAIMED to
  RUNNING is awaited is raised before anyone listens; the timeout after it is a
  no-op, because a controller aborts once, and `runJob` waits until launchd ends
  the process, which is why `EveryJobSettles` needs `KillFairness`.
- "The limit is on the number of approved attempts" (`settlement-auto-execute.ts:38-39`):
  if tx1 commits and its reply is lost, the approval is in the log and the pass
  has not counted it. `auto_limits` is checked without faults for that reason.
- The good news after an alarm (`incident-notify.sh:33-34`): an alarm that was sent, whose
  acknowledgement is lost (`:244`) and whose incident closes before the next round,
  is not on record as sent. `GoodNewsFollows` asks only after the alarms on record.

## 4. Fairness

`EveryJobSettles` assumes `FairSpec`: time passes; the poll loop of a process that
stays up goes round (`tick` of worker-loop.ts awaits its calls and reschedules
itself whatever came of them); a call in progress returns in the end (the database
client has timeouts); the runtime timer fires; launchd starts the process and
kills it `ExitTimeOut` seconds after SIGTERM (`infra/selfhost/README.md`, the section
on the agent worker). Nothing is assumed of the executor, which may hang for
ever, nor of heartbeats, which may stop. A repository call may fail as often as it likes.
`Reliable` workers are neither killed nor stopped; one is needed, since a system
whose every worker is gone settles nothing. The restart of a process is a new
worker.

`NothingIsForgotten` assumes `FairInboundSpec`: cron starts scans, and a call of
the inbox goes on to its end. A scan may be stopped at any point, by its 55 s budget, a
cap, an exception or a restart; what is assumed is that it is not stopped at the
same point every time (strong fairness of its reads, its judgement, the filing and
the link). That a title which waits for a model is settled some day is part of
this: the stages end in Gemini's batch, whose results the next scan reads.
Nothing is assumed of the owner, nor of marks, which may always be lost.

`NothingGoesUntold` and `GoodNewsFollows` assume `HostFairness`: cron keeps calling
the script, and the list, a message and an acknowledgement do not fail every
time. Nothing is assumed of the job itself, which may fail, hang or be
killed, nor of the ledger's writes: an occurrence that was not recorded is no
incident. Chains are bounded, so the closing of an incident by a later success is
not asked for either.

`AutoNeverStuck` assumes `FairAutoSpec`: cron starts passes, the steps of a call
and of a pass are taken, an APPROVED gets old, a commit in flight lands, and
the sweep's write does not fail every time (strong fairness). Restarts are bounded
by `MaxCrashes`. Nothing is assumed of people.

## 5. What is proved

Every theorem and lemma is checked by TLAPS to the last leaf, from the ASSUMEs of
the component modules only: job numbers are naturals, `NoWorker` is no worker, at least
one attempt, a concurrency of at least one, a clock lag below the lease, `NoOne` is
nobody, `None` is no chain, a fingerprint for every edition, passes are calls and
SYSTEM_AUTO is an actor, and what may fail or be lost is in the list of faults and
losses. No instance, no bound and no finiteness is assumed. Every invariant and action property of a passing run is a
theorem; where one needs a condition on what may fail, the condition is a hypothesis
of the theorem or part of the property, and it is named below.

**The queue.** `IInv` is inductive: types, `LeaseDiscipline`, `FreshToken`,
`AttemptsLeft`, `ApprovalHasProposal`, and `RunHistory`. The strengthening is needed
in two places. `SettledIsFinal` and `StaleRunIsFenced` depend on a stale run's
where clause not matching, which follows from the number of the row being ahead
(`FreshToken`) and from a settled row naming no worker (`LeaseDiscipline`).
`ApprovalHasProposal` depends on a run that is about to write NEEDS_APPROVAL being
one that committed a card, which is in `RunHistory`. The proof goes by the shape of
steps: whatever a run does, it changes only its own record and at most the row of
its job (`RunStepShape`), in one of a few ways (`WrittenRows`, `WriteMoves`), and
each way keeps the invariant (`MovedInvariant`). `Refinement` maps every step to a
step of `JobContract` or a stutter. `OnlyExpiryTakesAway` goes through the same shapes.
`MapWithinConcurrency` needs more than the map: between the claim and the entry a run
is in nobody's map, and the loop that looks at the size of its map is waiting for no
claim then. `SeatInv` therefore counts seats, the entries of a worker together with its
claims on their way (`SeatsOf`); a step of a run takes no new seat (`Orderly`), and a
claim takes one only if the loop saw fewer than `Concurrency` taken.

**The inbox.** With any faults: `TypeCorrect`, `Sticking` (a claim expects a
decidable status, nothing goes back to a status from before approval) and
`Rejection`, which follows from it: a late write can reach only a proposal that
was approved. Under `NoLostCommit` (`"commit"` is not among the faults): the step
that claims a proposal is a compare and set from a decidable status, so no other
call is between its tx1 and its end (`Exclusive`); then the blind write of FAILED
comes from APPROVED, hence every step is one of the lifecycle's (`Refinement`);
and the lifecycle ties effects to EXECUTED (`Matching`, `Once`). `proposal_lost_commit`
shows that the condition cannot be dropped.

**The incident ledger.** With any chains, causes, retries, rows and losses.
`IncidentInv` is inductive: types, `OneIncidentPerCause`, `RunInv` for each chain and
`RowInv` for each incident. `OneIncidentPerCause` alone is not: it needs that a run about
to open an incident holds the lock of its signature and that no incident of that
cause has been opened since it looked, which is what the lock is for and is in
`RunInv`. `RetriesDoNotAlarm` needs two things of `RowInv`: an incident counts no more
occurrences than there are chains that failed with it (because a retry counts
nothing and a chain is counted nowhere before its first attempt fails), and a
round escalates only what met the rule when it was read, which stays true because
counts only grow. `RecoveryIsTrue` needs that an alarm on record, or about to be put on
record, reached the owner or was held back, and that good news are listed for closed incidents
only, and that these stay closed, although the list and the acknowledgement work from
reads that are old by then; `ClosedIncidentsStayClosed` is the action property of the
same invariant. The proof has a lemma per action, under four on what steps of one
kind leave alone (`LedgerStep`, `QuietStep`, `HostStep`, `MessageStep`). Occurrences are
compared with the cardinality of a set, for which it cites `FiniteSetTheorems`.

**The automatic executor.** Its theorems come in four groups, by what may fail.
  - *With any faults* (`AutoInv`): typing, `ApprovalSticks`, `RejectedStays`,
    `AutoOnlyFromPending`. Every step is one of the inbox or a sweep (`InboxOrSweep`), so
    what is proved of the inbox carries over and only sweeps are new. `OwnCalls` says that
    SYSTEM_AUTO acts only through the call of a pass, and that such a call claims
    from PENDING_APPROVAL.
  - *While the lock holds*, with lost replies and commits still under way (`LockInv`):
    `PeopleAreSpared`. A sweep writes FAILED over what a call may be working on, unless
    that call died. `OnePass` makes a pass the only one, `Claims` ties a call past its
    claim to the last approver of its proposal, and `Swept` says that what a pass is
    about to sweep is still SYSTEM_AUTO's.
  - *While the lock holds and no commit is lost* (`ExactInv`, `SlotInv`): sweeps are
    steps of the lifecycle, so that the inbox with its passes implements
    `ProposalLifecycle`; and `AutoOncePerSlot`, because a working pass knows the slot of everything that
    SYSTEM_AUTO executed (the window it read, and its own approvals since).
  - *Without faults* (`CountInv`): `DailyLimit`. Today's automatic approvals are at most
    those a working pass has counted and the one it waits for (`Attempted`). The reply
    of tx1 that is lost breaks just this, see section 3.

**The calendar.** Typing holds with any faults. The rest is under `NoLostCommit`: a commit
that lands late together with a scan is not modelled. Two layers:
  - `SteadyInv` holds whether the lock lapses or not. Besides types and the inbox's own
    invariants, its core is `FreshReads`: as long as `updatedAt` is what a scan read, the
    row is as it read it and the proposal's status is what it read or one that can be reached from
    there without an approval (`Later`). An approval cannot come between, because tx1
    claims the row and thereby changes `updatedAt`. Hence a conditional write never takes
    a row from an approval, and only the upsert of a row not seen can
    (`OnlyFirstSightTakes` names that scan: the one that leaves its judgement in the step). The scans, which reject superseded cards by themselves,
    leave the inbox its guarantees (`InboxUndisturbed`, `RejectionsStay`).
  - `LockedInv` adds what holds as long as no lock was lost; `ClaimedRowStays`, `AppliedOnce`,
    `RowTellsItsProposal`, `NoDeadCards` and `AnsweredIsNotAsked` follow from it. `AppliedOnce`
    is not inductive: two things have to be known of an edition that was carried out.
    No other proposal on the row is about it (`Apart`), and no scan will draft from it
    again: the owner and the scan in progress are past it (`Past`), or its proposal still
    keeps the row in a status that `Triage` takes for an answer (`Settled`). `Sees` and
    `RowWaits` are what a scan knows of the row it is about to write, and how long a row waits
    for its card. A step either holds the row, keeps its proposal, judges the event anew or links a
    new card (`LockedSteps`); only the third lets go of an edition, and `JudgedIsPast` shows
    that the scan is then past it. If the judgement lets go of an open card, the card is FAILED
or was never approved, and a FAILED one is about to be closed (`JudgedIsFailed`).

**Only model-checked.** The liveness properties `EveryJobSettles`, `AutoNeverStuck`,
`NothingIsForgotten`, `NothingGoesUntold` and `GoodNewsFollows`: TLAPS has no reasoning
about fairness and ENABLED that would carry them. The three properties that are
violated are counterexamples of TLC.

## 6. What is not modelled

- Money, dates, texts: what a write action does, what a verdict is based on. An
  action run in tx2 is one commit, which is what its transaction makes it.
- The socket between bridge and worker, the audit log, the listing queries.
- More than one application process: `Crash` ends all calls at once, as on the one
  host this program runs on.
- A person's approval that got stuck in APPROVED after a crash: no code takes it out
  of there, so nothing can be asked of it.
- With two passes and the fault `"lock"`, `PeopleAreSpared` fails: the lapsed pass
  records FAILED after all, the owner approves the retry, and the sweep of the
  next pass, which had read the old approval, takes it away. It is checked
  while the lock holds.
- A worker that re-claims its own expired job may briefly run more jobs than its
  concurrency, because the map has one entry per job. `MapWithinConcurrency` is
  about the map; rows are safe either way (`StaleRunIsFenced`).
- The calendar: several events at once, and with them the order in which a scan's caps
  pass over some; which campaign a title means and whether two proposals of one
  campaign contradict each other; two writes of a row in the same millisecond, which
  `updatedAt` cannot tell apart; the commit that lands late together with a scan.
- The incidents: kind B, which no declared job can open; the incident of kind C is
  followed only as far as its status, and may stay open if its two writes fail;
  the windows of 24 hours and 7 days of the daily message; the texts of the
  playbook; the outbox of approvals, which goes through the same script; `prNumber`,
  with which an incident would be neither closed by a success (`cron-incident.ts:182`) nor
  suppressed (`incident-outbox/route.ts:105`, `:140`): no code sets that column. A failure
  that is counted on a row closed meanwhile and an incident closed by status only are
  steps of the model without a property: the code states no rule that they break.
- The bounds on the pool of proposals and of rows stop a model where the program
  would go on; the liveness properties say so (`Exhausted`) or need no new row.
- The components marked `not_modelled` in `PROJECT.json`, each with its reason.

## 7. Plan

In this order, the most important first:

1. Proofs: of the calendar, which of its theorems hold with commits that land late, once
   the model lets a scan run next to one; of the queue, that a settled job's answer and
   its card in the inbox belong together once the two are composed.
2. `CampaignStatus`: campaigns of a group, the scheduled transition, a PATCH, and joins
   and departures, under the seller's advisory lock. A first reading found what such a
   model must be able to show: the transition writes by id a status it judged before
   (`campaign-status-sync.ts:157`), also over a campaign that was dropped meanwhile; a
   PATCH uses the group it read before its transaction, so that a join next to it leaves
   the group's period stale and a departure lets it write the period to a group it
   has left (`fanOutMemberSchedule` checks no membership, `propagateGroupStatus`
   does); and a PATCH that changes a period and a shared date, but no status, writes the
   group's row before it takes the lock (`campaignService.ts:536`). Wanted: a later
   decision is not overwritten, siblings follow together, no deadlock.
3. `CalendarOutbound`: ledger rows and API calls with crashes between them. Wanted: one
   event per campaign, none left behind.
4. `PriceSheetApply`, as a second refinement of `ProposalLifecycle` if its table allows.
