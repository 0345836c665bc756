----------------------------- MODULE IncidentLedger -----------------------------
(***************************************************************************)
(* The incidents of one scheduled job: the runs that record failures and   *)
(* close incidents (cron-incident.ts, system-task-status.ts), the list of  *)
(* messages for the owner (incident-outbox) and the host script that sends *)
(* them and acknowledges what it sent (incident-notify.sh).                *)
(*                                                                         *)
(* A chain is one cron slot with its retries, or one press of the button   *)
(* that runs the job now. Chains overlap. Incidents of kind B are left     *)
(* out: no job declared today can open one.                                *)
(***************************************************************************)
EXTENDS Naturals, FiniteSets

CONSTANTS
    Chains,
    Buttons,       \* the chains that nobody calls again
    Causes,        \* signatures of failures
    Transient,     \* those of an error kind that may pass
    MaxRetries,    \* KnownJob.retry
    MaxRows,       \* bound on incidents
    Losses,        \* what may go wrong
    None

\* "status", "record", "resolve": a write of a run fails; "kill": a run ends
\* without a word; "get": the list breaks off; "send": a message cannot be
\* sent; "cap": the day's limit of messages is reached; "post": the
\* acknowledgement does not arrive.
ASSUME ButtonsAssumption == Buttons \subseteq Chains /\ None \notin Chains
ASSUME TransientAssumption == Transient \subseteq Causes
ASSUME BoundsAssumption == MaxRetries \in Nat /\ MaxRows \in Nat
ASSUME IncidentLossesAssumption ==
    Losses \subseteq {"status", "record", "resolve", "kill", "get", "send", "cap", "post"}

Rows == 1 .. MaxRows
Open == {"open", "waiting_owner"}

VARIABLES
    task,      \* the moment of the last run, if SystemTaskStatus says SUCCESS; or 0
    row,       \* CronIncident, kind A
    locked,    \* the chain that holds the advisory lock of a signature
    jobLock,   \* ... and of the job
    chain,     \* the runs
    now,       \* counts the moments that are written down
    mistaken,  \* the job's incident of kind C
    round,     \* the host's round of immediate messages
    digest,    \* the rows a daily message took along, not acknowledged yet
    told,      \* the messages that reached the owner
    held,      \* the incidents whose alarm the limit of a day held back
    blame      \* the chains whose failures an incident collects

runVars == <<task, locked, jobLock, chain, now>>
hostVars == <<mistaken, round, digest, told, held>>
incidentVars == <<runVars, hostVars, row, blame>>

\* marks: alertedAt, recoveryAlertedAt, digestedAt and suppressedAt, if set.
NoIncident == [status |-> "ABSENT", cause |-> None, occurrences |-> 0, seen |-> 0, marks |-> {}]
NoRound == [pc |-> "idle", todo |-> {}, read |-> {}, list |-> {}, acks |-> {}]

IncidentInit ==
    /\ task = 0
    /\ row = [r \in Rows |-> NoIncident]
    /\ locked = [s \in Causes |-> None]
    /\ jobLock = None
    /\ chain = [c \in Chains |-> [pc |-> "idle", attempt |-> 1, cause |-> None, found |-> 0, at |-> 0]]
    /\ now = 0
    /\ mistaken = "ABSENT"
    /\ round = NoRound
    /\ digest = {}
    /\ told = {}
    /\ held = {}
    /\ blame = [r \in Rows |-> {}]

IsOpen(r) == row[r].status \in Open
Resolved(x) == [x EXCEPT !.status = "resolved"]
Marked(x, marks) == [x EXCEPT !.marks = @ \cup marks]

-----------------------------------------------------------------------------
(***************************************************************************)
(* A run: withSystemTaskStatus.                                            *)
(***************************************************************************)
Goto(c, pc) == chain' = [chain EXCEPT ![c].pc = pc]
GotoFound(c, pc, r) == chain' = [chain EXCEPT ![c].pc = pc, ![c].found = r]

\* RUNNING is written over the last outcome, and the handler called.
Start(c) ==
    /\ chain[c].pc = "idle"
    /\ Goto(c, "running")
    /\ \/ task' = 0
       \/ "status" \in Losses /\ UNCHANGED task
    /\ UNCHANGED <<locked, jobLock, now, row, blame, hostVars>>

\* The outcome goes to SystemTaskStatus first.
End(c) ==
    /\ chain[c].pc = "running"
    /\ now' = now + 1
    /\ \E cause \in Causes \cup {None} :
          /\ chain' = [chain EXCEPT ![c].cause = cause, ![c].at = now',
                                    ![c].pc = IF cause = None THEN "succeeded" ELSE "failed"]
          /\ \/ task' = IF cause = None THEN now' ELSE 0
             \/ "status" \in Losses /\ UNCHANGED task
    /\ UNCHANGED <<locked, jobLock, row, blame, hostVars>>

\* The chain has ended, and is not looked at again.
Over == [pc |-> "over", attempt |-> 1, cause |-> None, found |-> 0, at |-> 0]

\* retryDelaySecFor: the next attempt of the chain, or its end.
NextAttempt(c) ==
    IF c \notin Buttons /\ chain[c].cause \in Transient /\ chain[c].attempt <= MaxRetries
    THEN [pc |-> "idle", attempt |-> chain[c].attempt + 1, cause |-> None, found |-> 0, at |-> 0]
    ELSE Over

\* Mutant: locks of the session, which outlive the transaction.
Unlock_Session(c) == UNCHANGED <<locked, jobLock>>

\* The transaction of a run ends, and with it its locks.
Unlock(c) ==
    /\ locked' = [s \in Causes |-> IF locked[s] = c THEN None ELSE locked[s]]
    /\ jobLock' = IF jobLock = c THEN None ELSE jobLock

IsRetry(c) == chain[c].attempt > 1

\* The open incident of the signature, if there is one. The moment of the failure
\* was read before the lock was waited for: any since the run ended.
Look(c) ==
    \E at \in chain[c].at .. now :
        \/ \E r \in Rows :
              /\ IsOpen(r) /\ row[r].cause = chain[c].cause
              /\ chain' = [chain EXCEPT ![c].pc = "counting", ![c].found = r, ![c].at = at]
        \/ /\ \A r \in Rows : IsOpen(r) => row[r].cause # chain[c].cause
           /\ chain' = [chain EXCEPT ![c].at = at,
                  ![c].pc = IF IsRetry(c) /\ chain[c].cause \in Transient THEN "folding" ELSE "opening"]

\* Mutant: signatures are not locked.
Find_NoLock(c) ==
    /\ chain[c].pc = "failed"
    /\ UNCHANGED locked
    /\ Look(c)
    /\ UNCHANGED <<task, jobLock, now, row, blame, hostVars>>

\* recordIncidentOccurrence: the lock of the signature, and the open incident
\* that has it.
Find(c) ==
    /\ chain[c].pc = "failed"
    /\ locked[chain[c].cause] = None
    /\ locked' = [locked EXCEPT ![chain[c].cause] = c]
    /\ Look(c)
    /\ UNCHANGED <<task, jobLock, now, row, blame, hostVars>>

\* A retry of a passing error looks for any open incident of the job, under the
\* lock of the job: the one seen last.
FindFold(c) ==
    /\ chain[c].pc = "folding"
    /\ jobLock = None
    /\ jobLock' = c
    /\ \/ \E r \in Rows :
             /\ IsOpen(r)
             /\ \A s \in Rows : IsOpen(s) => row[s].seen <= row[r].seen
             /\ GotoFound(c, "joining", r)
       \/ ~(\E r \in Rows : IsOpen(r)) /\ Goto(c, "opening")
    /\ UNCHANGED <<task, locked, now, row, blame, hostVars>>

Committed(c) ==
    /\ chain' = [chain EXCEPT ![c] = NextAttempt(c)]
    /\ Unlock(c)
    /\ UNCHANGED now

SeenAgain(x, at, increment) == [x EXCEPT !.seen = at, !.occurrences = @ + increment]

Seen(c, r, increment) ==
    /\ row' = [row EXCEPT ![r] = SeenAgain(row[r], chain[c].at, increment)]
    /\ blame' = [blame EXCEPT ![r] = @ \cup {c}]

\* The row found is counted by its id; a retry counts nothing.
Increment_Always(c) == 1
Increment(c) == IF IsRetry(c) THEN 0 ELSE 1

Count(c) ==
    /\ chain[c].pc = "counting"
    /\ Committed(c)
    /\ Seen(c, chain[c].found, Increment(c))
    /\ UNCHANGED <<task, hostVars>>

\* The incident the retry joins, unless it was closed meanwhile.
Fold(c) ==
    /\ chain[c].pc = "joining"
    /\ IF IsOpen(chain[c].found)
       THEN Committed(c) /\ Seen(c, chain[c].found, 0)
       ELSE Goto(c, "opening") /\ UNCHANGED <<locked, jobLock, now, row, blame>>
    /\ UNCHANGED <<task, hostVars>>

\* A new incident, in the next row of the pool (a bound).
Create(c) ==
    /\ chain[c].pc = "opening"
    /\ Committed(c)
    /\ \E r \in Rows :
          /\ row[r] = NoIncident
          /\ \A s \in Rows : s < r => row[s] # NoIncident
          /\ row' = [row EXCEPT ![r] = [NoIncident EXCEPT !.status = "open", !.cause = chain[c].cause,
                                                         !.occurrences = 1, !.seen = chain[c].at]]
          /\ blame' = [blame EXCEPT ![r] = {c}]
    /\ UNCHANGED <<task, hostVars>>

\* resolveOpenIncidents after a success: whatever is open, also what a run that
\* overlaps this one has recorded since.
Resolve(c) ==
    /\ chain[c].pc = "succeeded"
    /\ chain' = [chain EXCEPT ![c] = Over]
    /\ \/ row' = [r \in Rows |-> IF IsOpen(r) THEN Resolved(row[r]) ELSE row[r]]
       \/ "resolve" \in Losses /\ UNCHANGED row
    /\ UNCHANGED <<task, locked, jobLock, now, blame, hostVars>>

\* The ledger fails and is passed over, or the run ends without a word.
Fail(c) ==
    /\ \/ /\ "record" \in Losses
          /\ chain[c].pc \in {"failed", "counting", "folding", "joining", "opening"}
          /\ chain' = [chain EXCEPT ![c] = NextAttempt(c)]
       \/ /\ "kill" \in Losses
          /\ chain[c].pc \notin {"idle", "over"}
          /\ chain' = [chain EXCEPT ![c] = Over]
    /\ Unlock(c)
    /\ UNCHANGED <<task, now, row, blame, hostVars>>

RunStep(c) ==
    \/ Start(c) \/ End(c)
    \/ Find(c) \/ Count(c) \/ FindFold(c) \/ Fold(c) \/ Create(c)
    \/ Resolve(c)
    \/ Fail(c)

-----------------------------------------------------------------------------
(***************************************************************************)
(* The list of immediate messages: GET of incident-outbox.                 *)
(***************************************************************************)

\* A passing error may pass; anything else is the owner's at once.
ShouldEscalate(r) == row[r].cause \in Transient => row[r].occurrences >= 2

Recovered == {r \in Rows : /\ row[r].status = "resolved"
                           /\ "alert" \in row[r].marks
                           /\ row[r].marks \cap {"recovery", "suppressed"} = {}}

Listing(pc) == round.pc = pc
Then(pc, todo) == round' = [round EXCEPT !.pc = pc, !.todo = todo]
Done(r) == round' = [round EXCEPT !.todo = @ \ {r}]

Escalatable == {r \in Rows : row[r].status = "open" /\ ShouldEscalate(r)}
Unannounced == {r \in Rows : row[r].status = "waiting_owner" /\ "alert" \notin row[r].marks}

\* The open incidents are read, and those to escalate picked. A round that is
\* begun with nothing to do finds what a later one finds, and is left out.
Poll ==
    /\ Listing("idle")
    /\ Escalatable \cup Unannounced \cup Recovered # {}
    /\ Then("escalating", Escalatable)
    /\ UNCHANGED <<runVars, row, blame, mistaken, digest, told, held>>

\* Mutant: by the row's id alone.
Escalate_Blind(r) ==
    /\ Listing("escalating")
    /\ r \in round.todo
    /\ Done(r)
    /\ row' = [row EXCEPT ![r].status = "waiting_owner"]
    /\ UNCHANGED <<runVars, blame, mistaken, digest, told, held>>

\* One of them, if it still is open; an error passes it over.
Escalate(r) ==
    /\ Listing("escalating")
    /\ r \in round.todo
    /\ Done(r)
    /\ \/ row[r].status = "open" /\ row' = [row EXCEPT ![r].status = "waiting_owner"]
       \/ (row[r].status # "open" \/ "get" \in Losses) /\ UNCHANGED row
    /\ UNCHANGED <<runVars, blame, mistaken, digest, told, held>>

\* The incidents the owner was not told of, with their lastSeenAt ...
ReadPending ==
    /\ Listing("escalating")
    /\ round.todo = {}
    /\ round' = [round EXCEPT !.pc = "checking",
                   !.read = {<<r, row[r].seen>> : r \in Unannounced}]
    /\ UNCHANGED <<runVars, row, blame, mistaken, digest, told, held>>

\* ... and the job's status, of a later moment (healedSince).
Healed == {m[1] : m \in {m \in round.read : task > m[2]}}

ReadTask ==
    /\ Listing("checking")
    /\ round' = [round EXCEPT !.pc = "suppressing", !.todo = Healed, !.read = {},
                   !.list = {<<m[1], "alert">> : m \in {m \in round.read : m[1] \notin Healed}}]
    /\ UNCHANGED <<runVars, row, blame, mistaken, digest, told, held>>

\* suppressIncident: closed without a message, with an incident of kind C that
\* is opened and closed on top of it.
Suppress(r) ==
    /\ Listing("suppressing")
    /\ r \in round.todo
    /\ Done(r)
    /\ \/ /\ row[r].status = "waiting_owner"
          /\ row' = [row EXCEPT ![r] = Marked(Resolved(row[r]), {"suppressed"})]
          /\ mistaken' \in {"resolved"} \cup IF "get" \in Losses THEN {"open", mistaken} ELSE {}
       \/ /\ row[r].status # "waiting_owner" \/ "get" \in Losses
          /\ UNCHANGED <<row, mistaken>>
    /\ UNCHANGED <<runVars, blame, digest, told, held>>

ReadRecovered ==
    /\ Listing("suppressing")
    /\ round.todo = {}
    /\ round' = [round EXCEPT !.pc = "sending",
                   !.list = @ \cup {<<r, "recovery">> : r \in Recovered}]
    /\ UNCHANGED <<runVars, row, blame, mistaken, digest, told, held>>

\* The list breaks off, and no message is sent: at its end, for one that breaks
\* off before leaves what this one leaves that passed the rest over.
Drop ==
    /\ "get" \in Losses
    /\ Listing("suppressing")
    /\ round.todo = {}
    /\ round' = NoRound
    /\ UNCHANGED <<runVars, row, blame, mistaken, digest, told, held>>

-----------------------------------------------------------------------------
(***************************************************************************)
(* The host script: one round at a time of each mode.                      *)
(***************************************************************************)
Acks(m) == round' = [round EXCEPT !.list = @ \ {m}, !.acks = @ \cup {m}]

\* Mutant: the script takes a message that failed for sent.
Send_AcksFailed(m) ==
    /\ Listing("sending")
    /\ m \in round.list
    /\ Acks(m)
    /\ \/ told' = told \cup {m}
       \/ "send" \in Losses /\ UNCHANGED told
    /\ UNCHANGED <<runVars, row, blame, mistaken, digest, held>>

\* A message is sent; or fails and is not acknowledged; or is one too many for
\* the day, and acknowledged without being sent.
Send(m) ==
    /\ Listing("sending")
    /\ m \in round.list
    /\ \/ Acks(m) /\ told' = told \cup {m} /\ UNCHANGED held
       \/ /\ "send" \in Losses
          /\ round' = [round EXCEPT !.list = @ \ {m}]
          /\ UNCHANGED <<told, held>>
       \/ /\ "cap" \in Losses
          /\ m[2] = "alert"
          /\ Acks(m)
          /\ held' = held \cup {m[1]}
          /\ UNCHANGED told
    /\ UNCHANGED <<runVars, row, blame, mistaken, digest>>

\* POST: the times of what was sent, whatever became of the incident since.
Post ==
    /\ Listing("sending")
    /\ round.list = {}
    /\ round' = NoRound
    /\ \/ row' = [r \in Rows |->
                    Marked(row[r], {k \in {"alert", "recovery"} : <<r, k>> \in round.acks})]
       \/ "post" \in Losses /\ UNCHANGED row
    /\ UNCHANGED <<runVars, blame, mistaken, digest, told, held>>

\* Mutant: the daily message counts on the immediate one.
Waiting_Unannounced == Unannounced

Waiting == {r \in Rows : row[r].status = "waiting_owner"}
Undigested == {r \in Rows : /\ row[r].status = "resolved"
                           /\ row[r].marks \cap {"digest", "suppressed"} = {}}

\* The daily message: what was closed since the last one, and what waits.
Digest ==
    /\ digest = {}
    /\ Undigested \cup Waiting # {}
    /\ told' = told \cup {<<r, "digest">> : r \in Undigested \cup Waiting}
    /\ digest' = Undigested
    /\ UNCHANGED <<runVars, row, blame, mistaken, round, held>>

\* Only what was closed is acknowledged.
PostDigest ==
    /\ digest # {}
    /\ digest' = {}
    /\ \/ row' = [r \in Rows |-> IF r \in digest THEN Marked(row[r], {"digest"}) ELSE row[r]]
       \/ "post" \in Losses /\ UNCHANGED row
    /\ UNCHANGED <<runVars, blame, mistaken, round, told, held>>

ListStep ==
    \/ Poll \/ ReadPending \/ ReadTask \/ ReadRecovered
    \/ \E r \in Rows : Escalate(r) \/ Suppress(r)
    \/ \E m \in Rows \X {"alert", "recovery"} : Send(m)
    \/ Post

DigestStep == Digest \/ PostDigest

IncidentNext ==
    \/ \E c \in Chains : RunStep(c)
    \/ ListStep
    \/ DigestStep
    \/ Drop

IncidentSpec == IncidentInit /\ [][IncidentNext]_incidentVars
=============================================================================
