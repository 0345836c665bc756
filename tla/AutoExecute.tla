----------------------------- MODULE AutoExecute -----------------------------
(***************************************************************************)
(* The automatic executor of settlement amount proposals, next to the      *)
(* people who decide in the same inbox (ProposalApproval).                 *)
(*                                                                         *)
(* Every two minutes a pass takes an advisory lock that a long transaction *)
(* holds, sweeps its own approvals that got stuck, reads the pending       *)
(* proposals, today's count and the slots (campaign and column) changed    *)
(* lately, and then judges the proposals one by one, approving the         *)
(* eligible ones through approveProposal. The judgement itself - payload,  *)
(* limits, the Slack message - is any verdict here. The order of the       *)
(* candidates is any order, and the budget may end a pass between two.     *)
(***************************************************************************)
EXTENDS ProposalApproval

CONSTANTS
    Passes,        \* passes; each uses the call of the same name
    SystemAuto,    \* SYSTEM_AUTO
    Slot,          \* campaign and column a proposal changes
    MaxPerDay,     \* AGENT_AUTO_EXECUTE_MAX_PER_DAY
    MaxDays,       \* bound on midnights
    MaxCrashes     \* bound on crashes

ASSUME PassesAssumption == Passes \subseteq Calls /\ SystemAuto \in Actors
ASSUME LimitsAssumption == MaxPerDay \in Nat /\ MaxDays \in Nat /\ MaxCrashes \in Nat

People == Actors \ {SystemAuto}

VARIABLES
    pass,          \* the passes in progress
    holder,        \* the pass that holds the advisory lock
    judged,        \* proposals with a final verdict on record
    autoApproved,  \* proposals with an approval event of SYSTEM_AUTO
    autoToday,     \* how many such events are of today
    old,           \* APPROVED for longer than STUCK_APPROVED_MS
    days, crashes  \* the bounds' counters

passVars == <<pass, holder, judged>>
history == <<autoApproved, autoToday>>
bounds == <<days, crashes>>
autoVars == <<approvalVars, passVars, history, old, bounds>>

NoPass == [pc |-> "idle", stuck |-> {}, queue |-> {}, at |-> NoOne,
           count |-> 0, slots |-> {}]

AutoInit ==
    /\ ApprovalInit
    /\ pass = [a \in Passes |-> NoPass]
    /\ holder = NoOne
    /\ judged = {}
    /\ autoApproved = {}
    /\ autoToday = 0
    /\ old = {}
    /\ days = 0 /\ crashes = 0

-----------------------------------------------------------------------------
\* What a step of approveProposal leaves in the event log.
Logged(c) ==
    IF approvals' # approvals /\ call[c].actor = SystemAuto
    THEN /\ autoApproved' = autoApproved \cup {call[c].target}
         /\ autoToday' = autoToday + 1
    ELSE UNCHANGED history

\* Mutant: updatedAt is left alone.
Touched_Never == UNCHANGED old

\* updatedAt starts anew with every change of a proposal.
Touched == old' = {p \in old : status'[p] = status[p] /\ approvals'[p] = approvals[p]}

\* The steps of the inbox that are not the pass's own.
Inbox ==
    /\ \/ \E p \in Proposals : (Create(p) \/ Land(p)) /\ UNCHANGED history
       \/ \E c \in Calls : CallStep(c) /\ Logged(c)
       \/ \E c \in Calls \ Passes : Answer(c) /\ UNCHANGED history
       \/ \E c \in Calls \ Passes, p \in Proposals :
             /\ Reject(c, p) \/ \E a \in People : Read(c, p, a, Decidable)
             /\ UNCHANGED history
    /\ Touched
    /\ UNCHANGED <<passVars, bounds>>

-----------------------------------------------------------------------------
(***************************************************************************)
(* One pass.                                                               *)
(***************************************************************************)

\* Mutant: every stuck approval, a person's as well.
Stuck_Everyone == {p \in old : status[p] = "APPROVED"}

\* Proposals whose last approval is SYSTEM_AUTO's and long ago.
Stuck == {p \in old : status[p] = "APPROVED" /\ approver[p] = SystemAuto}

\* A pass that finds the lock taken does nothing.
StartPass(a) ==
    /\ pass[a].pc = "idle"
    /\ call[a].pc = "idle"
    /\ holder = NoOne
    /\ holder' = a
    /\ pass' = [pass EXCEPT ![a] = [NoPass EXCEPT !.pc = "sweeping", !.stuck = Stuck]]
    /\ UNCHANGED <<approvalVars, judged, history, old, bounds>>

\* One stuck approval: APPROVED -> FAILED by compare and set on the status.
Sweep(a, p) ==
    /\ pass[a].pc = "sweeping"
    /\ p \in pass[a].stuck
    /\ pass' = [pass EXCEPT ![a].stuck = @ \ {p}]
    /\ \/ status[p] = "APPROVED" /\ Free(p) /\ Move(p, "FAILED")
       \/ (status[p] # "APPROVED" \/ "record" \in Faults) /\ UNCHANGED status
    /\ UNCHANGED <<payload, approver, approvals, effects, inflight, call,
                   holder, judged, history, bounds>>
    /\ Touched

\* Slots that SYSTEM_AUTO changed or may still be changing.
Recent == {Slot[p] : p \in {q \in autoApproved : status[q] \in {"APPROVED", "EXECUTED"}}}

\* The candidates, today's count and the recent slots are read once.
Gather(a) ==
    /\ pass[a].pc = "sweeping"
    /\ pass[a].stuck = {}
    /\ pass' = [pass EXCEPT ![a] =
                  [@ EXCEPT !.pc = "judging",
                            !.queue = {p \in Proposals : status[p] = "PENDING_APPROVAL"} \ judged,
                            !.count = autoToday,
                            !.slots = Recent]]
    /\ UNCHANGED <<approvalVars, holder, judged, history, old, bounds>>

\* Mutant: a candidate that failed meanwhile is approved as well.
Expected_Any == Decidable

Expected == {"PENDING_APPROVAL"}

Rest(a, p) == [pass[a] EXCEPT !.queue = @ \ {p}]

\* One candidate: a final verdict on record, a verdict to be seen again, or an
\* approval on the status of the moment.
Judge(a, p) ==
    /\ pass[a].pc = "judging"
    /\ p \in pass[a].queue
    /\ \/ /\ judged' = judged \cup {p}
          /\ pass' = [pass EXCEPT ![a] = Rest(a, p)]
          /\ UNCHANGED approvalVars
       \/ /\ pass' = [pass EXCEPT ![a] = Rest(a, p)]
          /\ UNCHANGED <<approvalVars, judged>>
       \/ /\ Slot[p] \notin pass[a].slots
          /\ pass[a].count < MaxPerDay
          /\ Read(a, p, SystemAuto, Expected)
          /\ pass' = [pass EXCEPT ![a] = [Rest(a, p) EXCEPT !.pc = "approving", !.at = p]]
          /\ UNCHANGED judged
    /\ UNCHANGED <<holder, history, old, bounds>>

\* Mutant: only a successful execution is counted.
Counts_Executed == {"executed"}

Counts == {"executed", "failed"}

\* Mutant: the slots of this pass are those it read at its start.
Marks_Never == {}

Marks == {"executed"}

\* What approveProposal answered. A refusal, and an exception, count nothing.
AfterApproval(a) ==
    LET answer == call[a].pc IN
    /\ pass[a].pc = "approving"
    /\ answer \in Answering \cup {"idle"}
    /\ IF answer = "idle" THEN UNCHANGED approvalVars ELSE Answer(a)
    /\ pass' = [pass EXCEPT ![a] =
                  [pass[a] EXCEPT !.pc = "judging", !.at = NoOne,
                            !.count = IF answer \in Counts THEN @ + 1 ELSE @,
                            !.slots = IF answer \in Marks THEN @ \cup {Slot[pass[a].at]} ELSE @]]
    /\ UNCHANGED <<holder, judged, history, old, bounds>>

\* Mutant: a lock of the session, which outlives the transaction.
EndPass_KeepsLock(a) ==
    /\ pass[a].pc = "judging"
    /\ pass' = [pass EXCEPT ![a] = NoPass]
    /\ UNCHANGED <<approvalVars, holder, judged, history, old, bounds>>

\* The queue is empty, or the pass ran out of its budget.
EndPass(a) ==
    /\ pass[a].pc = "judging"
    /\ pass' = [pass EXCEPT ![a] = NoPass]
    /\ holder' = IF holder = a THEN NoOne ELSE holder
    /\ UNCHANGED <<approvalVars, judged, history, old, bounds>>

PassStep(a) ==
    \/ StartPass(a)
    \/ Gather(a)
    \/ AfterApproval(a)
    \/ EndPass(a)
    \/ \E p \in Proposals : Sweep(a, p) \/ Judge(a, p)

-----------------------------------------------------------------------------
\* The lock's transaction times out, or loses its connection, under a pass that
\* is still going on.
LoseLock ==
    /\ "lock" \in Faults
    /\ holder # NoOne
    /\ holder' = NoOne
    /\ UNCHANGED <<approvalVars, pass, judged, history, old, bounds>>

Age(p) ==
    /\ status[p] = "APPROVED"
    /\ p \notin old
    /\ old' = old \cup {p}
    /\ UNCHANGED <<approvalVars, passVars, history, bounds>>

NewDay ==
    /\ days < MaxDays
    /\ days' = days + 1
    /\ autoToday' = 0
    /\ UNCHANGED <<approvalVars, passVars, autoApproved, old, crashes>>

Restart ==
    /\ crashes < MaxCrashes
    /\ crashes' = crashes + 1
    /\ call' = [c \in Calls |-> NoCall]
    /\ pass' = [a \in Passes |-> NoPass]
    /\ holder' = NoOne
    /\ UNCHANGED <<store, judged, history, old, days>>

AutoNext ==
    \/ Inbox
    \/ \E a \in Passes : PassStep(a)
    \/ LoseLock
    \/ \E p \in Proposals : Age(p)
    \/ NewDay
    \/ Restart

AutoSpec == AutoInit /\ [][AutoNext]_autoVars
=============================================================================
