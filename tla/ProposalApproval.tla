--------------------------- MODULE ProposalApproval ---------------------------
(***************************************************************************)
(* The approval inbox: rows of ActionProposal in Postgres and the handlers *)
(* of the app process that decide about them.                              *)
(*                                                                         *)
(* approveProposal takes two transactions, because a proposal cannot go    *)
(* from PENDING_APPROVAL to FAILED: tx1 moves it to APPROVED by compare    *)
(* and set, tx2 runs the write action and moves it to EXECUTED. When tx2   *)
(* fails, a third transaction records FAILED, from which it may be         *)
(* approved again. Each call of a handler is a `call' here and may be      *)
(* interrupted between any two of its database round trips.                *)
(*                                                                         *)
(* A transition without expectedFrom reads the status, checks the table of *)
(* allowed transitions, and then updates by id alone: under READ COMMITTED *)
(* that is a read and a later blind write, two steps.                      *)
(***************************************************************************)
EXTENDS Integers, FiniteSets

CONSTANTS
    Proposals,
    Actors,        \* approvers: people, and the system's own approvers
    Author,        \* createdBy of every proposal
    Calls,         \* handler calls that can be in progress at once
    Empty,         \* the proposals without an executable payload
    Fillable,      \* the create_partner proposals an approver may complete
    MaxApprovals,  \* bound on the approvals of one proposal
    Faults,        \* what may go wrong besides crashes and failing actions
    NoOne          \* no proposal, no actor, no call

\* "tx1": the reply to tx1's commit is lost; "commit": the connection breaks
\* while tx2 commits; "record": FAILED cannot be recorded; "lock": the advisory
\* lock of a long pass is lost while the pass goes on.
ASSUME FaultsAssumption == Faults \subseteq {"tx1", "commit", "record", "lock"}
ASSUME AuthorAssumption == Author \in [Proposals -> Actors]
ASSUME NoOneAssumption == NoOne \notin Proposals \cup Actors \cup Calls
ASSUME ApprovalsAssumption == MaxApprovals \in Nat

Decidable == {"PENDING_APPROVAL", "FAILED"}
Status == Decidable \cup {"ABSENT", "APPROVED", "EXECUTED", "REJECTED"}
Payloads == {"drafted", "filled"}
Active == {"executing", "failing", "recording"}     \* between tx1 and the end
Answering == {"executed", "failed", "rejected"}
Pcs == {"idle", "claiming"} \cup Active \cup Answering

VARIABLES
    status,     \* status of every proposal
    payload,    \* the payload stored with it
    approver,   \* actor of the last event that moved it to APPROVED
    approvals,  \* how many such events there are
    effects,    \* how many times its write action was committed
    inflight,   \* proposals whose tx2 the server is still committing, although
                \* the connection of its caller is gone; their rows are locked
    call        \* the handler calls in progress

store == <<status, payload, approver, approvals, effects, inflight>>
approvalVars == <<store, call>>

NoCall == [pc |-> "idle", target |-> NoOne, actor |-> NoOne,
           seen |-> "ABSENT", payload |-> "drafted", fills |-> FALSE]

ApprovalInit ==
    /\ status = [p \in Proposals |-> "ABSENT"]
    /\ payload = [p \in Proposals |-> "drafted"]
    /\ approver = [p \in Proposals |-> NoOne]
    /\ approvals = [p \in Proposals |-> 0]
    /\ effects = [p \in Proposals |-> 0]
    /\ inflight = {}
    /\ call = [c \in Calls |-> NoCall]

-----------------------------------------------------------------------------
Goto(c, pc) == call' = [call EXCEPT ![c].pc = pc]
Leave(c) == call' = [call EXCEPT ![c] = NoCall]
Move(p, to) == status' = [status EXCEPT ![p] = to]
Free(p) == p \notin inflight        \* no transaction holds the row

\* A proposal is filed, already PENDING_APPROVAL.
Create(p) ==
    /\ status[p] = "ABSENT"
    /\ Move(p, "PENDING_APPROVAL")
    /\ UNCHANGED <<payload, approver, approvals, effects, inflight, call>>

-----------------------------------------------------------------------------
(***************************************************************************)
(* approveProposal.                                                        *)
(***************************************************************************)

\* findById and the checks before tx1. A call that is refused changes nothing
\* and is left out. `expected' is {PENDING_APPROVAL} under expectedStatus. What
\* an approver fills in is merged into the payload that was just read.
Read(c, p, a, expected) ==
    /\ call[c].pc = "idle"
    /\ Author[p] # a
    /\ status[p] \in expected
    /\ \E fills \in IF p \in Fillable /\ payload[p] = "drafted" THEN BOOLEAN ELSE {FALSE} :
          call' = [call EXCEPT ![c] =
                     [pc |-> "claiming", target |-> p, actor |-> a, seen |-> status[p],
                      payload |-> IF fills THEN "filled" ELSE payload[p],
                      fills |-> fills]]
    /\ UNCHANGED store

\* Mutant: tx1 without expectedFrom.
Claimable_Allowed(c, p) == status[p] \in Decidable \cup {"APPROVED"}

\* Mutant: tx1 as a check and a blind write.
Claimable_Blind(c, p) == TRUE

\* Compare and set on the status that was read before.
Claimable(c, p) == status[p] = call[c].seen

\* tx1 commits, and its reply arrives or not; or it fails.
Approve(c) ==
    LET p == call[c].target IN
    /\ call[c].pc = "claiming"
    /\ \/ /\ Claimable(c, p)
          /\ Free(p)
          /\ approvals[p] < MaxApprovals
          /\ Move(p, "APPROVED")
          /\ approver' = [approver EXCEPT ![p] = call[c].actor]
          /\ approvals' = [approvals EXCEPT ![p] = @ + 1]
          /\ payload' = [payload EXCEPT ![p] = IF call[c].fills THEN call[c].payload ELSE @]
          /\ UNCHANGED <<effects, inflight>>
          /\ \/ Goto(c, IF p \in Empty THEN "failing" ELSE "executing")
             \/ "tx1" \in Faults /\ Leave(c)
       \/ UNCHANGED store /\ Leave(c)

Executable(p) == Free(p) /\ status[p] = "APPROVED"

\* The action and EXECUTED in one transaction.
Executed(p) ==
    /\ Move(p, "EXECUTED")
    /\ effects' = [effects EXCEPT ![p] = @ + 1]

\* tx2: committed, rolled back, or left to the server by a broken connection.
Execute(c) ==
    LET p == call[c].target IN
    /\ call[c].pc = "executing"
    /\ UNCHANGED <<payload, approver, approvals>>
    /\ \/ Executable(p) /\ Executed(p) /\ Goto(c, "executed") /\ UNCHANGED inflight
       \/ Goto(c, "failing") /\ UNCHANGED <<status, effects, inflight>>
       \/ /\ "commit" \in Faults
          /\ Executable(p)
          /\ inflight' = inflight \cup {p}
          /\ Goto(c, "failing")
          /\ UNCHANGED <<status, effects>>

\* The server finishes such a transaction, one way or the other.
Land(p) ==
    /\ p \in inflight
    /\ inflight' = inflight \ {p}
    /\ Executed(p) \/ UNCHANGED <<status, effects>>
    /\ UNCHANGED <<payload, approver, approvals, call>>

\* transition(id, "FAILED") without expectedFrom: the read and its check of the
\* table. A status other than APPROVED makes approveProposal throw.
CheckFailable(c) ==
    /\ call[c].pc = "failing"
    /\ IF status[call[c].target] = "APPROVED" THEN Goto(c, "recording") ELSE Leave(c)
    /\ UNCHANGED store

\* ... and the update by id, which waits for a transaction that holds the row.
RecordFailure(c) ==
    LET p == call[c].target IN
    /\ call[c].pc = "recording"
    /\ UNCHANGED <<payload, approver, approvals, effects, inflight>>
    /\ \/ Free(p) /\ Move(p, "FAILED") /\ Goto(c, "failed")
       \/ "record" \in Faults /\ UNCHANGED status /\ Leave(c)

\* Mutant: the next call finds what the last one left behind.
Answer_Keeps(c) ==
    /\ call[c].pc \in Answering
    /\ Goto(c, "idle")
    /\ UNCHANGED store

\* The answer, with what follows the last commit.
Answer(c) ==
    /\ call[c].pc \in Answering
    /\ Leave(c)
    /\ UNCHANGED store

-----------------------------------------------------------------------------
\* Mutant: a rejection without expectedFrom.
Reject_Any(c, p) ==
    /\ call[c].pc = "idle"
    /\ status[p] \in {"PENDING_APPROVAL", "APPROVED"}
    /\ Move(p, "REJECTED")
    /\ call' = [call EXCEPT ![c] = [NoCall EXCEPT !.pc = "rejected", !.target = p]]
    /\ UNCHANGED <<payload, approver, approvals, effects, inflight>>

\* The reject route, one compare and set.
Reject(c, p) ==
    /\ call[c].pc = "idle"
    /\ status[p] = "PENDING_APPROVAL"
    /\ Move(p, "REJECTED")
    /\ call' = [call EXCEPT ![c] = [NoCall EXCEPT !.pc = "rejected", !.target = p]]
    /\ UNCHANGED <<payload, approver, approvals, effects, inflight>>

\* The app process dies with every call in it.
Crash ==
    /\ \E c \in Calls : call[c] # NoCall
    /\ call' = [c \in Calls |-> NoCall]
    /\ UNCHANGED store

-----------------------------------------------------------------------------
CallStep(c) ==
    \/ Approve(c)
    \/ Execute(c)
    \/ CheckFailable(c)
    \/ RecordFailure(c)

\* The steps there are while no connection breaks in a commit of tx2 ...
SteadyNext ==
    \/ Crash
    \/ \E p \in Proposals : Create(p)
    \/ \E c \in Calls : CallStep(c) \/ Answer(c)
    \/ \E c \in Calls, p \in Proposals :
          \/ Reject(c, p)
          \/ \E a \in Actors : Read(c, p, a, Decidable)

\* ... and all of them.
ApprovalNext == SteadyNext \/ \E p \in Proposals : Land(p)

SteadySpec == ApprovalInit /\ [][SteadyNext]_approvalVars
ApprovalSpec == ApprovalInit /\ [][ApprovalNext]_approvalVars
=============================================================================
