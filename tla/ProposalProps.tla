----------------------------- MODULE ProposalProps -----------------------------
(***************************************************************************)
(* What is asked of ProposalApproval: its invariants, the refinement of    *)
(* ProposalLifecycle, and the promises of its comments.                    *)
(***************************************************************************)
EXTENDS ProposalApproval

CallType == [pc : Pcs, target : Proposals \cup {NoOne}, actor : Actors \cup {NoOne},
             seen : Status, payload : Payloads, fills : BOOLEAN]

\* Every variable keeps its type, and a call that is over leaves nothing.
TypeOK ==
    /\ status \in [Proposals -> Status]
    /\ payload \in [Proposals -> Payloads]
    /\ approver \in [Proposals -> Actors \cup {NoOne}]
    /\ approvals \in [Proposals -> 0 .. MaxApprovals]
    /\ effects \in [Proposals -> Nat]
    /\ inflight \subseteq Proposals
    /\ call \in [Calls -> CallType]
    /\ \A c \in Calls : call[c].pc = "idle" <=> call[c].target = NoOne

-----------------------------------------------------------------------------
\* tx1 claims a proposal for one call: until that call is over nobody else is
\* between tx1 and the end with the same proposal, and it stays APPROVED. This
\* is what lets tx2 and the FAILED record trust the status.
ExclusiveApproval ==
    \A c \in Calls : call[c].pc \in Active =>
        /\ status[call[c].target] = "APPROVED"
        /\ \A d \in Calls \ {c} :
              call[d].pc \in Active => call[d].target # call[c].target

\* The write action of a proposal took effect once if it is EXECUTED and never
\* otherwise, so that a retry of a FAILED proposal repeats nothing: there is no
\* mismatch between status and database.
StatusMatchesEffects ==
    \A p \in Proposals : effects[p] = IF status[p] = "EXECUTED" THEN 1 ELSE 0

\* The inductive invariant of the fault-free handlers.
ApprovalInv ==
    /\ TypeOK
    /\ ExclusiveApproval
    /\ StatusMatchesEffects
    /\ inflight = {}

\* What holds of the status whatever goes wrong: a claim expects a decidable
\* status, and a proposal that was once approved is not taken back to a status
\* from before, by a call or by a commit that is still under way.
ApprovalSticks ==
    /\ \A c \in Calls :
          /\ call[c].pc = "claiming" => call[c].seen \in Decidable
          /\ call[c].pc \in Active =>
                status[call[c].target] \in {"APPROVED", "EXECUTED", "FAILED"}
    /\ \A p \in inflight : status[p] = "APPROVED"

LC == INSTANCE ProposalLifecycle WITH stage <- status

\* Handlers that overlap and crash still move every proposal along the table of
\* allowed transitions, with its effect in the step to EXECUTED.
ImplementsLifecycle == LC!Lifecycle

\* A rejection is final, whatever an approval that was under way does, also
\* when commits are lost: a rejected proposal is never executed.
RejectedStays ==
    [][\A p \in Proposals :
         status[p] = "REJECTED" => status'[p] = "REJECTED" /\ effects'[p] = effects[p]]_approvalVars

-----------------------------------------------------------------------------
\* "an EXECUTED proposal is not executed again" (bulk-approve/route.ts).
ExecutedOnce == \A p \in Proposals : effects[p] <= 1

\* "a retry runs with the same values" (approve-proposal.ts): what tx2 executes
\* is the payload that is stored with the proposal.
ExecutesWhatIsStored ==
    [][\A c \in Calls :
         call[c].pc = "executing" /\ call'[c].pc = "executed" =>
            call[c].payload = payload[call[c].target]]_approvalVars
=============================================================================
