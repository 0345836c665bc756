------------------------------ MODULE AutoProps ------------------------------
(***************************************************************************)
(* What is asked of AutoExecute: the limits the owner set for it, and that *)
(* it stays out of what people decided.                                    *)
(***************************************************************************)
EXTENDS AutoExecute, ProposalProps

PassType == [pc : {"idle", "sweeping", "judging", "approving"},
             stuck : SUBSET Proposals, queue : SUBSET Proposals,
             at : Proposals \cup {NoOne}, count : Nat,
             slots : SUBSET {Slot[p] : p \in Proposals}]

\* Every variable keeps its type, and only what is APPROVED is ever old.
AutoTypeOK ==
    /\ TypeOK
    /\ pass \in [Passes -> PassType]
    /\ holder \in Passes \cup {NoOne}
    /\ judged \subseteq Proposals /\ autoApproved \subseteq Proposals
    /\ autoToday \in Nat
    /\ old \subseteq {p \in Proposals : status[p] = "APPROVED"}

-----------------------------------------------------------------------------
\* No more approvals of SYSTEM_AUTO on one day than the owner allows, counting
\* those that failed or are still under way ("the limit is on the number of
\* attempts that were approved").
DailyLimit == autoToday <= MaxPerDay

\* Two automatic changes never hit the same campaign and column within the
\* window: they could cancel or amplify each other. The second one waits for
\* the owner, whatever became of passes, crashes and retries in between.
AutoOncePerSlot ==
    \A p, q \in Proposals :
        /\ p # q /\ Slot[p] = Slot[q]
        /\ {p, q} \subseteq {r \in Proposals : status[r] = "EXECUTED"}
        => approver[p] # SystemAuto \/ approver[q] # SystemAuto

\* A proposal that a person approved, and whose execution failed, is never
\* retried by the pass that had read it as pending before.
AutoOnlyFromPending ==
    [][\A p \in Proposals :
         approvals'[p] # approvals[p] /\ approver'[p] = SystemAuto
            => status[p] = "PENDING_APPROVAL"]_autoVars

\* "if the last approval is a person's, leave it alone": an APPROVED of a person
\* becomes FAILED only by the call in which that person approved.
PeopleAreSpared ==
    [][\A p \in Proposals :
         status[p] = "APPROVED" /\ approver[p] # SystemAuto /\ status'[p] = "FAILED"
            => \E c \in Calls : /\ call[c].pc = "recording" /\ call[c].target = p
                                /\ call[c].actor = approver[p]]_autoVars

-----------------------------------------------------------------------------
(***************************************************************************)
(* Fairness: cron starts passes, a pass goes on unless the process dies,   *)
(* the database answers in the end, time passes.                           *)
(***************************************************************************)
PassFairness ==
    /\ \A c \in Calls : WF_autoVars(CallStep(c) /\ Logged(c) /\ Touched /\ UNCHANGED <<passVars, bounds>>)
    /\ \A a \in Passes :
          /\ WF_autoVars(StartPass(a))
          /\ WF_autoVars(Gather(a))
          /\ WF_autoVars(AfterApproval(a))
          /\ WF_autoVars(EndPass(a))
          /\ \A p \in Proposals :
                /\ WF_autoVars(Sweep(a, p))
                /\ SF_autoVars(Sweep(a, p) /\ status' # status)
    /\ \A p \in Proposals : WF_autoVars(Age(p)) /\ WF_autoVars(Land(p) /\ Inbox)

FairAutoSpec == AutoSpec /\ PassFairness

\* An approval of SYSTEM_AUTO does not stay APPROVED for ever, wherever the
\* process died between tx1 and tx2: it is executed, or swept to FAILED where
\* the owner can retry it.
AutoNeverStuck ==
    \A p \in Proposals :
        status[p] = "APPROVED" /\ approver[p] = SystemAuto
            ~> ~(status[p] = "APPROVED" /\ approver[p] = SystemAuto)
=============================================================================
