---------------------------- MODULE ProposalProofs ----------------------------
(***************************************************************************)
(* Proofs about ProposalApproval, for any proposals, approvers, calls and  *)
(* number of approvals: first what holds whatever goes wrong, then what    *)
(* holds as long as no connection breaks while tx2 commits.                *)
(***************************************************************************)
EXTENDS ProposalProps, TLAPS

USE FaultsAssumption, AuthorAssumption, NoOneAssumption, ApprovalsAssumption

-----------------------------------------------------------------------------
\* A call that is not idle has a proposal.
LEMMA BusyTarget ==
    ASSUME TypeOK, NEW c \in Calls, call[c].pc # "idle"
    PROVE  call[c] \in CallType /\ call[c].target \in Proposals
BY DEF TypeOK, CallType

\* A call that goes on to another step, or ends, keeps its type.
LEMMA CallMoves ==
    ASSUME TypeOK, NEW c \in Calls, call[c].pc # "idle",
           \/ \E pc \in Pcs \ {"idle"} : Goto(c, pc)
           \/ Leave(c)
    PROVE  /\ call' \in [Calls -> CallType]
           /\ \A d \in Calls : call'[d].pc = "idle" <=> call'[d].target = NoOne
<1>1. CASE Leave(c)
  BY <1>1 DEF TypeOK, Leave, NoCall, CallType, Status, Payloads, Pcs
<1>2. CASE \E pc \in Pcs \ {"idle"} : Goto(c, pc)
  <2>1. PICK pc \in Pcs \ {"idle"} : Goto(c, pc)
    BY <1>2
  <2>2. [call[c] EXCEPT !.pc = pc] \in CallType
    BY BusyTarget, <2>1 DEF CallType
  <2> QED BY <2>1, <2>2, BusyTarget DEF TypeOK, Goto, CallType
<1> QED BY <1>1, <1>2

LEMMA InitTyped == ApprovalInit => TypeOK
BY DEF ApprovalInit, TypeOK, CallType, NoCall, Pcs, Status, Payloads

LEMMA StepTyped == TypeOK /\ [ApprovalNext]_approvalVars => TypeOK'
<1> SUFFICES ASSUME TypeOK, [ApprovalNext]_approvalVars
             PROVE  TypeOK'
  OBVIOUS
<1> USE DEF store
<1>1. CASE Crash
  BY <1>1 DEF TypeOK, Crash, CallType, NoCall, Pcs, Status, Payloads
<1>2. ASSUME NEW p \in Proposals, Create(p)
      PROVE  TypeOK'
  BY <1>2 DEF TypeOK, Create, Move, Status, Decidable
<1>3. ASSUME NEW p \in Proposals, Land(p)
      PROVE  TypeOK'
  BY <1>3 DEF TypeOK, Land, Executed, Move, Status
<1>4. ASSUME NEW c \in Calls, Approve(c)
      PROVE  TypeOK'
  <2>1. call[c] \in CallType /\ call[c].target \in Proposals
    BY <1>4, BusyTarget DEF Approve
  <2>2. /\ call' \in [Calls -> CallType]
        /\ \A d \in Calls : call'[d].pc = "idle" <=> call'[d].target = NoOne
    BY <1>4, CallMoves DEF Approve, Pcs, Active
  <2> QED BY <1>4, <2>1, <2>2 DEF TypeOK, Approve, Move, Status, CallType
<1>5. ASSUME NEW c \in Calls, Execute(c)
      PROVE  TypeOK'
  <2>1. call[c].target \in Proposals
    BY <1>5, BusyTarget DEF Execute
  <2>2. /\ call' \in [Calls -> CallType]
        /\ \A d \in Calls : call'[d].pc = "idle" <=> call'[d].target = NoOne
    BY <1>5, CallMoves DEF Execute, Pcs, Active, Answering
  <2> QED BY <1>5, <2>1, <2>2 DEF TypeOK, Execute, Executed, Move, Status
<1>6. ASSUME NEW c \in Calls, CheckFailable(c)
      PROVE  TypeOK'
  <2>1. /\ call' \in [Calls -> CallType]
        /\ \A d \in Calls : call'[d].pc = "idle" <=> call'[d].target = NoOne
    BY <1>6, CallMoves DEF CheckFailable, Pcs, Active
  <2> QED BY <1>6, <2>1 DEF TypeOK, CheckFailable
<1>7. ASSUME NEW c \in Calls, RecordFailure(c)
      PROVE  TypeOK'
  <2>1. call[c].target \in Proposals
    BY <1>7, BusyTarget DEF RecordFailure
  <2>2. /\ call' \in [Calls -> CallType]
        /\ \A d \in Calls : call'[d].pc = "idle" <=> call'[d].target = NoOne
    BY <1>7, CallMoves DEF RecordFailure, Pcs, Answering
  <2> QED BY <1>7, <2>1, <2>2 DEF TypeOK, RecordFailure, Move, Status, Decidable
<1>8. ASSUME NEW c \in Calls, Answer(c)
      PROVE  TypeOK'
  <2>1. /\ call' \in [Calls -> CallType]
        /\ \A d \in Calls : call'[d].pc = "idle" <=> call'[d].target = NoOne
    BY <1>8, CallMoves DEF Answer, Answering
  <2> QED BY <1>8, <2>1 DEF TypeOK, Answer
<1>9. ASSUME NEW c \in Calls, NEW p \in Proposals, Reject(c, p)
      PROVE  TypeOK'
  <2>1. [NoCall EXCEPT !.pc = "rejected", !.target = p] \in CallType
    BY DEF NoCall, CallType, Pcs, Answering, Status, Payloads
  <2> QED BY <1>9, <2>1 DEF TypeOK, Reject, Move, Status, NoCall, CallType
<1>10. ASSUME NEW c \in Calls, NEW p \in Proposals, NEW a \in Actors,
              Read(c, p, a, Decidable)
       PROVE  TypeOK'
  <2>1. PICK fills \in BOOLEAN :
          call' = [call EXCEPT ![c] =
                     [pc |-> "claiming", target |-> p, actor |-> a, seen |-> status[p],
                      payload |-> IF fills THEN "filled" ELSE payload[p],
                      fills |-> fills]]
    BY <1>10 DEF Read
  <2>2. call'[c] \in CallType /\ call'[c].pc # "idle" /\ call'[c].target # NoOne
    BY <2>1 DEF TypeOK, CallType, Pcs, Payloads
  <2>3. call' = [call EXCEPT ![c] = call'[c]]
    BY <2>1 DEF TypeOK
  <2>4. /\ call' \in [Calls -> CallType]
        /\ \A d \in Calls : call'[d].pc = "idle" <=> call'[d].target = NoOne
    BY <2>2, <2>3 DEF TypeOK
  <2> QED BY <1>10, <2>4 DEF TypeOK, Read
<1>11. CASE UNCHANGED approvalVars
  BY <1>11 DEF TypeOK, approvalVars
<1> QED
  BY <1>1, <1>2, <1>3, <1>4, <1>5, <1>6, <1>7, <1>8, <1>9, <1>10, <1>11
  DEF ApprovalNext, SteadyNext, CallStep

\* Every variable keeps its type in every behaviour of the inbox.
THEOREM TypeCorrect == ApprovalSpec => []TypeOK
BY InitTyped, StepTyped, PTL DEF ApprovalSpec

-----------------------------------------------------------------------------
(***************************************************************************)
(* Whatever goes wrong.                                                    *)
(***************************************************************************)

LEMMA InitSticks == ApprovalInit => ApprovalSticks
BY DEF ApprovalInit, ApprovalSticks, NoCall, Active

\* A step of one call that leaves it past its claim, or over, if the statuses
\* only move forward.
LEMMA SticksShape ==
    ASSUME TypeOK, ApprovalSticks, NEW c \in Calls, call[c].target \in Proposals,
           \A d \in Calls \ {c} : call'[d] = call[d],
           call'[c].pc # "claiming",
           call'[c].pc \in Active =>
              /\ call'[c].target = call[c].target
              /\ call[c].pc \in Active \/ status'[call[c].target] = "APPROVED",
           \A p \in Proposals : status'[p] \in {status[p], "APPROVED", "EXECUTED", "FAILED"},
           \A p \in inflight' : status'[p] = "APPROVED"
    PROVE  ApprovalSticks'
<1> DEFINE Decided == {"APPROVED", "EXECUTED", "FAILED"}
<1>1. ASSUME NEW d \in Calls, call'[d].pc = "claiming"
      PROVE  call'[d].seen \in Decidable
  BY <1>1 DEF ApprovalSticks, Decidable
<1>2. ASSUME NEW d \in Calls, call'[d].pc \in Active
      PROVE  status'[call'[d].target] \in Decided
  <2>1. CASE d = c
    <3>1. call[c].pc \in Active => status[call[c].target] \in Decided
      BY DEF ApprovalSticks
    <3> QED BY <1>2, <2>1, <3>1
  <2>2. CASE d # c
    <3>1. call'[d] = call[d]
      BY <2>2
    <3>2. call[d].pc \in Active /\ call[d].pc # "idle"
      BY <1>2, <3>1 DEF Active
    <3>3. status[call[d].target] \in Decided /\ call[d].target \in Proposals
      BY <3>2, BusyTarget DEF ApprovalSticks
    <3> QED BY <3>1, <3>3
  <2> QED BY <2>1, <2>2
<1> QED BY <1>1, <1>2 DEF ApprovalSticks, Decidable

LEMMA StepSticks == TypeOK /\ ApprovalSticks /\ [ApprovalNext]_approvalVars => ApprovalSticks'
<1> SUFFICES ASSUME TypeOK, ApprovalSticks, [ApprovalNext]_approvalVars
             PROVE  ApprovalSticks'
  OBVIOUS
<1> USE DEF store
<1>0. \A d \in Calls : call[d].pc # "idle" => call[d].target \in Proposals
  BY BusyTarget
<1>1. CASE Crash
  BY <1>1 DEF Crash, NoCall, ApprovalSticks, Active
<1>2. ASSUME NEW p \in Proposals, Create(p)
      PROVE  ApprovalSticks'
  BY <1>2, <1>0 DEF TypeOK, Create, Move, ApprovalSticks, Active
<1>3. ASSUME NEW p \in Proposals, Land(p)
      PROVE  ApprovalSticks'
  BY <1>3, <1>0 DEF TypeOK, Land, Executed, Move, ApprovalSticks, Active
<1>4. ASSUME NEW c \in Calls, Approve(c)
      PROVE  ApprovalSticks'
  <2>1. /\ call[c].target \in Proposals
        /\ call[c].pc = "claiming"
    BY <1>4, <1>0 DEF Approve, Active
  <2>2. /\ \A d \in Calls \ {c} : call'[d] = call[d]
        /\ call'[c].pc # "claiming"
        /\ call'[c].pc \in Active => /\ call'[c].target = call[c].target
                                     /\ status'[call[c].target] = "APPROVED"
    BY <1>4, <2>1
    DEF TypeOK, CallType, Approve, Move, Goto, Leave, NoCall, Free, Active
  <2>3. \A p \in Proposals :
           status'[p] \in {status[p], "APPROVED", "EXECUTED", "FAILED"}
    BY <1>4, <2>1 DEF TypeOK, Approve, Move, Goto, Leave, NoCall, Free
  <2>4. \A p \in inflight' : status'[p] = "APPROVED"
    BY <1>4, <2>1
    DEF TypeOK, Approve, Move, Goto, Leave, NoCall, Free, ApprovalSticks
  <2> QED BY <2>1, <2>2, <2>3, <2>4, SticksShape
<1>5. ASSUME NEW c \in Calls, Execute(c)
      PROVE  ApprovalSticks'
  <2>1. /\ call[c].target \in Proposals
        /\ call[c].pc \in Active
    BY <1>5, <1>0 DEF Execute, Active
  <2>2. /\ \A d \in Calls \ {c} : call'[d] = call[d]
        /\ call'[c].pc # "claiming"
        /\ call'[c].pc \in Active => call'[c].target = call[c].target
    BY <1>5, <2>1
    DEF TypeOK, CallType, Execute, Executable, Executed, Move, Goto, Free, Active
  <2>3. \A p \in Proposals :
           status'[p] \in {status[p], "APPROVED", "EXECUTED", "FAILED"}
    BY <1>5, <2>1 DEF TypeOK, Execute, Executable, Executed, Move, Goto, Free
  <2>4. \A p \in inflight' : status'[p] = "APPROVED"
    BY <1>5, <2>1
    DEF TypeOK, Execute, Executable, Executed, Move, Goto, Free, ApprovalSticks
  <2> QED BY <2>1, <2>2, <2>3, <2>4, SticksShape
<1>6. ASSUME NEW c \in Calls, CheckFailable(c)
      PROVE  ApprovalSticks'
  <2>1. /\ call[c].target \in Proposals
        /\ call[c].pc \in Active
    BY <1>6, <1>0 DEF CheckFailable, Active
  <2>2. /\ \A d \in Calls \ {c} : call'[d] = call[d]
        /\ call'[c].pc # "claiming"
        /\ call'[c].pc \in Active => call'[c].target = call[c].target
    BY <1>6, <2>1
    DEF TypeOK, CallType, CheckFailable, Goto, Leave, NoCall, Active
  <2>3. \A p \in Proposals :
           status'[p] \in {status[p], "APPROVED", "EXECUTED", "FAILED"}
    BY <1>6, <2>1 DEF TypeOK, CheckFailable, Goto, Leave, NoCall
  <2>4. \A p \in inflight' : status'[p] = "APPROVED"
    BY <1>6, <2>1 DEF TypeOK, CheckFailable, Goto, Leave, NoCall, ApprovalSticks
  <2> QED BY <2>1, <2>2, <2>3, <2>4, SticksShape
<1>7. ASSUME NEW c \in Calls, RecordFailure(c)
      PROVE  ApprovalSticks'
  <2>1. /\ call[c].target \in Proposals
        /\ call[c].pc \in Active
    BY <1>7, <1>0 DEF RecordFailure, Active
  <2>2. /\ \A d \in Calls \ {c} : call'[d] = call[d]
        /\ call'[c].pc # "claiming"
        /\ call'[c].pc \in Active => call'[c].target = call[c].target
    BY <1>7, <2>1
    DEF TypeOK, CallType, RecordFailure, Move, Goto, Leave, NoCall, Free, Active
  <2>3. \A p \in Proposals :
           status'[p] \in {status[p], "APPROVED", "EXECUTED", "FAILED"}
    BY <1>7, <2>1 DEF TypeOK, RecordFailure, Move, Goto, Leave, NoCall, Free
  <2>4. \A p \in inflight' : status'[p] = "APPROVED"
    BY <1>7, <2>1
    DEF TypeOK, RecordFailure, Move, Goto, Leave, NoCall, Free, ApprovalSticks
  <2> QED BY <2>1, <2>2, <2>3, <2>4, SticksShape
<1>8. ASSUME NEW c \in Calls, Answer(c)
      PROVE  ApprovalSticks'
  BY <1>8 DEF TypeOK, Answer, Leave, NoCall, ApprovalSticks, Active
<1>9. ASSUME NEW c \in Calls, NEW p \in Proposals, Reject(c, p)
      PROVE  ApprovalSticks'
  BY <1>9, <1>0 DEF TypeOK, Reject, Move, NoCall, ApprovalSticks, Active
<1>10. ASSUME NEW c \in Calls, NEW p \in Proposals, NEW a \in Actors,
              Read(c, p, a, Decidable)
       PROVE  ApprovalSticks'
  BY <1>10 DEF TypeOK, Read, ApprovalSticks, Active
<1>11. CASE UNCHANGED approvalVars
  BY <1>11 DEF approvalVars, ApprovalSticks, Active
<1> QED
  BY <1>1, <1>2, <1>3, <1>4, <1>5, <1>6, <1>7, <1>8, <1>9, <1>10, <1>11
  DEF ApprovalNext, SteadyNext, CallStep

\* A claim expects a decidable status, and what was once approved is not taken
\* back to a status from before.
THEOREM Sticking == ApprovalSpec => []ApprovalSticks
BY InitTyped, StepTyped, InitSticks, StepSticks, PTL DEF ApprovalSpec

\* A rejection is final, with every fault: a claim compares with a decidable
\* status, and nothing that was rejected is past its claim or in a commit.
LEMMA StepRejected ==
    ASSUME TypeOK, ApprovalSticks, [ApprovalNext]_approvalVars,
           NEW q \in Proposals, status[q] = "REJECTED"
    PROVE  status'[q] = "REJECTED" /\ effects'[q] = effects[q]
<1> USE DEF store, ApprovalSticks, Active, Decidable
<1>1. CASE Crash
  BY <1>1 DEF Crash
<1>2. ASSUME NEW p \in Proposals, Create(p) \/ Land(p)
      PROVE  status'[q] = "REJECTED" /\ effects'[q] = effects[q]
  BY <1>2 DEF TypeOK, Create, Land, Executed, Move
<1>3. ASSUME NEW c \in Calls, CallStep(c)
      PROVE  status'[q] = "REJECTED" /\ effects'[q] = effects[q]
  <2>1. CASE Approve(c)
    BY <2>1, BusyTarget DEF TypeOK, Approve, Claimable, Move
  <2>2. CASE Execute(c)
    BY <2>2, BusyTarget DEF TypeOK, Execute, Executable, Executed, Move
  <2>3. CASE CheckFailable(c)
    BY <2>3 DEF CheckFailable
  <2>4. CASE RecordFailure(c)
    BY <2>4, BusyTarget DEF TypeOK, RecordFailure, Move
  <2> QED BY <1>3, <2>1, <2>2, <2>3, <2>4 DEF CallStep
<1>4. ASSUME NEW c \in Calls, Answer(c)
      PROVE  status'[q] = "REJECTED" /\ effects'[q] = effects[q]
  BY <1>4 DEF Answer
<1>5. ASSUME NEW c \in Calls, NEW p \in Proposals,
             Reject(c, p) \/ \E a \in Actors : Read(c, p, a, Decidable)
      PROVE  status'[q] = "REJECTED" /\ effects'[q] = effects[q]
  BY <1>5 DEF TypeOK, Reject, Read, Move
<1>6. CASE UNCHANGED approvalVars
  BY <1>6 DEF approvalVars
<1> QED BY <1>1, <1>2, <1>3, <1>4, <1>5, <1>6 DEF ApprovalNext, SteadyNext

THEOREM Rejection == ApprovalSpec => RejectedStays
<1>1. TypeOK /\ ApprovalSticks /\ [ApprovalNext]_approvalVars
        => [\A p \in Proposals :
              status[p] = "REJECTED" =>
                 status'[p] = "REJECTED" /\ effects'[p] = effects[p]]_approvalVars
  BY StepRejected
<1> QED BY <1>1, TypeCorrect, Sticking, PTL DEF ApprovalSpec, RejectedStays
-----------------------------------------------------------------------------
(***************************************************************************)
(* As long as no connection breaks while tx2 commits. The exclusive claim  *)
(* makes every write start from the status its handler believes in, so     *)
(* every step is one of the lifecycle's, and the lifecycle ties the status *)
(* to the effects.                                                         *)
(***************************************************************************)
NoLostCommit == "commit" \notin Faults

LEMMA InitInv == ApprovalInit => ApprovalInv /\ ApprovalSticks
BY InitTyped, InitSticks
DEF ApprovalInit, ApprovalInv, ExclusiveApproval, StatusMatchesEffects, NoCall, Active

\* Every step is a transition of the lifecycle or leaves it alone.
LEMMA StepRefines ==
    ASSUME NoLostCommit, ApprovalInv, ApprovalSticks, [ApprovalNext]_approvalVars
    PROVE  [LC!LifecycleNext]_(LC!lifecycleVars)
<1> USE DEF store, LC!lifecycleVars
<1>1. ASSUME NEW p \in Proposals, NEW to, <<status[p], to>> \in LC!Allowed,
             Move(p, to),
             effects' = IF to = "EXECUTED" THEN [effects EXCEPT ![p] = 1] ELSE effects
      PROVE  LC!LifecycleNext
  BY <1>1 DEF LC!LifecycleNext, LC!Transition, Move
<1>2. CASE Crash
  BY <1>2 DEF Crash
<1>3. ASSUME NEW p \in Proposals, Create(p)
      PROVE  LC!LifecycleNext
  BY <1>1, <1>3 DEF Create, LC!Allowed
<1>4. ASSUME NEW p \in Proposals, Land(p)
      PROVE  FALSE
  BY <1>4 DEF Land, ApprovalInv
<1>5. ASSUME NEW c \in Calls, CallStep(c)
      PROVE  LC!LifecycleNext \/ UNCHANGED LC!lifecycleVars
  <2> DEFINE p == call[c].target
  <2>1. p \in Proposals /\ effects[p] = IF status[p] = "EXECUTED" THEN 1 ELSE 0
    BY <1>5, BusyTarget
    DEF ApprovalInv, StatusMatchesEffects, CallStep, Approve, Execute, CheckFailable,
        RecordFailure
  <2>2. CASE Approve(c)
    <3>1. call[c].seen \in Decidable
      BY <2>2 DEF Approve, ApprovalSticks
    <3>2. CASE UNCHANGED store
      BY <3>2
    <3>3. CASE Claimable(c, p) /\ Move(p, "APPROVED") /\ UNCHANGED effects
      BY <1>1, <2>1, <3>1, <3>3 DEF Claimable, Decidable, LC!Allowed
    <3> QED BY <2>2, <3>2, <3>3 DEF Approve
  <2>3. CASE Execute(c)
    <3>1. CASE UNCHANGED <<status, effects>>
      BY <3>1
    <3>2. CASE Executable(p) /\ Executed(p)
      <4>1. status[p] = "APPROVED" /\ effects[p] = 0
        BY <2>1, <3>2 DEF Executable
      <4>2. effects' = [effects EXCEPT ![p] = 1]
        BY <3>2, <4>1 DEF Executed
      <4>3. <<status[p], "EXECUTED">> \in LC!Allowed
        BY <4>1 DEF LC!Allowed
      <4>4. Move(p, "EXECUTED")
        BY <3>2 DEF Executed
      <4> QED BY <1>1, <2>1, <4>2, <4>3, <4>4
    <3> QED BY <2>3, <3>1, <3>2 DEF Execute
  <2>4. CASE CheckFailable(c)
    BY <2>4 DEF CheckFailable
  <2>5. CASE RecordFailure(c)
    <3>1. status[p] = "APPROVED"
      BY <2>5 DEF RecordFailure, ApprovalInv, ExclusiveApproval, Active
    <3> QED BY <1>1, <2>1, <2>5, <3>1 DEF RecordFailure, LC!Allowed
  <2> QED BY <1>5, <2>2, <2>3, <2>4, <2>5 DEF CallStep
<1>6. ASSUME NEW c \in Calls, Answer(c)
      PROVE  UNCHANGED LC!lifecycleVars
  BY <1>6 DEF Answer
<1>7. ASSUME NEW c \in Calls, NEW p \in Proposals, Reject(c, p)
      PROVE  LC!LifecycleNext
  BY <1>1, <1>7 DEF Reject, LC!Allowed
<1>8. ASSUME NEW c \in Calls, NEW p \in Proposals, NEW a \in Actors,
             Read(c, p, a, Decidable)
      PROVE  UNCHANGED LC!lifecycleVars
  BY <1>8 DEF Read
<1>9. CASE UNCHANGED approvalVars
  BY <1>9 DEF approvalVars
<1> QED BY <1>2, <1>3, <1>4, <1>5, <1>6, <1>7, <1>8, <1>9 DEF ApprovalNext, SteadyNext

\* The lifecycle has the effect in the step to EXECUTED, and no step from there.
LEMMA StepMatches ==
    ASSUME TypeOK, StatusMatchesEffects, [LC!LifecycleNext]_(LC!lifecycleVars)
    PROVE  StatusMatchesEffects'
<1>1. CASE UNCHANGED LC!lifecycleVars
  BY <1>1 DEF LC!lifecycleVars, StatusMatchesEffects
<1>2. ASSUME NEW p \in Proposals, NEW to, LC!Transition(p, to)
      PROVE  StatusMatchesEffects'
  BY <1>2 DEF LC!Transition, LC!Allowed, StatusMatchesEffects, TypeOK
<1> QED BY <1>1, <1>2 DEF LC!LifecycleNext

\* The claim is exclusive: it starts from a decidable status, where no call is
\* between tx1 and the end, and only the call that has it takes it away.
LEMMA StepExclusive ==
    ASSUME NoLostCommit, ApprovalInv, ApprovalSticks, [ApprovalNext]_approvalVars
    PROVE  ExclusiveApproval' /\ inflight' = {}
<1> USE DEF store
<1>0. \A d \in Calls : call[d].pc # "idle" => call[d].target \in Proposals
  BY BusyTarget DEF ApprovalInv
<1>1. CASE Crash
  BY <1>1 DEF Crash, NoCall, ExclusiveApproval, Active, ApprovalInv
<1>2. ASSUME NEW p \in Proposals, Create(p)
      PROVE  ExclusiveApproval' /\ inflight' = {}
  BY <1>2, <1>0 DEF Create, Move, ExclusiveApproval, Active, ApprovalInv, TypeOK
<1>3. ASSUME NEW p \in Proposals, Land(p)
      PROVE  FALSE
  BY <1>3 DEF Land, ApprovalInv
<1>4. ASSUME NEW c \in Calls, CallStep(c)
      PROVE  ExclusiveApproval' /\ inflight' = {}
  <2> DEFINE p == call[c].target
  <2>1. /\ p \in Proposals
        /\ call[c].pc \in Active \cup {"claiming"}
        /\ inflight' = {}
        /\ \A d \in Calls \ {c} : call'[d] = call[d]
        /\ call'[c].pc \in Active => call'[c].target = p
    BY <1>4, <1>0
    DEF CallStep, Approve, Execute, CheckFailable, RecordFailure, Active, ApprovalInv,
        NoLostCommit, Goto, Leave, NoCall, TypeOK, CallType
  <2>2. CASE /\ UNCHANGED status
             /\ call'[c].pc \in Active => call[c].pc \in Active
    BY <2>1, <2>2, <1>0 DEF ExclusiveApproval, ApprovalInv
  <2>3. ASSUME NEW to, Move(p, to),
               \A d \in Calls \ {c} : call[d].pc \in Active => call[d].target # p,
               call'[c].pc \in Active => to = "APPROVED"
        PROVE  ExclusiveApproval'
    <3>1. ASSUME NEW d \in Calls, call'[d].pc \in Active
          PROVE  status'[call'[d].target] = "APPROVED"
      <4>1. CASE d = c
        BY <2>1, <2>3, <3>1, <4>1 DEF Move, ApprovalInv, TypeOK
      <4>2. CASE d # c
        BY <2>1, <2>3, <3>1, <4>2, <1>0
        DEF Move, ApprovalInv, TypeOK, ExclusiveApproval, Active
      <4> QED BY <4>1, <4>2
    <3>2. ASSUME NEW d \in Calls, NEW e \in Calls \ {d},
                 call'[d].pc \in Active, call'[e].pc \in Active
          PROVE  call'[e].target # call'[d].target
      BY <2>1, <2>3, <3>2 DEF ApprovalInv, ExclusiveApproval
    <3> QED BY <3>1, <3>2 DEF ExclusiveApproval
  <2>4. CASE Approve(c)
    <3>1. CASE UNCHANGED store /\ Leave(c)
      BY <2>2, <2>1, <3>1 DEF Leave, NoCall, Active, ApprovalInv, TypeOK
    <3>2. CASE Claimable(c, p) /\ Move(p, "APPROVED")
      <4>1. status[p] # "APPROVED"
        BY <2>4, <3>2 DEF Approve, Claimable, ApprovalSticks, Decidable
      <4> QED BY <2>1, <2>3, <3>2, <4>1 DEF ApprovalInv, ExclusiveApproval
    <3> QED BY <2>4, <3>1, <3>2 DEF Approve
  <2>5. CASE Execute(c)
    <3>1. CASE UNCHANGED status
      BY <2>1, <2>2, <2>5, <3>1 DEF Execute, Active
    <3>2. CASE Executed(p) /\ Goto(c, "executed")
      <4>1. call'[c].pc \notin Active
        BY <3>2 DEF Goto, Active, ApprovalInv, TypeOK, CallType
      <4>2. \A d \in Calls \ {c} : call[d].pc \in Active => call[d].target # p
        BY <2>5 DEF Execute, Active, ApprovalInv, ExclusiveApproval
      <4> QED BY <2>1, <2>3, <3>2, <4>1, <4>2 DEF Executed
    <3> QED BY <2>5, <3>1, <3>2 DEF Execute
  <2>6. CASE CheckFailable(c)
    BY <2>1, <2>2, <2>6 DEF CheckFailable, Active
  <2>7. CASE RecordFailure(c)
    <3>1. CASE UNCHANGED status
      BY <2>1, <2>2, <2>7, <3>1 DEF RecordFailure, Active
    <3>2. CASE Move(p, "FAILED") /\ Goto(c, "failed")
      <4>1. call'[c].pc \notin Active
        BY <3>2 DEF Goto, Active, ApprovalInv, TypeOK, CallType
      <4>2. \A d \in Calls \ {c} : call[d].pc \in Active => call[d].target # p
        BY <2>7 DEF RecordFailure, Active, ApprovalInv, ExclusiveApproval
      <4> QED BY <2>1, <2>3, <3>2, <4>1, <4>2
    <3> QED BY <2>7, <3>1, <3>2 DEF RecordFailure
  <2> QED BY <1>4, <2>1, <2>4, <2>5, <2>6, <2>7 DEF CallStep
<1>5. ASSUME NEW c \in Calls, Answer(c)
      PROVE  ExclusiveApproval' /\ inflight' = {}
  BY <1>5 DEF Answer, Leave, NoCall, ExclusiveApproval, Active, ApprovalInv, TypeOK
<1>6. ASSUME NEW c \in Calls, NEW p \in Proposals, Reject(c, p)
      PROVE  ExclusiveApproval' /\ inflight' = {}
  BY <1>6, <1>0 DEF Reject, Move, NoCall, ExclusiveApproval, Active, ApprovalInv, TypeOK
<1>7. ASSUME NEW c \in Calls, NEW p \in Proposals, NEW a \in Actors,
             Read(c, p, a, Decidable)
      PROVE  ExclusiveApproval' /\ inflight' = {}
  BY <1>7 DEF Read, ExclusiveApproval, Active, ApprovalInv, TypeOK
<1>8. CASE UNCHANGED approvalVars
  BY <1>8 DEF approvalVars, ExclusiveApproval, ApprovalInv
<1> QED BY <1>1, <1>2, <1>3, <1>4, <1>5, <1>6, <1>7, <1>8 DEF ApprovalNext, SteadyNext

LEMMA StepInv ==
    NoLostCommit /\ ApprovalInv /\ ApprovalSticks /\ [ApprovalNext]_approvalVars
       => (ApprovalInv /\ ApprovalSticks)'
BY StepTyped, StepSticks, StepRefines, StepMatches, StepExclusive DEF ApprovalInv

\* The invariant of the inbox without lost commits.
LEMMA Invariance ==
    ASSUME NoLostCommit
    PROVE  ApprovalSpec => [](ApprovalInv /\ ApprovalSticks)
BY InitInv, StepInv, PTL DEF ApprovalSpec

\* One call at a time is between tx1 and the end with a proposal.
THEOREM Exclusive ==
    ASSUME NoLostCommit
    PROVE  ApprovalSpec => []ExclusiveApproval
<1>1. ApprovalInv => ExclusiveApproval
  BY DEF ApprovalInv
<1> QED BY <1>1, Invariance, PTL

\* The write action took effect once if the proposal is EXECUTED, else never.
THEOREM Matching ==
    ASSUME NoLostCommit
    PROVE  ApprovalSpec => []StatusMatchesEffects
<1>1. ApprovalInv => StatusMatchesEffects
  BY DEF ApprovalInv
<1> QED BY <1>1, Invariance, PTL

\* A proposal is executed at most once, unless a connection breaks during the
\* commit of tx2: the run of that fault shows that the condition is needed.
THEOREM Once ==
    ASSUME NoLostCommit
    PROVE  ApprovalSpec => []ExecutedOnce
<1>1. ApprovalInv => ExecutedOnce
  BY DEF ApprovalInv, StatusMatchesEffects, ExecutedOnce
<1> QED BY <1>1, Invariance, PTL

LEMMA InitRefines == ApprovalInit => LC!LifecycleInit
BY DEF ApprovalInit, LC!LifecycleInit

\* The handlers implement the lifecycle.
THEOREM Refinement ==
    ASSUME NoLostCommit
    PROVE  ApprovalSpec => ImplementsLifecycle
<1>1. ApprovalInv /\ ApprovalSticks /\ [ApprovalNext]_approvalVars
        => [LC!LifecycleNext]_(LC!lifecycleVars)
  BY StepRefines
<1> QED BY <1>1, InitRefines, Invariance, PTL
        DEF ApprovalSpec, ImplementsLifecycle, LC!Lifecycle
=============================================================================
