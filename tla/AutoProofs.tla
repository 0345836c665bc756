------------------------------ MODULE AutoProofs ------------------------------
(***************************************************************************)
(* Theorems about AutoExecute, for any proposals, people, passes, limits,  *)
(* days and crashes. A pass decides through the calls of the inbox, and a  *)
(* sweep is the only step of its own that writes a status, so that the     *)
(* proofs about ProposalApproval carry over.                               *)
(***************************************************************************)
EXTENDS AutoProps, ProposalProofs

USE NoOneAssumption, ApprovalsAssumption, PassesAssumption, LimitsAssumption

-----------------------------------------------------------------------------
(***************************************************************************)
(* Whatever goes wrong.                                                    *)
(***************************************************************************)

\* SYSTEM_AUTO decides only through the call of a pass, and the call of a pass
\* is its own; its approvals are in the log.
OwnCalls ==
    /\ \A c \in Calls : call[c].actor = SystemAuto =>
          /\ c \in Passes
          /\ call[c].pc = "claiming" => call[c].seen = "PENDING_APPROVAL"
    /\ \A a \in Passes : call[a].pc # "idle" =>
          /\ call[a].actor = SystemAuto
          /\ call[a].pc # "rejected"
          /\ pass[a].pc = "approving"
          /\ pass[a].at = call[a].target
    /\ \A p \in Proposals : approver[p] = SystemAuto => p \in autoApproved
    /\ \A a \in Passes : pass[a].pc = "approving" => pass[a].at \in Proposals

\* A step of the system is one of the inbox, or a sweep.
LEMMA InboxOrSweep ==
    ASSUME TypeOK, [AutoNext]_autoVars
    PROVE  \/ [ApprovalNext]_approvalVars
           \/ \E a \in Passes, p \in Proposals : Sweep(a, p)
<1>1. CASE Inbox
  <2>1. CASE \E p \in Proposals : Create(p) \/ Land(p)
    BY <2>1 DEF ApprovalNext, SteadyNext
  <2>2. CASE \E c \in Calls : CallStep(c) \/ Answer(c)
    BY <2>2 DEF ApprovalNext, SteadyNext
  <2>3. CASE \E c \in Calls, p \in Proposals :
                Reject(c, p) \/ \E a \in People : Read(c, p, a, Decidable)
    BY <2>3 DEF ApprovalNext, SteadyNext, People
  <2> QED BY <1>1, <2>1, <2>2, <2>3 DEF Inbox
<1>2. ASSUME NEW a \in Passes, PassStep(a)
      PROVE  \/ [ApprovalNext]_approvalVars
             \/ \E p \in Proposals : Sweep(a, p)
  <2>1. CASE StartPass(a) \/ Gather(a) \/ EndPass(a)
    BY <2>1 DEF StartPass, Gather, EndPass
  <2>2. CASE AfterApproval(a)
    BY <2>2 DEF AfterApproval, ApprovalNext, SteadyNext
  <2>3. ASSUME NEW p \in Proposals, Judge(a, p)
        PROVE  [ApprovalNext]_approvalVars
    <3>1. CASE UNCHANGED approvalVars
      BY <3>1
    <3>2. CASE Read(a, p, SystemAuto, Expected)
      <4>1. Read(a, p, SystemAuto, Decidable)
        BY <3>2 DEF Read, Expected, Decidable
      <4>2. \E c \in Calls, q \in Proposals :
               Reject(c, q) \/ \E b \in Actors : Read(c, q, b, Decidable)
        BY <4>1
      <4> QED BY <4>2 DEF ApprovalNext, SteadyNext
    <3>3. UNCHANGED approvalVars \/ Read(a, p, SystemAuto, Expected)
      BY <2>3 DEF Judge
    <3> QED BY <3>1, <3>2, <3>3
  <2> QED BY <1>2, <2>1, <2>2, <2>3 DEF PassStep
<1>3. CASE LoseLock \/ NewDay \/ \E p \in Proposals : Age(p)
  BY <1>3 DEF LoseLock, NewDay, Age
<1>4. CASE Restart
  <2>1. CASE \E c \in Calls : call[c] # NoCall
    <3>1. Crash
      BY <1>4, <2>1 DEF Restart, Crash
    <3> QED BY <3>1 DEF ApprovalNext, SteadyNext
  <2>2. CASE \A c \in Calls : call[c] = NoCall
    <3>1. call' = call /\ UNCHANGED store
      BY <1>4, <2>2 DEF Restart, TypeOK
    <3> QED BY <3>1 DEF approvalVars
  <2> QED BY <2>1, <2>2
<1>5. CASE UNCHANGED autoVars
  BY <1>5 DEF autoVars
<1> QED BY <1>1, <1>2, <1>3, <1>4, <1>5 DEF AutoNext

\* A sweep takes an APPROVED back to FAILED, or leaves the statuses alone.
LEMMA SweepEffect ==
    ASSUME TypeOK, NEW a \in Passes, NEW p \in Proposals, Sweep(a, p)
    PROVE  /\ UNCHANGED <<payload, approver, approvals, effects, inflight, call>>
           /\ p \in pass[a].stuck
           /\ \/ UNCHANGED status
              \/ /\ status[p] = "APPROVED"
                 /\ p \notin inflight
                 /\ status' = [status EXCEPT ![p] = "FAILED"]
BY DEF Sweep, Move, Free

LEMMA SweepTyped ==
    ASSUME TypeOK, NEW a \in Passes, NEW p \in Proposals, Sweep(a, p)
    PROVE  TypeOK'
BY SweepEffect DEF TypeOK, Status, Decidable

LEMMA AutoStepTyped ==
    ASSUME TypeOK, [AutoNext]_autoVars
    PROVE  TypeOK'
BY InboxOrSweep, StepTyped, SweepTyped

\* An APPROVED that is not old, or that changed, is not old.
LEMMA StepTouched ==
    ASSUME AutoTypeOK, TypeOK', [AutoNext]_autoVars
    PROVE  old' \subseteq {p \in Proposals : status'[p] = "APPROVED"}
<1>1. CASE Touched
  BY <1>1 DEF Touched, AutoTypeOK
<1>2. CASE UNCHANGED <<status, old>>
  BY <1>2 DEF AutoTypeOK
<1>3. ASSUME NEW p \in Proposals, Age(p)
      PROVE  old' \subseteq {q \in Proposals : status'[q] = "APPROVED"}
  BY <1>3 DEF Age, approvalVars, store, AutoTypeOK
<1>4. ASSUME NEW a \in Passes, PassStep(a)
      PROVE  Touched \/ UNCHANGED <<status, old>>
  BY <1>4 DEF PassStep, StartPass, Gather, AfterApproval, EndPass, Sweep, Judge, Read,
              Answer, approvalVars, store
<1> QED
  BY <1>1, <1>2, <1>3, <1>4
  DEF AutoNext, Inbox, LoseLock, NewDay, Restart, autoVars, approvalVars, store

\* The passes, and what the log tells.
LEMMA StepPassTyped ==
    ASSUME AutoTypeOK, OwnCalls, [AutoNext]_autoVars
    PROVE  /\ pass' \in [Passes -> PassType]
           /\ holder' \in Passes \cup {NoOne}
           /\ judged' \subseteq Proposals
           /\ autoApproved' \subseteq Proposals
           /\ autoToday' \in Nat
<1> USE DEF AutoTypeOK
<1>1. CASE Inbox
  <2>1. UNCHANGED passVars
    BY <1>1 DEF Inbox
  <2>2. UNCHANGED history \/ \E c \in Calls : CallStep(c) /\ Logged(c)
    BY <1>1 DEF Inbox
  <2>3. ASSUME NEW c \in Calls, CallStep(c), Logged(c)
        PROVE  autoApproved' \subseteq Proposals /\ autoToday' \in Nat
    <3>1. call[c].target \in Proposals
      BY <2>3, BusyTarget DEF CallStep, Approve, Execute, CheckFailable, RecordFailure
    <3> QED BY <2>3, <3>1 DEF Logged, history
  <2> QED BY <2>1, <2>2, <2>3 DEF passVars, history
<1>2. ASSUME NEW a \in Passes, PassStep(a)
      PROVE  /\ pass' \in [Passes -> PassType]
             /\ holder' \in Passes \cup {NoOne}
             /\ judged' \subseteq Proposals
             /\ UNCHANGED history
  <2>0. pass[a] \in PassType
    OBVIOUS
  <2>1. CASE StartPass(a)
    <3>1. [NoPass EXCEPT !.pc = "sweeping", !.stuck = Stuck] \in PassType
      BY DEF PassType, NoPass, Stuck
    <3> QED BY <2>1, <3>1 DEF StartPass
  <2>2. CASE Gather(a)
    <3>1. Recent \subseteq {Slot[p] : p \in Proposals}
      BY DEF Recent
    <3>2. [pass[a] EXCEPT !.pc = "judging",
                          !.queue = {p \in Proposals : status[p] = "PENDING_APPROVAL"} \ judged,
                          !.count = autoToday,
                          !.slots = Recent] \in PassType
      BY <2>0, <3>1 DEF PassType
    <3> QED BY <2>2, <3>2 DEF Gather
  <2>3. CASE EndPass(a)
    <3>1. NoPass \in PassType
      BY DEF PassType, NoPass
    <3> QED BY <2>3, <3>1 DEF EndPass
  <2>4. ASSUME NEW p \in Proposals, Sweep(a, p)
        PROVE  /\ pass' \in [Passes -> PassType]
               /\ UNCHANGED <<holder, judged, history>>
    <3>1. [pass[a] EXCEPT !.stuck = @ \ {p}] \in PassType
      BY <2>0 DEF PassType
    <3> QED BY <2>4, <3>1 DEF Sweep
  <2>5. ASSUME NEW p \in Proposals, Judge(a, p)
        PROVE  /\ pass' \in [Passes -> PassType]
               /\ judged' \subseteq Proposals
               /\ UNCHANGED <<holder, history>>
    <3>1. Rest(a, p) \in PassType
      BY <2>0 DEF PassType, Rest
    <3>2. [Rest(a, p) EXCEPT !.pc = "approving", !.at = p] \in PassType
      BY <3>1 DEF PassType
    <3> QED BY <2>5, <3>1, <3>2 DEF Judge
  <2>6. CASE AfterApproval(a)
    <3>1. pass[a].at \in Proposals
      BY <2>6 DEF AfterApproval, OwnCalls
    <3> DEFINE n == IF call[a].pc \in Counts THEN pass[a].count + 1 ELSE pass[a].count
               m == IF call[a].pc \in Marks THEN pass[a].slots \cup {Slot[pass[a].at]}
                                            ELSE pass[a].slots
    <3>2. n \in Nat /\ m \in SUBSET {Slot[p] : p \in Proposals}
      BY <2>0, <3>1 DEF PassType
    <3>3. pass' = [pass EXCEPT ![a] = [pass[a] EXCEPT !.pc = "judging", !.at = NoOne,
                                                     !.count = n, !.slots = m]]
      BY <2>0, <2>6 DEF AfterApproval, PassType
    <3> HIDE DEF n, m
    <3>4. [pass[a] EXCEPT !.pc = "judging", !.at = NoOne, !.count = n, !.slots = m] \in PassType
      BY <2>0, <3>2 DEF PassType
    <3>5. UNCHANGED <<holder, judged, history>>
      BY <2>6 DEF AfterApproval
    <3> QED BY <3>3, <3>4, <3>5
  <2> QED BY <1>2, <2>1, <2>2, <2>3, <2>4, <2>5, <2>6 DEF PassStep
<1>3. CASE LoseLock \/ NewDay \/ \E p \in Proposals : Age(p)
  BY <1>3 DEF LoseLock, NewDay, Age, passVars, history
<1>4. CASE Restart
  <2>1. NoPass \in PassType
    BY DEF PassType, NoPass
  <2> QED BY <1>4, <2>1 DEF Restart, history
<1>5. CASE UNCHANGED autoVars
  BY <1>5 DEF autoVars, passVars, history
<1> QED BY <1>1, <1>2, <1>3, <1>4, <1>5 DEF AutoNext, history

LEMMA AutoInitTyped == AutoInit => AutoTypeOK
<1>1. NoPass \in PassType
  BY DEF NoPass, PassType
<1> QED BY <1>1, InitTyped DEF AutoInit, AutoTypeOK

LEMMA AutoTyped ==
    ASSUME AutoTypeOK, OwnCalls, [AutoNext]_autoVars
    PROVE  AutoTypeOK'
<1>1. TypeOK'
  BY AutoStepTyped DEF AutoTypeOK
<1> QED BY <1>1, StepPassTyped, StepTouched DEF AutoTypeOK

\* What a step of a call does to the calls, and to who approved.
LEMMA CallStepEffect ==
    ASSUME TypeOK, NEW c \in Calls, CallStep(c) \/ Answer(c)
    PROVE  /\ call[c].pc # "idle"
           /\ call[c].target \in Proposals
           /\ \A d \in Calls \ {c} : call'[d] = call[d]
           /\ \/ call'[c] = NoCall
              \/ /\ call'[c].pc \in Active \cup {"executed", "failed"}
                 /\ call'[c].target = call[c].target
                 /\ call'[c].actor = call[c].actor
           /\ \/ UNCHANGED <<approver, approvals>>
              \/ /\ Approve(c)
                 /\ status[call[c].target] = call[c].seen
                 /\ approver' = [approver EXCEPT ![call[c].target] = call[c].actor]
                 /\ approvals' = [approvals EXCEPT ![call[c].target] = @ + 1]
<1> USE DEF store
<1>0. call[c].pc # "idle"
  BY DEF CallStep, Approve, Execute, CheckFailable, RecordFailure, Answer, Answering
<1>1. call[c] \in CallType /\ call[c].target \in Proposals
  BY <1>0, BusyTarget
<1>2. ASSUME NEW pc, Goto(c, pc), pc \in Active \cup {"executed", "failed"}
      PROVE  /\ \A d \in Calls \ {c} : call'[d] = call[d]
             /\ call'[c].pc \in Active \cup {"executed", "failed"}
             /\ call'[c].target = call[c].target
             /\ call'[c].actor = call[c].actor
  BY <1>1, <1>2 DEF Goto, TypeOK, CallType
<1>3. ASSUME Leave(c)
      PROVE  (\A d \in Calls \ {c} : call'[d] = call[d]) /\ call'[c] = NoCall
  BY <1>3 DEF Leave, TypeOK
<1>4. Leave(c) \/ \E pc \in Active \cup {"executed", "failed"} : Goto(c, pc)
  BY DEF CallStep, Approve, Execute, CheckFailable, RecordFailure, Answer, Active
<1>5. \/ UNCHANGED <<approver, approvals>>
      \/ /\ Approve(c)
         /\ status[call[c].target] = call[c].seen
         /\ approver' = [approver EXCEPT ![call[c].target] = call[c].actor]
         /\ approvals' = [approvals EXCEPT ![call[c].target] = @ + 1]
  BY DEF CallStep, Approve, Execute, CheckFailable, RecordFailure, Answer, Claimable
<1> QED BY <1>0, <1>1, <1>2, <1>3, <1>4, <1>5

\* What a reading of a call, or a rejection, does.
LEMMA ReadEffect ==
    ASSUME TypeOK, NEW c \in Calls, NEW p \in Proposals, NEW a \in Actors,
           NEW expected, Read(c, p, a, expected)
    PROVE  /\ UNCHANGED store
           /\ call[c].pc = "idle"
           /\ status[p] \in expected
           /\ \A d \in Calls \ {c} : call'[d] = call[d]
           /\ call'[c].pc = "claiming"
           /\ call'[c].target = p
           /\ call'[c].actor = a
           /\ call'[c].seen = status[p]
BY DEF Read, TypeOK

LEMMA RejectEffect ==
    ASSUME TypeOK, NEW c \in Calls, NEW p \in Proposals, Reject(c, p)
    PROVE  /\ UNCHANGED <<payload, approver, approvals, effects, inflight>>
           /\ call[c].pc = "idle"
           /\ status[p] = "PENDING_APPROVAL"
           /\ status' = [status EXCEPT ![p] = "REJECTED"]
           /\ \A d \in Calls \ {c} : call'[d] = call[d]
           /\ call'[c].pc = "rejected"
           /\ call'[c].actor = NoOne
BY DEF Reject, Move, NoCall, TypeOK

LEMMA StepOwnCalls ==
    ASSUME AutoTypeOK, OwnCalls, [AutoNext]_autoVars
    PROVE  OwnCalls'
<1> USE DEF OwnCalls, AutoTypeOK
<1>1. CASE Inbox
  <2>0. UNCHANGED pass
    BY <1>1 DEF Inbox, passVars
  <2>1. ASSUME NEW p \in Proposals, Create(p) \/ Land(p), UNCHANGED history
        PROVE  OwnCalls'
    BY <2>0, <2>1 DEF Create, Land, history
  <2>2. ASSUME NEW c \in Calls, CallStep(c), Logged(c)
        PROVE  OwnCalls'
    <3>1. \A p \in Proposals : approver'[p] = SystemAuto => p \in autoApproved'
      BY <2>2, CallStepEffect DEF Logged, history, TypeOK
    <3>2. \A d \in Calls : \/ call'[d] = call[d]
                           \/ call'[d].actor = NoOne /\ call'[d].pc = "idle"
                           \/ /\ call'[d].pc \in Active \cup {"executed", "failed"}
                              /\ call'[d].target = call[d].target
                              /\ call'[d].actor = call[d].actor
                              /\ call[d].pc # "idle"
      BY <2>2, CallStepEffect DEF NoCall
    <3> QED BY <2>0, <3>1, <3>2 DEF Active
  <2>3. ASSUME NEW c \in Calls, Answer(c), UNCHANGED history
        PROVE  OwnCalls'
    <3>1. (\A d \in Calls \ {c} : call'[d] = call[d]) /\ call'[c] = NoCall
      BY <2>3 DEF Answer, Leave, TypeOK
    <3>2. UNCHANGED <<approver, autoApproved>>
      BY <2>3 DEF Answer, store, history
    <3> QED BY <2>0, <3>1, <3>2 DEF NoCall
  <2>4. ASSUME NEW c \in Calls \ Passes, NEW p \in Proposals, UNCHANGED history,
               Reject(c, p) \/ \E a \in People : Read(c, p, a, Decidable)
        PROVE  OwnCalls'
    <3>1. UNCHANGED approver
      BY <2>4 DEF Reject, Read, store
    <3>2. \A d \in Calls \ {c} : call'[d] = call[d]
      BY <2>4, ReadEffect, RejectEffect DEF People
    <3>3. call'[c].actor # SystemAuto
      BY <2>4, ReadEffect, RejectEffect DEF People
    <3> QED BY <2>0, <2>4, <3>1, <3>2, <3>3 DEF history
  <2> QED BY <1>1, <2>1, <2>2, <2>3, <2>4 DEF Inbox
<1>2. ASSUME NEW a \in Passes, PassStep(a)
      PROVE  OwnCalls'
  <2>1. CASE StartPass(a) \/ Gather(a) \/ EndPass(a)
    <3>1. UNCHANGED <<call, approver, autoApproved>>
      BY <2>1 DEF StartPass, Gather, EndPass, approvalVars, store, history
    <3>2. \A b \in Passes \ {a} : pass'[b] = pass[b]
      BY <2>1 DEF StartPass, Gather, EndPass
    <3>3. pass[a].pc # "approving" /\ pass'[a].pc # "approving"
      <4>1. pass[a] \in PassType
        OBVIOUS
      <4>2. CASE StartPass(a)
        BY <4>2 DEF StartPass, NoPass
      <4>3. CASE Gather(a)
        BY <4>1, <4>3 DEF Gather, PassType
      <4>4. CASE EndPass(a)
        BY <4>4 DEF EndPass, NoPass
      <4> QED BY <2>1, <4>2, <4>3, <4>4
    <3> QED BY <3>1, <3>2, <3>3
  <2>2. CASE AfterApproval(a)
    <3>1. UNCHANGED <<approver, autoApproved>>
      BY <2>2 DEF AfterApproval, Answer, approvalVars, store, history
    <3>2. \A b \in Passes \ {a} : pass'[b] = pass[b]
      BY <2>2 DEF AfterApproval
    <3>3. pass'[a].pc = "judging"
      BY <2>2 DEF AfterApproval, PassType
    <3>4. CASE call[a].pc = "idle"
      <4>1. call' = call
        BY <2>2, <3>4 DEF AfterApproval, approvalVars
      <4> QED BY <3>1, <3>2, <3>3, <3>4, <4>1
    <3>5. CASE Answer(a)
      <4>1. (\A d \in Calls \ {a} : call'[d] = call[d]) /\ call'[a] = NoCall
        BY <3>5 DEF Answer, Leave, TypeOK
      <4> QED BY <3>1, <3>2, <3>3, <4>1 DEF NoCall
    <3> QED BY <2>2, <3>4, <3>5 DEF AfterApproval
  <2>3. ASSUME NEW p \in Proposals, Sweep(a, p)
        PROVE  OwnCalls'
    <3>1. UNCHANGED <<call, approver, autoApproved>>
      BY <2>3 DEF Sweep, history
    <3>2. \A b \in Passes : pass'[b].pc = pass[b].pc /\ pass'[b].at = pass[b].at
      BY <2>3 DEF Sweep, PassType
    <3> QED BY <3>1, <3>2
  <2>4. ASSUME NEW p \in Proposals, Judge(a, p)
        PROVE  OwnCalls'
    <3>1. UNCHANGED <<approver, autoApproved>>
      BY <2>4 DEF Judge, Read, approvalVars, store, history
    <3>2. \A b \in Passes \ {a} : pass'[b] = pass[b]
      BY <2>4 DEF Judge
    <3>3. pass[a].pc = "judging" /\ call[a].pc = "idle"
      BY <2>4 DEF Judge
    <3>4. CASE UNCHANGED call /\ pass'[a].pc = "judging"
      BY <3>1, <3>2, <3>3, <3>4
    <3>5. CASE Read(a, p, SystemAuto, Expected) /\ pass'[a].pc = "approving" /\ pass'[a].at = p
      <4>1. /\ \A d \in Calls \ {a} : call'[d] = call[d]
            /\ call'[a].pc = "claiming"
            /\ call'[a].target = p
            /\ call'[a].actor = SystemAuto
            /\ call'[a].seen = "PENDING_APPROVAL"
        BY <3>5, ReadEffect DEF Expected
      <4> QED BY <3>1, <3>2, <3>5, <4>1
    <3>6. pass[a] \in PassType /\ Rest(a, p).pc = "judging" /\ Rest(a, p) \in PassType
      BY <3>3 DEF Rest, PassType
    <3>7. CASE UNCHANGED approvalVars /\ pass' = [pass EXCEPT ![a] = Rest(a, p)]
      BY <3>4, <3>6, <3>7 DEF approvalVars
    <3>8. CASE /\ Read(a, p, SystemAuto, Expected)
               /\ pass' = [pass EXCEPT ![a] = [Rest(a, p) EXCEPT !.pc = "approving", !.at = p]]
      BY <3>5, <3>6, <3>8 DEF PassType
    <3>9. \/ UNCHANGED approvalVars /\ pass' = [pass EXCEPT ![a] = Rest(a, p)]
          \/ /\ Read(a, p, SystemAuto, Expected)
             /\ pass' = [pass EXCEPT ![a] = [Rest(a, p) EXCEPT !.pc = "approving", !.at = p]]
      BY <2>4 DEF Judge
    <3> QED BY <3>7, <3>8, <3>9
  <2> QED BY <1>2, <2>1, <2>2, <2>3, <2>4 DEF PassStep
<1>3. CASE LoseLock \/ NewDay \/ \E p \in Proposals : Age(p)
  BY <1>3 DEF LoseLock, NewDay, Age, approvalVars, store, passVars, history
<1>4. CASE Restart
  BY <1>4 DEF Restart, NoCall, NoPass, store, history
<1>5. CASE UNCHANGED autoVars
  BY <1>5 DEF autoVars, approvalVars, store, passVars, history
<1> QED BY <1>1, <1>2, <1>3, <1>4, <1>5 DEF AutoNext

LEMMA AutoStepSticks ==
    ASSUME TypeOK, ApprovalSticks, [AutoNext]_autoVars
    PROVE  ApprovalSticks'
<1>1. ASSUME NEW a \in Passes, NEW p \in Proposals, Sweep(a, p)
      PROVE  ApprovalSticks'
  BY <1>1, SweepEffect, BusyTarget DEF ApprovalSticks, TypeOK, Active
<1> QED BY <1>1, InboxOrSweep, StepSticks

\* What holds of every behaviour, with any faults.
AutoInv == AutoTypeOK /\ OwnCalls /\ ApprovalSticks

LEMMA AutoInitInv == AutoInit => AutoInv
BY AutoInitTyped, InitSticks DEF AutoInit, AutoInv, OwnCalls, ApprovalInit, NoCall, NoPass

LEMMA AutoStepInv == AutoInv /\ [AutoNext]_autoVars => AutoInv'
BY AutoTyped, StepOwnCalls, AutoStepSticks DEF AutoInv, AutoTypeOK

LEMMA AutoInvariance == AutoSpec => []AutoInv
BY AutoInitInv, AutoStepInv, PTL DEF AutoSpec

\* Every variable keeps its type, and only what is APPROVED is ever old.
THEOREM AutoTypesAreCorrect == AutoSpec => []AutoTypeOK
<1>1. AutoInv => AutoTypeOK
  BY DEF AutoInv
<1> QED BY <1>1, AutoInvariance, PTL

\* A sweep, too, takes nothing back to a status from before its approval.
THEOREM AutoSticking == AutoSpec => []ApprovalSticks
<1>1. AutoInv => ApprovalSticks
  BY DEF AutoInv
<1> QED BY <1>1, AutoInvariance, PTL

\* A rejection is final next to passes and sweeps, with every fault.
THEOREM AutoRejection == AutoSpec => RejectedStays
<1>1. AutoInv /\ [AutoNext]_autoVars
        => [\A p \in Proposals :
              status[p] = "REJECTED" =>
                 status'[p] = "REJECTED" /\ effects'[p] = effects[p]]_approvalVars
  <2> SUFFICES ASSUME AutoInv, [AutoNext]_autoVars, NEW q \in Proposals,
                      status[q] = "REJECTED"
               PROVE  status'[q] = "REJECTED" /\ effects'[q] = effects[q]
    OBVIOUS
  <2>1. ASSUME NEW a \in Passes, NEW p \in Proposals, Sweep(a, p)
        PROVE  status'[q] = "REJECTED" /\ effects'[q] = effects[q]
    BY <2>1, SweepEffect DEF AutoInv, AutoTypeOK, TypeOK
  <2> QED BY <2>1, InboxOrSweep, StepRejected DEF AutoInv, AutoTypeOK
<1> QED BY <1>1, AutoInvariance, PTL DEF AutoSpec, RejectedStays

\* An approval of a pass compares with the status it read, which was pending.
LEMMA StepFromPending ==
    ASSUME AutoInv, [AutoNext]_autoVars, NEW p \in Proposals,
           approvals'[p] # approvals[p], approver'[p] = SystemAuto
    PROVE  status[p] = "PENDING_APPROVAL"
<1>1. ASSUME NEW c \in Calls, CallStep(c)
      PROVE  status[p] = "PENDING_APPROVAL"
  BY <1>1, CallStepEffect DEF AutoInv, AutoTypeOK, TypeOK, OwnCalls, Approve
<1>2. UNCHANGED approvals \/ \E c \in Calls : CallStep(c)
  <2>1. UNCHANGED approvals \/ Inbox \/ \E a \in Passes : PassStep(a)
    BY DEF AutoNext, LoseLock, NewDay, Age, Restart, autoVars, approvalVars, store
  <2>2. ASSUME NEW a \in Passes, PassStep(a)
        PROVE  UNCHANGED approvals
    BY <2>2 DEF PassStep, StartPass, Gather, AfterApproval, EndPass, Sweep, Judge, Read,
                Answer, approvalVars, store
  <2>3. CASE Inbox
    BY <2>3 DEF Inbox, Create, Land, Answer, Reject, Read, store
  <2> QED BY <2>1, <2>2, <2>3
<1> QED BY <1>1, <1>2

\* Whatever fails, an approval of SYSTEM_AUTO starts from PENDING_APPROVAL: it
\* never retries what a person's approval left FAILED.
THEOREM AutoFromPending == AutoSpec => AutoOnlyFromPending
<1>1. AutoInv /\ [AutoNext]_autoVars
        => [\A p \in Proposals :
              approvals'[p] # approvals[p] /\ approver'[p] = SystemAuto
                 => status[p] = "PENDING_APPROVAL"]_autoVars
  BY StepFromPending
<1> QED BY <1>1, AutoInvariance, PTL DEF AutoSpec, AutoOnlyFromPending

-----------------------------------------------------------------------------
(***************************************************************************)
(* While the lock holds: one pass at a time. What it sweeps nobody works   *)
(* on, so that sweeps, too, leave a claimed proposal to the call that      *)
(* claimed it, even if a commit of that call is still under way.           *)
(***************************************************************************)
LockHolds == "lock" \notin Faults

\* Only the holder of the lock is doing anything.
OnePass == \A a \in Passes : pass[a].pc # "idle" => holder = a

\* A call past its claim is the last approver's, and the only one.
Claims ==
    \A c \in Calls : call[c].pc \in Active =>
        /\ status[call[c].target] \in {"APPROVED", "EXECUTED"}
        /\ approver[call[c].target] = call[c].actor
        /\ \A d \in Calls \ {c} :
              call[d].pc \in Active => call[d].target # call[c].target

\* What a pass is about to sweep is its own, whatever became of it since.
Swept ==
    \A a \in Passes : \A p \in pass[a].stuck :
        /\ pass[a].pc = "sweeping"
        /\ approver[p] = SystemAuto
        /\ status[p] \in {"APPROVED", "EXECUTED"}

LockInv == AutoInv /\ OnePass /\ Claims /\ Swept

LEMMA StepOnePass ==
    ASSUME LockHolds, AutoTypeOK, OnePass, [AutoNext]_autoVars
    PROVE  OnePass'
<1> USE DEF OnePass, AutoTypeOK
<1>1. ASSUME NEW a \in Passes, PassStep(a)
      PROVE  OnePass'
  <2>1. CASE StartPass(a)
    <3>1. \A b \in Passes : pass[b].pc = "idle"
      BY <2>1 DEF StartPass
    <3> QED BY <2>1, <3>1 DEF StartPass
  <2>2. CASE EndPass(a)
    <3>1. \A b \in Passes \ {a} : pass[b].pc = "idle"
      BY <2>2 DEF EndPass
    <3> QED BY <2>2, <3>1 DEF EndPass, NoPass
  <2>3. CASE pass[a].pc # "idle" /\ UNCHANGED holder /\ \A b \in Passes \ {a} : pass'[b] = pass[b]
    BY <2>3
  <2>4. CASE Gather(a) \/ AfterApproval(a) \/ \E p \in Proposals : Sweep(a, p) \/ Judge(a, p)
    BY <2>3, <2>4 DEF Gather, AfterApproval, Sweep, Judge
  <2> QED BY <1>1, <2>1, <2>2, <2>4 DEF PassStep
<1>2. CASE UNCHANGED <<pass, holder>>
  BY <1>2
<1>3. CASE Restart
  BY <1>3 DEF Restart, NoPass
<1> QED
  BY <1>1, <1>2, <1>3
  DEF AutoNext, Inbox, LoseLock, NewDay, Age, LockHolds, autoVars, passVars

\* Nobody is between tx1 and the end with a proposal that is being swept: it
\* would be a call of another pass.
LEMMA NobodySwept ==
    ASSUME LockInv, NEW a \in Passes, NEW p \in pass[a].stuck,
           NEW c \in Calls, call[c].pc \in Active
    PROVE  call[c].target # p
<1> SUFFICES ASSUME call[c].target = p PROVE FALSE
  OBVIOUS
<1>1. pass[a].pc = "sweeping" /\ call[c].actor = SystemAuto
  BY DEF LockInv, Swept, Claims
<1>2. c \in Passes /\ pass[c].pc = "approving"
  BY <1>1 DEF LockInv, AutoInv, OwnCalls, Active
<1> QED BY <1>1, <1>2 DEF LockInv, OnePass

\* What the inbox does to a proposal and to whoever works on it.
LEMMA InboxClaims ==
    ASSUME TypeOK, ApprovalSticks, Claims, [ApprovalNext]_approvalVars
    PROVE  Claims'
<1> USE DEF store, Active
<1>0. \A d \in Calls : call[d].pc # "idle" => call[d].target \in Proposals
  BY BusyTarget
<1>1. CASE Crash
  BY <1>1 DEF Crash, NoCall, Claims
<1>2. ASSUME NEW p \in Proposals, Create(p)
      PROVE  Claims'
  BY <1>0, <1>2 DEF TypeOK, Create, Move, Claims
<1>3. ASSUME NEW p \in Proposals, Land(p)
      PROVE  Claims'
  BY <1>0, <1>3 DEF TypeOK, Land, Executed, Move, Claims
<1>4. ASSUME NEW c \in Calls, CallStep(c) \/ Answer(c)
      PROVE  Claims'
  <2> DEFINE p == call[c].target
  <2>1. p \in Proposals /\ call[c].pc # "idle"
    BY <1>4, CallStepEffect
  <2>2. \A d \in Calls \ {c} : call'[d] = call[d]
    BY <1>4, CallStepEffect
  <2>3. ASSUME \A q \in Proposals \ {p} : status'[q] = status[q] /\ approver'[q] = approver[q],
               \A d \in Calls \ {c} : call[d].pc \in Active => call[d].target # p,
               call'[c].pc \in Active => /\ call'[c].target = p
                                        /\ status'[p] \in {"APPROVED", "EXECUTED"}
                                        /\ approver'[p] = call'[c].actor
        PROVE  Claims'
    <3>1. ASSUME NEW d \in Calls, call'[d].pc \in Active
          PROVE  /\ status'[call'[d].target] \in {"APPROVED", "EXECUTED"}
                 /\ approver'[call'[d].target] = call'[d].actor
      BY <1>0, <2>2, <2>3, <3>1 DEF Claims
    <3>2. ASSUME NEW d \in Calls, NEW e \in Calls \ {d},
                 call'[d].pc \in Active, call'[e].pc \in Active
          PROVE  call'[e].target # call'[d].target
      BY <2>2, <2>3, <3>2 DEF Claims
    <3> QED BY <3>1, <3>2 DEF Claims
  <2>4. CASE UNCHANGED <<status, approver>> /\ call'[c] = NoCall
    BY <1>0, <2>2, <2>4 DEF Claims, NoCall
  <2>5. CASE Approve(c)
    <3>1. CASE UNCHANGED store /\ Leave(c)
      BY <2>4, <3>1 DEF Leave, TypeOK
    <3>2. CASE /\ Claimable(c, p)
               /\ Move(p, "APPROVED")
               /\ approver' = [approver EXCEPT ![p] = call[c].actor]
      <4>1. status[p] \in Decidable
        BY <2>5, <3>2 DEF Approve, Claimable, ApprovalSticks
      <4>2. \A d \in Calls \ {c} : call[d].pc \in Active => call[d].target # p
        BY <4>1 DEF Claims, Decidable
      <4>3. \/ call'[c] = NoCall
            \/ call'[c].target = p /\ call'[c].actor = call[c].actor
        BY <1>4, CallStepEffect
      <4> QED BY <2>1, <2>3, <3>2, <4>2, <4>3 DEF Move, TypeOK, NoCall
    <3> QED BY <2>5, <3>1, <3>2 DEF Approve
  <2>6. CASE Execute(c) \/ CheckFailable(c) \/ RecordFailure(c)
    <3>1. /\ call[c].pc \in Active
          /\ UNCHANGED approver
          /\ approver[p] = call[c].actor
          /\ \A q \in Proposals \ {p} : status'[q] = status[q]
      BY <2>1, <2>6
      DEF Execute, CheckFailable, RecordFailure, Executed, Move, TypeOK, Claims
    <3>2. \A d \in Calls \ {c} : call[d].pc \in Active => call[d].target # p
      BY <3>1 DEF Claims
    <3>3. call'[c].pc \in Active => /\ call'[c].target = p
                                   /\ call'[c].actor = call[c].actor
      BY <1>4, CallStepEffect DEF NoCall
    <3>4. call'[c].pc \in Active => status'[p] \in {"APPROVED", "EXECUTED"}
      <4>1. call[c] \in CallType /\ status[p] \in {"APPROVED", "EXECUTED"}
        BY <2>1, <3>1, BusyTarget DEF Claims
      <4>2. CASE Execute(c) \/ CheckFailable(c)
        BY <2>1, <4>1, <4>2 DEF Execute, CheckFailable, Executed, Move, TypeOK
      <4>3. CASE RecordFailure(c)
        BY <4>3 DEF RecordFailure, Goto, Leave, NoCall, TypeOK, CallType
      <4> QED BY <2>6, <4>2, <4>3
    <3> QED BY <2>3, <3>1, <3>2, <3>3, <3>4
  <2>7. CASE Answer(c)
    BY <2>4, <2>7 DEF Answer, Leave, TypeOK
  <2> QED BY <1>4, <2>5, <2>6, <2>7 DEF CallStep
<1>5. ASSUME NEW c \in Calls, NEW p \in Proposals, Reject(c, p)
      PROVE  Claims'
  <2>1. \A d \in Calls : call[d].pc \in Active => call[d].target # p
    BY <1>5, RejectEffect DEF Claims
  <2>2. \A d \in Calls : call'[d].pc \in Active => call'[d] = call[d]
    BY <1>5, RejectEffect
  <2>3. \A q \in Proposals \ {p} : status'[q] = status[q]
    BY <1>5, RejectEffect DEF TypeOK
  <2> QED BY <1>0, <1>5, <2>1, <2>2, <2>3, RejectEffect DEF Claims
<1>6. ASSUME NEW c \in Calls, NEW p \in Proposals, NEW a \in Actors,
             Read(c, p, a, Decidable)
      PROVE  Claims'
  <2>1. \A d \in Calls : call'[d].pc \in Active => call'[d] = call[d]
    BY <1>6, ReadEffect
  <2> QED BY <1>6, <2>1, ReadEffect DEF Claims
<1>7. CASE UNCHANGED approvalVars
  BY <1>7 DEF approvalVars, Claims
<1> QED BY <1>1, <1>2, <1>3, <1>4, <1>5, <1>6, <1>7 DEF ApprovalNext, SteadyNext

LEMMA StepClaims ==
    ASSUME LockInv, [AutoNext]_autoVars
    PROVE  Claims'
<1>1. ASSUME NEW a \in Passes, NEW p \in Proposals, Sweep(a, p)
      PROVE  Claims'
  <2>1. \A c \in Calls : call[c].pc \in Active => call[c].target # p
    BY <1>1, SweepEffect, NobodySwept DEF LockInv, AutoInv, AutoTypeOK
  <2>2. /\ UNCHANGED <<approver, call>>
        /\ \A q \in Proposals \ {p} : status'[q] = status[q]
    BY <1>1, SweepEffect DEF LockInv, AutoInv, AutoTypeOK, TypeOK
  <2>3. \A c \in Calls : call[c].pc \in Active => call[c].target \in Proposals
    BY BusyTarget DEF LockInv, AutoInv, AutoTypeOK, Active
  <2> QED BY <2>1, <2>2, <2>3 DEF LockInv, Claims
<1> QED BY <1>1, InboxOrSweep, InboxClaims DEF LockInv, AutoInv, AutoTypeOK

\* A proposal that is neither decidable nor worked on is at most executed, by a
\* commit that lands.
LEMMA InboxLeavesAlone ==
    ASSUME TypeOK, ApprovalSticks, [ApprovalNext]_approvalVars,
           NEW p \in Proposals, status[p] \in {"APPROVED", "EXECUTED"},
           \A c \in Calls : call[c].pc \in Active => call[c].target # p
    PROVE  approver'[p] = approver[p] /\ status'[p] \in {"APPROVED", "EXECUTED"}
<1> USE DEF store
<1>1. CASE Crash \/ UNCHANGED approvalVars
  BY <1>1 DEF Crash, approvalVars
<1>2. ASSUME NEW q \in Proposals, Create(q) \/ Land(q)
      PROVE  approver'[p] = approver[p] /\ status'[p] \in {"APPROVED", "EXECUTED"}
  BY <1>2 DEF Create, Land, Executed, Move, TypeOK
<1>3. ASSUME NEW c \in Calls, CallStep(c) \/ Answer(c)
      PROVE  approver'[p] = approver[p] /\ status'[p] \in {"APPROVED", "EXECUTED"}
  <2>1. CASE Approve(c)
    <3>1. CASE UNCHANGED store
      BY <3>1
    <3>2. CASE Claimable(c, call[c].target)
      <4>1. call[c].target # p
        BY <2>1, <3>2 DEF Approve, Claimable, ApprovalSticks, Decidable
      <4> QED BY <2>1, <4>1, CallStepEffect, <1>3 DEF Approve, Move, TypeOK
    <3> QED BY <2>1, <3>1, <3>2 DEF Approve
  <2>2. CASE Execute(c) \/ CheckFailable(c) \/ RecordFailure(c)
    BY <2>2 DEF Execute, CheckFailable, RecordFailure, Executed, Move, TypeOK, Active
  <2>3. CASE Answer(c)
    BY <2>3 DEF Answer
  <2> QED BY <1>3, <2>1, <2>2, <2>3 DEF CallStep
<1>4. ASSUME NEW c \in Calls, NEW q \in Proposals,
             Reject(c, q) \/ \E a \in Actors : Read(c, q, a, Decidable)
      PROVE  approver'[p] = approver[p] /\ status'[p] \in {"APPROVED", "EXECUTED"}
  BY <1>4 DEF Reject, Read, Move, TypeOK
<1> QED BY <1>1, <1>2, <1>3, <1>4 DEF ApprovalNext, SteadyNext

LEMMA StepSwept ==
    ASSUME LockHolds, LockInv, [AutoNext]_autoVars
    PROVE  Swept'
<1> USE DEF LockInv, AutoInv, AutoTypeOK
<1>1. ASSUME UNCHANGED pass, [ApprovalNext]_approvalVars
      PROVE  Swept'
  <2> SUFFICES ASSUME NEW a \in Passes, NEW p \in pass[a].stuck
               PROVE  /\ pass[a].pc = "sweeping"
                      /\ approver'[p] = SystemAuto
                      /\ status'[p] \in {"APPROVED", "EXECUTED"}
    BY <1>1 DEF Swept
  <2>1. p \in Proposals
    BY DEF PassType
  <2>2. \A c \in Calls : call[c].pc \in Active => call[c].target # p
    BY NobodySwept
  <2> QED BY <1>1, <2>1, <2>2, InboxLeavesAlone DEF Swept
<1>2. ASSUME NEW a \in Passes, PassStep(a)
      PROVE  Swept'
  <2>0. pass[a] \in PassType /\ \A b \in Passes \ {a} : pass[b] \in PassType
    OBVIOUS
  <2>1. ASSUME UNCHANGED <<status, approver>>, \A b \in Passes \ {a} : pass'[b] = pass[b],
               pass'[a].stuck = {}
        PROVE  Swept'
    BY <2>1 DEF Swept
  <2>2. pass[a].pc # "sweeping" => pass[a].stuck = {}
    BY DEF Swept
  <2>3. CASE StartPass(a)
    <3>1. pass'[a].pc = "sweeping" /\ pass'[a].stuck = Stuck
      BY <2>3 DEF StartPass, NoPass
    <3>2. \A b \in Passes \ {a} : pass'[b] = pass[b]
      BY <2>3 DEF StartPass
    <3>3. UNCHANGED <<status, approver>>
      BY <2>3 DEF StartPass, approvalVars, store
    <3> QED BY <3>1, <3>2, <3>3 DEF Swept, Stuck
  <2>4. CASE Gather(a)
    <3>1. pass'[a].stuck = {}
      BY <2>0, <2>4 DEF Gather, PassType
    <3> QED BY <2>1, <2>4, <3>1 DEF Gather, approvalVars, store
  <2>5. CASE AfterApproval(a)
    <3>1. pass'[a].stuck = {}
      BY <2>0, <2>2, <2>5 DEF AfterApproval, PassType
    <3> QED BY <2>1, <2>5, <3>1 DEF AfterApproval, Answer, approvalVars, store
  <2>6. CASE EndPass(a)
    BY <2>1, <2>6 DEF EndPass, NoPass, approvalVars, store
  <2>7. ASSUME NEW p \in Proposals, Judge(a, p)
        PROVE  Swept'
    <3>1. pass'[a].stuck = {}
      <4>1. Rest(a, p) \in PassType /\ Rest(a, p).stuck = {}
        BY <2>0, <2>2, <2>7 DEF Judge, Rest, PassType
      <4>2. [Rest(a, p) EXCEPT !.pc = "approving", !.at = p].stuck = {}
        BY <4>1 DEF PassType
      <4> QED BY <2>7, <4>1, <4>2 DEF Judge
    <3> QED BY <2>1, <2>7, <3>1 DEF Judge, Read, approvalVars, store
  <2>8. ASSUME NEW p \in Proposals, Sweep(a, p)
        PROVE  Swept'
    <3>1. \A b \in Passes \ {a} : pass'[b] = pass[b] /\ pass[b].stuck = {}
      BY <2>8 DEF Sweep, OnePass, Swept
    <3>2. pass'[a].pc = "sweeping" /\ pass'[a].stuck = pass[a].stuck \ {p}
      BY <2>0, <2>8 DEF Sweep, PassType
    <3>3. approver' = approver /\ \A q \in Proposals \ {p} : status'[q] = status[q]
      BY <2>8, SweepEffect DEF TypeOK
    <3>4. pass[a].stuck \subseteq Proposals
      BY <2>0 DEF PassType
    <3> QED BY <3>1, <3>2, <3>3, <3>4 DEF Swept
  <2> QED BY <1>2, <2>3, <2>4, <2>5, <2>6, <2>7, <2>8 DEF PassStep
<1>3. CASE Restart
  BY <1>3 DEF Restart, NoPass, Swept
<1>4. ASSUME NEW a \in Passes, NEW p \in Proposals, UNCHANGED pass
      PROVE  ~Sweep(a, p)
  BY <1>4 DEF Sweep, PassType
<1> QED
  BY <1>1, <1>2, <1>3, <1>4, InboxOrSweep
  DEF AutoNext, Inbox, LoseLock, NewDay, Age, autoVars, passVars

LEMMA LockStepInv ==
    LockHolds /\ LockInv /\ [AutoNext]_autoVars => LockInv'
BY AutoStepInv, StepOnePass, StepClaims, StepSwept DEF LockInv, AutoInv

LEMMA LockInitInv == AutoInit => LockInv
<1>1. ASSUME AutoInit
      PROVE  OnePass /\ Claims /\ Swept
  BY <1>1 DEF AutoInit, ApprovalInit, NoCall, NoPass, OnePass, Claims, Swept, Active
<1> QED BY <1>1, AutoInitInv DEF LockInv

LEMMA LockInvariance ==
    ASSUME LockHolds
    PROVE  AutoSpec => []LockInv
BY LockInitInv, LockStepInv, PTL DEF AutoSpec

\* A step that fails an approval of a person is the end of that person's call.
LEMMA StepSpares ==
    ASSUME LockInv, [AutoNext]_autoVars, NEW p \in Proposals,
           status[p] = "APPROVED", approver[p] # SystemAuto, status'[p] = "FAILED"
    PROVE  \E c \in Calls : /\ call[c].pc = "recording" /\ call[c].target = p
                            /\ call[c].actor = approver[p]
<1> USE DEF LockInv, AutoInv, AutoTypeOK
<1>1. ASSUME NEW a \in Passes, NEW q \in Proposals, Sweep(a, q)
      PROVE  FALSE
  BY <1>1, SweepEffect DEF Swept, TypeOK
<1>2. CASE UNCHANGED approvalVars \/ Crash
  BY <1>2 DEF approvalVars, Crash, store
<1>3. ASSUME NEW q \in Proposals, Create(q) \/ Land(q)
      PROVE  FALSE
  BY <1>3 DEF Create, Land, Executed, Move, TypeOK
<1>4. ASSUME NEW c \in Calls, NEW q \in Proposals,
             Reject(c, q) \/ \E a \in Actors : Read(c, q, a, Decidable)
      PROVE  FALSE
  BY <1>4 DEF Reject, Read, Move, TypeOK, store
<1>5. ASSUME NEW c \in Calls, CallStep(c) \/ Answer(c)
      PROVE  call[c].pc = "recording" /\ call[c].target = p /\ call[c].actor = approver[p]
  <2>1. CASE Approve(c) \/ Execute(c) \/ CheckFailable(c) \/ Answer(c)
    BY <2>1 DEF Approve, Execute, CheckFailable, Answer, Executed, Move, TypeOK, store
  <2>2. CASE RecordFailure(c)
    BY <2>2, BusyTarget DEF RecordFailure, Move, TypeOK, Claims, Active
  <2> QED BY <1>5, <2>1, <2>2 DEF CallStep
<1> QED
  BY <1>1, <1>2, <1>3, <1>4, <1>5, InboxOrSweep DEF ApprovalNext, SteadyNext

\* The passes leave the approvals of people alone while the lock holds, also
\* with lost replies and commits that are still under way.
THEOREM PeopleSpared ==
    ASSUME LockHolds
    PROVE  AutoSpec => PeopleAreSpared
<1>1. LockInv /\ [AutoNext]_autoVars
        => [\A p \in Proposals :
              status[p] = "APPROVED" /\ approver[p] # SystemAuto /\ status'[p] = "FAILED"
                 => \E c \in Calls : /\ call[c].pc = "recording" /\ call[c].target = p
                                     /\ call[c].actor = approver[p]]_autoVars
  BY StepSpares
<1> QED BY <1>1, LockInvariance, PTL DEF AutoSpec, PeopleAreSpared

-----------------------------------------------------------------------------
(***************************************************************************)
(* While the lock holds and no commit is lost: the inbox with its passes   *)
(* keeps to the lifecycle.                                                 *)
(***************************************************************************)
ExactInv == LockInv /\ ApprovalInv

LEMMA SweepKeepsInv ==
    ASSUME ExactInv, NEW a \in Passes, NEW p \in Proposals, Sweep(a, p)
    PROVE  ApprovalInv' /\ [LC!LifecycleNext]_(LC!lifecycleVars)
<1> USE DEF ExactInv
<1>1. TypeOK
  BY DEF ApprovalInv
<1>2. \A c \in Calls : call[c].pc \in Active => call[c].target # p
  BY <1>1, SweepEffect, NobodySwept
<1>3. ExclusiveApproval'
  <2>1. \A c \in Calls : call[c].pc \in Active => call[c].target \in Proposals
    BY <1>1, BusyTarget DEF Active
  <2> QED BY <1>1, <1>2, <2>1, SweepEffect DEF ApprovalInv, ExclusiveApproval, TypeOK
<1>4. StatusMatchesEffects'
  BY <1>1, SweepEffect DEF ApprovalInv, StatusMatchesEffects, TypeOK
<1>5. TypeOK' /\ inflight' = {}
  BY <1>1, SweepTyped, SweepEffect DEF ApprovalInv
<1>6. [LC!LifecycleNext]_(LC!lifecycleVars)
  <2>1. CASE UNCHANGED status
    BY <1>1, <2>1, SweepEffect DEF LC!lifecycleVars
  <2>2. CASE status[p] = "APPROVED" /\ status' = [status EXCEPT ![p] = "FAILED"]
    <3>1. <<status[p], "FAILED">> \in LC!Allowed
      BY <2>2 DEF LC!Allowed
    <3>2. LC!Transition(p, "FAILED")
      BY <1>1, <2>2, <3>1, SweepEffect DEF LC!Transition
    <3> QED BY <3>1, <3>2 DEF LC!LifecycleNext
  <2> QED BY <1>1, <2>1, <2>2, SweepEffect
<1> QED BY <1>3, <1>4, <1>5, <1>6 DEF ApprovalInv

LEMMA ExactStepRefines ==
    ASSUME NoLostCommit, ExactInv, [AutoNext]_autoVars
    PROVE  ApprovalInv' /\ [LC!LifecycleNext]_(LC!lifecycleVars)
<1>1. TypeOK /\ ApprovalSticks
  BY DEF ExactInv, LockInv, AutoInv, AutoTypeOK
<1>2. CASE [ApprovalNext]_approvalVars
  BY <1>1, <1>2, StepInv, StepRefines DEF ExactInv
<1> QED BY <1>1, <1>2, InboxOrSweep, SweepKeepsInv

LEMMA ExactInvariance ==
    ASSUME LockHolds, NoLostCommit
    PROVE  AutoSpec => []ExactInv
<1>1. AutoInit => ExactInv
  BY LockInitInv, InitInv DEF AutoInit, ExactInv
<1>2. ExactInv /\ [AutoNext]_autoVars => ExactInv'
  BY LockStepInv, ExactStepRefines DEF ExactInv
<1> QED BY <1>1, <1>2, PTL DEF AutoSpec

\* Passes, sweeps and people together still move every proposal along the
\* table of allowed transitions, with its effect in the step to EXECUTED.
THEOREM AutoRefinement ==
    ASSUME LockHolds, NoLostCommit
    PROVE  AutoSpec => ImplementsLifecycle
<1>1. AutoInit => LC!LifecycleInit
  BY InitRefines DEF AutoInit
<1>2. ExactInv /\ [AutoNext]_autoVars => [LC!LifecycleNext]_(LC!lifecycleVars)
  BY ExactStepRefines
<1> QED BY <1>1, <1>2, ExactInvariance, PTL
        DEF AutoSpec, ImplementsLifecycle, LC!Lifecycle

-----------------------------------------------------------------------------
(***************************************************************************)
(* Two automatic changes never hit the same slot. What a pass read at its  *)
(* start and marked since covers all that SYSTEM_AUTO ever executed, and a *)
(* candidate is approved only outside of that.                             *)
(***************************************************************************)
\* The pass has read the count and the slots it goes by.
Working(a) == pass[a].pc \in {"judging", "approving"}

\* What SYSTEM_AUTO carried out.
AutoDone == {p \in Proposals : status[p] = "EXECUTED" /\ approver[p] = SystemAuto}

\* The slots a pass knows of: its own, and that of its call that just executed.
SlotsOf(a) ==
    pass[a].slots \cup (IF call[a].pc = "executed" THEN {Slot[call[a].target]} ELSE {})

SlotInv ==
    /\ AutoOncePerSlot
    /\ \A a \in Passes : Working(a) => \A p \in AutoDone : Slot[p] \in SlotsOf(a)
    /\ \A a \in Passes : pass[a].pc = "approving" => Slot[pass[a].at] \notin pass[a].slots

\* Only tx2 of the call that approved it makes a proposal EXECUTED.
LEMMA InboxExecutes ==
    ASSUME NoLostCommit, ExactInv, [ApprovalNext]_approvalVars,
           NEW p \in Proposals, status'[p] = "EXECUTED"
    PROVE  /\ approver'[p] = approver[p]
           /\ \/ status[p] = "EXECUTED"
              \/ \E c \in Calls : /\ Execute(c)
                                  /\ call[c].target = p
                                  /\ call[c].actor = approver[p]
                                  /\ status' = [status EXCEPT ![p] = "EXECUTED"]
                                  /\ call'[c].pc = "executed"
                                  /\ call'[c].target = p
<1> USE DEF store, ExactInv, ApprovalInv
<1>1. CASE Crash \/ UNCHANGED approvalVars
  BY <1>1 DEF Crash, approvalVars
<1>2. ASSUME NEW q \in Proposals, Create(q) \/ Land(q)
      PROVE  approver'[p] = approver[p] /\ status[p] = "EXECUTED"
  BY <1>2 DEF Create, Land, Move, TypeOK
<1>3. ASSUME NEW c \in Calls, NEW q \in Proposals,
             Reject(c, q) \/ \E a \in Actors : Read(c, q, a, Decidable)
      PROVE  approver'[p] = approver[p] /\ status[p] = "EXECUTED"
  BY <1>3 DEF Reject, Read, Move, TypeOK
<1>4. ASSUME NEW c \in Calls, CallStep(c) \/ Answer(c)
      PROVE  /\ approver'[p] = approver[p]
             /\ \/ status[p] = "EXECUTED"
                \/ /\ Execute(c)
                   /\ call[c].target = p
                   /\ call[c].actor = approver[p]
                   /\ status' = [status EXCEPT ![p] = "EXECUTED"]
                   /\ call'[c].pc = "executed"
                   /\ call'[c].target = p
  <2>1. CASE Approve(c)
    BY <2>1, <1>4, CallStepEffect DEF Approve, Move, TypeOK
  <2>2. CASE CheckFailable(c) \/ RecordFailure(c) \/ Answer(c)
    BY <2>2 DEF CheckFailable, RecordFailure, Answer, Move, TypeOK
  <2>3. CASE Execute(c)
    <3>1. call[c] \in CallType /\ call[c].target \in Proposals
      BY <2>3, BusyTarget DEF Execute
    <3>2. call[c].actor = approver[call[c].target]
      BY <2>3 DEF Execute, LockInv, Claims, Active
    <3>3. CASE Executed(call[c].target) /\ Goto(c, "executed")
      BY <2>3, <3>1, <3>2, <3>3 DEF Execute, Executed, Move, Goto, TypeOK, CallType
    <3> QED BY <2>3, <3>3 DEF Execute
  <2> QED BY <1>4, <2>1, <2>2, <2>3 DEF CallStep
<1> QED BY <1>1, <1>2, <1>3, <1>4 DEF ApprovalNext, SteadyNext

\* The inbox leaves the answer to a pass for the pass to read.
LEMMA InboxKeepsAnswer ==
    ASSUME TypeOK, Inbox, NEW a \in Passes, call[a].pc \in Answering
    PROVE  call'[a] = call[a]
<1>1. ASSUME NEW p \in Proposals, Create(p) \/ Land(p)
      PROVE  call'[a] = call[a]
  BY <1>1 DEF Create, Land
<1>2. ASSUME NEW c \in Calls, CallStep(c)
      PROVE  call'[a] = call[a]
  <2>1. c # a
    BY <1>2 DEF CallStep, Approve, Execute, CheckFailable, RecordFailure, Answering
  <2> QED BY <1>2, <2>1, CallStepEffect
<1>3. ASSUME NEW c \in Calls \ Passes, Answer(c)
      PROVE  call'[a] = call[a]
  BY <1>3, CallStepEffect
<1>4. ASSUME NEW c \in Calls \ Passes, NEW p \in Proposals,
             Reject(c, p) \/ \E b \in People : Read(c, p, b, Decidable)
      PROVE  call'[a] = call[a]
  BY <1>4, ReadEffect, RejectEffect DEF People
<1> QED BY <1>1, <1>2, <1>3, <1>4 DEF Inbox

\* One more change of SYSTEM_AUTO, in a slot that its pass did not know of.
LEMMA ExecutionSlots ==
    ASSUME ExactInv, SlotInv, UNCHANGED pass, NEW c \in Passes,
           NEW p \in Proposals, Execute(c), call[c].target = p,
           call'[c].pc = "executed", call'[c].target = p,
           AutoDone' = AutoDone \cup {p}
    PROVE  /\ \A q \in AutoDone : Slot[q] # Slot[p]
           /\ \A a \in Passes : Working(a) => \A q \in AutoDone' : Slot[q] \in SlotsOf(a)'
<1> USE DEF ExactInv, LockInv, AutoInv, AutoTypeOK
<1>1. call[c].pc = "executing" /\ c \in Calls
  BY DEF Execute
<1>2. pass[c].pc = "approving" /\ pass[c].at = p
  BY <1>1 DEF OwnCalls
<1>3. Slot[p] \notin pass[c].slots /\ SlotsOf(c) = pass[c].slots
  BY <1>1, <1>2 DEF SlotInv, SlotsOf
<1>4. \A q \in AutoDone : Slot[q] \in pass[c].slots
  BY <1>2, <1>3 DEF SlotInv, Working
<1>5. \A a \in Passes : Working(a) => a = c
  BY <1>2 DEF OnePass, Working
<1>6. SlotsOf(c)' = pass[c].slots \cup {Slot[p]}
  BY DEF SlotsOf
<1> QED BY <1>3, <1>4, <1>5, <1>6

LEMMA InboxSlots ==
    ASSUME NoLostCommit, ExactInv, SlotInv, Inbox
    PROVE  SlotInv'
<1> USE DEF ExactInv, LockInv, AutoInv, AutoTypeOK
<1>0. [ApprovalNext]_approvalVars
  <2>1. ASSUME NEW a \in Passes, NEW p \in Proposals
        PROVE  ~Sweep(a, p)
    BY DEF Inbox, passVars, Sweep, PassType
  <2> QED BY <2>1, InboxOrSweep DEF AutoNext
<1>1. UNCHANGED pass
  BY DEF Inbox, passVars
<1>2. CASE AutoDone' \subseteq AutoDone
  <2>1. AutoOncePerSlot'
    BY <1>2 DEF SlotInv, AutoOncePerSlot, AutoDone
  <2>2. \A a \in Passes : SlotsOf(a) \subseteq SlotsOf(a)'
    BY <1>1, InboxKeepsAnswer DEF SlotsOf, Answering
  <2>3. \A a \in Passes : Working(a)' => \A p \in AutoDone' : Slot[p] \in SlotsOf(a)'
    BY <1>1, <1>2, <2>2 DEF SlotInv, Working
  <2> QED BY <1>1, <2>1, <2>3 DEF SlotInv
<1>3. ASSUME NEW p \in AutoDone', p \notin AutoDone
      PROVE  SlotInv'
  <2>1. p \in Proposals /\ status'[p] = "EXECUTED" /\ approver'[p] = SystemAuto
    BY <1>3 DEF AutoDone
  <2>2. approver[p] = SystemAuto /\ status[p] # "EXECUTED"
    BY <1>0, <1>3, <2>1, InboxExecutes DEF AutoDone
  <2>3. PICK c \in Calls : /\ Execute(c)
                           /\ call[c].target = p
                           /\ call[c].actor = approver[p]
                           /\ status' = [status EXCEPT ![p] = "EXECUTED"]
                           /\ call'[c].pc = "executed"
                           /\ call'[c].target = p
    BY <1>0, <2>1, <2>2, InboxExecutes
  <2>4. c \in Passes
    BY <2>2, <2>3 DEF OwnCalls
  <2>5. AutoDone' = AutoDone \cup {p}
    BY <2>1, <2>2, <2>3 DEF AutoDone, Execute, TypeOK
  <2>6. /\ \A q \in AutoDone : Slot[q] # Slot[p]
        /\ \A a \in Passes : Working(a) => \A q \in AutoDone' : Slot[q] \in SlotsOf(a)'
    BY <1>1, <2>1, <2>3, <2>4, <2>5, ExecutionSlots
  <2>7. AutoOncePerSlot'
    BY <2>5, <2>6 DEF SlotInv, AutoOncePerSlot, AutoDone
  <2> QED BY <1>1, <2>6, <2>7 DEF SlotInv, Working
<1> QED BY <1>2, <1>3

LEMMA PassSlots ==
    ASSUME NoLostCommit, ExactInv, SlotInv, NEW a \in Passes, PassStep(a)
    PROVE  SlotInv'
<1> USE DEF ExactInv, LockInv, AutoInv, AutoTypeOK
<1>0. pass[a] \in PassType /\ a \in Calls
  OBVIOUS
<1>1. AutoDone' \subseteq AutoDone
  <2>1. CASE UNCHANGED <<status, approver>>
    BY <2>1 DEF AutoDone
  <2>2. ASSUME NEW p \in Proposals, Sweep(a, p)
        PROVE  AutoDone' \subseteq AutoDone
    BY <2>2, SweepEffect DEF AutoDone, TypeOK
  <2> QED
    BY <2>1, <2>2
    DEF PassStep, StartPass, Gather, AfterApproval, EndPass, Judge, Read, Answer,
        approvalVars, store
<1>2. AutoOncePerSlot'
  BY <1>1 DEF SlotInv, AutoOncePerSlot, AutoDone
<1>3. \A b \in Passes \ {a} : pass'[b] = pass[b] /\ call'[b] = call[b]
  BY DEF PassStep, StartPass, Gather, AfterApproval, EndPass, Judge, Read, Answer, Sweep,
         Leave, approvalVars, TypeOK
<1>4. SUFFICES /\ Working(a)' => \A p \in AutoDone' : Slot[p] \in SlotsOf(a)'
               /\ pass'[a].pc = "approving" => Slot[pass'[a].at] \notin pass'[a].slots
  BY <1>1, <1>2, <1>3 DEF SlotInv, Working, SlotsOf
<1>5. CASE StartPass(a)
  BY <1>5 DEF StartPass, NoPass, Working
<1>6. CASE EndPass(a)
  BY <1>6 DEF EndPass, NoPass, Working
<1>7. ASSUME NEW p \in Proposals, Sweep(a, p)
      PROVE  pass'[a].pc = "sweeping"
  BY <1>0, <1>7 DEF Sweep, PassType
<1>8. CASE Gather(a)
  <2>1. pass'[a].slots = Recent /\ pass'[a].pc = "judging"
    BY <1>0, <1>8 DEF Gather, PassType
  <2>2. \A p \in AutoDone : Slot[p] \in Recent
    BY DEF AutoDone, Recent, OwnCalls
  <2> QED BY <1>1, <2>1, <2>2 DEF SlotsOf
<1>9. CASE AfterApproval(a)
  <2> DEFINE m == IF call[a].pc \in Marks THEN pass[a].slots \cup {Slot[pass[a].at]}
                                          ELSE pass[a].slots
  <2>1. pass'[a].slots = m /\ pass'[a].pc = "judging"
    BY <1>0, <1>9 DEF AfterApproval, PassType
  <2>2. call[a].pc = "executed" => pass[a].at = call[a].target
    BY <1>0 DEF OwnCalls
  <2>3. SlotsOf(a) \subseteq m
    BY <2>2 DEF SlotsOf, Marks
  <2>4. Working(a)
    BY <1>9 DEF AfterApproval, Working
  <2> QED BY <1>1, <2>1, <2>3, <2>4 DEF SlotInv, SlotsOf
<1>10. ASSUME NEW p \in Proposals, Judge(a, p)
       PROVE  /\ Working(a)' => \A q \in AutoDone' : Slot[q] \in SlotsOf(a)'
              /\ pass'[a].pc = "approving" => Slot[pass'[a].at] \notin pass'[a].slots
  <2>1. pass[a].pc = "judging" /\ call[a].pc = "idle"
    BY <1>0, <1>10 DEF Judge, OwnCalls
  <2>2. /\ Rest(a, p) \in PassType /\ Rest(a, p).slots = pass[a].slots
        /\ Rest(a, p).pc = "judging"
    BY <1>0, <2>1 DEF Rest, PassType
  <2> DEFINE chosen == [Rest(a, p) EXCEPT !.pc = "approving", !.at = p]
  <2>3. chosen.slots = pass[a].slots /\ chosen.at = p
    BY <2>2 DEF PassType
  <2>4. \/ pass'[a] = Rest(a, p)
        \/ pass'[a] = chosen /\ Slot[p] \notin pass[a].slots
    BY <1>10 DEF Judge
  <2> HIDE DEF chosen
  <2>5. pass'[a].slots = pass[a].slots
    BY <2>2, <2>3, <2>4
  <2>6. SlotsOf(a) \subseteq SlotsOf(a)'
    BY <2>1, <2>5 DEF SlotsOf
  <2>7. pass'[a].pc = "approving" => Slot[pass'[a].at] \notin pass[a].slots
    BY <2>2, <2>3, <2>4
  <2> QED BY <1>1, <2>1, <2>5, <2>6, <2>7 DEF SlotInv, Working
<1> QED BY <1>5, <1>6, <1>7, <1>8, <1>9, <1>10 DEF PassStep, Working

LEMMA StepSlots ==
    ASSUME NoLostCommit, ExactInv, SlotInv, [AutoNext]_autoVars
    PROVE  SlotInv'
<1>1. CASE UNCHANGED <<approvalVars, pass>>
  BY <1>1 DEF approvalVars, store, SlotInv, AutoOncePerSlot, AutoDone, Working, SlotsOf
<1>2. CASE Restart
  BY <1>2 DEF Restart, NoPass, store, SlotInv, AutoOncePerSlot, Working
<1> QED
  BY <1>1, <1>2, InboxSlots, PassSlots
  DEF AutoNext, LoseLock, NewDay, Age, autoVars, passVars

\* However passes, crashes and sweeps follow each other, of two executed
\* proposals for one campaign and column at least one is a person's.
THEOREM OncePerSlot ==
    ASSUME LockHolds, NoLostCommit
    PROVE  AutoSpec => []AutoOncePerSlot
<1>1. AutoInit => SlotInv
  BY DEF AutoInit, ApprovalInit, NoPass, SlotInv, AutoOncePerSlot, Working
<1>2. ExactInv /\ SlotInv /\ [AutoNext]_autoVars => SlotInv'
  BY StepSlots
<1>3. SlotInv => AutoOncePerSlot
  BY DEF SlotInv
<1> QED BY <1>1, <1>2, <1>3, ExactInvariance, PTL DEF AutoSpec

-----------------------------------------------------------------------------
(***************************************************************************)
(* Without faults a pass knows of every approval of today: those that its  *)
(* count has, and the one that it is waiting for. A day that ends under a  *)
(* pass only lowers the number it has to stay above.                       *)
(***************************************************************************)
\* What a pass has counted, and what it will once its call answers.
Attempted(a) ==
    pass[a].count + (IF call[a].pc \in Active \cup {"executed", "failed"} THEN 1 ELSE 0)

CountInv ==
    /\ DailyLimit
    /\ \A a \in Passes : Working(a) =>
          /\ autoToday <= Attempted(a)
          /\ pass[a].count <= MaxPerDay
    /\ \A a \in Passes : pass[a].pc = "approving" => pass[a].count < MaxPerDay

\* A call of a pass is counted from its claim until the pass has its answer.
LEMMA CallStepCounts ==
    ASSUME Faults = {}, ExactInv, NEW c \in Calls, CallStep(c)
    PROVE  \/ UNCHANGED approvals /\ call[c].pc = "claiming" /\ call'[c] = NoCall
           \/ /\ ~ UNCHANGED approvals
              /\ call[c].pc = "claiming"
              /\ call'[c].pc \in Active
           \/ /\ UNCHANGED approvals
              /\ call[c].pc \in Active
              /\ call'[c].pc \in Active \cup {"executed", "failed"}
<1> USE DEF ExactInv, ApprovalInv, store, Active
<1>1. call[c] \in CallType /\ call[c].target \in Proposals
  BY BusyTarget DEF CallStep, Approve, Execute, CheckFailable, RecordFailure
<1>2. \A pc : Goto(c, pc) => call'[c].pc = pc
  BY <1>1 DEF Goto, TypeOK, CallType
<1>3. CASE Approve(c)
  <2>1. CASE UNCHANGED store /\ Leave(c)
    BY <1>3, <2>1 DEF Approve, Leave, TypeOK
  <2>2. CASE /\ approvals' = [approvals EXCEPT ![call[c].target] = @ + 1]
             /\ Goto(c, IF call[c].target \in Empty THEN "failing" ELSE "executing")
    <3>1. ~ UNCHANGED approvals
      BY <1>1, <2>2 DEF TypeOK
    <3> QED BY <1>2, <1>3, <2>2, <3>1 DEF Approve
  <2> QED BY <1>3, <2>1, <2>2 DEF Approve
<1>4. CASE Execute(c)
  BY <1>2, <1>4 DEF Execute
<1>5. CASE CheckFailable(c)
  BY <1>2, <1>5 DEF CheckFailable, ExclusiveApproval
<1>6. CASE RecordFailure(c)
  BY <1>2, <1>6 DEF RecordFailure
<1> QED BY <1>3, <1>4, <1>5, <1>6 DEF CallStep

LEMMA InboxCounts ==
    ASSUME Faults = {}, ExactInv, CountInv, Inbox
    PROVE  CountInv'
<1> USE DEF ExactInv, LockInv, AutoInv, AutoTypeOK
<1>0. UNCHANGED pass
  BY DEF Inbox, passVars
<1>1. \A a \in Passes : pass[a] \in PassType /\ a \in Calls
  OBVIOUS
<1>2. CASE UNCHANGED history /\ \A a \in Passes : call'[a] = call[a]
  BY <1>0, <1>2 DEF CountInv, DailyLimit, Working, Attempted, history
<1>3. ASSUME NEW c \in Calls, CallStep(c), Logged(c)
      PROVE  CountInv'
  <2>0. \A d \in Calls \ {c} : call'[d] = call[d]
    BY <1>3, CallStepEffect
  <2>1. CASE UNCHANGED history /\ c \notin Passes
    BY <1>2, <2>0, <2>1
  <2>2. CASE UNCHANGED history /\ c \in Passes /\ UNCHANGED approvals
    <3>1. Attempted(c)' = Attempted(c)
      BY <1>0, <1>3, <2>2, CallStepCounts DEF Attempted, NoCall, Active
    <3>2. \A a \in Passes : Attempted(a)' = Attempted(a)
      BY <1>0, <2>0, <3>1 DEF Attempted
    <3> QED BY <1>0, <2>2, <3>2 DEF CountInv, DailyLimit, Working, history
  <2>3. CASE ~ UNCHANGED approvals /\ call[c].actor = SystemAuto
    <3>1. call[c].pc = "claiming" /\ call'[c].pc \in Active
      BY <1>3, <2>3, CallStepCounts
    <3>2. c \in Passes /\ pass[c].pc = "approving"
      BY <2>3, <3>1 DEF OwnCalls
    <3>3. Attempted(c) = pass[c].count /\ Attempted(c)' = pass[c].count + 1
      BY <1>0, <1>1, <3>1, <3>2 DEF Attempted, Active, PassType
    <3>4. autoToday' = autoToday + 1 /\ autoToday <= pass[c].count /\ pass[c].count < MaxPerDay
      BY <1>3, <2>3, <3>2, <3>3 DEF Logged, CountInv, Working
    <3>5. \A a \in Passes : Working(a) => a = c
      BY <3>2 DEF OnePass, Working
    <3>6. pass[c].count \in Nat /\ autoToday \in Nat
      BY <1>1, <3>2 DEF PassType
    <3>7. DailyLimit'
      BY <3>4, <3>6 DEF DailyLimit
    <3>8. autoToday' <= Attempted(c)' /\ pass[c].count <= MaxPerDay
      BY <3>3, <3>4, <3>6
    <3> QED BY <1>0, <3>5, <3>7, <3>8 DEF CountInv, Working
  <2>4. c \in Passes /\ UNCHANGED history => UNCHANGED approvals
    <3> SUFFICES ASSUME c \in Passes, ~ UNCHANGED approvals
                 PROVE  ~ UNCHANGED history
      OBVIOUS
    <3>1. call[c].pc = "claiming"
      BY <1>3, CallStepCounts
    <3>2. call[c].actor = SystemAuto
      BY <3>1 DEF OwnCalls
    <3>3. autoToday' = autoToday + 1 /\ autoToday \in Nat
      BY <1>3, <3>2 DEF Logged
    <3> QED BY <3>3 DEF history
  <2>5. CASE ~(approvals' # approvals /\ call[c].actor = SystemAuto)
    <3>1. UNCHANGED history
      BY <1>3, <2>5 DEF Logged
    <3> QED BY <2>1, <2>2, <2>4, <3>1
  <2> QED BY <2>3, <2>5
<1>4. ASSUME NEW p \in Proposals, Create(p) \/ Land(p), UNCHANGED history
      PROVE  CountInv'
  BY <1>1, <1>2, <1>4 DEF Create, Land
<1>5. ASSUME NEW c \in Calls \ Passes, UNCHANGED history,
             \/ Answer(c)
             \/ \E p \in Proposals : Reject(c, p) \/ \E b \in People : Read(c, p, b, Decidable)
      PROVE  CountInv'
  <2>1. \A d \in Calls \ {c} : call'[d] = call[d]
    BY <1>5, CallStepEffect, ReadEffect, RejectEffect DEF People
  <2> QED BY <1>1, <1>2, <1>5, <2>1
<1> QED BY <1>3, <1>4, <1>5 DEF Inbox

LEMMA PassCounts ==
    ASSUME Faults = {}, ExactInv, CountInv, NEW a \in Passes, PassStep(a)
    PROVE  CountInv'
<1> USE DEF ExactInv, LockInv, AutoInv, AutoTypeOK
<1>0. pass[a] \in PassType /\ a \in Calls /\ pass[a].count \in Nat
  BY DEF PassType
<1>1. UNCHANGED history
  BY DEF PassStep, StartPass, Gather, AfterApproval, EndPass, Judge, Sweep
<1>2. \A b \in Passes \ {a} : pass'[b] = pass[b] /\ call'[b] = call[b]
  BY DEF PassStep, StartPass, Gather, AfterApproval, EndPass, Judge, Read, Answer, Sweep,
         Leave, approvalVars, TypeOK
<1>3. SUFFICES /\ Working(a)' => /\ autoToday <= Attempted(a)'
                                 /\ pass'[a].count <= MaxPerDay
               /\ pass'[a].pc = "approving" => pass'[a].count < MaxPerDay
  BY <1>1, <1>2 DEF CountInv, DailyLimit, Working, Attempted, history
<1>4. CASE StartPass(a) \/ EndPass(a)
  <2>1. CASE StartPass(a)
    BY <2>1 DEF StartPass, NoPass, Working
  <2>2. CASE EndPass(a)
    BY <2>2 DEF EndPass, NoPass, Working
  <2> QED BY <1>4, <2>1, <2>2
<1>5. ASSUME NEW p \in Proposals, Sweep(a, p)
      PROVE  pass'[a].pc = "sweeping"
  BY <1>0, <1>5 DEF Sweep, PassType
<1>6. CASE Gather(a)
  <2>1. pass'[a].count = autoToday /\ pass'[a].pc = "judging"
    BY <1>0, <1>6 DEF Gather, PassType
  <2> QED BY <2>1 DEF CountInv, DailyLimit, Attempted
<1>7. CASE AfterApproval(a)
  <2> DEFINE n == IF call[a].pc \in Counts THEN pass[a].count + 1 ELSE pass[a].count
  <2>1. pass'[a].count = n /\ pass'[a].pc = "judging"
    BY <1>0, <1>7 DEF AfterApproval, PassType
  <2>2. pass[a].pc = "approving" /\ call[a].pc \in Answering \cup {"idle"}
    BY <1>7 DEF AfterApproval
  <2>3. Attempted(a) = n
    BY <1>0, <2>2 DEF Attempted, Counts, Answering, Active
  <2>4. n \in Nat /\ n <= MaxPerDay
    BY <1>0, <2>2 DEF CountInv, Working
  <2>5. Attempted(a)' \in {n, n + 1}
    BY <1>0, <2>1, <2>4 DEF Attempted
  <2>6. autoToday <= n
    BY <2>2, <2>3 DEF CountInv, Working
  <2> HIDE DEF n
  <2>7. autoToday <= Attempted(a)'
    BY <2>4, <2>5, <2>6
  <2> QED BY <2>1, <2>4, <2>7
<1>8. ASSUME NEW p \in Proposals, Judge(a, p)
      PROVE  /\ Working(a)' => /\ autoToday <= Attempted(a)'
                               /\ pass'[a].count <= MaxPerDay
             /\ pass'[a].pc = "approving" => pass'[a].count < MaxPerDay
  <2> DEFINE chosen == [Rest(a, p) EXCEPT !.pc = "approving", !.at = p]
  <2>1. pass[a].pc = "judging" /\ call[a].pc = "idle"
    BY <1>0, <1>8 DEF Judge, OwnCalls
  <2>2. /\ Rest(a, p) \in PassType /\ Rest(a, p).count = pass[a].count
        /\ Rest(a, p).pc = "judging"
    BY <1>0, <2>1 DEF Rest, PassType
  <2>3. chosen.count = pass[a].count
    BY <2>2 DEF PassType
  <2>4. \/ pass'[a] = Rest(a, p)
        \/ pass'[a] = chosen /\ pass[a].count < MaxPerDay
    BY <1>8 DEF Judge
  <2> HIDE DEF chosen
  <2>5. pass'[a].count = pass[a].count
    BY <2>2, <2>3, <2>4
  <2>6. autoToday <= pass[a].count /\ pass[a].count <= MaxPerDay
    BY <1>0, <2>1 DEF CountInv, Working, Attempted, Active
  <2>7. Attempted(a)' \in {pass[a].count, pass[a].count + 1}
    BY <1>0, <2>5 DEF Attempted
  <2>8. autoToday <= Attempted(a)'
    BY <1>0, <2>6, <2>7
  <2>9. pass'[a].pc = "approving" => pass[a].count < MaxPerDay
    BY <2>2, <2>4
  <2> QED BY <2>5, <2>6, <2>8, <2>9
<1> QED BY <1>4, <1>5, <1>6, <1>7, <1>8 DEF PassStep, Working

LEMMA StepCounts ==
    ASSUME Faults = {}, ExactInv, CountInv, [AutoNext]_autoVars
    PROVE  CountInv'
<1> USE DEF ExactInv, LockInv, AutoInv, AutoTypeOK
<1>1. CASE UNCHANGED <<call, pass, autoToday>>
  BY <1>1 DEF CountInv, DailyLimit, Working, Attempted
<1>2. CASE Restart
  BY <1>2 DEF Restart, NoPass, history, CountInv, DailyLimit, Working
<1>3. CASE NewDay
  <2>1. autoToday' = 0 /\ UNCHANGED <<call, pass>>
    BY <1>3 DEF NewDay, approvalVars, passVars
  <2>2. \A a \in Passes : pass[a].count \in Nat
    BY DEF PassType
  <2>3. \A a \in Passes : Attempted(a)' \in Nat
    BY <2>1, <2>2 DEF Attempted
  <2> QED BY <2>1, <2>3 DEF CountInv, DailyLimit, Working
<1> QED
  BY <1>1, <1>2, <1>3, InboxCounts, PassCounts
  DEF AutoNext, LoseLock, Age, autoVars, approvalVars, passVars, history

\* Over any number of days and passes, SYSTEM_AUTO never approves more on one
\* of them than its owner allows, failed attempts included.
THEOREM WithinLimit ==
    ASSUME Faults = {}
    PROVE  AutoSpec => []DailyLimit
<1>1. AutoInit => CountInv
  BY DEF AutoInit, NoPass, CountInv, DailyLimit, Working
<1>2. ExactInv /\ CountInv /\ [AutoNext]_autoVars => CountInv'
  BY StepCounts
<1>3. CountInv => DailyLimit
  BY DEF CountInv
<1>4. LockHolds /\ NoLostCommit
  BY DEF LockHolds, NoLostCommit
<1> QED BY <1>1, <1>2, <1>3, <1>4, ExactInvariance, PTL DEF AutoSpec
=============================================================================
