---------------------------- MODULE CalendarProofs ----------------------------
(***************************************************************************)
(* Theorems about CalendarInbound, for any proposals, calls, scans, edits  *)
(* and fingerprints. The inbox takes part through its own actions; the one *)
(* write of a scan to a proposal is the closing of a superseded card.      *)
(***************************************************************************)
EXTENDS CalendarProps, ProposalProofs

USE NoOneAssumption, ApprovalsAssumption, EditsAssumption, ScansAssumption,
    FingerprintAssumption

-----------------------------------------------------------------------------
(***************************************************************************)
(* Types, whatever goes wrong.                                             *)
(***************************************************************************)

\* A step is one of the inbox, or the closing of a card.
LEMMA InboxOrRetire ==
    ASSUME TypeOK, [InboundNext]_inboundVars
    PROVE  [ApprovalNext]_approvalVars \/ \E s \in Scans : Retire(s)
<1>1. ASSUME NEW c \in Calls, Decide(c) \/ Adopt(c) \/ Mark(c)
      PROVE  [ApprovalNext]_approvalVars
  <2>1. CASE Decide(c)
    <3>1. \/ \E p \in Proposals : Reject(c, p) \/ \E a \in Actors : Read(c, p, a, Decidable)
          \/ CallStep(c)
      BY <2>1 DEF Decide, CallStep
    <3> QED BY <3>1 DEF ApprovalNext, SteadyNext
  <2>2. CASE Adopt(c)
    BY <2>2 DEF Adopt
  <2>3. CASE Mark(c)
    BY <2>3 DEF Mark, ApprovalNext, SteadyNext
  <2> QED BY <1>1, <2>1, <2>2, <2>3
<1>2. ASSUME NEW s \in Scans, ScanStep(s)
      PROVE  [ApprovalNext]_approvalVars \/ Retire(s)
  <2>1. CASE \E p \in Proposals : File(s, p)
    BY <2>1 DEF File, ApprovalNext, SteadyNext
  <2> QED
    BY <1>2, <2>1
    DEF ScanStep, Start, ReadRow, ReadStatus, Settle, Await, PassOver, Link, Finish, Abandon
<1>3. CASE Restart
  <2>1. CASE \E c \in Calls : call[c] # NoCall
    <3>1. Crash
      BY <1>3, <2>1 DEF Restart, Crash
    <3> QED BY <3>1 DEF ApprovalNext, SteadyNext
  <2>2. CASE \A c \in Calls : call[c] = NoCall
    <3>1. call' = call /\ UNCHANGED store
      BY <1>3, <2>2 DEF Restart, TypeOK
    <3> QED BY <3>1 DEF approvalVars
  <2> QED BY <2>1, <2>2
<1>4. CASE Edit \/ LoseLock
  BY <1>4 DEF Edit, LoseLock
<1>5. CASE UNCHANGED inboundVars
  BY <1>5 DEF inboundVars
<1> QED BY <1>1, <1>2, <1>3, <1>4, <1>5 DEF InboundNext

\* The closing of a card touches nothing but that card.
LEMMA RetireEffect ==
    ASSUME TypeOK, NEW s \in Scans, scan[s] \in ScanType, Retire(s)
    PROVE  /\ UNCHANGED <<payload, approver, approvals, effects, inflight, call>>
           /\ scan[s].retire \in Proposals
           /\ \/ UNCHANGED status
              \/ /\ status[scan[s].retire] = "FAILED"
                 /\ status' = [status EXCEPT ![scan[s].retire] = "REJECTED"]
BY DEF Retire, Move, ScanType

LEMMA InboundStepTyped ==
    ASSUME InboundTypeOK, [InboundNext]_inboundVars
    PROVE  TypeOK'
<1>1. TypeOK /\ \A s \in Scans : scan[s] \in ScanType
  BY DEF InboundTypeOK
<1>2. ASSUME NEW s \in Scans, Retire(s)
      PROVE  TypeOK'
  BY <1>1, <1>2, RetireEffect DEF TypeOK, Status
<1> QED BY <1>1, <1>2, InboxOrRetire, StepTyped

\* What a scan writes about an event that it judges.
Judgement(s) ==
    \/ /\ Writable(s)
       /\ fresh' = {s}
       /\ row'.print = Fingerprint[scan[s].edition]
       /\ row' \in RowType
       /\ \/ /\ row'.status \in {"SKIPPED", "ADOPTED", "HINT_LOCAL", "HINT_GEMINI"}
             /\ row'.proposal = Detached(s)
             /\ scan'[s].pc = "done"
          \/ /\ row'.status = "PENDING_RETRY"
             /\ row'.proposal = NoOne
             /\ scan'[s].pc = "filing"
       /\ scan'[s].retire = IF row'.proposal = NoOne THEN Supersedes(s) ELSE NoOne
    \/ /\ UNCHANGED <<row, fresh>>
       /\ scan'[s].pc \in {"done", "touching"}
       /\ scan'[s].retire = scan[s].retire

LEMMA SavedEffect ==
    ASSUME InboundTypeOK, NEW s \in Scans, NEW st, NEW proposal, NEW next,
           Saved(s, st, proposal, next),
           proposal \in Proposals \cup {NoOne},
           \/ /\ st \in {"SKIPPED", "ADOPTED", "HINT_LOCAL", "HINT_GEMINI"}
              /\ proposal = Detached(s)
              /\ next = "done"
           \/ st = "PENDING_RETRY" /\ proposal = NoOne /\ next = "filing"
    PROVE  /\ Judgement(s)
           /\ scan'[s] \in ScanType
           /\ scan'[s].edition = scan[s].edition
           /\ scan' = [scan EXCEPT ![s] = scan'[s]]
<1> USE DEF InboundTypeOK
<1>1. scan[s] \in ScanType
  OBVIOUS
<1>2. CASE ~Writable(s)
  BY <1>1, <1>2 DEF Saved, Judgement, ScanType, ScanPcs
<1>3. CASE Writable(s)
  <2> DEFINE r == IF proposal = NoOne THEN Supersedes(s) ELSE NoOne
             t == [scan[s] EXCEPT !.pc = next, !.retire = r]
             w == [status |-> st, proposal |-> proposal, print |-> Fingerprint[scan[s].edition]]
  <2>1. r \in Proposals \cup {NoOne}
    BY <1>1 DEF Supersedes, ScanType, RowType
  <2>2. row' = w /\ fresh' = {s} /\ scan' = [scan EXCEPT ![s] = t]
    BY <1>1, <1>3 DEF Saved, WrittenBy
  <2>3. w \in RowType
    BY <1>1 DEF RowType, RowStatus, Prints, ScanType
  <2>4. w.status = st /\ w.proposal = proposal /\ w.print = Fingerprint[scan[s].edition]
    OBVIOUS
  <2> HIDE DEF r, w
  <2>5. t \in ScanType /\ t.edition = scan[s].edition /\ t.pc = next /\ t.retire = r
    BY <1>1, <2>1 DEF ScanType, ScanPcs
  <2> HIDE DEF t
  <2>6. scan'[s] = t /\ scan' = [scan EXCEPT ![s] = scan'[s]]
    BY <2>2
  <2>7. r = IF proposal = NoOne THEN Supersedes(s) ELSE NoOne
    BY DEF r
  <2> QED BY <1>3, <2>2, <2>3, <2>4, <2>5, <2>6, <2>7 DEF Judgement
<1> QED BY <1>2, <1>3

\* Settle and Await are one judgement.
LEMMA JudgeEffect ==
    ASSUME InboundTypeOK, NEW s \in Scans, Settle(s) \/ Await(s)
    PROVE  /\ Judgement(s)
           /\ scan[s].pc = "judging"
           /\ Decision(s) \in {"evaluate", "awaiting"}
           /\ scan'[s] \in ScanType
           /\ scan'[s].edition = scan[s].edition
           /\ scan' = [scan EXCEPT ![s] = scan'[s]]
           /\ UNCHANGED <<approvalVars, edition, owned, about, holder, answered, lapsed>>
<1>1. scan[s] \in ScanType
  BY DEF InboundTypeOK
<1>2. Detached(s) \in Proposals \cup {NoOne}
  BY DEF Detached, InboundTypeOK, RowType
<1>3. CASE Settle(s)
  BY <1>2, <1>3, SavedEffect DEF Settle
<1>4. CASE Await(s)
  <2>1. CASE scan' = [scan EXCEPT ![s].pc = "touching"] /\ UNCHANGED <<row, fresh>>
    BY <1>1, <1>4, <2>1 DEF Await, Judgement, ScanType, ScanPcs, InboundTypeOK
  <2>2. CASE \E st \in {"HINT_LOCAL", "HINT_GEMINI"} : Saved(s, st, Detached(s), "done")
    BY <1>2, <1>4, <2>2, SavedEffect DEF Await
  <2> QED BY <1>4, <2>1, <2>2 DEF Await
<1> QED BY <1>3, <1>4

\* What a scan does to itself: the fields that the invariants speak of.
LEMMA ScanEffect ==
    ASSUME InboundTypeOK, NEW s \in Scans, ScanStep(s)
    PROVE  /\ scan' = [scan EXCEPT ![s] = scan'[s]]
           /\ scan'[s] \in ScanType
           /\ UNCHANGED <<edition, owned, answered, lapsed>>
<1> USE DEF InboundTypeOK
<1>1. scan[s] \in ScanType /\ NoScan \in ScanType
  BY DEF ScanType, ScanPcs, NoScan, NoRow, RowType, RowStatus, Prints, Status, Editions
<1>2. CASE Start(s)
  <2>1. [NoScan EXCEPT !.pc = "listed", !.edition = edition] \in ScanType
    BY <1>1 DEF ScanType, ScanPcs
  <2> QED BY <1>2, <2>1 DEF Start
<1>3. CASE ReadRow(s)
  <2>1. [scan[s] EXCEPT !.pc = "read", !.row = row] \in ScanType
    BY <1>1 DEF ScanType, ScanPcs
  <2> QED BY <1>3, <2>1 DEF ReadRow
<1>4. CASE ReadStatus(s)
  <2> DEFINE r == scan[s].row
             seen == IF NeedsProposalStatus(r) THEN status[r.proposal] ELSE "ABSENT"
  <2>1. seen \in Status
    BY <1>1 DEF NeedsProposalStatus, AwaitsDecision, TypeOK, Status, ScanType, RowType
  <2>2. scan' = [scan EXCEPT ![s] = [scan[s] EXCEPT !.pc = "judging", !.seen = seen]]
    BY <1>4 DEF ReadStatus
  <2> HIDE DEF seen
  <2>3. [scan[s] EXCEPT !.pc = "judging", !.seen = seen] \in ScanType
    BY <1>1, <2>1 DEF ScanType, ScanPcs
  <2> QED BY <1>4, <2>2, <2>3 DEF ReadStatus
<1>5. CASE Settle(s) \/ Await(s)
  BY <1>5, JudgeEffect
<1>6. CASE PassOver(s)
  BY <1>1, <1>6 DEF PassOver, ScanType, ScanPcs
<1>7. CASE Retire(s)
  BY <1>1, <1>7 DEF Retire, ScanType
<1>8. ASSUME NEW p \in Proposals, File(s, p)
      PROVE  /\ scan' = [scan EXCEPT ![s] = scan'[s]]
             /\ scan'[s] \in ScanType
             /\ UNCHANGED <<edition, owned, answered, lapsed>>
  <2>1. [scan[s] EXCEPT !.pc = "linking", !.filed = p] \in ScanType
    BY <1>1 DEF ScanType, ScanPcs
  <2> QED BY <1>8, <2>1 DEF File
<1>9. CASE Link(s)
  BY <1>1, <1>9 DEF Link, ScanType, ScanPcs
<1>10. CASE Finish(s) \/ Abandon(s)
  BY <1>1, <1>10 DEF Finish, Abandon, Left
<1> QED
  BY <1>2, <1>3, <1>4, <1>5, <1>6, <1>7, <1>8, <1>9, <1>10 DEF ScanStep

\* What one step of the inbox does to a proposal. It approves only what the row
\* points at, and claims the row by that.
Decided(p) ==
    \/ status'[p] = status[p] /\ approvals'[p] = approvals[p]
    \/ /\ status[p] \in Decidable /\ status'[p] = "APPROVED"
       /\ approvals'[p] = approvals[p] + 1
       /\ row.proposal = p
       /\ fresh' = {}
    \/ /\ <<status[p], status'[p]>> \in {<<"PENDING_APPROVAL", "REJECTED">>,
                                        <<"APPROVED", "EXECUTED">>, <<"APPROVED", "FAILED">>}
       /\ approvals'[p] = approvals[p]

LEMMA DecideEffect ==
    ASSUME TypeOK, NEW c \in Calls, Decide(c)
    PROVE  /\ UNCHANGED <<row, edition, owned, about, scan, holder, answered, lapsed>>
           /\ fresh' \in {fresh, {}}
BY DEF Decide, Claim, Written

\* The mark of a decision changes the status of the row that points at it, and
\* nothing else in the database.
LEMMA MarkEffect ==
    ASSUME InboundTypeOK, NEW c \in Calls, Mark(c)
    PROVE  /\ UNCHANGED <<store, edition, owned, about, scan, holder, lapsed>>
           /\ call[c].pc \in Answering
           /\ call[c].target \in Proposals
           /\ call' = [call EXCEPT ![c] = NoCall]
           /\ \/ UNCHANGED <<row, fresh, answered>>
              \/ /\ row.proposal = call[c].target
                 /\ row' \in RowType
                 /\ row' = [row EXCEPT !.status = row'.status]
                 /\ fresh' = {}
                 /\ \/ /\ call[c].pc = "executed" /\ row'.status = "ADOPTED"
                       /\ answered' = answered \cup {about[call[c].target]}
                    \/ /\ call[c].pc = "rejected" /\ row'.status = "REJECTED"
                       /\ answered' = answered \cup {about[call[c].target]}
                    \/ /\ call[c].pc = "failed" /\ row'.status = "PENDING_RETRY"
                       /\ answered' = answered
<1>1. call[c].target \in Proposals /\ call[c].pc \in Answering
  BY BusyTarget DEF Mark, Answer, Answering, InboundTypeOK
<1>2. CASE /\ Marked(c)
           /\ Written([row EXCEPT !.status = MarkOf[call[c].pc]])
           /\ answered' = IF call[c].pc = "failed" THEN answered
                          ELSE answered \cup {about[call[c].target]}
  <2> DEFINE st == MarkOf[call[c].pc]
  <2>1. /\ call[c].pc = "executed" => st = "ADOPTED"
        /\ call[c].pc = "rejected" => st = "REJECTED"
        /\ call[c].pc = "failed" => st = "PENDING_RETRY"
    BY DEF MarkOf
  <2>2. st \in RowStatus
    BY <1>1, <2>1 DEF RowStatus, Answering
  <2>3. row \in RowType /\ row' = [row EXCEPT !.status = st] /\ fresh' = {}
    BY <1>2 DEF Written, InboundTypeOK
  <2> HIDE DEF st
  <2>4. row' \in RowType /\ row'.status = st
    BY <2>2, <2>3 DEF RowType
  <2>5. answered' = IF call[c].pc = "failed" THEN answered
                    ELSE answered \cup {about[call[c].target]}
    BY <1>2
  <2> QED BY <1>1, <1>2, <2>1, <2>3, <2>4, <2>5 DEF Mark, Marked, Answer, Leave, Answering
<1>3. CASE UNCHANGED <<row, fresh, answered>>
  BY <1>1, <1>3 DEF Mark, Answer, Leave
<1> QED BY <1>2, <1>3 DEF Mark

LEMMA InboundTyped ==
    ASSUME InboundTypeOK, [InboundNext]_inboundVars
    PROVE  InboundTypeOK'
<1> USE DEF InboundTypeOK
<1>0. TypeOK'
  BY InboundStepTyped
<1>1. NoScan \in ScanType /\ NoScan.pc = "idle"
  BY DEF ScanType, ScanPcs, NoScan, NoRow, RowType, RowStatus, Prints, Status, Editions
<1>2. ASSUME NEW c \in Calls, Decide(c)
      PROVE  InboundTypeOK'
  BY <1>0, <1>2, DecideEffect
<1>3. ASSUME NEW c \in Calls, Adopt(c)
      PROVE  InboundTypeOK'
  BY <1>0, <1>3 DEF Adopt
<1>4. ASSUME NEW c \in Calls, Mark(c)
      PROVE  InboundTypeOK'
  BY <1>0, <1>4, MarkEffect
<1>5. ASSUME NEW s \in Scans, ScanStep(s)
      PROVE  InboundTypeOK'
  <2>1. /\ scan' = [scan EXCEPT ![s] = scan'[s]] /\ scan'[s] \in ScanType
        /\ UNCHANGED <<edition, owned, answered, lapsed>>
    BY <1>5, ScanEffect
  <2>2. scan[s] \in ScanType
    OBVIOUS
  <2>3. /\ \A t \in Scans \ {s} : scan'[t] = scan[t]
        /\ scan' \in [Scans -> ScanType]
    BY <2>1
  <2>4. /\ row' \in RowType
        /\ about' \in [Proposals -> Editions]
    <3>1. CASE Start(s) \/ ReadRow(s) \/ ReadStatus(s) \/ Retire(s) \/ Finish(s) \/ Abandon(s)
      BY <3>1 DEF Start, ReadRow, ReadStatus, Retire, Finish, Abandon
    <3>2. CASE Settle(s) \/ Await(s)
      BY <3>2, JudgeEffect DEF Judgement
    <3>3. CASE PassOver(s)
      BY <3>3 DEF PassOver, WrittenBy, RowType, RowStatus
    <3>4. CASE Link(s)
      BY <2>2, <3>4 DEF Link, WrittenBy, RowType, RowStatus, ScanType
    <3>5. CASE \E p \in Proposals : File(s, p)
      BY <2>2, <3>5 DEF File, ScanType
    <3> QED BY <1>5, <3>1, <3>2, <3>3, <3>4, <3>5 DEF ScanStep
  <2>5. CASE Start(s) \/ Finish(s) \/ Abandon(s)
    <3>1. CASE Start(s)
      <4>1. scan'[s].pc = "listed" /\ holder = NoOne /\ holder' = s /\ UNCHANGED fresh
        BY <2>1, <3>1 DEF Start, NoScan
      <4> QED BY <1>0, <2>1, <2>3, <2>4, <4>1
    <3>2. CASE Finish(s) \/ Abandon(s)
      <4>1. /\ scan'[s].pc = "idle"
            /\ holder' = IF holder = s THEN NoOne ELSE holder
            /\ fresh' \subseteq fresh \ {s}
        BY <1>1, <3>2 DEF Finish, Abandon, Left
      <4> QED BY <1>0, <2>1, <2>3, <2>4, <4>1
    <3> QED BY <2>5, <3>1, <3>2
  <2>6. CASE /\ holder' = holder /\ scan[s].pc # "idle" /\ scan'[s].pc # "idle"
             /\ fresh' \subseteq fresh \cup {s}
    BY <1>0, <2>1, <2>3, <2>4, <2>6
  <2>7. CASE Settle(s) \/ Await(s)
    BY <2>6, <2>7, JudgeEffect DEF Judgement
  <2>8. CASE ReadRow(s) \/ ReadStatus(s) \/ PassOver(s) \/ Link(s)
    <3>1. scan[s].pc # "idle" /\ UNCHANGED holder
      BY <2>8 DEF ReadRow, ReadStatus, PassOver, Link
    <3>2. scan'[s].pc \in {"read", "judging", "touching", "done"}
      <4>1. CASE ReadRow(s)
        BY <2>2, <4>1 DEF ReadRow, ScanType
      <4>2. CASE ReadStatus(s)
        BY <2>2, <4>2 DEF ReadStatus, ScanType
      <4>3. CASE PassOver(s)
        BY <2>2, <4>3 DEF PassOver, ScanType
      <4>4. CASE Link(s)
        BY <2>2, <4>4 DEF Link, ScanType
      <4> QED BY <2>8, <4>1, <4>2, <4>3, <4>4
    <3>3. fresh' \subseteq fresh \cup {s}
      BY <2>8 DEF ReadRow, ReadStatus, PassOver, Link, WrittenBy
    <3> QED BY <2>6, <3>1, <3>2, <3>3
  <2>9. CASE \E p \in Proposals : File(s, p)
    BY <2>2, <2>6, <2>9 DEF File, ScanType
  <2>10. CASE Retire(s)
    <3>1. scan'[s].pc = scan[s].pc /\ UNCHANGED <<holder, fresh>>
      BY <2>2, <2>10 DEF Retire, ScanType
    <3> QED BY <1>0, <2>1, <2>3, <2>4, <3>1
  <2> QED BY <1>5, <2>5, <2>7, <2>8, <2>9, <2>10 DEF ScanStep
<1>6. CASE Edit
  BY <1>0, <1>6 DEF Edit, Editions
<1>7. CASE LoseLock
  BY <1>0, <1>7 DEF LoseLock
<1>8. CASE Restart
  BY <1>0, <1>1, <1>8 DEF Restart
<1>9. CASE UNCHANGED inboundVars
  BY <1>0, <1>9 DEF inboundVars, calendarVars
<1> QED BY <1>2, <1>3, <1>4, <1>5, <1>6, <1>7, <1>8, <1>9 DEF InboundNext

LEMMA InboundInitTyped == InboundInit => InboundTypeOK
<1> SUFFICES ASSUME InboundInit PROVE InboundTypeOK
  OBVIOUS
<1>1. NoRow \in RowType
  BY DEF NoRow, RowType, RowStatus, Prints, Editions
<1>2. NoScan \in ScanType /\ NoScan.pc = "idle"
  BY <1>1 DEF ScanType, ScanPcs, NoScan, Status, Editions
<1>3. 0 \in Editions
  BY DEF Editions
<1> QED BY <1>1, <1>2, <1>3, InitTyped DEF InboundInit, InboundTypeOK

\* Every variable keeps its type, and while no lock was lost there is one scan.
THEOREM InboundTypesAreCorrect == InboundSpec => []InboundTypeOK
<1>1. InboundTypeOK /\ [InboundNext]_inboundVars => InboundTypeOK'
  BY InboundTyped
<1> QED BY <1>1, InboundInitTyped, PTL DEF InboundSpec

-----------------------------------------------------------------------------
(***************************************************************************)
(* What the steps of a scan leave in its record.                           *)
(***************************************************************************)
LEMMA StartEffect ==
    ASSUME InboundTypeOK, NEW s \in Scans, Start(s)
    PROVE  /\ scan[s].pc = "idle"
           /\ scan'[s].pc = "listed"
           /\ scan'[s].edition = edition
           /\ scan'[s].retire = NoOne
           /\ scan'[s].row.proposal = NoOne
           /\ UNCHANGED <<approvalVars, row, fresh, about>>
           /\ \A t \in Scans \ {s} : scan'[t] = scan[t]
BY DEF Start, NoScan, NoRow, InboundTypeOK

LEMMA ReadRowEffect ==
    ASSUME InboundTypeOK, NEW s \in Scans, ReadRow(s)
    PROVE  /\ scan[s].pc = "listed"
           /\ scan'[s].pc = "read"
           /\ scan'[s].row = row
           /\ scan'[s].edition = scan[s].edition
           /\ scan'[s].retire = scan[s].retire
           /\ fresh' \subseteq fresh \cup {s}
           /\ UNCHANGED <<approvalVars, row, about>>
           /\ \A t \in Scans \ {s} : scan'[t] = scan[t]
<1>1. scan[s] \in ScanType
  BY DEF InboundTypeOK
<1> QED BY <1>1 DEF ReadRow, ScanType, InboundTypeOK

LEMMA ReadStatusEffect ==
    ASSUME InboundTypeOK, NEW s \in Scans, ReadStatus(s)
    PROVE  /\ scan[s].pc = "read"
           /\ scan'[s].pc = "judging"
           /\ scan'[s].row = scan[s].row
           /\ scan'[s].edition = scan[s].edition
           /\ scan'[s].retire = scan[s].retire
           /\ NeedsProposalStatus(scan[s].row) => scan'[s].seen = status[scan[s].row.proposal]
           /\ UNCHANGED <<approvalVars, row, fresh, about>>
           /\ \A t \in Scans \ {s} : scan'[t] = scan[t]
<1>1. scan[s] \in ScanType
  BY DEF InboundTypeOK
<1> DEFINE seen == IF NeedsProposalStatus(scan[s].row) THEN status[scan[s].row.proposal]
                                                       ELSE "ABSENT"
<1>2. scan' = [scan EXCEPT ![s] = [scan[s] EXCEPT !.pc = "judging", !.seen = seen]]
  BY DEF ReadStatus
<1>3. NeedsProposalStatus(scan[s].row) => seen = status[scan[s].row.proposal]
  OBVIOUS
<1> HIDE DEF seen
<1> QED BY <1>1, <1>2, <1>3 DEF ReadStatus, ScanType, InboundTypeOK

LEMMA PassOverEffect ==
    ASSUME InboundTypeOK, NEW s \in Scans, PassOver(s)
    PROVE  /\ scan[s].pc = "judging"
           /\ scan'[s].pc \in {"touching", "done"}
           /\ scan'[s].row = scan[s].row
           /\ scan'[s].edition = scan[s].edition
           /\ scan'[s].retire = scan[s].retire
           /\ \/ UNCHANGED <<row, fresh>>
              \/ /\ Decision(s) = "open_proposal"
                 /\ Writable(s)
                 /\ fresh' = {s}
                 /\ row'.status = "OPEN_PROPOSAL"
                 /\ row'.proposal = row.proposal
                 /\ row'.print = row.print
           /\ UNCHANGED <<approvalVars, about>>
           /\ \A t \in Scans \ {s} : scan'[t] = scan[t]
<1>1. scan[s] \in ScanType /\ row \in RowType
  BY DEF InboundTypeOK
<1>2. \E pc \in {"touching", "done"} : scan' = [scan EXCEPT ![s].pc = pc]
  BY DEF PassOver
<1>3. /\ scan'[s].pc \in {"touching", "done"}
      /\ scan'[s].row = scan[s].row
      /\ scan'[s].edition = scan[s].edition
      /\ scan'[s].retire = scan[s].retire
      /\ \A t \in Scans \ {s} : scan'[t] = scan[t]
  BY <1>1, <1>2 DEF ScanType, InboundTypeOK
<1>4. \/ UNCHANGED <<row, fresh>>
      \/ /\ Decision(s) = "open_proposal"
         /\ Writable(s)
         /\ fresh' = {s}
         /\ row' = [row EXCEPT !.status = "OPEN_PROPOSAL"]
  BY DEF PassOver, WrittenBy
<1> QED BY <1>1, <1>3, <1>4 DEF PassOver, RowType

LEMMA RetireSelf ==
    ASSUME InboundTypeOK, NEW s \in Scans, Retire(s)
    PROVE  /\ scan[s].retire # NoOne
           /\ scan'[s].retire = NoOne
           /\ scan'[s].pc = scan[s].pc
           /\ scan'[s].row = scan[s].row
           /\ scan'[s].edition = scan[s].edition
           /\ scan'[s].seen = scan[s].seen
           /\ scan'[s].filed = scan[s].filed
           /\ UNCHANGED <<row, fresh, about>>
           /\ \A t \in Scans \ {s} : scan'[t] = scan[t]
<1>1. scan[s] \in ScanType
  BY DEF InboundTypeOK
<1> QED BY <1>1 DEF Retire, ScanType, InboundTypeOK

LEMMA FileEffect ==
    ASSUME InboundTypeOK, NEW s \in Scans, NEW p \in Proposals, File(s, p)
    PROVE  /\ scan[s].pc = "filing"
           /\ scan[s].retire = NoOne
           /\ scan'[s].retire = NoOne
           /\ scan'[s].pc = "linking"
           /\ scan'[s].filed = p
           /\ scan'[s].row = scan[s].row
           /\ scan'[s].edition = scan[s].edition
           /\ status[p] = "ABSENT"
           /\ status' = [status EXCEPT ![p] = "PENDING_APPROVAL"]
           /\ about' = [about EXCEPT ![p] = scan[s].edition]
           /\ UNCHANGED <<approvals, call, row, fresh>>
           /\ \A t \in Scans \ {s} : scan'[t] = scan[t]
<1>1. scan[s] \in ScanType
  BY DEF InboundTypeOK
<1> QED BY <1>1 DEF File, Create, Move, ScanType, InboundTypeOK

LEMMA LinkEffect ==
    ASSUME InboundTypeOK, NEW s \in Scans, Link(s)
    PROVE  /\ scan[s].pc = "linking"
           /\ scan'[s].pc = "done"
           /\ scan'[s].row = scan[s].row
           /\ scan'[s].edition = scan[s].edition
           /\ scan'[s].retire = scan[s].retire
           /\ \/ UNCHANGED <<row, fresh>>
              \/ /\ s \in fresh
                 /\ fresh' = {s}
                 /\ row'.status = "PROPOSED"
                 /\ row'.proposal = scan[s].filed
                 /\ row'.print = row.print
           /\ UNCHANGED <<approvalVars, about>>
           /\ \A t \in Scans \ {s} : scan'[t] = scan[t]
<1>1. scan[s] \in ScanType /\ row \in RowType
  BY DEF InboundTypeOK
<1> QED BY <1>1 DEF Link, WrittenBy, ScanType, RowType, InboundTypeOK

LEMMA LeftEffect ==
    ASSUME InboundTypeOK, NEW s \in Scans, Finish(s) \/ Abandon(s)
    PROVE  /\ scan[s].retire = NoOne \/ scan[s].pc = "judging"
           /\ scan'[s] = NoScan
           /\ fresh' \subseteq fresh \ {s}
           /\ UNCHANGED <<approvalVars, row, about>>
           /\ \A t \in Scans \ {s} : scan'[t] = scan[t]
BY DEF Finish, Abandon, Left, InboundTypeOK

-----------------------------------------------------------------------------
(***************************************************************************)
(* While no commit is lost: the approvals.                                 *)
(***************************************************************************)
BaseInv == InboundTypeOK /\ ApprovalInv /\ ApprovalSticks

\* A card is closed only when nobody works on it.
LEMMA RetireKeeps ==
    ASSUME BaseInv, NEW s \in Scans, Retire(s)
    PROVE  (ApprovalInv /\ ApprovalSticks)'
<1>1. TypeOK /\ scan[s] \in ScanType
  BY DEF BaseInv, InboundTypeOK
<1>2. TypeOK'
  BY <1>1, RetireEffect DEF TypeOK, Status
<1>3. \A c \in Calls : call[c].pc \in Active =>
         call[c].target \in Proposals /\ status[call[c].target] = "APPROVED"
  BY <1>1, BusyTarget DEF BaseInv, ApprovalInv, ExclusiveApproval, Active
<1>4. UNCHANGED call /\ \A c \in Calls : call[c].pc \in Active => status'[call[c].target] = "APPROVED"
  BY <1>1, <1>3, RetireEffect DEF TypeOK
<1>5. ExclusiveApproval'
  BY <1>4 DEF BaseInv, ApprovalInv, ExclusiveApproval
<1>6. StatusMatchesEffects'
  BY <1>1, RetireEffect DEF BaseInv, ApprovalInv, StatusMatchesEffects, TypeOK
<1>7. ApprovalSticks' /\ inflight' = {}
  BY <1>1, <1>4, RetireEffect DEF BaseInv, ApprovalInv, ApprovalSticks
<1> QED BY <1>2, <1>5, <1>6, <1>7 DEF ApprovalInv

LEMMA StepBase ==
    ASSUME NoLostCommit, BaseInv, [InboundNext]_inboundVars
    PROVE  BaseInv'
<1>1. InboundTypeOK' /\ TypeOK
  BY InboundTyped DEF BaseInv, InboundTypeOK
<1> QED BY <1>1, InboxOrRetire, RetireKeeps, StepInv DEF BaseInv

LEMMA InitBase == InboundInit => BaseInv
BY InboundInitTyped, InitInv DEF InboundInit, BaseInv

\* The steps of the inbox, proposal by proposal.
LEMMA DecidedProposals ==
    ASSUME BaseInv, NEW c \in Calls, Decide(c)
    PROVE  \A p \in Proposals : Decided(p)
<1> USE DEF BaseInv, InboundTypeOK, store
<1>1. CASE Approve(c)
  <2>1. call[c].target \in Proposals
    BY <1>1, BusyTarget DEF Approve
  <2>2. CASE UNCHANGED store
    BY <2>2 DEF Decided
  <2>3. CASE /\ Claimable(c, call[c].target)
             /\ Move(call[c].target, "APPROVED")
             /\ approvals' = [approvals EXCEPT ![call[c].target] = @ + 1]
    <3>1. status[call[c].target] \in Decidable
      BY <1>1, <2>3 DEF Approve, Claimable, ApprovalSticks
    <3>2. approvals' # approvals
      BY <2>1, <2>3 DEF TypeOK
    <3>3. row.proposal = call[c].target /\ fresh' = {}
      BY <1>1, <3>2
      DEF Decide, Claim, Written, Read, Reject, Execute, CheckFailable, RecordFailure
    <3> QED BY <2>1, <2>3, <3>1, <3>3 DEF Decided, Move, TypeOK
  <2> QED BY <1>1, <2>2, <2>3 DEF Approve
<1>2. CASE Execute(c) \/ CheckFailable(c) \/ RecordFailure(c)
  <2>1. call[c].target \in Proposals /\ status[call[c].target] = "APPROVED"
    BY <1>2, BusyTarget
    DEF Execute, CheckFailable, RecordFailure, ApprovalInv, ExclusiveApproval, Active
  <2> QED BY <1>2, <2>1 DEF Execute, CheckFailable, RecordFailure, Executed, Move, Decided, TypeOK
<1>3. ASSUME NEW p \in Proposals, Reject(c, p) \/ \E a \in Actors : Read(c, p, a, Decidable)
      PROVE  \A q \in Proposals : Decided(q)
  BY <1>3 DEF Reject, Read, Move, Decided, TypeOK
<1> QED BY <1>1, <1>2, <1>3 DEF Decide

\* What any step does to a proposal.
Moved(p) ==
    \/ Decided(p)
    \/ /\ <<status[p], status'[p]>> \in {<<"ABSENT", "PENDING_APPROVAL">>, <<"FAILED", "REJECTED">>}
       /\ approvals'[p] = approvals[p]

LEMMA StepMoves ==
    ASSUME BaseInv, [InboundNext]_inboundVars
    PROVE  \A p \in Proposals : Moved(p)
<1> USE DEF BaseInv
<1>1. CASE UNCHANGED <<status, approvals>>
  BY <1>1 DEF Moved, Decided
<1>2. ASSUME NEW c \in Calls, Decide(c)
      PROVE  \A p \in Proposals : Moved(p)
  BY <1>2, DecidedProposals DEF Moved
<1>3. ASSUME NEW s \in Scans, Retire(s)
      PROVE  \A p \in Proposals : Moved(p)
  <2>1. scan[s] \in ScanType /\ TypeOK
    BY DEF InboundTypeOK
  <2> QED BY <1>3, <2>1, RetireEffect DEF Moved, Decided, TypeOK
<1>4. ASSUME NEW s \in Scans, NEW p \in Proposals, File(s, p)
      PROVE  \A q \in Proposals : Moved(q)
  BY <1>4, FileEffect DEF Moved, Decided, InboundTypeOK, TypeOK
<1>5. ASSUME NEW s \in Scans, ScanStep(s), ~Retire(s), \A p \in Proposals : ~File(s, p)
      PROVE  UNCHANGED <<status, approvals>>
  BY <1>5
  DEF ScanStep, Start, ReadRow, ReadStatus, Settle, Await, PassOver, Link, Finish, Abandon,
      approvalVars, store
<1>6. ASSUME NEW c \in Calls, Adopt(c) \/ Mark(c)
      PROVE  UNCHANGED <<status, approvals>>
  BY <1>6 DEF Adopt, Mark, Answer, approvalVars, store
<1> QED
  BY <1>1, <1>2, <1>3, <1>4, <1>5, <1>6
  DEF InboundNext, Edit, LoseLock, Restart, inboundVars, approvalVars, store

-----------------------------------------------------------------------------
(***************************************************************************)
(* While no commit is lost, with or without the lock.                      *)
(***************************************************************************)

\* An answer tells what became of the proposal.
CallEnds ==
    \A c \in Calls :
        /\ call[c].pc = "executed" => status[call[c].target] = "EXECUTED"
        /\ call[c].pc = "rejected" => status[call[c].target] = "REJECTED"
        /\ call[c].pc \in Active \cup {"executed", "failed"} => approvals[call[c].target] > 0

\* The approvals of a proposal that was not approved yet.
Unapproved ==
    \A p \in Proposals : status[p] \in {"ABSENT", "PENDING_APPROVAL"} => approvals[p] = 0

\* Rows point at proposals that exist, and a retry is one of what was approved.
Known ==
    /\ row.proposal # NoOne => status[row.proposal] # "ABSENT"
    /\ row.proposal # NoOne /\ row.status = "PENDING_RETRY" => approvals[row.proposal] > 0
    /\ \A s \in Scans :
          scan[s].pc \in {"read", "judging"} /\ scan[s].row.proposal # NoOne
             => status[scan[s].row.proposal] # "ABSENT"

\* How far a scan is, and what it drafts from.
Stage(s) ==
    /\ scan[s].pc \in {"idle", "listed", "read", "judging", "linking"} => scan[s].retire = NoOne
    /\ scan[s].pc # "idle" => scan[s].edition <= edition
    /\ scan[s].pc = "linking" => /\ scan[s].filed # NoOne
                                 /\ status[scan[s].filed] # "ABSENT"
                                 /\ about[scan[s].filed] = scan[s].edition

Stages == \A s \in Scans : Stage(s)

Drafts == \A p \in Proposals : status[p] # "ABSENT" => about[p] <= edition

\* What a status may have become without a new approval.
Later == {<<"PENDING_APPROVAL", "PENDING_APPROVAL">>, <<"PENDING_APPROVAL", "REJECTED">>,
          <<"APPROVED", "APPROVED">>, <<"APPROVED", "EXECUTED">>, <<"APPROVED", "FAILED">>,
          <<"APPROVED", "REJECTED">>, <<"FAILED", "FAILED">>, <<"FAILED", "REJECTED">>,
          <<"EXECUTED", "EXECUTED">>, <<"REJECTED", "REJECTED">>}

\* As long as a scan's version of the row is the current one, what it read still
\* holds, save for a card that was decided and not approved; and what it wrote
\* is still there.
FreshRead(s) ==
    /\ scan[s].pc \in {"read", "judging"} => scan[s].row = row
    /\ scan[s].pc = "judging" /\ NeedsProposalStatus(row) =>
          <<scan[s].seen, status[row.proposal]>> \in Later
    /\ scan[s].pc \in {"filing", "linking"} => row.proposal = NoOne

FreshReads == \A s \in fresh : FreshRead(s)

SteadyInv == BaseInv /\ CallEnds /\ Unapproved /\ Known /\ Stages /\ Drafts /\ FreshReads

LEMMA StepCallEnds ==
    ASSUME BaseInv, CallEnds, [InboundNext]_inboundVars
    PROVE  CallEnds'
<1> USE DEF BaseInv, InboundTypeOK
<1>0. \A c \in Calls : call[c].pc # "idle" => call[c].target \in Proposals
  BY BusyTarget
<1>1. \A p \in Proposals : /\ status[p] \in {"EXECUTED", "REJECTED"} => status'[p] = status[p]
                           /\ approvals[p] > 0 => approvals'[p] > 0
  <2> SUFFICES ASSUME NEW p \in Proposals
               PROVE  /\ status[p] \in {"EXECUTED", "REJECTED"} => status'[p] = status[p]
                      /\ approvals[p] > 0 => approvals'[p] > 0
    OBVIOUS
  <2>1. approvals[p] \in Nat /\ Moved(p)
    BY StepMoves DEF TypeOK
  <2> QED BY <2>1 DEF Moved, Decided, Decidable
<1>2. ASSUME NEW c \in Calls, call'[c] = call[c] \/ call'[c] = NoCall
      PROVE  /\ call'[c].pc = "executed" => status'[call'[c].target] = "EXECUTED"
             /\ call'[c].pc = "rejected" => status'[call'[c].target] = "REJECTED"
             /\ call'[c].pc \in Active \cup {"executed", "failed"} => approvals'[call'[c].target] > 0
  BY <1>0, <1>1, <1>2 DEF CallEnds, NoCall, Active
<1>3. ASSUME NEW c \in Calls, Decide(c)
      PROVE  CallEnds'
  <2>0. call[c] \in CallType
    BY DEF TypeOK
  <2>1. \A d \in Calls \ {c} : call'[d] = call[d]
    BY <1>3 DEF Decide, Read, Reject, Approve, Execute, CheckFailable, RecordFailure, Goto, Leave,
                TypeOK
  <2>2. SUFFICES
          /\ call'[c].pc = "executed" => status'[call'[c].target] = "EXECUTED"
          /\ call'[c].pc = "rejected" => status'[call'[c].target] = "REJECTED"
          /\ call'[c].pc \in Active \cup {"executed", "failed"} => approvals'[call'[c].target] > 0
    BY <1>2, <2>1 DEF CallEnds
  <2>3. ASSUME NEW p \in Proposals, Reject(c, p) \/ \E a \in Actors : Read(c, p, a, Decidable)
        PROVE  /\ call'[c].pc = "executed" => status'[call'[c].target] = "EXECUTED"
               /\ call'[c].pc = "rejected" => status'[call'[c].target] = "REJECTED"
               /\ call'[c].pc \in Active \cup {"executed", "failed"} => approvals'[call'[c].target] > 0
    <3>1. CASE Reject(c, p)
      BY <2>3, <3>1 DEF Reject, Move, NoCall, Active, TypeOK
    <3>2. CASE \E a \in Actors : Read(c, p, a, Decidable)
      <4>1. call'[c].pc = "claiming"
        BY <3>2 DEF Read, TypeOK
      <4> QED BY <4>1 DEF Active
    <3> QED BY <2>3, <3>1, <3>2
  <2>4. CASE call'[c] = NoCall
    BY <1>2, <2>4
  <2>5. CASE Approve(c) /\ ~Leave(c)
    <3>1. call[c].target \in Proposals /\ approvals[call[c].target] \in Nat
      BY <1>0, <2>5 DEF Approve, TypeOK
    <3>2. approvals'[call[c].target] > 0
      BY <2>5, <3>1 DEF Approve, TypeOK
    <3>3. call'[c].pc \in {"failing", "executing"} /\ call'[c].target = call[c].target
      BY <2>0, <2>5 DEF Approve, Goto, CallType, TypeOK
    <3> QED BY <3>2, <3>3
  <2>6. CASE (Execute(c) \/ CheckFailable(c) \/ RecordFailure(c)) /\ ~Leave(c)
    <3>1. /\ call[c].pc \in Active
          /\ approvals' = approvals
          /\ call'[c].target = call[c].target
          /\ call'[c].pc \in Active \cup {"executed", "failed"}
          /\ call'[c].pc = "executed" => Executed(call[c].target)
      BY <2>0, <2>6 DEF Execute, CheckFailable, RecordFailure, Goto, Active, CallType, TypeOK, store
    <3> QED BY <1>0, <3>1 DEF CallEnds, Executed, Move, Active, TypeOK
  <2>7. Leave(c) => call'[c] = NoCall
    BY DEF Leave, TypeOK
  <2> QED BY <1>3, <2>3, <2>4, <2>5, <2>6, <2>7 DEF Decide
<1>4. (\A c \in Calls : call'[c] = call[c] \/ call'[c] = NoCall) \/ \E c \in Calls : Decide(c)
  <2>1. ASSUME NEW c \in Calls, Mark(c)
        PROVE  \A d \in Calls : call'[d] = call[d] \/ call'[d] = NoCall
    BY <2>1, MarkEffect DEF TypeOK
  <2>2. ASSUME NEW s \in Scans, ScanStep(s)
        PROVE  call' = call
    BY <2>2
    DEF ScanStep, Start, ReadRow, ReadStatus, Settle, Await, PassOver, Retire, File, Create, Link,
        Finish, Abandon, approvalVars
  <2> QED BY <2>1, <2>2 DEF InboundNext, Edit, Adopt, LoseLock, Restart, inboundVars, approvalVars
<1> QED BY <1>2, <1>3, <1>4 DEF CallEnds

LEMMA StepUnapproved ==
    ASSUME BaseInv, Unapproved, [InboundNext]_inboundVars
    PROVE  Unapproved'
BY StepMoves DEF Moved, Decided, Decidable, Unapproved

\* The steps that neither judge nor mark anything.
Quiet ==
    /\ \A p \in Proposals : Decided(p)
    /\ UNCHANGED <<row, about, scan, answered>>
    /\ fresh' \in {fresh, {}}
    /\ edition' \in {edition, edition + 1}

LEMMA QuietSteps ==
    ASSUME BaseInv, [InboundNext]_inboundVars
    PROVE  \/ Quiet \/ Restart
           \/ \E c \in Calls : Mark(c)
           \/ \E s \in Scans : ScanStep(s)
<1>1. ASSUME NEW c \in Calls, Decide(c)
      PROVE  Quiet
  BY <1>1, DecideEffect, DecidedProposals DEF Quiet, BaseInv, InboundTypeOK
<1>2. ASSUME NEW c \in Calls, Adopt(c)
      PROVE  Quiet
  BY <1>2 DEF Adopt, Quiet, approvalVars, store, Decided
<1>3. CASE Edit \/ LoseLock \/ UNCHANGED inboundVars
  BY <1>3 DEF Edit, LoseLock, inboundVars, calendarVars, approvalVars, store, Quiet, Decided
<1> QED BY <1>1, <1>2, <1>3 DEF InboundNext

\* The kinds of steps of a scan.
LEMMA ScanKinds ==
    ASSUME NEW s \in Scans, ScanStep(s)
    PROVE  \/ Start(s) \/ ReadRow(s) \/ ReadStatus(s) \/ Settle(s) \/ Await(s) \/ PassOver(s)
           \/ Retire(s) \/ (\E p \in Proposals : File(s, p)) \/ Link(s)
           \/ Finish(s) \/ Abandon(s)
BY DEF ScanStep

LEMMA StepKnown ==
    ASSUME BaseInv, CallEnds, Known, Stages, [InboundNext]_inboundVars
    PROVE  Known'
<1> USE DEF BaseInv
<1>0. InboundTypeOK /\ TypeOK
  BY DEF InboundTypeOK
<1>1. \A p \in Proposals : /\ status[p] # "ABSENT" => status'[p] # "ABSENT"
                           /\ approvals[p] > 0 => approvals'[p] > 0
  <2> SUFFICES ASSUME NEW p \in Proposals
               PROVE  /\ status[p] # "ABSENT" => status'[p] # "ABSENT"
                      /\ approvals[p] > 0 => approvals'[p] > 0
    OBVIOUS
  <2>1. approvals[p] \in Nat /\ Moved(p)
    BY StepMoves DEF InboundTypeOK, TypeOK
  <2> QED BY <2>1 DEF Moved, Decided, Decidable
<1>2. /\ row.proposal \in Proposals \cup {NoOne}
      /\ \A s \in Scans : /\ scan[s] \in ScanType
                          /\ scan[s].row.proposal \in Proposals \cup {NoOne}
                          /\ scan[s].filed \in Proposals \cup {NoOne}
  BY DEF InboundTypeOK, RowType, ScanType
<1> DEFINE RowOf(r) == /\ r.proposal # NoOne => status'[r.proposal] # "ABSENT"
                       /\ r.proposal # NoOne /\ r.status = "PENDING_RETRY"
                             => approvals'[r.proposal] > 0
           ScanOf(s) == scan'[s].pc \in {"read", "judging"} /\ scan'[s].row.proposal # NoOne
                           => status'[scan'[s].row.proposal] # "ABSENT"
<1>3. RowOf(row)
  BY <1>1, <1>2 DEF Known
<1>4. \A s \in Scans : scan'[s] = scan[s] => ScanOf(s)
  BY <1>1, <1>2 DEF Known
<1>5. SUFFICES RowOf(row') /\ \A s \in Scans : ScanOf(s)
  BY DEF Known
<1>6. CASE Quiet
  BY <1>3, <1>4, <1>6 DEF Quiet
<1>7. CASE Restart
  BY <1>3, <1>7 DEF Restart, NoScan
<1>8. ASSUME NEW c \in Calls, Mark(c)
      PROVE  RowOf(row') /\ \A s \in Scans : ScanOf(s)
  <2>1. scan' = scan
    BY <1>0, <1>8, MarkEffect
  <2>2. CASE UNCHANGED row
    BY <1>3, <1>4, <2>1, <2>2
  <2>3. CASE /\ row.proposal = call[c].target
             /\ row' = [row EXCEPT !.status = row'.status]
             /\ row'.status = "PENDING_RETRY" => call[c].pc = "failed"
    <3>1. row'.proposal = row.proposal
      BY <2>3 DEF InboundTypeOK, RowType
    <3>2. call[c].pc = "failed" => approvals[call[c].target] > 0
      BY DEF CallEnds
    <3>3. call[c].target \in Proposals
      BY <1>0, <1>8, MarkEffect
    <3> QED BY <1>1, <1>3, <1>4, <2>1, <2>3, <3>1, <3>2, <3>3
  <2> QED BY <1>0, <1>8, <2>2, <2>3, MarkEffect
<1>9. ASSUME NEW s \in Scans, ScanStep(s)
      PROVE  RowOf(row') /\ \A t \in Scans : ScanOf(t)
  <2>1. \A t \in Scans \ {s} : scan'[t] = scan[t]
    BY <1>9, ScanEffect DEF InboundTypeOK
  <2>2. SUFFICES RowOf(row') /\ ScanOf(s)
    BY <1>4, <2>1
  <2> HIDE DEF RowOf, ScanOf
  <2>3. scan'[s].pc \notin {"read", "judging"} => ScanOf(s)
    BY DEF ScanOf
  <2>4. scan'[s].pc = scan[s].pc /\ scan'[s].row = scan[s].row => ScanOf(s)
    BY <1>1, <1>2 DEF Known, ScanOf
  <2>5. CASE Start(s)
    BY <1>0, <1>3, <2>3, <2>5, StartEffect
  <2>6. CASE ReadRow(s)
    BY <1>0, <1>3, <2>6, ReadRowEffect DEF ScanOf, RowOf
  <2>7. CASE ReadStatus(s)
    <3>1. ScanOf(s)
      BY <1>0, <1>1, <1>2, <2>7, ReadStatusEffect DEF ScanOf, Known
    <3> QED BY <1>0, <1>3, <2>7, <3>1, ReadStatusEffect
  <2>8. CASE Settle(s) \/ Await(s)
    <3>1. Judgement(s)
      BY <1>0, <2>8, JudgeEffect
    <3>2. ScanOf(s)
      BY <2>3, <3>1 DEF Judgement
    <3>3. \/ row' = row
          \/ row'.proposal = NoOne
          \/ row'.proposal = row.proposal /\ row'.status # "PENDING_RETRY"
      BY <3>1 DEF Judgement, Detached
    <3> QED BY <1>3, <3>2, <3>3 DEF RowOf
  <2>9. CASE PassOver(s)
    <3>1. scan'[s].pc \notin {"read", "judging"}
      BY <1>0, <2>9, PassOverEffect
    <3>2. \/ row' = row
          \/ row'.proposal = row.proposal /\ row'.status # "PENDING_RETRY"
      BY <1>0, <2>9, PassOverEffect
    <3> QED BY <1>3, <2>3, <3>1, <3>2 DEF RowOf
  <2>10. CASE Retire(s)
    BY <1>0, <1>3, <2>4, <2>10, RetireSelf
  <2>11. CASE \E p \in Proposals : File(s, p)
    BY <1>0, <1>3, <2>3, <2>11, FileEffect
  <2>12. CASE Link(s)
    <3>1. scan'[s].pc \notin {"read", "judging"}
      BY <1>0, <2>12, LinkEffect
    <3>2. CASE UNCHANGED row
      BY <1>3, <2>3, <3>1, <3>2
    <3>3. CASE row'.status = "PROPOSED" /\ row'.proposal = scan[s].filed
      <4>1. scan[s].filed \in Proposals /\ status[scan[s].filed] # "ABSENT"
        BY <1>0, <1>2, <2>12, LinkEffect DEF Stages, Stage
      <4> QED BY <1>1, <2>3, <3>1, <3>3, <4>1 DEF RowOf
    <3> QED BY <1>0, <2>12, <3>2, <3>3, LinkEffect
  <2>13. CASE Finish(s) \/ Abandon(s)
    <3>1. scan'[s].pc = "idle" /\ UNCHANGED row
      BY <1>0, <2>13, LeftEffect DEF NoScan
    <3> QED BY <1>3, <2>3, <3>1
  <2> QED
    BY <1>9, <2>5, <2>6, <2>7, <2>8, <2>9, <2>10, <2>11, <2>12, <2>13, ScanKinds
<1> QED BY <1>0, <1>6, <1>7, <1>8, <1>9, QuietSteps

LEMMA StepStages ==
    ASSUME BaseInv, Stages, [InboundNext]_inboundVars
    PROVE  Stages'
<1> USE DEF BaseInv
<1>0. InboundTypeOK /\ TypeOK /\ edition \in Nat
  BY DEF InboundTypeOK, Editions
<1>1. \A p \in Proposals : status[p] # "ABSENT" => status'[p] # "ABSENT"
  BY StepMoves DEF Moved, Decided, Decidable
<1>2. \A s \in Scans : /\ scan[s] \in ScanType
                       /\ scan[s].filed \in Proposals \cup {NoOne}
                       /\ scan[s].edition \in Nat
  BY DEF InboundTypeOK, ScanType, Editions
<1>3. ASSUME NEW s \in Scans, edition' \in {edition, edition + 1},
             scan[s].pc = "linking" => about'[scan[s].filed] = about[scan[s].filed],
             /\ scan'[s].pc = scan[s].pc
             /\ scan'[s].retire \in {NoOne, scan[s].retire}
             /\ scan'[s].edition = scan[s].edition
             /\ scan'[s].filed = scan[s].filed
      PROVE  Stage(s)'
  <2>1. Stage(s)
    BY DEF Stages
  <2> QED BY <1>0, <1>1, <1>2, <1>3, <2>1 DEF Stage
<1>4. CASE Quiet
  BY <1>3, <1>4 DEF Quiet, Stages
<1>5. CASE Restart
  BY <1>5 DEF Restart, NoScan, Stages, Stage
<1>6. ASSUME NEW c \in Calls, Mark(c)
      PROVE  Stages'
  BY <1>0, <1>3, <1>6, MarkEffect DEF Stages
<1>7. ASSUME NEW s \in Scans, ScanStep(s)
      PROVE  Stages'
  <2>1. UNCHANGED edition /\ \A t \in Scans \ {s} : scan'[t] = scan[t]
    BY <1>7, ScanEffect DEF InboundTypeOK
  <2>2. Stage(s)
    BY DEF Stages
  <2>3. CASE \E p \in Proposals : File(s, p)
    <3>1. PICK p \in Proposals : File(s, p)
      BY <2>3
    <3>2. /\ scan'[s].pc = "linking" /\ scan'[s].filed = p /\ scan'[s].retire = NoOne
          /\ status'[p] # "ABSENT"
          /\ about'[p] = scan'[s].edition
          /\ scan[s].pc = "filing" /\ scan'[s].edition = scan[s].edition
          /\ status[p] = "ABSENT"
          /\ \A q \in Proposals \ {p} : about'[q] = about[q]
      BY <1>0, <3>1, FileEffect DEF InboundTypeOK, TypeOK
    <3>3. Stage(s)'
      BY <2>1, <2>2, <3>2 DEF Stage
    <3>4. ASSUME NEW t \in Scans \ {s}
          PROVE  Stage(t)'
      <4>1. scan[t].pc = "linking" => scan[t].filed \in Proposals \ {p}
        BY <1>2, <3>2 DEF Stages, Stage
      <4> QED BY <1>3, <2>1, <3>2, <4>1
    <3> QED BY <3>3, <3>4 DEF Stages
  <2>4. SUFFICES ASSUME UNCHANGED about
                 PROVE  Stage(s)'
    <3>1. CASE UNCHANGED about /\ Stage(s)'
      BY <1>3, <2>1, <3>1 DEF Stages
    <3>2. UNCHANGED about \/ \E p \in Proposals : File(s, p)
      BY <1>7 DEF ScanStep, Start, ReadRow, ReadStatus, Settle, Await, PassOver, Retire, Link,
                  Finish, Abandon
    <3> QED BY <2>3, <2>4, <3>1, <3>2
  <2>5. CASE Start(s)
    BY <1>0, <2>1, <2>5, StartEffect DEF Stage
  <2>6. CASE ReadRow(s)
    BY <1>0, <2>1, <2>2, <2>6, ReadRowEffect DEF Stage
  <2>7. CASE ReadStatus(s)
    BY <1>0, <2>1, <2>2, <2>7, ReadStatusEffect DEF Stage
  <2>8. CASE Settle(s) \/ Await(s)
    <3>1. scan'[s].pc \in {"done", "touching", "filing"} /\ scan[s].pc = "judging"
      BY <1>0, <2>8, JudgeEffect DEF Judgement
    <3> QED BY <1>0, <2>1, <2>2, <2>8, <3>1, JudgeEffect DEF Stage
  <2>9. CASE PassOver(s)
    <3>1. scan'[s].pc \in {"done", "touching"} /\ scan[s].pc = "judging"
      BY <1>0, <2>9, PassOverEffect
    <3> QED BY <1>0, <2>1, <2>2, <2>9, <3>1, PassOverEffect DEF Stage
  <2>10. CASE Retire(s)
    BY <1>0, <1>3, <2>1, <2>4, <2>10, RetireSelf
  <2>11. CASE Link(s)
    BY <1>0, <2>1, <2>2, <2>11, LinkEffect DEF Stage
  <2>12. CASE Finish(s) \/ Abandon(s)
    BY <1>0, <2>12, LeftEffect DEF Stage, NoScan
  <2> QED
    BY <1>7, <2>3, <2>5, <2>6, <2>7, <2>8, <2>9, <2>10, <2>11, <2>12, ScanKinds DEF Stages
<1> QED BY <1>4, <1>5, <1>6, <1>7, QuietSteps

LEMMA StepDrafts ==
    ASSUME BaseInv, Stages, Drafts, [InboundNext]_inboundVars
    PROVE  Drafts'
<1> USE DEF BaseInv
<1>0. InboundTypeOK /\ TypeOK /\ edition \in Nat /\ \A p \in Proposals : about[p] \in Nat
  BY DEF InboundTypeOK, Editions
<1>1. CASE UNCHANGED about /\ edition' \in {edition, edition + 1}
           /\ \A p \in Proposals : status[p] = "ABSENT" => status'[p] = "ABSENT"
  BY <1>0, <1>1 DEF Drafts
<1>2. CASE Quiet
  BY <1>1, <1>2 DEF Quiet, Decided, Decidable
<1>3. CASE Restart
  BY <1>1, <1>3 DEF Restart, store
<1>4. ASSUME NEW c \in Calls, Mark(c)
      PROVE  Drafts'
  BY <1>0, <1>1, <1>4, MarkEffect DEF store
<1>5. ASSUME NEW s \in Scans, ScanStep(s)
      PROVE  Drafts'
  <2>1. UNCHANGED edition
    BY <1>5, ScanEffect
  <2>2. CASE \E p \in Proposals : File(s, p)
    <3>1. PICK p \in Proposals : File(s, p)
      BY <2>2
    <3>2. scan[s].edition <= edition
      BY <1>0, <3>1, FileEffect DEF Stages, Stage
    <3>3. /\ about' = [about EXCEPT ![p] = scan[s].edition]
          /\ status' = [status EXCEPT ![p] = "PENDING_APPROVAL"]
      BY <1>0, <3>1, FileEffect
    <3> QED BY <1>0, <2>1, <3>2, <3>3 DEF Drafts, InboundTypeOK, TypeOK
  <2>3. CASE Retire(s)
    <3>1. scan[s] \in ScanType
      BY DEF InboundTypeOK
    <3> QED BY <1>0, <1>1, <2>1, <2>3, <3>1, RetireEffect, RetireSelf DEF TypeOK
  <2>4. CASE Settle(s) \/ Await(s)
    BY <1>0, <1>1, <2>1, <2>4, JudgeEffect DEF approvalVars, store
  <2>5. CASE Start(s) \/ ReadRow(s) \/ ReadStatus(s) \/ PassOver(s) \/ Link(s) \/ Finish(s) \/ Abandon(s)
    BY <1>1, <2>1, <2>5
    DEF Start, ReadRow, ReadStatus, PassOver, Link, Finish, Abandon, approvalVars, store
  <2> QED BY <1>5, <2>2, <2>3, <2>4, <2>5, ScanKinds
<1> QED BY <1>2, <1>3, <1>4, <1>5, QuietSteps

LEMMA StepFresh ==
    ASSUME BaseInv, Known, FreshReads, [InboundNext]_inboundVars
    PROVE  FreshReads'
<1> USE DEF BaseInv
<1>0. InboundTypeOK /\ TypeOK /\ row.proposal \in Proposals \cup {NoOne}
  BY DEF InboundTypeOK, RowType
<1>1. ASSUME UNCHANGED row,
             row.proposal \in Proposals =>
                \/ status'[row.proposal] = status[row.proposal]
                \/ <<status[row.proposal], status'[row.proposal]>> \in
                      {<<"PENDING_APPROVAL", "REJECTED">>, <<"APPROVED", "EXECUTED">>,
                       <<"APPROVED", "FAILED">>, <<"FAILED", "REJECTED">>},
             NEW t \in fresh,
             /\ scan'[t].pc = scan[t].pc /\ scan'[t].row = scan[t].row
             /\ scan'[t].seen = scan[t].seen
      PROVE  FreshRead(t)'
  <2>1. FreshRead(t)
    BY DEF FreshReads
  <2>2. NeedsProposalStatus(row) => row.proposal \in Proposals
    BY <1>0 DEF NeedsProposalStatus, AwaitsDecision
  <2>3. scan[t].pc = "judging" /\ NeedsProposalStatus(row)
           => <<scan[t].seen, status'[row.proposal]>> \in Later
    BY <1>1, <2>1, <2>2 DEF FreshRead, Later
  <2> QED BY <1>1, <2>1, <2>3 DEF FreshRead, NeedsProposalStatus, AwaitsDecision
<1>2. CASE Quiet
  <2>1. CASE fresh' = {}
    BY <2>1 DEF FreshReads
  <2>2. CASE fresh' = fresh /\ fresh # {}
    <3>1. row.proposal \in Proposals => Decided(row.proposal)
      BY <1>2 DEF Quiet
    <3> QED BY <1>1, <1>2, <2>2, <3>1 DEF Quiet, Decided, FreshReads
  <2> QED BY <1>2, <2>1, <2>2 DEF Quiet
<1>3. CASE Restart
  BY <1>3 DEF Restart, FreshReads
<1>4. ASSUME NEW c \in Calls, Mark(c)
      PROVE  FreshReads'
  <2>1. UNCHANGED <<scan, status>>
    BY <1>0, <1>4, MarkEffect DEF store
  <2>2. CASE fresh' = {}
    BY <2>2 DEF FreshReads
  <2>3. CASE UNCHANGED <<row, fresh>>
    BY <1>1, <2>1, <2>3 DEF FreshReads
  <2> QED BY <1>0, <1>4, <2>2, <2>3, MarkEffect
<1>5. ASSUME NEW s \in Scans, ScanStep(s)
      PROVE  FreshReads'
  <2>0. scan[s] \in ScanType
    BY DEF InboundTypeOK
  <2>1. \A t \in Scans \ {s} : scan'[t] = scan[t]
    BY <1>5, ScanEffect DEF InboundTypeOK
  <2>2. fresh \subseteq Scans
    BY DEF InboundTypeOK
  <2>3. CASE /\ UNCHANGED <<row, status>>
             /\ fresh' \subseteq fresh \cup {s}
             /\ s \in fresh' => FreshRead(s)'
    BY <1>1, <2>1, <2>2, <2>3 DEF FreshReads
  <2>4. CASE fresh' = {s} /\ FreshRead(s)'
    BY <2>4 DEF FreshReads
  <2>5. CASE Start(s)
    <3>1. s \notin fresh
      BY <1>0, <2>5, StartEffect DEF InboundTypeOK
    <3>2. UNCHANGED <<row, fresh, status>>
      BY <1>0, <2>5, StartEffect DEF approvalVars, store
    <3> QED BY <2>3, <3>1, <3>2
  <2>6. CASE ReadRow(s)
    <3>1. UNCHANGED <<row, status>> /\ fresh' \subseteq fresh \cup {s}
      BY <1>0, <2>6, ReadRowEffect DEF approvalVars, store
    <3>2. FreshRead(s)'
      BY <1>0, <2>6, ReadRowEffect DEF FreshRead
    <3> QED BY <2>3, <3>1, <3>2
  <2>7. CASE ReadStatus(s)
    <3>1. /\ UNCHANGED <<row, status, fresh>>
          /\ scan[s].pc = "read" /\ scan'[s].pc = "judging" /\ scan'[s].row = scan[s].row
          /\ NeedsProposalStatus(scan[s].row) => scan'[s].seen = status[scan[s].row.proposal]
      BY <1>0, <2>7, ReadStatusEffect DEF approvalVars, store
    <3>2. NeedsProposalStatus(row) => row.proposal # NoOne
      BY DEF NeedsProposalStatus, AwaitsDecision
    <3>3. NeedsProposalStatus(row) => <<status[row.proposal], status[row.proposal]>> \in Later
      BY <1>0, <3>2 DEF Known, Later, TypeOK, Status, Decidable
    <3>4. s \in fresh => scan[s].row = row
      BY <3>1 DEF FreshReads, FreshRead
    <3>5. s \in fresh => FreshRead(s)'
      BY <3>1, <3>3, <3>4 DEF FreshRead, NeedsProposalStatus, AwaitsDecision
    <3> QED BY <2>3, <3>1, <3>5
  <2>8. CASE Settle(s) \/ Await(s)
    <3>1. Judgement(s) /\ UNCHANGED status
      BY <1>0, <2>8, JudgeEffect DEF approvalVars, store
    <3>2. FreshRead(s)' /\ \/ fresh' = {s}
                           \/ UNCHANGED <<row, fresh>>
      BY <3>1 DEF Judgement, FreshRead
    <3> QED BY <2>3, <2>4, <3>1, <3>2
  <2>9. CASE PassOver(s)
    <3>1. scan'[s].pc \in {"touching", "done"} /\ UNCHANGED status
      BY <1>0, <2>9, PassOverEffect DEF approvalVars, store
    <3>2. FreshRead(s)'
      BY <3>1 DEF FreshRead
    <3>3. fresh' = {s} \/ UNCHANGED <<row, fresh>>
      BY <1>0, <2>9, PassOverEffect
    <3> QED BY <2>3, <2>4, <3>1, <3>2, <3>3
  <2>10. CASE Retire(s)
    <3>1. /\ row.proposal \in Proposals =>
               \/ status'[row.proposal] = status[row.proposal]
               \/ status[row.proposal] = "FAILED" /\ status'[row.proposal] = "REJECTED"
      BY <1>0, <2>0, <2>10, RetireEffect DEF TypeOK
    <3>2. /\ UNCHANGED <<row, fresh>>
          /\ scan'[s].pc = scan[s].pc /\ scan'[s].row = scan[s].row /\ scan'[s].seen = scan[s].seen
      BY <1>0, <2>10, RetireSelf
    <3>3. ASSUME NEW t \in fresh
          PROVE  FreshRead(t)'
      BY <1>1, <2>1, <2>2, <3>1, <3>2
    <3> QED BY <3>2, <3>3 DEF FreshReads
  <2>11. CASE \E p \in Proposals : File(s, p)
    <3>1. PICK p \in Proposals : File(s, p)
      BY <2>11
    <3>2. /\ UNCHANGED <<row, fresh>> /\ scan[s].pc = "filing" /\ scan'[s].pc = "linking"
          /\ status[p] = "ABSENT"
          /\ status' = [status EXCEPT ![p] = "PENDING_APPROVAL"]
      BY <1>0, <3>1, FileEffect
    <3>3. row.proposal \in Proposals => status'[row.proposal] = status[row.proposal]
      BY <1>0, <3>2 DEF Known, TypeOK
    <3>4. s \in fresh => FreshRead(s)'
      BY <3>2 DEF FreshReads, FreshRead
    <3>5. \A t \in fresh \ {s} : FreshRead(t)'
      BY <1>1, <2>1, <2>2, <3>2, <3>3
    <3> QED BY <3>2, <3>4, <3>5 DEF FreshReads
  <2>12. CASE Link(s)
    <3>1. scan'[s].pc = "done" /\ UNCHANGED status
      BY <1>0, <2>12, LinkEffect DEF approvalVars, store
    <3>2. FreshRead(s)'
      BY <3>1 DEF FreshRead
    <3>3. fresh' = {s} \/ UNCHANGED <<row, fresh>>
      BY <1>0, <2>12, LinkEffect
    <3> QED BY <2>3, <2>4, <3>1, <3>2, <3>3
  <2>13. CASE Finish(s) \/ Abandon(s)
    <3>1. UNCHANGED <<row, status>> /\ fresh' \subseteq fresh \ {s}
      BY <1>0, <2>13, LeftEffect DEF approvalVars, store
    <3> QED BY <2>3, <3>1
  <2> QED
    BY <1>5, <2>5, <2>6, <2>7, <2>8, <2>9, <2>10, <2>11, <2>12, <2>13, ScanKinds
<1> QED BY <1>2, <1>3, <1>4, <1>5, QuietSteps

LEMMA InitSteady == InboundInit => SteadyInv
<1>1. InboundInit => CallEnds /\ Unapproved /\ Known /\ Stages /\ FreshReads
  BY DEF InboundInit, ApprovalInit, NoCall, NoRow, NoScan, CallEnds, Unapproved, Known, Stages,
         Stage, FreshReads, Active
<1>2. InboundInit => Drafts
  BY DEF InboundInit, Drafts
<1> QED BY <1>1, <1>2, InitBase DEF SteadyInv

LEMMA StepSteady ==
    NoLostCommit /\ SteadyInv /\ [InboundNext]_inboundVars => SteadyInv'
BY StepBase, StepCallEnds, StepUnapproved, StepKnown, StepStages, StepDrafts, StepFresh
DEF SteadyInv

LEMMA SteadyInvariance ==
    ASSUME NoLostCommit
    PROVE  InboundSpec => []SteadyInv
BY InitSteady, StepSteady, PTL DEF InboundSpec

\* A scan that judges by the current version of a row leaves the row to the
\* proposal it waits for, whether or not that is approved by now.
LEMMA FreshScanSpares ==
    ASSUME SteadyInv, NEW s \in Scans, s \in fresh, scan[s].pc = "judging",
           Decision(s) \in {"evaluate", "awaiting"}, NeedsProposalStatus(row)
    PROVE  /\ row.status = "PENDING_RETRY"
           /\ scan[s].seen \notin {"APPROVED", "EXECUTED"}
           /\ status[row.proposal] \notin {"APPROVED", "EXECUTED"}
<1>1. scan[s].row = row /\ <<scan[s].seen, status[row.proposal]>> \in Later
  BY DEF SteadyInv, FreshReads, FreshRead
<1>2. row.status = "PENDING_RETRY" /\ scan[s].seen \notin {"APPROVED", "EXECUTED"}
  BY <1>1 DEF Decision, Triage, NeedsProposalStatus, AwaitsDecision, Open, Closed, Later
<1> QED BY <1>1, <1>2 DEF Later

\* Every write to the row, and who makes it.
LEMMA RowWrites ==
    ASSUME BaseInv, [InboundNext]_inboundVars
    PROVE  \/ UNCHANGED row
           \/ \E c \in Calls : /\ Mark(c)
                               /\ row.proposal = call[c].target
                               /\ row'.proposal = row.proposal
                               /\ row'.print = row.print
                               /\ fresh' = {}
                               /\ <<call[c].pc, row'.status>> \in
                                     {<<"executed", "ADOPTED">>, <<"rejected", "REJECTED">>,
                                      <<"failed", "PENDING_RETRY">>}
           \/ \E s \in Scans : /\ Settle(s) \/ Await(s)
                               /\ scan[s].pc = "judging"
                               /\ Decision(s) \in {"evaluate", "awaiting"}
                               /\ Judgement(s)
                               /\ Writable(s)
           \/ \E s \in Scans : /\ PassOver(s)
                               /\ Decision(s) = "open_proposal"
                               /\ scan[s].pc = "judging"
                               /\ Writable(s)
                               /\ row'.status = "OPEN_PROPOSAL"
                               /\ row'.proposal = row.proposal
                               /\ row'.print = row.print
           \/ \E s \in Scans : /\ Link(s)
                               /\ scan[s].pc = "linking"
                               /\ s \in fresh
                               /\ row'.status = "PROPOSED"
                               /\ row'.proposal = scan[s].filed
                               /\ row'.print = row.print
<1>0. InboundTypeOK /\ row \in RowType
  BY DEF BaseInv, InboundTypeOK
<1>1. CASE Quiet \/ Restart
  BY <1>1 DEF Quiet, Restart
<1>2. ASSUME NEW c \in Calls, Mark(c), row' # row
      PROVE  /\ row.proposal = call[c].target
             /\ row'.proposal = row.proposal
             /\ row'.print = row.print
             /\ fresh' = {}
             /\ <<call[c].pc, row'.status>> \in
                   {<<"executed", "ADOPTED">>, <<"rejected", "REJECTED">>,
                    <<"failed", "PENDING_RETRY">>}
  <2>1. /\ row.proposal = call[c].target
        /\ row' = [row EXCEPT !.status = row'.status]
        /\ fresh' = {}
        /\ \/ call[c].pc = "executed" /\ row'.status = "ADOPTED"
           \/ call[c].pc = "rejected" /\ row'.status = "REJECTED"
           \/ call[c].pc = "failed" /\ row'.status = "PENDING_RETRY"
    BY <1>0, <1>2, MarkEffect
  <2>2. row'.proposal = row.proposal /\ row'.print = row.print
    BY <1>0, <2>1 DEF RowType
  <2> QED BY <2>1, <2>2
<1>3. ASSUME NEW s \in Scans, Settle(s) \/ Await(s), row' # row
      PROVE  /\ scan[s].pc = "judging"
             /\ Decision(s) \in {"evaluate", "awaiting"}
             /\ Judgement(s)
             /\ Writable(s)
  BY <1>0, <1>3, JudgeEffect DEF Judgement
<1>4. ASSUME NEW s \in Scans, PassOver(s), row' # row
      PROVE  /\ Decision(s) = "open_proposal"
             /\ scan[s].pc = "judging"
             /\ Writable(s)
             /\ row'.status = "OPEN_PROPOSAL"
             /\ row'.proposal = row.proposal
             /\ row'.print = row.print
  BY <1>0, <1>4, PassOverEffect
<1>5. ASSUME NEW s \in Scans, Link(s), row' # row
      PROVE  /\ scan[s].pc = "linking"
             /\ s \in fresh
             /\ row'.status = "PROPOSED"
             /\ row'.proposal = scan[s].filed
             /\ row'.print = row.print
  BY <1>0, <1>5, LinkEffect
<1>6. ASSUME NEW s \in Scans, ScanStep(s), row' # row
      PROVE  Settle(s) \/ Await(s) \/ PassOver(s) \/ Link(s)
  BY <1>6 DEF ScanStep, Start, ReadRow, ReadStatus, Retire, File, Finish, Abandon
<1> QED BY <1>1, <1>2, <1>3, <1>4, <1>5, <1>6, QuietSteps

\* If a scan outlives its lock, the one write that takes a row from an approval
\* is the upsert of a scan that saw no row: every other write either keeps the
\* row's proposal or is conditional on reads that still hold.
THEOREM FirstSightOnly ==
    ASSUME NoLostCommit
    PROVE  InboundSpec => OnlyFirstSightTakes
<1> DEFINE Spares == \A p \in Proposals :
         status[p] = "APPROVED" /\ Guards(row, p) /\ ~Guards(row', p)
            => \E s \in Scans : /\ scan[s].row = NoRow
                               /\ scan[s].pc = "judging" /\ scan'[s].pc # "judging"
<1>1. SteadyInv /\ [InboundNext]_inboundVars => [Spares]_inboundVars
  <2> SUFFICES ASSUME SteadyInv, [InboundNext]_inboundVars, NEW p \in Proposals,
                      status[p] = "APPROVED", Guards(row, p), ~Guards(row', p)
               PROVE  \E s \in Scans : /\ scan[s].row = NoRow
                                       /\ scan[s].pc = "judging" /\ scan'[s].pc # "judging"
    OBVIOUS
  <2>0. BaseInv /\ row.proposal = p /\ p # NoOne /\ NeedsProposalStatus(row)
    BY DEF SteadyInv, Guards
  <2>1. CASE UNCHANGED row
    BY <2>1
  <2>2. ASSUME NEW c \in Calls, row.proposal = call[c].target, row'.proposal = row.proposal,
               <<call[c].pc, row'.status>> \in
                     {<<"executed", "ADOPTED">>, <<"rejected", "REJECTED">>,
                      <<"failed", "PENDING_RETRY">>}
        PROVE  FALSE
    BY <2>0, <2>2 DEF SteadyInv, CallEnds, Guards, NeedsProposalStatus
  <2>3. ASSUME NEW s \in Scans, scan[s].pc = "judging", Writable(s), Judgement(s),
               Decision(s) \in {"evaluate", "awaiting"}
        PROVE  scan[s].row = NoRow /\ scan'[s].pc # "judging"
    BY <2>0, <2>3, FreshScanSpares DEF Writable, Judgement
  <2>4. ASSUME row'.status = "OPEN_PROPOSAL", row'.proposal = row.proposal
        PROVE  FALSE
    BY <2>0, <2>4 DEF Guards, NeedsProposalStatus, AwaitsDecision
  <2>5. ASSUME NEW s \in Scans, scan[s].pc = "linking", s \in fresh
        PROVE  FALSE
    BY <2>0, <2>5 DEF SteadyInv, FreshReads, FreshRead
  <2> QED BY <2>0, <2>1, <2>2, <2>3, <2>4, <2>5, RowWrites
<1> QED BY <1>1, SteadyInvariance, PTL DEF InboundSpec, OnlyFirstSightTakes

-----------------------------------------------------------------------------
(***************************************************************************)
(* While no commit is lost and the lock holds.                             *)
(***************************************************************************)

\* An edition that was left behind: by the owner and by the scan in progress.
Past(e) ==
    /\ e < edition
    /\ \A s \in Scans : scan[s].pc # "idle" => e < scan[s].edition

\* An edition that no scan will draft from any more: it is past, or its decided
\* proposal keeps the row, in a status that a scan takes for an answer as long
\* as the fingerprint is the same.
Settled(e) ==
    \/ Past(e)
    \/ /\ row.proposal # NoOne
       /\ about[row.proposal] = e
       /\ row.print = Fingerprint[e]
       /\ status[row.proposal] \in Closed
       /\ NeedsProposalStatus(row) \/ row.status \in {"ADOPTED", "REJECTED"}

DoneIsSettled ==
    /\ \A e \in answered : Settled(e)
    /\ \A p \in Proposals :
          status[p] = "EXECUTED" \/ (p = row.proposal /\ status[p] = "REJECTED")
             => Settled(about[p])

\* What the scan in progress knows of the row and of the proposals.
Sees(s) ==
    /\ scan[s].pc \in {"read", "judging"} /\ scan[s].row = NoRow => row = NoRow
    /\ scan[s].pc \in {"filing", "linking"} =>
          row.proposal = NoOne /\ row.print = Fingerprint[scan[s].edition]
    /\ scan[s].pc = "linking" => approvals[scan[s].filed] = 0
    /\ scan[s].pc # "idle" =>
          \A p \in Proposals : status[p] # "ABSENT" => about[p] <= scan[s].edition
    /\ scan[s].retire # NoOne => row.proposal # scan[s].retire

\* The row waits for an open proposal under the fingerprint it was drafted from;
\* a card that was approved once and then closed is not the row's any more.
RowWaits ==
    /\ row.proposal # NoOne /\ status[row.proposal] \in Open =>
          NeedsProposalStatus(row) /\ row.print = Fingerprint[about[row.proposal]]
    /\ row.proposal # NoOne /\ status[row.proposal] = "REJECTED" => approvals[row.proposal] = 0

\* The row's proposal is not about an edition that another one carried out.
Apart ==
    \A p \in Proposals :
       status[p] = "EXECUTED" /\ row.proposal \notin {NoOne, p} => about[row.proposal] # about[p]

LockedInv ==
    /\ SteadyInv
    /\ ClaimedRowStays
    /\ AppliedOnce
    /\ ~lapsed => (\A s \in Scans : Sees(s)) /\ RowWaits /\ Apart /\ DoneIsSettled

LEMMA OneScan ==
    ASSUME InboundTypeOK, ~lapsed, NEW s \in Scans, NEW t \in Scans,
           scan[s].pc # "idle", scan[t].pc # "idle"
    PROVE  s = t
BY DEF InboundTypeOK

\* Editions only grow, and a scan keeps the one it started with.
LEMMA EditionsGrow ==
    ASSUME InboundTypeOK, [InboundNext]_inboundVars
    PROVE  /\ edition' \in {edition, edition + 1}
           /\ \A s \in Scans : scan'[s].pc # "idle" =>
                 \/ scan[s].pc # "idle" /\ scan'[s].edition = scan[s].edition
                 \/ scan'[s].edition = edition
<1>1. ASSUME NEW c \in Calls, Decide(c) \/ Adopt(c) \/ Mark(c)
      PROVE  UNCHANGED <<edition, scan>>
  BY <1>1 DEF Decide, Adopt, Mark
<1>2. ASSUME NEW s \in Scans, ScanStep(s)
      PROVE  /\ UNCHANGED edition
             /\ \A t \in Scans \ {s} : scan'[t] = scan[t]
             /\ scan'[s].pc # "idle" =>
                   \/ scan[s].pc # "idle" /\ scan'[s].edition = scan[s].edition
                   \/ scan'[s].edition = edition
  <2>1. UNCHANGED edition /\ \A t \in Scans \ {s} : scan'[t] = scan[t]
    BY <1>2, ScanEffect DEF InboundTypeOK
  <2>2. CASE Start(s)
    BY <2>1, <2>2, StartEffect
  <2>3. CASE ReadRow(s) \/ ReadStatus(s)
    BY <2>1, <2>3, ReadRowEffect, ReadStatusEffect
  <2>4. CASE Settle(s) \/ Await(s)
    BY <2>1, <2>4, JudgeEffect
  <2>5. CASE PassOver(s) \/ Link(s)
    BY <2>1, <2>5, PassOverEffect, LinkEffect
  <2>6. CASE Retire(s)
    BY <2>1, <2>6, RetireSelf
  <2>7. CASE \E p \in Proposals : File(s, p)
    BY <2>1, <2>7, FileEffect
  <2>8. CASE Finish(s) \/ Abandon(s)
    BY <2>1, <2>8, LeftEffect DEF NoScan
  <2> QED BY <1>2, <2>1, <2>2, <2>3, <2>4, <2>5, <2>6, <2>7, <2>8, ScanKinds
<1>3. CASE Restart
  BY <1>3 DEF Restart, NoScan
<1>4. CASE Edit \/ LoseLock \/ UNCHANGED inboundVars
  BY <1>4 DEF Edit, LoseLock, inboundVars, calendarVars
<1> QED BY <1>1, <1>2, <1>3, <1>4 DEF InboundNext

LEMMA PastStays ==
    ASSUME InboundTypeOK, [InboundNext]_inboundVars, NEW e \in Nat, Past(e)
    PROVE  Past(e)'
<1>1. edition \in Nat
  BY DEF InboundTypeOK, Editions
<1> QED BY <1>1, EditionsGrow DEF Past

\* A proposal stays about what it was drafted from, and only a draft adds one.
LEMMA AboutStays ==
    ASSUME BaseInv, [InboundNext]_inboundVars
    PROVE  \/ /\ UNCHANGED about
              /\ \A p \in Proposals : status[p] = "ABSENT" <=> status'[p] = "ABSENT"
           \/ \E s \in Scans, p \in Proposals :
                 /\ File(s, p)
                 /\ scan[s].pc = "filing"
                 /\ scan'[s].edition = scan[s].edition
                 /\ status[p] = "ABSENT"
                 /\ about' = [about EXCEPT ![p] = scan[s].edition]
                 /\ \A q \in Proposals \ {p} : status'[q] = status[q]
                 /\ UNCHANGED <<row, approvals>>
<1> USE DEF BaseInv
<1>0. InboundTypeOK /\ TypeOK
  BY DEF InboundTypeOK
<1>1. CASE UNCHANGED <<about, status>>
  BY <1>1
<1>2. CASE Quiet
  BY <1>2 DEF Quiet, Decided, Decidable
<1>3. CASE Restart
  BY <1>1, <1>3 DEF Restart, store
<1>4. ASSUME NEW c \in Calls, Mark(c)
      PROVE  UNCHANGED <<about, status>>
  BY <1>0, <1>4, MarkEffect DEF store
<1>5. ASSUME NEW s \in Scans, Retire(s)
      PROVE  /\ UNCHANGED about
             /\ \A p \in Proposals : status[p] = "ABSENT" <=> status'[p] = "ABSENT"
  <2>1. scan[s] \in ScanType
    BY DEF InboundTypeOK
  <2> QED BY <1>0, <1>5, <2>1, RetireEffect, RetireSelf DEF TypeOK
<1>6. ASSUME NEW s \in Scans, NEW p \in Proposals, File(s, p)
      PROVE  /\ scan[s].pc = "filing"
             /\ scan'[s].edition = scan[s].edition
             /\ status[p] = "ABSENT"
             /\ about' = [about EXCEPT ![p] = scan[s].edition]
             /\ \A q \in Proposals \ {p} : status'[q] = status[q]
             /\ UNCHANGED <<row, approvals>>
  BY <1>0, <1>6, FileEffect DEF TypeOK
<1>7. ASSUME NEW s \in Scans, ScanStep(s), ~Retire(s), \A p \in Proposals : ~File(s, p)
      PROVE  UNCHANGED <<about, status>>
  BY <1>7
  DEF ScanStep, Start, ReadRow, ReadStatus, Settle, Await, PassOver, Link, Finish, Abandon,
      approvalVars, store
<1> QED BY <1>1, <1>2, <1>3, <1>4, <1>5, <1>6, <1>7, QuietSteps

\* Whoever judges under the lock writes about the row as it is ...
LEMMA JudgesTheRow ==
    ASSUME LockedInv, ~lapsed, NEW s \in Scans, scan[s].pc = "judging", Writable(s)
    PROVE  scan[s].row = row
BY DEF LockedInv, SteadyInv, FreshReads, FreshRead, Writable, Sees

\* ... has left every settled edition behind ...
LEMMA JudgedIsPast ==
    ASSUME LockedInv, ~lapsed, NEW s \in Scans, scan[s].pc = "judging", Writable(s),
           Decision(s) \in {"evaluate", "awaiting"}, NEW e \in Nat, Settled(e)
    PROVE  Past(e)
<1>0. BaseInv /\ InboundTypeOK /\ edition \in Nat /\ scan[s].edition \in Nat
  BY DEF LockedInv, SteadyInv, BaseInv, InboundTypeOK, Editions, ScanType
<1>1. scan[s].row = row
  BY JudgesTheRow
<1>2. SUFFICES ASSUME row.proposal # NoOne, about[row.proposal] = e, row.print = Fingerprint[e],
                      status[row.proposal] \in Closed,
                      NeedsProposalStatus(row) \/ row.status \in {"ADOPTED", "REJECTED"}
               PROVE  Past(e)
  BY DEF Settled
<1>3. row.proposal \in Proposals
  BY <1>0, <1>2 DEF InboundTypeOK, RowType
<1>4. ~NeedsProposalStatus(row)
  <2> SUFFICES ASSUME NeedsProposalStatus(row) PROVE FALSE
    OBVIOUS
  <2>1. row # NoRow
    BY <1>2 DEF NoRow
  <2>2. s \in fresh
    BY <1>1, <2>1 DEF Writable
  <2>3. /\ row.status = "PENDING_RETRY"
        /\ status[row.proposal] = "REJECTED"
    BY <1>2, <2>2, FreshScanSpares DEF LockedInv, Closed
  <2>4. approvals[row.proposal] > 0 /\ approvals[row.proposal] = 0
    BY <1>2, <2>3 DEF LockedInv, SteadyInv, Known, RowWaits
  <2> QED BY <2>4
<1>5. row.print # Fingerprint[scan[s].edition]
  BY <1>1, <1>2, <1>4 DEF Decision, Triage, AwaitsDecision
<1>6. e <= scan[s].edition
  BY <1>2, <1>3 DEF LockedInv, Sees, Closed
<1>7. e < scan[s].edition
  BY <1>0, <1>2, <1>5, <1>6
<1>8. scan[s].edition <= edition
  BY DEF LockedInv, SteadyInv, Stages, Stage
<1>9. \A t \in Scans : scan[t].pc # "idle" => t = s
  BY <1>0, OneScan
<1> QED BY <1>0, <1>7, <1>8, <1>9 DEF Past

\* ... and takes the row from an open proposal only if that is a FAILED card, to
\* close it.
LEMMA JudgedIsFailed ==
    ASSUME LockedInv, ~lapsed, NEW s \in Scans, scan[s].pc = "judging", Writable(s),
           Decision(s) \in {"evaluate", "awaiting"},
           row.proposal # NoOne, status[row.proposal] \in Open
    PROVE  /\ Detached(s) = NoOne
           /\ status[row.proposal] # "APPROVED"
           /\ status[row.proposal] = "FAILED" => Supersedes(s) = row.proposal
<1>1. scan[s].row = row
  BY JudgesTheRow
<1>2. NeedsProposalStatus(row) /\ row # NoRow
  BY DEF LockedInv, RowWaits, NoRow
<1>3. s \in fresh
  BY <1>1, <1>2 DEF Writable
<1>4. /\ row.status = "PENDING_RETRY"
      /\ scan[s].seen \notin {"APPROVED", "EXECUTED"}
      /\ status[row.proposal] # "APPROVED"
  BY <1>2, <1>3, FreshScanSpares DEF LockedInv
<1>5. <<scan[s].seen, status[row.proposal]>> \in Later
  BY <1>2, <1>3 DEF LockedInv, SteadyInv, FreshReads, FreshRead
<1>6. status[row.proposal] = "FAILED" => scan[s].seen = "FAILED"
  BY <1>4, <1>5 DEF Later
<1> QED BY <1>1, <1>4, <1>6 DEF Detached, Supersedes

\* A FAILED card is closed by the scan that replaces it.
LEMMA ClosedByRetire ==
    ASSUME BaseInv, [InboundNext]_inboundVars, NEW p \in Proposals,
           status[p] = "FAILED", status'[p] = "REJECTED"
    PROVE  \E s \in Scans : Retire(s) /\ scan[s].retire = p
<1> USE DEF BaseInv
<1>0. InboundTypeOK /\ TypeOK
  BY DEF InboundTypeOK
<1>1. ~Quiet /\ ~Restart
  BY DEF Quiet, Decided, Decidable, Restart, store
<1>2. ASSUME NEW c \in Calls, Mark(c)
      PROVE  UNCHANGED status
  BY <1>0, <1>2, MarkEffect DEF store
<1>3. ASSUME NEW s \in Scans, Retire(s)
      PROVE  scan[s].retire = p
  <2>1. scan[s] \in ScanType
    BY DEF InboundTypeOK
  <2> QED BY <1>0, <1>3, <2>1, RetireEffect DEF TypeOK
<1>4. ASSUME NEW s \in Scans, NEW q \in Proposals, File(s, q)
      PROVE  UNCHANGED status[p]
  BY <1>0, <1>4, FileEffect DEF TypeOK
<1>5. ASSUME NEW s \in Scans, ScanStep(s), ~Retire(s), \A q \in Proposals : ~File(s, q)
      PROVE  UNCHANGED status
  BY <1>5
  DEF ScanStep, Start, ReadRow, ReadStatus, Settle, Await, PassOver, Link, Finish, Abandon,
      approvalVars, store
<1> QED BY <1>1, <1>2, <1>3, <1>4, <1>5, QuietSteps

\* What a step under the lock does to the row: nothing, while its proposal goes
\* on; a mark or a waiting change, which keep the proposal; a judgement; or the
\* link to a new draft.
Holds ==
    /\ UNCHANGED row
    /\ row.proposal # NoOne => Decided(row.proposal)

Keeps ==
    /\ row.proposal # NoOne
    /\ row'.proposal = row.proposal
    /\ row'.print = row.print
    /\ \/ NeedsProposalStatus(row')
       \/ row'.status \in {"ADOPTED", "REJECTED"} /\ status[row.proposal] \in Closed

Judges(s) ==
    /\ scan[s].pc = "judging"
    /\ scan[s].retire = NoOne
    /\ scan'[s].pc \notin {"read", "judging", "linking"}
    /\ row'.print = Fingerprint[scan[s].edition]
    /\ scan'[s].pc = "filing" => row'.proposal = NoOne
    /\ row'.proposal \in {NoOne, row.proposal}
    /\ \A e \in Nat : Settled(e) => Past(e)
    /\ scan'[s].retire # NoOne => row'.proposal = NoOne
    /\ row.proposal # NoOne /\ status[row.proposal] \in Open =>
          /\ row'.proposal = NoOne
          /\ status[row.proposal] # "APPROVED"
          /\ status[row.proposal] = "FAILED" => scan'[s].retire = row.proposal

Links(s) ==
    /\ scan[s].pc = "linking"
    /\ scan'[s].pc = "done"
    /\ scan[s].filed \in Proposals
    /\ row.proposal = NoOne
    /\ row'.proposal = scan[s].filed
    /\ row'.status = "PROPOSED"
    /\ row'.print = Fingerprint[scan[s].edition]
    /\ about[scan[s].filed] = scan[s].edition
    /\ approvals[scan[s].filed] = 0

LEMMA LockedSteps ==
    ASSUME LockedInv, ~lapsed, [InboundNext]_inboundVars
    PROVE  \/ Holds
           \/ /\ UNCHANGED <<status, approvals, about>>
              /\ \/ Keeps
                 \/ \E s \in Scans : (Settle(s) \/ Await(s)) /\ Judges(s)
                 \/ \E s \in Scans : Link(s) /\ Links(s)
<1>0. BaseInv /\ SteadyInv /\ InboundTypeOK /\ TypeOK /\ row.proposal \in Proposals \cup {NoOne}
  BY DEF LockedInv, SteadyInv, BaseInv, InboundTypeOK, RowType
<1>1. ASSUME UNCHANGED row, row.proposal # NoOne
      PROVE  Decided(row.proposal)
  <2>1. status[row.proposal] # "ABSENT" /\ row.proposal \in Proposals
    BY <1>0, <1>1 DEF SteadyInv, Known
  <2>2. Moved(row.proposal)
    BY <1>0, <2>1, StepMoves
  <2>3. ~(status[row.proposal] = "FAILED" /\ status'[row.proposal] = "REJECTED")
    BY <1>0, <1>1, <2>1, ClosedByRetire DEF LockedInv, Sees
  <2> QED BY <2>1, <2>2, <2>3 DEF Moved
<1>2. ASSUME NEW c \in Calls, Mark(c), row.proposal = call[c].target,
             row'.proposal = row.proposal, row'.print = row.print,
             <<call[c].pc, row'.status>> \in
                   {<<"executed", "ADOPTED">>, <<"rejected", "REJECTED">>,
                    <<"failed", "PENDING_RETRY">>}
      PROVE  UNCHANGED <<status, approvals, about>> /\ Keeps
  <2>1. UNCHANGED <<status, approvals, about>> /\ row.proposal \in Proposals
    BY <1>0, <1>2, MarkEffect DEF store
  <2>2. row.proposal # NoOne
    BY <2>1
  <2>3. row'.status = "ADOPTED" => status[row.proposal] = "EXECUTED"
    BY <1>0, <1>2 DEF SteadyInv, CallEnds
  <2>4. row'.status = "REJECTED" => status[row.proposal] = "REJECTED"
    BY <1>0, <1>2 DEF SteadyInv, CallEnds
  <2>5. row'.status = "PENDING_RETRY" => NeedsProposalStatus(row')
    BY <1>2, <2>2 DEF NeedsProposalStatus
  <2> QED BY <1>2, <2>1, <2>2, <2>3, <2>4, <2>5 DEF Keeps, Closed
<1>3. ASSUME NEW s \in Scans, Settle(s) \/ Await(s), scan[s].pc = "judging",
             Decision(s) \in {"evaluate", "awaiting"}, Judgement(s), Writable(s), row' # row
      PROVE  UNCHANGED <<status, approvals, about>> /\ Judges(s)
  <2>1. UNCHANGED <<status, approvals, about>>
    BY <1>0, <1>3, JudgeEffect DEF approvalVars, store
  <2>2. scan[s].retire = NoOne
    BY <1>0, <1>3 DEF SteadyInv, Stages, Stage
  <2>3. \A e \in Nat : Settled(e) => Past(e)
    BY <1>3, JudgedIsPast
  <2>4. /\ row'.print = Fingerprint[scan[s].edition]
        /\ \/ row'.proposal = Detached(s) /\ scan'[s].pc = "done"
           \/ row'.proposal = NoOne /\ scan'[s].pc = "filing"
        /\ scan'[s].retire = IF row'.proposal = NoOne THEN Supersedes(s) ELSE NoOne
    BY <1>3 DEF Judgement
  <2>5. Detached(s) \in {NoOne, row.proposal}
    BY DEF Detached
  <2>6. row.proposal # NoOne /\ status[row.proposal] \in Open =>
          /\ Detached(s) = NoOne
          /\ status[row.proposal] # "APPROVED"
          /\ status[row.proposal] = "FAILED" => Supersedes(s) = row.proposal
    BY <1>3, JudgedIsFailed
  <2> QED BY <1>3, <2>1, <2>2, <2>3, <2>4, <2>5, <2>6 DEF Judges
<1>4. ASSUME NEW s \in Scans, PassOver(s), Decision(s) = "open_proposal",
             scan[s].pc = "judging", Writable(s), row'.status = "OPEN_PROPOSAL",
             row'.proposal = row.proposal, row'.print = row.print
      PROVE  UNCHANGED <<status, approvals, about>> /\ Keeps
  <2>1. UNCHANGED <<status, approvals, about>>
    BY <1>0, <1>4, PassOverEffect DEF approvalVars, store
  <2>2. scan[s].row = row
    BY <1>4, JudgesTheRow
  <2>3. row.proposal # NoOne
    BY <1>4, <2>2 DEF Decision, Triage, AwaitsDecision
  <2> QED BY <1>4, <2>1, <2>3 DEF Keeps, NeedsProposalStatus, AwaitsDecision
<1>5. ASSUME NEW s \in Scans, Link(s), scan[s].pc = "linking",
             row'.status = "PROPOSED", row'.proposal = scan[s].filed, row'.print = row.print
      PROVE  UNCHANGED <<status, approvals, about>> /\ Links(s)
  <2>1. UNCHANGED <<status, approvals, about>> /\ scan'[s].pc = "done"
    BY <1>0, <1>5, LinkEffect DEF approvalVars, store
  <2>2. scan[s].filed \in Proposals /\ about[scan[s].filed] = scan[s].edition
    <3>1. scan[s] \in ScanType
      BY <1>0 DEF InboundTypeOK
    <3>2. scan[s].filed \in Proposals \cup {NoOne}
      BY <3>1 DEF ScanType
    <3> QED BY <1>0, <1>5, <3>2 DEF SteadyInv, Stages, Stage
  <2>3. /\ row.proposal = NoOne /\ row.print = Fingerprint[scan[s].edition]
        /\ approvals[scan[s].filed] = 0
    BY <1>5 DEF LockedInv, Sees
  <2> QED BY <1>5, <2>1, <2>2, <2>3 DEF Links
<1>6. CASE UNCHANGED row
  BY <1>1, <1>6 DEF Holds
<1> QED BY <1>0, <1>2, <1>3, <1>4, <1>5, <1>6, RowWrites

\* A proposal that exists keeps what it is about.
LEMMA KeepsAbout ==
    ASSUME BaseInv, [InboundNext]_inboundVars, NEW p \in Proposals, status[p] # "ABSENT"
    PROVE  about'[p] = about[p]
BY AboutStays DEF BaseInv, InboundTypeOK

\* What is settled is never judged anew.
LEMMA StaysSettled ==
    ASSUME LockedInv, ~lapsed, [InboundNext]_inboundVars, NEW e \in Nat, Settled(e)
    PROVE  Settled(e)'
<1>0. BaseInv /\ SteadyInv /\ InboundTypeOK /\ row.proposal \in Proposals \cup {NoOne}
  BY DEF LockedInv, SteadyInv, BaseInv, InboundTypeOK, RowType
<1>1. CASE Past(e)
  BY <1>0, <1>1, PastStays DEF Settled
<1>2. CASE ~Past(e)
  <2>0. /\ row.proposal \in Proposals
        /\ about[row.proposal] = e
        /\ row.print = Fingerprint[e]
        /\ status[row.proposal] \in Closed
        /\ NeedsProposalStatus(row) \/ row.status \in {"ADOPTED", "REJECTED"}
    BY <1>0, <1>2 DEF Settled
  <2>1. about'[row.proposal] = e
    BY <1>0, <2>0, KeepsAbout DEF Closed
  <2>2. CASE Holds
    <3>1. Decided(row.proposal)
      BY <2>0, <2>2 DEF Holds
    <3>2. status'[row.proposal] \in Closed
      BY <2>0, <3>1 DEF Decided, Closed, Decidable
    <3> QED BY <2>0, <2>1, <2>2, <3>2 DEF Holds, Settled, NeedsProposalStatus, AwaitsDecision
  <2>3. CASE UNCHANGED <<status, about>> /\ Keeps
    <3>1. NeedsProposalStatus(row)' <=> NeedsProposalStatus(row')
      BY DEF NeedsProposalStatus, AwaitsDecision
    <3> QED BY <2>0, <2>1, <2>3, <3>1 DEF Keeps, Settled
  <2>4. ASSUME NEW s \in Scans, Judges(s)
        PROVE  FALSE
    BY <1>2, <2>4 DEF Judges
  <2>5. ASSUME NEW s \in Scans, Links(s)
        PROVE  FALSE
    BY <2>0, <2>5 DEF Links
  <2> QED BY <2>2, <2>3, <2>4, <2>5, LockedSteps
<1> QED BY <1>1, <1>2

\* The row and its open proposal.
LEMMA StepRowWaits ==
    ASSUME LockedInv, ~lapsed, [InboundNext]_inboundVars
    PROVE  RowWaits'
<1>0. BaseInv /\ SteadyInv /\ row.proposal \in Proposals \cup {NoOne} /\ RowWaits
  BY DEF LockedInv, SteadyInv, BaseInv, InboundTypeOK, RowType
<1>1. CASE row.proposal = NoOne /\ row'.proposal = NoOne
  BY <1>1 DEF RowWaits
<1>2. CASE Holds /\ row.proposal # NoOne
  <2>1. Decided(row.proposal) /\ status[row.proposal] # "ABSENT" /\ UNCHANGED row
    BY <1>0, <1>2 DEF Holds, SteadyInv, Known
  <2>2. about'[row.proposal] = about[row.proposal]
    BY <1>0, <1>2, <2>1, KeepsAbout
  <2>3. status'[row.proposal] \in Open => status[row.proposal] \in Open
    BY <2>1 DEF Decided, Open, Decidable
  <2>4. status'[row.proposal] = "REJECTED" => approvals'[row.proposal] = 0
    <3>1. status[row.proposal] = "PENDING_APPROVAL" => approvals[row.proposal] = 0
      BY <1>0, <1>2 DEF SteadyInv, Unapproved
    <3> QED BY <1>0, <1>2, <2>1, <3>1 DEF Decided, RowWaits
  <2> QED BY <1>0, <2>1, <2>2, <2>3, <2>4 DEF RowWaits, NeedsProposalStatus, AwaitsDecision
<1>3. CASE UNCHANGED <<status, approvals, about>> /\ Keeps
  <2>1. NeedsProposalStatus(row)' <=> NeedsProposalStatus(row')
    BY DEF NeedsProposalStatus, AwaitsDecision
  <2> QED BY <1>0, <1>3, <2>1 DEF Keeps, RowWaits, Open, Closed
<1>4. ASSUME NEW s \in Scans, Judges(s), UNCHANGED <<status, approvals, about>>
      PROVE  RowWaits'
  BY <1>0, <1>4 DEF Judges, RowWaits
<1>5. ASSUME NEW s \in Scans, Links(s), UNCHANGED <<status, approvals, about>>
      PROVE  RowWaits'
  BY <1>0, <1>5 DEF Links, RowWaits, NeedsProposalStatus, AwaitsDecision
<1> QED BY <1>0, <1>1, <1>2, <1>3, <1>4, <1>5, LockedSteps DEF Holds

\* The claim.
LEMMA StepClaimed ==
    ASSUME LockedInv, ~lapsed, [InboundNext]_inboundVars
    PROVE  \A p \in Proposals : status'[p] = "APPROVED" => row'.proposal = p
<1>0. BaseInv /\ \A p \in Proposals : status[p] = "APPROVED" => row.proposal = p
  BY DEF LockedInv, SteadyInv, ClaimedRowStays
<1> SUFFICES ASSUME NEW p \in Proposals, status'[p] = "APPROVED"
             PROVE  row'.proposal = p
  OBVIOUS
<1>1. row.proposal = p /\ p # NoOne
  <2>1. Moved(p)
    BY <1>0, StepMoves
  <2> QED BY <1>0, <2>1 DEF Moved, Decided
<1>2. CASE Holds \/ Keeps
  BY <1>1, <1>2 DEF Holds, Keeps
<1>3. CASE UNCHANGED status /\ \E s \in Scans : Judges(s) \/ Links(s)
  BY <1>1, <1>3 DEF Judges, Links, Open
<1> QED BY <1>2, <1>3, LockedSteps

\* One edition, one execution.
LEMMA StepApart ==
    ASSUME LockedInv, ~lapsed, [InboundNext]_inboundVars
    PROVE  /\ Apart'
           /\ \A p, q \in Proposals :
                 status'[p] = "EXECUTED" /\ status'[q] = "EXECUTED" /\ about'[p] = about'[q]
                    => p = q
<1>0. BaseInv /\ SteadyInv /\ InboundTypeOK /\ row.proposal \in Proposals \cup {NoOne} /\ Apart
  BY DEF LockedInv, SteadyInv, BaseInv, InboundTypeOK, RowType
<1>1. \A p \in Proposals :
         status'[p] = "EXECUTED" => \/ status[p] = "EXECUTED"
                                    \/ row.proposal = p /\ status[p] = "APPROVED"
  <2> SUFFICES ASSUME NEW p \in Proposals, status'[p] = "EXECUTED", status[p] # "EXECUTED"
               PROVE  row.proposal = p /\ status[p] = "APPROVED"
    OBVIOUS
  <2>1. Moved(p)
    BY <1>0, StepMoves
  <2> QED BY <2>1 DEF Moved, Decided, LockedInv, ClaimedRowStays
<1>2. \A p \in Proposals : status'[p] = "EXECUTED" => about'[p] = about[p]
  BY <1>0, <1>1, KeepsAbout
<1>3. \A p, q \in Proposals :
         status'[p] = "EXECUTED" /\ status'[q] = "EXECUTED" /\ about'[p] = about'[q] => p = q
  BY <1>0, <1>1, <1>2 DEF LockedInv, AppliedOnce, Apart
<1>4. Apart'
  <2>1. CASE Holds /\ row.proposal # NoOne
    <3>1. row.proposal \in Proposals /\ status[row.proposal] # "ABSENT" /\ UNCHANGED row
      BY <1>0, <2>1 DEF Holds, SteadyInv, Known
    <3>2. about'[row.proposal] = about[row.proposal]
      BY <1>0, <3>1, KeepsAbout
    <3> QED BY <1>0, <1>1, <1>2, <3>1, <3>2 DEF Apart
  <2>2. CASE UNCHANGED <<status, about>> /\ row'.proposal \in {NoOne, row.proposal}
    BY <1>0, <2>2 DEF Apart
  <2>3. ASSUME NEW s \in Scans, Links(s), UNCHANGED <<status, about>>,
               NEW p \in Proposals, status[p] = "EXECUTED", p # scan[s].filed
        PROVE  about[scan[s].filed] # about[p]
    <3>1. about[p] \in Nat /\ scan[s].edition \in Nat
      BY <1>0 DEF InboundTypeOK, Editions, ScanType
    <3>2. Settled(about[p])
      BY <2>3 DEF LockedInv, DoneIsSettled
    <3>3. Past(about[p])
      BY <2>3, <3>2 DEF Settled, Links
    <3>4. about[p] < scan[s].edition
      BY <2>3, <3>3 DEF Past, Links
    <3> QED BY <2>3, <3>1, <3>4 DEF Links
  <2>4. CASE row.proposal = NoOne /\ row'.proposal = NoOne
    BY <2>4 DEF Apart
  <2>5. ASSUME NEW s \in Scans, Links(s), UNCHANGED <<status, about>>
        PROVE  Apart'
    BY <2>3, <2>5 DEF Links, Apart
  <2> QED BY <2>1, <2>2, <2>4, <2>5, LockedSteps DEF Holds, Keeps, Judges
<1> QED BY <1>3, <1>4

\* An answer that reaches the row is one to the row's decided proposal.
LEMMA AnswersAreDone ==
    ASSUME SteadyInv, [InboundNext]_inboundVars, NEW e \in answered', e \notin answered
    PROVE  \E p \in Proposals : /\ e = about[p]
                                /\ p = row.proposal
                                /\ status[p] \in Closed
<1>0. BaseInv /\ InboundTypeOK
  BY DEF SteadyInv, BaseInv
<1>1. PICK c \in Calls : Mark(c)
  <2>1. ~Quiet /\ ~Restart
    BY DEF Quiet, Restart
  <2>2. ASSUME NEW s \in Scans, ScanStep(s)
        PROVE  FALSE
    BY <1>0, <2>2, ScanEffect
  <2> QED BY <1>0, <2>1, <2>2, QuietSteps
<1>2. /\ call[c].target \in Proposals
      /\ row.proposal = call[c].target
      /\ e = about[call[c].target]
      /\ call[c].pc \in {"executed", "rejected"}
  BY <1>0, <1>1, MarkEffect
<1>3. status[call[c].target] \in Closed
  BY <1>2 DEF SteadyInv, CallEnds, Closed
<1> QED BY <1>2, <1>3

LEMMA StepDone ==
    ASSUME LockedInv, ~lapsed, [InboundNext]_inboundVars
    PROVE  DoneIsSettled'
<1>0. BaseInv /\ SteadyInv /\ InboundTypeOK /\ row.proposal \in Proposals \cup {NoOne} /\ RowWaits
  BY DEF LockedInv, SteadyInv, BaseInv, InboundTypeOK, RowType
<1>1. answered \subseteq Nat /\ \A p \in Proposals : about[p] \in Nat
  BY <1>0 DEF InboundTypeOK, Editions
<1>2. \A e \in Nat : Settled(e) => Settled(e)'
  BY StaysSettled
<1>3. \A p \in Proposals :
         status[p] = "EXECUTED" \/ (p = row.proposal /\ status[p] = "REJECTED")
            => Settled(about[p])
  BY DEF LockedInv, DoneIsSettled
<1>4. \A e \in answered' : Settled(e)'
  <2>1. \A e \in answered : Settled(e)'
    BY <1>1, <1>2 DEF LockedInv, DoneIsSettled
  <2>2. ASSUME NEW e \in answered', e \notin answered
        PROVE  Settled(e)'
    <3>1. PICK p \in Proposals : e = about[p] /\ p = row.proposal /\ status[p] \in Closed
      BY <1>0, <2>2, AnswersAreDone
    <3>2. Settled(about[p])
      BY <1>3, <3>1 DEF Closed
    <3> QED BY <1>1, <1>2, <3>1, <3>2
  <2> QED BY <2>1, <2>2
<1>5. ASSUME NEW p \in Proposals,
             status'[p] = "EXECUTED" \/ (p = row'.proposal /\ status'[p] = "REJECTED")
      PROVE  Settled(about[p])'
  <2>1. CASE \/ status[p] = "EXECUTED"
             \/ p = row.proposal /\ status[p] = "REJECTED"
    <3>1. about'[p] = about[p]
      BY <1>0, <2>1, KeepsAbout
    <3>2. PICK e \in Nat : e = about[p]
      BY <1>1
    <3>3. Settled(e)
      BY <1>3, <2>1, <3>2
    <3>4. Settled(e)' /\ e = about'[p]
      BY <1>2, <3>1, <3>2, <3>3
    <3> QED BY <3>4 DEF Settled, Past, NeedsProposalStatus, AwaitsDecision
  <2>2. CASE /\ status[p] # "EXECUTED"
             /\ ~(p = row.proposal /\ status[p] = "REJECTED")
    <3>1. CASE Holds
      <4>1. UNCHANGED row /\ Moved(p)
        BY <1>0, <3>1, StepMoves DEF Holds
      <4>2. status'[p] = "EXECUTED" => status[p] = "APPROVED" /\ p = row.proposal
        BY <2>2, <4>1 DEF Moved, Decided, LockedInv, ClaimedRowStays
      <4>3. p = row.proposal /\ Decided(p)
        BY <1>5, <3>1, <4>1, <4>2 DEF Holds
      <4>4. status[p] \in Open /\ status'[p] \in Closed
        BY <1>5, <2>2, <4>2, <4>3 DEF Decided, Open, Closed, Decidable
      <4>5. about'[p] = about[p]
        BY <1>0, <4>4, KeepsAbout DEF Open
      <4>6. NeedsProposalStatus(row) /\ row.print = Fingerprint[about[p]] /\ p # NoOne
        BY <1>0, <4>3, <4>4 DEF RowWaits
      <4> QED BY <4>1, <4>3, <4>4, <4>5, <4>6 DEF Settled, NeedsProposalStatus, AwaitsDecision
    <3>2. CASE UNCHANGED <<status, about>> /\ row'.proposal \in {NoOne, row.proposal}
      BY <1>5, <2>2, <3>2
    <3>3. ASSUME NEW s \in Scans, Links(s), UNCHANGED <<status, about>>
          PROVE  Settled(about[p])'
      <4>1. p = scan[s].filed /\ p # NoOne
        BY <1>5, <2>2, <3>3 DEF Links
      <4> QED BY <1>5, <2>2, <3>3, <4>1
              DEF Links, Settled, Closed, NeedsProposalStatus, AwaitsDecision
    <3> QED BY <3>1, <3>2, <3>3, LockedSteps DEF Keeps, Judges
  <2> QED BY <2>1, <2>2
<1> QED BY <1>4, <1>5 DEF DoneIsSettled

\* A scan that does nothing, or has its card closed, knows what it knew.
LEMMA SeesOn ==
    ASSUME LockedInv, ~lapsed, [InboundNext]_inboundVars, NEW s \in Scans,
           scan'[s].pc = scan[s].pc, scan'[s].row = scan[s].row,
           scan'[s].edition = scan[s].edition, scan'[s].filed = scan[s].filed,
           scan'[s].retire \in {NoOne, scan[s].retire}
    PROVE  Sees(s)'
<1>0. BaseInv /\ SteadyInv /\ InboundTypeOK /\ Sees(s) /\ Stage(s)
  BY DEF LockedInv, SteadyInv, BaseInv, Stages
<1>1. CASE scan[s].pc = "idle"
  BY <1>0, <1>1 DEF Sees, Stage
<1>2. CASE scan[s].pc # "idle"
  <2>1. \A p \in Proposals : status'[p] # "ABSENT" => about'[p] <= scan[s].edition
    <3>1. ASSUME NEW t \in Scans, NEW p \in Proposals, File(t, p)
          PROVE  FALSE
      <4>1. scan[t].pc = "filing" /\ scan'[t].pc = "linking"
        BY <1>0, <3>1, FileEffect
      <4>2. t = s
        BY <1>0, <1>2, <4>1, OneScan
      <4> QED BY <4>1, <4>2
    <3> QED BY <1>0, <1>2, <3>1, AboutStays DEF Sees
  <2>2. CASE Holds
    <3>1. scan[s].pc = "linking" => approvals'[scan[s].filed] = 0
      <4> SUFFICES ASSUME scan[s].pc = "linking"
                   PROVE  approvals'[scan[s].filed] = 0
        OBVIOUS
      <4>1. scan[s] \in ScanType
        BY <1>0 DEF InboundTypeOK
      <4>2. scan[s].filed \in Proposals
        BY <1>0, <4>1 DEF Stage, ScanType
      <4>3. Moved(scan[s].filed) /\ row.proposal # scan[s].filed
        BY <1>0, <4>2, StepMoves DEF Sees, Stage
      <4> QED BY <1>0, <4>3 DEF Moved, Decided, Sees
    <3> QED BY <1>0, <2>1, <2>2, <3>1 DEF Holds, Sees
  <2>3. CASE UNCHANGED approvals /\ Keeps
    <3>1. row # NoRow
      BY <2>3 DEF Keeps, NoRow
    <3> QED BY <1>0, <2>1, <2>3, <3>1 DEF Keeps, Sees
  <2>4. ASSUME NEW t \in Scans, Judges(t) \/ Links(t)
        PROVE  FALSE
    <3>1. scan[t].pc # "idle"
      BY <2>4 DEF Judges, Links
    <3>2. t = s
      BY <1>0, <1>2, <3>1, OneScan
    <3> QED BY <2>4, <3>2 DEF Judges, Links
  <2> QED BY <2>2, <2>3, <2>4, LockedSteps
<1> QED BY <1>1, <1>2

LEMMA StepSees ==
    ASSUME LockedInv, ~lapsed, [InboundNext]_inboundVars
    PROVE  \A s \in Scans : Sees(s)'
<1>0. /\ BaseInv /\ SteadyInv /\ InboundTypeOK /\ TypeOK
      /\ \A s \in Scans : Sees(s) /\ Stage(s) /\ scan[s] \in ScanType
  BY DEF LockedInv, SteadyInv, BaseInv, Stages, InboundTypeOK
<1>1. CASE Quiet
  BY <1>1, SeesOn DEF Quiet
<1>2. CASE Restart
  BY <1>2 DEF Restart, NoScan, Sees
<1>3. ASSUME NEW c \in Calls, Mark(c)
      PROVE  \A s \in Scans : Sees(s)'
  BY <1>0, <1>3, SeesOn, MarkEffect
<1>4. ASSUME NEW s \in Scans, ScanStep(s)
      PROVE  \A t \in Scans : Sees(t)'
  <2>1. \A t \in Scans \ {s} : scan'[t] = scan[t]
    BY <1>0, <1>4, ScanEffect DEF InboundTypeOK
  <2>2. \A t \in Scans \ {s} : Sees(t)'
    BY <2>1, SeesOn
  <2>3. SUFFICES Sees(s)'
    BY <2>2
  <2>4. CASE Start(s)
    <3>1. \A p \in Proposals : status'[p] # "ABSENT" => about'[p] <= edition
      BY <1>0, <2>4, StartEffect DEF SteadyInv, Drafts, approvalVars, store
    <3> QED BY <1>0, <2>4, <3>1, StartEffect DEF Sees
  <2>5. CASE ReadRow(s)
    BY <1>0, <2>5, ReadRowEffect DEF Sees, Stage, approvalVars, store
  <2>6. CASE ReadStatus(s)
    BY <1>0, <2>6, ReadStatusEffect DEF Sees, Stage, approvalVars, store
  <2>7. CASE Settle(s) \/ Await(s)
    <3>1. /\ Judgement(s) /\ scan[s].pc = "judging" /\ scan'[s].edition = scan[s].edition
          /\ UNCHANGED <<status, about>>
      BY <1>0, <2>7, JudgeEffect DEF approvalVars, store
    <3>2. scan[s].retire = NoOne
      BY <1>0, <3>1 DEF Stage
    <3> QED BY <1>0, <3>1, <3>2 DEF Judgement, Sees
  <2>8. CASE PassOver(s)
    BY <1>0, <2>8, PassOverEffect DEF Sees, Stage, approvalVars, store
  <2>9. CASE Retire(s)
    BY <1>0, <2>9, RetireSelf, SeesOn
  <2>10. CASE \E p \in Proposals : File(s, p)
    <3>1. PICK p \in Proposals : File(s, p)
      BY <2>10
    <3>2. /\ scan[s].pc = "filing" /\ scan'[s].pc = "linking"
          /\ scan'[s].retire = NoOne
          /\ scan'[s].filed = p /\ scan'[s].edition = scan[s].edition
          /\ status[p] = "ABSENT" /\ UNCHANGED <<approvals, row>>
          /\ status' = [status EXCEPT ![p] = "PENDING_APPROVAL"]
          /\ about' = [about EXCEPT ![p] = scan[s].edition]
      BY <1>0, <3>1, FileEffect
    <3>3. approvals'[p] = 0
      BY <1>0, <3>2 DEF SteadyInv, Unapproved
    <3>4. about'[p] <= scan[s].edition
      BY <1>0, <3>2 DEF InboundTypeOK, ScanType, Editions
    <3>5. \A q \in Proposals : status'[q] # "ABSENT" => about'[q] <= scan[s].edition
      BY <1>0, <3>2, <3>4 DEF Sees, InboundTypeOK, TypeOK
    <3> QED BY <1>0, <3>2, <3>3, <3>5 DEF Sees
  <2>11. CASE Link(s)
    BY <1>0, <2>11, LinkEffect DEF Sees, Stage, approvalVars, store
  <2>12. CASE Finish(s) \/ Abandon(s)
    BY <1>0, <2>12, LeftEffect DEF Sees, NoScan
  <2> QED
    BY <1>4, <2>4, <2>5, <2>6, <2>7, <2>8, <2>9, <2>10, <2>11, <2>12, ScanKinds
<1> QED BY <1>0, <1>1, <1>2, <1>3, <1>4, QuietSteps

-----------------------------------------------------------------------------
\* A lost lock is never noticed, nor forgotten.
LEMMA LapsedStays ==
    ASSUME InboundTypeOK, [InboundNext]_inboundVars, ~lapsed'
    PROVE  ~lapsed
<1>1. ASSUME NEW s \in Scans, ScanStep(s)
      PROVE  UNCHANGED lapsed
  BY <1>1, ScanEffect
<1> QED
  BY <1>1
  DEF InboundNext, Edit, Decide, Adopt, Mark, LoseLock, Restart, inboundVars, calendarVars,
      InboundTypeOK

LEMMA InitLocked == InboundInit => LockedInv
<1> SUFFICES ASSUME InboundInit PROVE LockedInv
  OBVIOUS
<1>1. SteadyInv
  BY InitSteady
<1>2. ClaimedRowStays /\ AppliedOnce /\ Apart
  BY DEF InboundInit, ApprovalInit, ClaimedRowStays, AppliedOnce, Apart
<1>3. \A s \in Scans : Sees(s)
  BY DEF InboundInit, NoScan, Sees
<1>4. RowWaits
  BY DEF InboundInit, NoRow, RowWaits
<1>5. DoneIsSettled
  BY DEF InboundInit, ApprovalInit, DoneIsSettled
<1> QED BY <1>1, <1>2, <1>3, <1>4, <1>5 DEF LockedInv

LEMMA StepLocked ==
    NoLostCommit /\ LockedInv /\ [InboundNext]_inboundVars => LockedInv'
<1> SUFFICES ASSUME NoLostCommit, LockedInv, [InboundNext]_inboundVars
             PROVE  LockedInv'
  OBVIOUS
<1>1. SteadyInv' /\ InboundTypeOK
  BY StepSteady DEF LockedInv, SteadyInv, BaseInv
<1>2. CASE lapsed'
  BY <1>1, <1>2 DEF LockedInv, ClaimedRowStays, AppliedOnce
<1>3. CASE ~lapsed'
  <2>1. ~lapsed
    BY <1>1, <1>3, LapsedStays
  <2> QED
    BY <1>1, <2>1, StepRowWaits, StepClaimed, StepApart, StepDone, StepSees
    DEF LockedInv, ClaimedRowStays, AppliedOnce
<1> QED BY <1>2, <1>3

LEMMA LockedInvariance ==
    ASSUME NoLostCommit
    PROVE  InboundSpec => []LockedInv
BY InitLocked, StepLocked, PTL DEF InboundSpec

\* A scan does not let go of a card before it closed it.
LEMMA StepNoDeadCards ==
    ASSUME LockedInv, NoDeadCards, [InboundNext]_inboundVars
    PROVE  NoDeadCards'
<1> SUFFICES ASSUME ~lapsed', Losses \cap {"retire", "crash"} = {},
                    NEW p \in Proposals, status'[p] = "FAILED", row'.proposal # p
             PROVE  \E s \in Scans : scan'[s].retire = p
  BY DEF NoDeadCards
<1>0. /\ BaseInv /\ SteadyInv /\ InboundTypeOK /\ TypeOK /\ p # NoOne /\ ~lapsed
      /\ \A s \in Scans : Stage(s) /\ scan[s] \in ScanType
  BY LapsedStays DEF LockedInv, SteadyInv, BaseInv, Stages, InboundTypeOK
<1>1. CASE row.proposal = p
  <2>1. CASE Holds
    BY <1>1, <2>1 DEF Holds
  <2>2. CASE \E s \in Scans : Judges(s) /\ UNCHANGED status
    BY <1>0, <1>1, <2>2 DEF Judges, Open
  <2> QED BY <1>0, <1>1, <2>1, <2>2, LockedSteps DEF Keeps, Links
<1>2. CASE row.proposal # p
  <2>1. status[p] = "FAILED"
    <3>1. Moved(p)
      BY <1>0, StepMoves
    <3> QED BY <1>0, <1>2, <3>1 DEF Moved, Decided, LockedInv, ClaimedRowStays
  <2>2. PICK s \in Scans : scan[s].retire = p
    BY <1>0, <1>2, <2>1 DEF NoDeadCards
  <2>3. scan[s].pc \in {"filing", "done", "touching"}
    BY <1>0, <2>2 DEF Stage, ScanType, ScanPcs
  <2>4. CASE Quiet
    BY <2>2, <2>4 DEF Quiet
  <2>5. CASE Restart
    BY <2>5 DEF Restart
  <2>6. ASSUME NEW c \in Calls, Mark(c)
        PROVE  scan'[s].retire = p
    BY <1>0, <2>2, <2>6, MarkEffect
  <2>7. ASSUME NEW t \in Scans, ScanStep(t), t # s
        PROVE  scan'[s].retire = p
    BY <1>0, <2>2, <2>7, ScanEffect DEF InboundTypeOK
  <2>8. ASSUME ScanStep(s)
        PROVE  scan'[s].retire = p
    <3>1. ~Start(s) /\ ~ReadRow(s) /\ ~ReadStatus(s) /\ ~Settle(s) /\ ~Await(s) /\ ~PassOver(s) /\ ~Link(s)
      BY <2>3 DEF Start, ReadRow, ReadStatus, Settle, Await, PassOver, Link
    <3>2. ~Finish(s) /\ ~Abandon(s)
      BY <1>0, <2>2, <2>3, LeftEffect
    <3>3. \A q \in Proposals : ~File(s, q)
      BY <1>0, <2>2, FileEffect
    <3>4. ~Retire(s)
      BY <1>0, <2>1, <2>2 DEF Retire, Move, TypeOK
    <3> QED BY <2>8, <3>1, <3>2, <3>3, <3>4, ScanKinds
  <2> QED BY <1>0, <2>4, <2>5, <2>6, <2>7, <2>8, QuietSteps
<1> QED BY <1>1, <1>2

-----------------------------------------------------------------------------
\* An approval keeps the row it claimed: for any number of scans one after the
\* other, of calls at once and of edits in between, no scan takes it away.
THEOREM Claims ==
    ASSUME NoLostCommit
    PROVE  InboundSpec => []ClaimedRowStays
<1>1. LockedInv => ClaimedRowStays
  BY DEF LockedInv
<1> QED BY <1>1, LockedInvariance, PTL

\* One edition of an event is carried out by one proposal at most.
THEOREM Applied ==
    ASSUME NoLostCommit
    PROVE  InboundSpec => []AppliedOnce
<1>1. LockedInv => AppliedOnce
  BY DEF LockedInv
<1> QED BY <1>1, LockedInvariance, PTL

\* A row waits for its open proposal, under the fingerprint it was drafted from.
THEOREM RowsTell ==
    ASSUME NoLostCommit
    PROVE  InboundSpec => []RowTellsItsProposal
<1>1. LockedInv => RowTellsItsProposal
  BY DEF LockedInv, RowWaits, RowTellsItsProposal
<1> QED BY <1>1, LockedInvariance, PTL

\* A FAILED card the row has let go of is about to be closed, unless the app dies.
THEOREM CardsAreClosed ==
    ASSUME NoLostCommit
    PROVE  InboundSpec => []NoDeadCards
<1>1. InboundInit => NoDeadCards
  BY DEF InboundInit, ApprovalInit, NoDeadCards
<1> QED BY <1>1, StepNoDeadCards, LockedInvariance, PTL DEF InboundSpec

\* A scan drafts only what it did not leave behind, and every answered edition
\* is left behind before a row is free for a draft: nothing is asked again.
THEOREM NotAskedAgain ==
    ASSUME NoLostCommit
    PROVE  InboundSpec => AnsweredIsNotAsked
<1>1. LockedInv /\ [InboundNext]_inboundVars
        => [~lapsed => \A p \in Proposals :
              status[p] = "ABSENT" /\ status'[p] # "ABSENT" => about'[p] \notin answered]_inboundVars
  <2> SUFFICES ASSUME LockedInv, [InboundNext]_inboundVars, ~lapsed,
                      NEW p \in Proposals, status[p] = "ABSENT", status'[p] # "ABSENT"
               PROVE  about'[p] \notin answered
    OBVIOUS
  <2>0. BaseInv /\ InboundTypeOK
    BY DEF LockedInv, SteadyInv, BaseInv
  <2>1. PICK s \in Scans : scan[s].pc = "filing" /\ about'[p] = scan[s].edition
    BY <2>0, AboutStays DEF InboundTypeOK
  <2>2. row.proposal = NoOne
    BY <2>1 DEF LockedInv, Sees
  <2>3. \A e \in answered : e < scan[s].edition
    BY <2>1, <2>2 DEF LockedInv, DoneIsSettled, Settled, Past
  <2>4. scan[s].edition \in Nat
    BY <2>0 DEF InboundTypeOK, ScanType, Editions
  <2> QED BY <2>1, <2>3, <2>4
<1> QED BY <1>1, LockedInvariance, PTL DEF InboundSpec, AnsweredIsNotAsked

-----------------------------------------------------------------------------
\* What the inbox promises of its proposals holds next to the scans, which close
\* cards on their own: nobody else works on a proposal in execution, and it is
\* EXECUTED if and only if its write action took effect, once.
THEOREM InboxUndisturbed ==
    ASSUME NoLostCommit
    PROVE  InboundSpec => [](ExclusiveApproval /\ StatusMatchesEffects)
<1>1. SteadyInv => ExclusiveApproval /\ StatusMatchesEffects
  BY DEF SteadyInv, BaseInv, ApprovalInv
<1> QED BY <1>1, SteadyInvariance, PTL

\* A rejection is final, by whomever: the owner's, or a scan's that replaced a card.
THEOREM RejectionsStay ==
    ASSUME NoLostCommit
    PROVE  InboundSpec => RejectedStays
<1>1. SteadyInv /\ [InboundNext]_inboundVars
        => [\A p \in Proposals :
              status[p] = "REJECTED" =>
                 status'[p] = "REJECTED" /\ effects'[p] = effects[p]]_approvalVars
  <2> SUFFICES ASSUME SteadyInv, [InboundNext]_inboundVars,
                      NEW p \in Proposals, status[p] = "REJECTED"
               PROVE  status'[p] = "REJECTED" /\ effects'[p] = effects[p]
    OBVIOUS
  <2>1. TypeOK /\ ApprovalSticks /\ \A s \in Scans : scan[s] \in ScanType
    BY DEF SteadyInv, BaseInv, InboundTypeOK
  <2>2. ASSUME NEW s \in Scans, Retire(s)
        PROVE  status'[p] = "REJECTED" /\ effects'[p] = effects[p]
    BY <2>1, <2>2, RetireEffect DEF TypeOK
  <2> QED BY <2>1, <2>2, InboxOrRetire, StepRejected
<1> QED BY <1>1, SteadyInvariance, PTL DEF InboundSpec, RejectedStays
=============================================================================
