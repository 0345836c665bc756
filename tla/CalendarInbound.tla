---------------------------- MODULE CalendarInbound ----------------------------
(***************************************************************************)
(* The inbound calendar: scans that turn an event of the owner's Google    *)
(* calendar into proposals, next to the calls that decide about those      *)
(* proposals (ProposalApproval) and mark the event's row.                  *)
(*                                                                         *)
(* Events share nothing but the caps of a scan, which may pass over any of *)
(* them, so that one event is modelled. It has one row, which tells what   *)
(* was last judged, how, and which proposal came of it. A scan reads the   *)
(* event, then the row, then the status of the row's proposal, and judges  *)
(* it by these reads up to 55 s later; its writes are conditional on the   *)
(* row's updatedAt. An approval claims the row in tx1. What a decision     *)
(* means for the row is written after its commit and may be lost.          *)
(*                                                                         *)
(* How a title is read and a campaign is found is any outcome here.        *)
(***************************************************************************)
EXTENDS ProposalApproval

CONSTANTS
    Scans,
    Fingerprint,   \* of the event's title and dates after each edit
    MaxEdits,      \* bound on the owner's edits of the event
    Losses         \* what may be lost besides the Faults of the inbox

\* "mark": the row is not marked after a decision; "retire": a superseded card
\* cannot be closed; "scan": an exception ends the judgement of the event, or the
\* rows are not touched after it; "crash": the app dies.
ASSUME LossesAssumption == Losses \subseteq {"mark", "retire", "scan", "crash"}
ASSUME EditsAssumption == MaxEdits \in Nat
ASSUME ScansAssumption == NoOne \notin Scans
ASSUME FingerprintAssumption == DOMAIN Fingerprint = 0 .. MaxEdits

Editions == 0 .. MaxEdits
Prints == {Fingerprint[e] : e \in Editions}

\* CalendarInboundEvent.status. OPEN_PROPOSAL is SKIPPED for that reason, and
\* HINT_LOCAL and HINT_GEMINI are AWAITING_HINT with the stage to go on from.
RowStatus == {"NONE", "PROPOSED", "SKIPPED", "OPEN_PROPOSAL", "ADOPTED", "REJECTED",
              "PENDING_RETRY", "HINT_LOCAL", "HINT_GEMINI"}

VARIABLES
    edition,    \* how often the event was edited
    owned,      \* the event is one of the CRM's own: a ledger refers to it
    row,        \* the event's CalendarInboundEvent
    fresh,      \* the scans whose version of the row is its updatedAt
    about,      \* the edition a proposal was drafted from
    scan,       \* the scans in progress
    holder,     \* the scan whose transaction holds the advisory lock
    answered,   \* editions whose row was marked with the owner's answer
    lapsed      \* the lock was lost under a scan at some time

calendarVars == <<edition, owned, row, fresh, about, scan, holder, answered, lapsed>>
inboundVars == <<approvalVars, calendarVars>>

NoRow == [status |-> "NONE", print |-> Fingerprint[0], proposal |-> NoOne]
NoScan == [pc |-> "idle", edition |-> 0, row |-> NoRow, seen |-> "ABSENT",
           retire |-> NoOne, filed |-> NoOne]

InboundInit ==
    /\ ApprovalInit
    /\ edition = 0
    /\ owned = FALSE
    /\ row = NoRow
    /\ fresh = {}
    /\ about = [p \in Proposals |-> 0]
    /\ scan = [s \in Scans |-> NoScan]
    /\ holder = NoOne
    /\ answered = {}
    /\ lapsed = FALSE

-----------------------------------------------------------------------------
(***************************************************************************)
(* The owner's calendar and the calls of the inbox.                        *)
(***************************************************************************)

Edit ==
    /\ edition < MaxEdits
    /\ edition' = edition + 1
    /\ UNCHANGED <<approvalVars, owned, row, fresh, about, scan, holder, answered, lapsed>>

\* A write by anyone but a scan, and by one.
Written(r) == row' = r /\ fresh' = {}
WrittenBy(s, r) == row' = r /\ fresh' = {s}

\* Mutant: tx1 without the row.
Claim_Skipped(p) == UNCHANGED <<row, fresh>>

\* Mutant: the claim leaves updatedAt alone.
Claim_Silent(p) == row.proposal = p /\ UNCHANGED <<row, fresh>>

\* claimInboundRowForApproval: only while the row points at the proposal.
Claim(p) == row.proposal = p /\ Written(row)

\* A superseded proposal is refused before tx1 as well as in it.
Decide(c) ==
    /\ \/ \E p \in Proposals :
             \/ row.proposal = p /\ \E a \in Actors : Read(c, p, a, Decidable)
             \/ Reject(c, p)
          /\ UNCHANGED <<row, fresh>>
       \/ /\ Approve(c)
          /\ IF approvals' # approvals THEN Claim(call[c].target) ELSE UNCHANGED <<row, fresh>>
       \/ (Execute(c) \/ CheckFailable(c) \/ RecordFailure(c)) /\ UNCHANGED <<row, fresh>>
    /\ UNCHANGED <<edition, owned, about, scan, holder, answered, lapsed>>

\* After an execution the ledger may take the event over; there are many
\* reasons why it does not.
Adopt(c) ==
    /\ call[c].pc = "executed"
    /\ ~owned
    /\ owned' = TRUE
    /\ UNCHANGED <<approvalVars, edition, row, fresh, about, scan, holder, answered, lapsed>>

MarkOf == [executed |-> "ADOPTED", failed |-> "PENDING_RETRY", rejected |-> "REJECTED"]

\* A mark is written only while the row points at the proposal.
Marked(c) == row.proposal = call[c].target

\* markInboundAdopted, resetInboundForRetry and markInboundRejected, after the
\* commit and outside of it.
Mark(c) ==
    /\ Answer(c)
    /\ \/ /\ Marked(c)
          /\ Written([row EXCEPT !.status = MarkOf[call[c].pc]])
          /\ answered' = IF call[c].pc = "failed" THEN answered
                         ELSE answered \cup {about[call[c].target]}
       \/ /\ ~Marked(c) \/ "mark" \in Losses
          /\ UNCHANGED <<row, fresh, answered>>
    /\ UNCHANGED <<edition, owned, about, scan, holder, lapsed>>

-----------------------------------------------------------------------------
(***************************************************************************)
(* One scan.                                                               *)
(***************************************************************************)
Open == {"PENDING_APPROVAL", "APPROVED", "FAILED"}
Closed == {"EXECUTED", "REJECTED"}

AwaitsDecision(r) == r.proposal # NoOne /\ r.status \in {"PROPOSED", "OPEN_PROPOSAL"}
NeedsProposalStatus(r) == AwaitsDecision(r) \/ (r.status = "PENDING_RETRY" /\ r.proposal # NoOne)

\* Mutant: the approval of an old card does not keep the scan away.
Triage_Retries(r, print, seen) ==
    CASE r.status \in {"NONE", "PENDING_RETRY"} -> "evaluate"
      [] r.status \in {"HINT_LOCAL", "HINT_GEMINI"} -> IF r.print = print THEN "awaiting" ELSE "evaluate"
      [] AwaitsDecision(r) /\ seen \in Closed -> "handled"
      [] AwaitsDecision(r) /\ seen \in Open -> IF r.print = print THEN "handled" ELSE "open_proposal"
      [] OTHER -> IF r.print = print THEN "handled" ELSE "evaluate"

\* Mutant: a title that waits for a hint counts as handled.
Triage_Buries(r, print, seen) ==
    CASE r.status = "NONE" -> "evaluate"
      [] r.status = "PENDING_RETRY" -> IF seen \in {"APPROVED", "EXECUTED"} THEN "handled" ELSE "evaluate"
      [] AwaitsDecision(r) /\ seen \in Closed -> "handled"
      [] AwaitsDecision(r) /\ seen \in Open -> IF r.print = print THEN "handled" ELSE "open_proposal"
      [] OTHER -> IF r.print = print THEN "handled" ELSE "evaluate"

\* What a scan does about a row it read, the fingerprint it listed and the
\* status it saw of the row's proposal.
Triage(r, print, seen) ==
    CASE r.status = "NONE" -> "evaluate"
      [] r.status = "PENDING_RETRY" -> IF seen \in {"APPROVED", "EXECUTED"} THEN "handled" ELSE "evaluate"
      [] r.status \in {"HINT_LOCAL", "HINT_GEMINI"} -> IF r.print = print THEN "awaiting" ELSE "evaluate"
      [] AwaitsDecision(r) /\ seen \in Closed -> "handled"
      [] AwaitsDecision(r) /\ seen \in Open -> IF r.print = print THEN "handled" ELSE "open_proposal"
      [] OTHER -> IF r.print = print THEN "handled" ELSE "evaluate"

Decision(s) == Triage(scan[s].row, Fingerprint[scan[s].edition], scan[s].seen)

\* Mutant: cron and the button scan at the same time.
Start_NoLock(s) ==
    /\ scan[s].pc = "idle"
    /\ ~owned
    /\ holder' = s
    /\ scan' = [scan EXCEPT ![s] = [NoScan EXCEPT !.pc = "listed", !.edition = edition]]
    /\ UNCHANGED <<approvalVars, edition, owned, row, fresh, about, answered, lapsed>>

\* A scan that finds the lock taken does nothing, nor does one that finds the
\* event among the CRM's own.
Start(s) ==
    /\ scan[s].pc = "idle"
    /\ ~owned
    /\ holder = NoOne
    /\ holder' = s
    /\ scan' = [scan EXCEPT ![s] = [NoScan EXCEPT !.pc = "listed", !.edition = edition]]
    /\ UNCHANGED <<approvalVars, edition, owned, row, fresh, about, answered, lapsed>>

\* findRows
ReadRow(s) ==
    /\ scan[s].pc = "listed"
    /\ scan' = [scan EXCEPT ![s] = [@ EXCEPT !.pc = "read", !.row = row]]
    /\ fresh' = IF row = NoRow THEN fresh ELSE fresh \cup {s}
    /\ UNCHANGED <<approvalVars, edition, owned, row, about, holder, answered, lapsed>>

\* findProposalStatuses
ReadStatus(s) ==
    LET r == scan[s].row IN
    /\ scan[s].pc = "read"
    /\ scan' = [scan EXCEPT ![s] =
                  [@ EXCEPT !.pc = "judging",
                            !.seen = IF NeedsProposalStatus(r) THEN status[r.proposal] ELSE "ABSENT"]]
    /\ UNCHANGED <<approvalVars, edition, owned, row, fresh, about, holder, answered, lapsed>>

\* Mutant: every write is by the row's id.
Writable_Always(s) == TRUE

\* A row that was there is written only in the version that was read; one that
\* was not is upserted whatever is there by now.
Writable(s) == scan[s].row = NoRow \/ s \in fresh

\* The proposal a row points at after its event was judged without a draft.
Detached(s) == IF scan[s].row.status = "PENDING_RETRY" THEN NoOne ELSE row.proposal

\* Mutant: the card is looked for on the wrong kind of row.
Supersedes_Proposed(s) ==
    IF scan[s].row.status = "PROPOSED" /\ scan[s].seen = "FAILED"
    THEN scan[s].row.proposal ELSE NoOne

\* The FAILED card a new judgement replaces.
Supersedes(s) ==
    IF scan[s].row.status = "PENDING_RETRY" /\ scan[s].seen = "FAILED"
    THEN scan[s].row.proposal ELSE NoOne

\* The row of the judged edition; the step after it. A lost write ends it.
Saved(s, st, proposal, next) ==
    IF Writable(s)
    THEN /\ WrittenBy(s, [status |-> st, proposal |-> proposal,
                          print |-> Fingerprint[scan[s].edition]])
         /\ scan' = [scan EXCEPT ![s] =
                       [@ EXCEPT !.pc = next,
                                 !.retire = IF proposal = NoOne THEN Supersedes(s) ELSE NoOne]]
    ELSE /\ scan' = [scan EXCEPT ![s].pc = "done"]
         /\ UNCHANGED <<row, fresh>>

\* The title is read and its campaign looked for: nothing to draft, nothing to
\* change, a draft (the row lets go of the old proposal before the new one is
\* filed), or a model's hint to wait for.
Settle(s) ==
    /\ scan[s].pc = "judging"
    /\ Decision(s) \in {"evaluate", "awaiting"}
    /\ \/ Saved(s, "SKIPPED", Detached(s), "done")
       \/ Saved(s, "ADOPTED", Detached(s), "done")
       \/ Saved(s, "PENDING_RETRY", NoOne, "filing")
    /\ UNCHANGED <<approvalVars, edition, owned, about, holder, answered, lapsed>>

\* A title is put off to the local model, and from there to Gemini's batch; a
\* batch that is full or out of order leaves the row as it is.
Await(s) ==
    /\ scan[s].pc = "judging"
    /\ Decision(s) \in {"evaluate", "awaiting"}
    /\ IF Decision(s) = "awaiting" /\ scan[s].row.status = "HINT_GEMINI"
       THEN scan' = [scan EXCEPT ![s].pc = "touching"] /\ UNCHANGED <<row, fresh>>
       ELSE \E st \in {"HINT_LOCAL", "HINT_GEMINI"} : Saved(s, st, Detached(s), "done")
    /\ UNCHANGED <<approvalVars, edition, owned, about, holder, answered, lapsed>>

\* Mutant: the row takes the fingerprint of the change at once.
PassOver_NewPrint(s) ==
    /\ scan[s].pc = "judging"
    /\ IF Decision(s) = "open_proposal" /\ Writable(s)
       THEN WrittenBy(s, [row EXCEPT !.status = "OPEN_PROPOSAL", !.print = Fingerprint[scan[s].edition]])
       ELSE UNCHANGED <<row, fresh>>
    /\ \/ Decision(s) = "handled" /\ scan' = [scan EXCEPT ![s].pc = "touching"]
       \/ Decision(s) = "open_proposal" /\ scan' = [scan EXCEPT ![s].pc = "done"]
    /\ UNCHANGED <<approvalVars, edition, owned, about, holder, answered, lapsed>>

\* Handled, or a change that has to wait until the open proposal is decided: the
\* row keeps its fingerprint, so that the change is seen again afterwards.
PassOver(s) ==
    /\ scan[s].pc = "judging"
    /\ IF Decision(s) = "open_proposal" /\ Writable(s)
       THEN WrittenBy(s, [row EXCEPT !.status = "OPEN_PROPOSAL"])
       ELSE UNCHANGED <<row, fresh>>
    /\ \/ Decision(s) = "handled" /\ scan' = [scan EXCEPT ![s].pc = "touching"]
       \/ Decision(s) = "open_proposal" /\ scan' = [scan EXCEPT ![s].pc = "done"]
    /\ UNCHANGED <<approvalVars, edition, owned, about, holder, answered, lapsed>>

\* retireProposal: FAILED -> REJECTED, compare and set.
Retire(s) ==
    LET p == scan[s].retire IN
    /\ p # NoOne
    /\ scan' = [scan EXCEPT ![s].retire = NoOne]
    /\ \/ status[p] = "FAILED" /\ Free(p) /\ Move(p, "REJECTED")
       \/ (status[p] # "FAILED" \/ "retire" \in Losses) /\ UNCHANGED status
    /\ UNCHANGED <<payload, approver, approvals, effects, inflight, call,
                   edition, owned, row, fresh, about, holder, answered, lapsed>>

\* createProposal
File(s, p) ==
    /\ scan[s].pc = "filing"
    /\ scan[s].retire = NoOne
    /\ Create(p)
    /\ about' = [about EXCEPT ![p] = scan[s].edition]
    /\ scan' = [scan EXCEPT ![s] = [@ EXCEPT !.pc = "linking", !.filed = p]]
    /\ UNCHANGED <<edition, owned, row, fresh, holder, answered, lapsed>>

\* The row points at the new proposal, unless somebody else has written it.
Link(s) ==
    /\ scan[s].pc = "linking"
    /\ IF s \in fresh
       THEN WrittenBy(s, [row EXCEPT !.status = "PROPOSED", !.proposal = scan[s].filed])
       ELSE UNCHANGED <<row, fresh>>
    /\ scan' = [scan EXCEPT ![s].pc = "done"]
    /\ UNCHANGED <<approvalVars, edition, owned, about, holder, answered, lapsed>>

Left(s) ==
    /\ scan' = [scan EXCEPT ![s] = NoScan]
    /\ holder' = IF holder = s THEN NoOne ELSE holder

\* touchRows sets lastSeenAt, and updatedAt with it; where it fails, the scan goes on.
Finish(s) ==
    /\ scan[s].pc \in {"done", "touching"}
    /\ scan[s].retire = NoOne
    /\ Left(s)
    /\ \/ scan[s].pc = "touching" /\ fresh' = {}
       \/ (scan[s].pc = "done" \/ "scan" \in Losses) /\ fresh' = fresh \ {s}
    /\ UNCHANGED <<approvalVars, edition, owned, row, about, answered, lapsed>>

\* An exception, the cap on proposals or the budget: the next scan goes on.
Abandon(s) ==
    /\ \/ scan[s].pc = "judging" /\ Decision(s) \in {"evaluate", "awaiting"}
       \/ scan[s].pc \notin {"idle", "done", "touching"} /\ scan[s].retire = NoOne /\ "scan" \in Losses
    /\ Left(s)
    /\ fresh' = fresh \ {s}
    /\ UNCHANGED <<approvalVars, edition, owned, row, about, answered, lapsed>>

ScanStep(s) ==
    \/ Start(s)
    \/ ReadRow(s)
    \/ ReadStatus(s)
    \/ Settle(s)
    \/ Await(s)
    \/ PassOver(s)
    \/ Retire(s)
    \/ \E p \in Proposals : File(s, p)
    \/ Link(s)
    \/ Finish(s)
    \/ Abandon(s)

-----------------------------------------------------------------------------
\* The lock's transaction times out under a scan that is still going on (once,
\* as a bound).
LoseLock ==
    /\ "lock" \in Faults
    /\ holder # NoOne
    /\ ~lapsed
    /\ holder' = NoOne
    /\ lapsed' = TRUE
    /\ UNCHANGED <<approvalVars, edition, owned, row, fresh, about, scan, answered>>

\* The app dies with every call and every scan in it.
Restart ==
    /\ "crash" \in Losses
    /\ \E c \in Calls, s \in Scans : call[c] # NoCall \/ scan[s] # NoScan
    /\ call' = [c \in Calls |-> NoCall]
    /\ scan' = [s \in Scans |-> NoScan]
    /\ holder' = NoOne
    /\ fresh' = {}
    /\ UNCHANGED <<store, edition, owned, row, about, answered, lapsed>>

InboundNext ==
    \/ Edit
    \/ \E c \in Calls : Decide(c) \/ Adopt(c) \/ Mark(c)
    \/ \E s \in Scans : ScanStep(s)
    \/ LoseLock
    \/ Restart

InboundSpec == InboundInit /\ [][InboundNext]_inboundVars
=============================================================================
