----------------------------- MODULE CalendarProps -----------------------------
(***************************************************************************)
(* What is asked of CalendarInbound: that no wish of the owner's calendar  *)
(* is carried out twice, asked twice, or forgotten.                        *)
(***************************************************************************)
EXTENDS CalendarInbound, ProposalProps

RowType == [status : RowStatus, print : Prints, proposal : Proposals \cup {NoOne}]
ScanPcs == {"idle", "listed", "read", "judging", "filing", "linking", "done", "touching"}
ScanType == [pc : ScanPcs, edition : Editions, row : RowType, seen : Status,
             retire : Proposals \cup {NoOne}, filed : Proposals \cup {NoOne}]

\* Every variable keeps its type, and one scan at a time is in progress as long
\* as no lock was lost.
InboundTypeOK ==
    /\ TypeOK
    /\ edition \in Editions
    /\ owned \in BOOLEAN /\ lapsed \in BOOLEAN
    /\ row \in RowType
    /\ fresh \subseteq {s \in Scans : scan[s].pc # "idle"}
    /\ about \in [Proposals -> Editions]
    /\ scan \in [Scans -> ScanType]
    /\ holder \in Scans \cup {NoOne}
    /\ ~lapsed => \A s \in Scans : scan[s].pc # "idle" => holder = s
    /\ answered \subseteq Editions

-----------------------------------------------------------------------------
\* An approval that has claimed the row keeps it until it is over: no scan that
\* judged the event by older reads takes the row away from under it, however
\* the claim, the scan's reads and its writes interleave.
ClaimedRowStays ==
    ~lapsed => \A p \in Proposals : status[p] = "APPROVED" => row.proposal = p

\* "the same event is applied twice" is what the conditional writes are against:
\* one edition of an event is never carried out by two proposals, with failed
\* executions, retries of old cards, crashes and new judgements in between.
AppliedOnce ==
    ~lapsed =>
        \A p, q \in Proposals :
            status[p] = "EXECUTED" /\ status[q] = "EXECUTED" /\ about[p] = about[q] => p = q

Guards(r, p) == r.proposal = p /\ NeedsProposalStatus(r)

\* If a scan outlives its lock, the row it can take from an approval is one that
\* did not exist when it looked: its other writes are conditional still.
OnlyFirstSightTakes ==
    [][\A p \in Proposals :
         status[p] = "APPROVED" /\ Guards(row, p) /\ ~Guards(row', p)
            => \E s \in Scans : /\ scan[s].row = NoRow
                               /\ scan[s].pc = "judging" /\ scan'[s].pc # "judging"]_inboundVars

\* An edition the owner has answered, by an approval that was executed or by a
\* rejection, and whose answer reached the row, is never drafted again.
AnsweredIsNotAsked ==
    [][~lapsed => \A p \in Proposals :
         status[p] = "ABSENT" /\ status'[p] # "ABSENT" => about'[p] \notin answered]_inboundVars

\* While the proposal of a row is open, the row waits for it, with the fingerprint
\* of what it was drafted from, whatever the event says by now: a change that came
\* under an open proposal is seen again once the proposal is decided.
RowTellsItsProposal ==
    ~lapsed /\ row.proposal # NoOne /\ status[row.proposal] \in Open =>
        NeedsProposalStatus(row) /\ Fingerprint[about[row.proposal]] = row.print

\* "no dead card stays in the inbox": a FAILED card the row has let go of is
\* about to be closed by the scan that replaced it, since a retry of it can only
\* be refused.
NoDeadCards ==
    ~lapsed /\ Losses \cap {"retire", "crash"} = {} =>
        \A p \in Proposals :
            status[p] = "FAILED" /\ row.proposal # p => \E s \in Scans : scan[s].retire = p

-----------------------------------------------------------------------------
(***************************************************************************)
(* Fairness: the cron starts scans every half hour; a scan goes on unless  *)
(* it fails or the app dies, and it is not stopped at the same point every *)
(* time, by its budget, an exception or a model that does not answer.      *)
(***************************************************************************)
ScanFairness ==
    \A s \in Scans :
        /\ WF_inboundVars(Start(s))
        /\ SF_inboundVars(ReadRow(s))
        /\ SF_inboundVars(ReadStatus(s))
        /\ SF_inboundVars(Settle(s))
        /\ WF_inboundVars(PassOver(s) \/ Retire(s) \/ Finish(s))
        /\ SF_inboundVars(\E p \in Proposals : File(s, p))
        /\ SF_inboundVars(Link(s))

\* A call of the inbox goes on to its end.
CallFairness ==
    \A c \in Calls : WF_inboundVars(Mark(c)) /\ WF_inboundVars(Decide(c) /\ call[c].pc # "idle")

FairInboundSpec == InboundSpec /\ ScanFairness /\ CallFairness

\* The pool of proposals of the instance is used up.
Exhausted == \A p \in Proposals : status[p] # "ABSENT"

\* The row's proposal waits for the owner, or is being carried out.
Undecided == NeedsProposalStatus(row) /\ status[row.proposal] \in
                IF row.status = "PENDING_RETRY" THEN {"APPROVED"} ELSE Open

\* The event as it is now has been judged.
Judged == row.print = Fingerprint[edition] /\ row.status \in {"PROPOSED", "SKIPPED", "ADOPTED", "REJECTED"}

\* The row's proposal was decided and the mark did not come, or came too late.
Unmarked == NeedsProposalStatus(row) /\ status[row.proposal] \in Closed

\* A new event, a change, a failed execution and a title that waits for a model
\* come to a judgement, through exceptions, dropped events, crashes and failed
\* marks: only an open proposal and an answer without its mark hold them back.
NothingIsForgotten == []<>(owned \/ Exhausted \/ Undecided \/ Unmarked \/ Judged)

\* "if the fingerprint changes, the scan judges it again" (adopt.ts, about an
\* event whose proposal the owner rejected).
ChangesAreJudged == []<>(owned \/ Exhausted \/ Undecided \/ row.print = Fingerprint[edition])
=============================================================================
