---------------------------- MODULE IncidentProps ----------------------------
(***************************************************************************)
(* What is asked of IncidentLedger: what the owner hears of a job's        *)
(* failures, and what becomes of them in the ledger.                       *)
(***************************************************************************)
EXTENDS IncidentLedger

InTransaction == {"counting", "folding", "joining", "opening"}
Kinds == {"alert", "recovery"}

Incident == [status : Open \cup {"ABSENT", "resolved"}, cause : Causes \cup {None},
             occurrences : Nat, seen : Nat, marks : SUBSET (Kinds \cup {"digest", "suppressed"})]
Run == [pc : InTransaction \cup {"idle", "running", "succeeded", "failed", "over"},
        attempt : Nat, cause : Causes \cup {None}, found : Rows \cup {0}, at : Nat]
Round == [pc : {"idle", "escalating", "checking", "suppressing", "sending"}, todo : SUBSET Rows,
          read : SUBSET (Rows \X Nat), list : SUBSET (Rows \X Kinds), acks : SUBSET (Rows \X Kinds)]

\* Every variable keeps its type, and a lock is held by a run in a transaction.
IncidentTypeOK ==
    /\ task \in Nat
    /\ row \in [Rows -> Incident]
    /\ locked \in [Causes -> Chains \cup {None}]
    /\ jobLock \in Chains \cup {None}
    /\ chain \in [Chains -> Run]
    /\ now \in Nat
    /\ mistaken \in {"ABSENT", "open", "resolved"}
    /\ round \in Round
    /\ digest \in SUBSET Rows
    /\ told \in SUBSET (Rows \X (Kinds \cup {"digest"}))
    /\ held \in SUBSET Rows
    /\ blame \in [Rows -> SUBSET Chains]
    /\ \A s \in Causes : locked[s] # None =>
          chain[locked[s]].pc \in InTransaction /\ chain[locked[s]].cause = s
    /\ jobLock # None => chain[jobLock].pc \in {"joining", "opening"}

\* One cause has one open incident, however many runs fail at the same time:
\* otherwise the second failure in a row would count as a first one twice, and
\* the owner would hear of it twice or never.
OneIncidentPerCause ==
    \A r, s \in Rows : r # s /\ IsOpen(r) /\ IsOpen(s) => row[r].cause # row[s].cause

\* An error that may pass is the owner's only when two slots failed with it:
\* the retries of one slot never add up to an alarm (K1).
RetriesDoNotAlarm ==
    \A r \in Rows :
        row[r].status = "waiting_owner" /\ row[r].cause \in Transient => Cardinality(blame[r]) >= 2

\* Nothing is told as recovered that is still open, or whose alarm neither
\* reached the owner nor was held back by the limit of a day: a message that
\* could not be sent is not acknowledged.
RecoveryIsTrue ==
    \A r \in Rows : <<r, "recovery">> \in told =>
        /\ row[r].status = "resolved"
        /\ "alert" \in row[r].marks
        /\ <<r, "alert">> \in told \/ r \in held

\* A closed incident is not opened again, by an escalation that read it before
\* or by a retry that joins it.
ClosedStaysClosed ==
    [][\A r \in Rows : row[r].status = "resolved" => row'[r].status = "resolved"]_incidentVars

-----------------------------------------------------------------------------
(***************************************************************************)
(* Fairness: cron keeps calling the script; the list, a message and an     *)
(* acknowledgement do not fail every time.                                 *)
(***************************************************************************)
HostFairness ==
    /\ WF_incidentVars(ListStep)
    /\ SF_incidentVars(ReadRecovered)
    /\ \A r \in Rows : /\ SF_incidentVars(Escalate(r) /\ row' # row)
                       /\ SF_incidentVars(Send(<<r, "recovery">>) /\ <<r, "recovery">> \in told')
    /\ SF_incidentVars(Post /\ row' # row)
    /\ WF_incidentVars(DigestStep)
    /\ SF_incidentVars(PostDigest /\ row' # row)

FairIncidentSpec == IncidentSpec /\ HostFairness

\* What the owner need not hear of: an incident that was found healed before the
\* alarm went out, and an error that may pass and did not come back yet.
Harmless(r) ==
    \/ "suppressed" \in row[r].marks
    \/ row[r].status = "open" /\ row[r].cause \in Transient /\ row[r].occurrences < 2

\* An incident in the ledger is never lost on the owner: time and again every
\* one of them was announced or in a daily message, or is harmless. The limit
\* of a day, which acknowledges what it does not send, loses none.
NothingGoesUntold ==
    []<>(\A r \in Rows : \/ row[r].status = "ABSENT" \/ Harmless(r)
                         \/ \E k \in {"alert", "digest"} : <<r, k>> \in told)

\* An alarm that is on record as sent is followed by the good news once the
\* incident is closed.
GoodNewsFollows ==
    []<>(\A r \in Rows : "alert" \in row[r].marks /\ row[r].status = "resolved" => <<r, "recovery">> \in told)
=============================================================================
