----------------------------- MODULE IncidentProofs -----------------------------
(***************************************************************************)
(* Theorems about IncidentLedger, for any chains, causes, pool and losses. *)
(***************************************************************************)
EXTENDS IncidentProps, FiniteSetTheorems, TLAPS

\* A run in the transaction of a failure owns the lock of its signature, and
\* nobody owns a lock without being there. The row it found was once opened;
\* when it found none, there is none of its cause. A chain is counted nowhere
\* before its first retry.
RunInv(c) ==
    /\ chain[c].pc \in {"failed"} \cup InTransaction => chain[c].cause \in Causes
    /\ chain[c].pc \in InTransaction => locked[chain[c].cause] = c
    /\ \A s \in Causes : locked[s] = c => chain[c].pc \in InTransaction /\ chain[c].cause = s
    /\ jobLock = c => chain[c].pc \in {"joining", "opening"}
    /\ chain[c].pc \in {"counting", "joining"} =>
          chain[c].found \in Rows /\ row[chain[c].found].status # "ABSENT"
    /\ chain[c].pc \in {"folding", "joining", "opening"} =>
          \A r \in Rows : IsOpen(r) => row[r].cause # chain[c].cause
    /\ chain[c].attempt >= 1
    /\ chain[c].attempt = 1 /\ chain[c].pc # "over" => \A r \in Rows : c \notin blame[r]

\* An incident counts no more than the chains it collects; what is escalated, or
\* picked for it, meets the rule of escalation; an alarm on record went out or
\* was held back; good news are listed for closed incidents with such an alarm.
RowInv(r) ==
    /\ IsFiniteSet(blame[r])
    /\ row[r].occurrences <= Cardinality(blame[r])
    /\ row[r].status = "waiting_owner" => ShouldEscalate(r)
    /\ round.pc = "escalating" /\ r \in round.todo => row[r].status # "ABSENT" /\ ShouldEscalate(r)
    /\ "alert" \in row[r].marks \/ <<r, "alert">> \in round.acks =>
          <<r, "alert">> \in told \/ r \in held
    /\ <<r, "recovery">> \in round.list \cup round.acks \cup told =>
          row[r].status = "resolved" /\ "alert" \in row[r].marks
    /\ round.pc # "sending" => <<r, "recovery">> \notin round.list

IncidentInv ==
    /\ IncidentTypeOK
    /\ \A c \in Chains : RunInv(c)
    /\ OneIncidentPerCause
    /\ \A r \in Rows : RowInv(r)

-----------------------------------------------------------------------------
(***************************************************************************)
(* What the records look like after a change of some fields.               *)
(***************************************************************************)
LEMMA IncidentSeen ==
    ASSUME NEW x \in Incident, NEW n \in Nat, NEW k \in Nat
    PROVE  LET y == [x EXCEPT !.seen = n, !.occurrences = @ + k]
           IN  /\ y \in Incident
               /\ y.status = x.status /\ y.cause = x.cause /\ y.marks = x.marks
               /\ y.occurrences = x.occurrences + k
<1> DEFINE m == x.occurrences + k
<1>1. m \in Nat
  BY DEF Incident
<1> HIDE DEF m
<1>2. /\ [x EXCEPT !.seen = n, !.occurrences = m] \in Incident
      /\ [x EXCEPT !.seen = n, !.occurrences = m].occurrences = m
      /\ [x EXCEPT !.seen = n, !.occurrences = m].status = x.status
      /\ [x EXCEPT !.seen = n, !.occurrences = m].cause = x.cause
      /\ [x EXCEPT !.seen = n, !.occurrences = m].marks = x.marks
  BY <1>1 DEF Incident
<1> QED
  BY <1>2 DEF m

Marks == Kinds \cup {"digest", "suppressed"}

LEMMA IncidentMarked ==
    ASSUME NEW x \in Incident, NEW K \in SUBSET Marks
    PROVE  LET y == Marked(x, K)
           IN  /\ y \in Incident
               /\ y.status = x.status /\ y.cause = x.cause /\ y.occurrences = x.occurrences
               /\ y.marks = x.marks \cup K
<1> DEFINE m == x.marks \cup K
<1>1. m \in SUBSET Marks
  BY DEF Incident, Marks
<1> HIDE DEF m
<1>2. /\ [x EXCEPT !.marks = m] \in Incident
      /\ [x EXCEPT !.marks = m].marks = m
      /\ [x EXCEPT !.marks = m].status = x.status
      /\ [x EXCEPT !.marks = m].cause = x.cause
      /\ [x EXCEPT !.marks = m].occurrences = x.occurrences
  BY <1>1 DEF Incident, Marks
<1> QED
  BY <1>2 DEF m, Marked

LEMMA IncidentMoved ==
    ASSUME NEW x \in Incident, NEW status \in Open \cup {"resolved"}
    PROVE  LET y == [x EXCEPT !.status = status]
           IN  /\ y \in Incident
               /\ y.status = status /\ y.cause = x.cause
               /\ y.occurrences = x.occurrences /\ y.marks = x.marks
BY DEF Incident

LEMMA GotoEffect ==
    ASSUME IncidentTypeOK, NEW c \in Chains, NEW pc, Goto(c, pc),
           pc \in InTransaction \cup {"idle", "running", "succeeded", "failed", "over"}
    PROVE  /\ chain' \in [Chains -> Run]
           /\ \A d \in Chains \ {c} : chain'[d] = chain[d]
           /\ chain'[c].pc = pc
           /\ chain'[c].attempt = chain[c].attempt
           /\ chain'[c].cause = chain[c].cause
           /\ chain'[c].found = chain[c].found
BY DEF IncidentTypeOK, Goto, Run

LEMMA FoundEffect ==
    ASSUME IncidentTypeOK, NEW c \in Chains, NEW pc, NEW r \in Rows,
           GotoFound(c, pc, r),
           pc \in InTransaction
    PROVE  /\ chain' \in [Chains -> Run]
           /\ \A d \in Chains \ {c} : chain'[d] = chain[d]
           /\ chain'[c].pc = pc
           /\ chain'[c].found = r
           /\ chain'[c].attempt = chain[c].attempt
           /\ chain'[c].cause = chain[c].cause
<1> DEFINE x == [chain[c] EXCEPT !.pc = pc, !.found = r]
<1>1. chain \in [Chains -> Run] /\ chain[c] \in Run
  BY DEF IncidentTypeOK
<1>2. x \in Run /\ x.pc = pc /\ x.found = r /\ x.attempt = chain[c].attempt /\ x.cause = chain[c].cause
  BY <1>1 DEF Run
<1>3. chain' = [chain EXCEPT ![c] = x]
  BY <1>1 DEF Run, GotoFound
<1> HIDE DEF x
<1> QED
  BY <1>1, <1>2, <1>3

\* What a transaction leaves of its run, at its end.
LEMMA NextAttemptEffect ==
    ASSUME IncidentTypeOK, NEW c \in Chains, chain[c].attempt >= 1,
           chain' = [chain EXCEPT ![c] = NextAttempt(c)]
    PROVE  /\ chain' \in [Chains -> Run]
           /\ \A d \in Chains \ {c} : chain'[d] = chain[d]
           /\ chain'[c].pc = "over" \/ (chain'[c].pc = "idle" /\ chain'[c].attempt > 1)
           /\ chain'[c].attempt >= 1
<1>1. chain[c].attempt \in Nat /\ chain[c].attempt + 1 \in Nat
  BY DEF IncidentTypeOK, Run
<1>2. /\ NextAttempt(c) \in Run
      /\ NextAttempt(c).pc = "over" \/ (NextAttempt(c).pc = "idle" /\ NextAttempt(c).attempt > 1)
      /\ NextAttempt(c).attempt >= 1
  BY <1>1 DEF NextAttempt, Over, Run
<1> QED
  BY <1>2 DEF IncidentTypeOK

LEMMA UnlockEffect ==
    ASSUME IncidentTypeOK, NEW c \in Chains, Unlock(c)
    PROVE  /\ locked' \in [Causes -> Chains \cup {None}]
           /\ jobLock' \in Chains \cup {None}
           /\ \A s \in Causes : locked'[s] # c /\ (locked[s] # c => locked'[s] = locked[s])
           /\ \A s \in Causes : locked'[s] # None => locked'[s] = locked[s]
           /\ jobLock' # c /\ (jobLock # c => jobLock' = jobLock)
           /\ jobLock' # None => jobLock' = jobLock
BY ButtonsAssumption DEF IncidentTypeOK, Unlock

LEMMA SeenEffect ==
    ASSUME IncidentTypeOK, NEW c \in Chains, NEW r \in Rows, NEW k \in Nat, Seen(c, r, k)
    PROVE  /\ row' \in [Rows -> Incident]
           /\ blame' \in [Rows -> SUBSET Chains]
           /\ \A s \in Rows \ {r} : row'[s] = row[s] /\ blame'[s] = blame[s]
           /\ row'[r].status = row[r].status
           /\ row'[r].cause = row[r].cause
           /\ row'[r].marks = row[r].marks
           /\ row'[r].occurrences = row[r].occurrences + k
           /\ blame'[r] = blame[r] \cup {c}
<1>1. row[r] \in Incident /\ chain[c].at \in Nat
  BY DEF IncidentTypeOK, Run
<1> DEFINE y == SeenAgain(row[r], chain[c].at, k)
<1>2. /\ y \in Incident
      /\ y.status = row[r].status /\ y.cause = row[r].cause /\ y.marks = row[r].marks
      /\ y.occurrences = row[r].occurrences + k
  BY <1>1, IncidentSeen DEF SeenAgain
<1>3. row' = [row EXCEPT ![r] = y]
  BY DEF Seen
<1>4. blame' = [blame EXCEPT ![r] = blame[r] \cup {c}]
  BY DEF Seen
<1> HIDE DEF y
<1> QED
  BY <1>2, <1>3, <1>4 DEF IncidentTypeOK

-----------------------------------------------------------------------------
(***************************************************************************)
(* A step of one run, and what the other runs know afterwards.             *)
(***************************************************************************)

\* The records of the others and their locks stay; nobody is handed one.
OthersStay(c) ==
    /\ chain' \in [Chains -> Run]
    /\ \A d \in Chains \ {c} : chain'[d] = chain[d]
    /\ locked' \in [Causes -> Chains \cup {None}]
    /\ \A s \in Causes, d \in Chains \ {c} : locked[s] = d <=> locked'[s] = d
    /\ jobLock' \in Chains \cup {None}
    /\ \A d \in Chains \ {c} : jobLock' = d => jobLock = d

\* A row keeps its cause and is not emptied; one is opened only under the lock
\* of its cause; and only this run is collected.
RowsStay(c) ==
    /\ row' \in [Rows -> Incident]
    /\ blame' \in [Rows -> SUBSET Chains]
    /\ \A r \in Rows :
          /\ row[r].status # "ABSENT" => row'[r].status # "ABSENT"
          /\ row'[r].status \in Open =>
                \/ row[r].status \in Open /\ row'[r].cause = row[r].cause
                \/ row'[r].cause \in Causes /\ locked[row'[r].cause] = c
          /\ blame'[r] \subseteq blame[r] \cup {c}

LEMMA OthersKnow ==
    ASSUME IncidentTypeOK, NEW c \in Chains, OthersStay(c), RowsStay(c),
           NEW d \in Chains \ {c}, RunInv(d)
    PROVE  RunInv(d)'
<1>1. chain'[d] = chain[d] /\ chain[d] \in Run /\ d \in Chains
  BY DEF OthersStay, IncidentTypeOK
<1>2. chain[d].pc \in InTransaction => locked'[chain[d].cause] = d
  BY DEF RunInv, OthersStay
<1>3. \A s \in Causes : locked'[s] = d => chain[d].pc \in InTransaction /\ chain[d].cause = s
  BY DEF RunInv, OthersStay
<1>4. jobLock' = d => chain[d].pc \in {"joining", "opening"}
  BY DEF RunInv, OthersStay
<1>5. chain[d].pc \in {"counting", "joining"} =>
         chain[d].found \in Rows /\ row'[chain[d].found].status # "ABSENT"
  BY DEF RunInv, RowsStay
<1>6. chain[d].pc \in {"folding", "joining", "opening"} =>
         \A r \in Rows : row'[r].status \in Open => row'[r].cause # chain[d].cause
  <2> SUFFICES ASSUME chain[d].pc \in {"folding", "joining", "opening"},
                      NEW r \in Rows, row'[r].status \in Open
               PROVE  row'[r].cause # chain[d].cause
    OBVIOUS
  <2>1. chain[d].cause \in Causes /\ locked[chain[d].cause] = d
    BY DEF RunInv, InTransaction
  <2>2. row[r].status \in Open => row[r].cause # chain[d].cause
    BY DEF RunInv, IsOpen
  <2> QED
    BY <2>1, <2>2 DEF RowsStay
<1>7. chain[d].attempt = 1 /\ chain[d].pc # "over" => \A r \in Rows : d \notin blame'[r]
  BY DEF RunInv, RowsStay
<1> QED
  BY <1>1, <1>2, <1>3, <1>4, <1>5, <1>6, <1>7 DEF RunInv, IsOpen

\* A step of a run: the host's round does not move, and what the run leaves is
\* right for itself and for every row.
LEMMA LedgerStep ==
    ASSUME IncidentInv, NEW c \in Chains, OthersStay(c), RowsStay(c), RunInv(c)', UNCHANGED hostVars,
           task' \in Nat, now' \in Nat,
           OneIncidentPerCause', \A r \in Rows : RowInv(r)'
    PROVE  IncidentInv'
<1>1. \A d \in Chains : RunInv(d)'
  BY OthersKnow DEF IncidentInv
<1>2. IncidentTypeOK'
  BY <1>1 DEF IncidentInv, IncidentTypeOK, OthersStay, RowsStay, RunInv, hostVars
<1> QED
  BY <1>1, <1>2 DEF IncidentInv

\* ... one that leaves the ledger alone.
LEMMA QuietStep ==
    ASSUME IncidentInv, NEW c \in Chains, OthersStay(c), RunInv(c)',
           row' = row, blame' = blame, UNCHANGED hostVars,
           task' \in Nat, now' \in Nat
    PROVE  IncidentInv'
<1>1. RowsStay(c)
  BY DEF RowsStay, IncidentInv, IncidentTypeOK
<1>2. OneIncidentPerCause' /\ \A r \in Rows : RowInv(r)'
  BY DEF IncidentInv, OneIncidentPerCause, RowInv, IsOpen, ShouldEscalate, hostVars
<1> QED
  BY <1>1, <1>2, LedgerStep

\* A step of the host: runs and their locks do not move, and no row is opened.
LEMMA HostStep ==
    ASSUME IncidentInv, UNCHANGED <<runVars, blame>>, row' \in [Rows -> Incident],
           \A r \in Rows : /\ row[r].status # "ABSENT" => row'[r].status # "ABSENT"
                           /\ row'[r].cause = row[r].cause
                           /\ row'[r].status \in Open => row[r].status \in Open,
           mistaken' \in {"ABSENT", "open", "resolved"}, round' \in Round, digest' \in SUBSET Rows,
           told' \in SUBSET (Rows \X (Kinds \cup {"digest"})), held' \in SUBSET Rows,
           \A r \in Rows : RowInv(r)'
    PROVE  IncidentInv'
<1>1. \A c \in Chains : RunInv(c)'
  <2> SUFFICES ASSUME NEW c \in Chains
               PROVE  RunInv(c)'
    OBVIOUS
  <2>1. RunInv(c)
    BY DEF IncidentInv
  <2>2. chain[c].pc \in {"counting", "joining"} => row'[chain[c].found].status # "ABSENT"
    BY <2>1 DEF RunInv
  <2>3. chain[c].pc \in {"folding", "joining", "opening"} =>
           \A r \in Rows : row'[r].status \in Open => row'[r].cause # chain[c].cause
    BY <2>1 DEF RunInv, IsOpen
  <2> QED
    BY <2>1, <2>2, <2>3 DEF RunInv, IsOpen, runVars
<1>2. OneIncidentPerCause'
  BY DEF IncidentInv, OneIncidentPerCause, IsOpen
<1>3. IncidentTypeOK'
  BY DEF IncidentInv, IncidentTypeOK, runVars
<1> QED
  BY <1>1, <1>2, <1>3 DEF IncidentInv

\* A row that only counts on, or is closed, is still right.
LEMMA RowKept ==
    ASSUME NEW r \in Rows, RowInv(r), IncidentTypeOK, UNCHANGED hostVars, row' \in [Rows -> Incident],
           row'[r].status \in {row[r].status, "resolved"}, row[r].status = "ABSENT" => row'[r].status = "ABSENT",
           row'[r].cause = row[r].cause, row'[r].marks = row[r].marks,
           row'[r].occurrences >= row[r].occurrences,
           IsFiniteSet(blame'[r]), row'[r].occurrences <= Cardinality(blame'[r])
    PROVE  RowInv(r)'
<1>1. row[r].occurrences \in Nat /\ row'[r].occurrences \in Nat
  BY DEF IncidentTypeOK, Incident
<1>2. ShouldEscalate(r) => ShouldEscalate(r)'
  BY <1>1 DEF ShouldEscalate
<1>3. row'[r].status = "waiting_owner" => ShouldEscalate(r)'
  BY <1>2 DEF RowInv
<1>4. round'.pc = "escalating" /\ r \in round'.todo => row'[r].status # "ABSENT" /\ ShouldEscalate(r)'
  BY <1>2 DEF RowInv, hostVars
<1>5. "alert" \in row'[r].marks \/ <<r, "alert">> \in round'.acks =>
         <<r, "alert">> \in told' \/ r \in held'
  BY DEF RowInv, hostVars
<1>6. <<r, "recovery">> \in round'.list \cup round'.acks \cup told' =>
         row'[r].status = "resolved" /\ "alert" \in row'[r].marks
  BY DEF RowInv, hostVars
<1>7. round'.pc # "sending" => <<r, "recovery">> \notin round'.list
  BY DEF RowInv, hostVars
<1> QED
  BY <1>3, <1>4, <1>5, <1>6, <1>7 DEF RowInv

-----------------------------------------------------------------------------
(***************************************************************************)
(* The steps of a run.                                                     *)
(***************************************************************************)
LEMMA StartKeeps ==
    ASSUME IncidentInv, NEW c \in Chains, Start(c)
    PROVE  IncidentInv'
<1>1. RunInv(c) /\ IncidentTypeOK
  BY DEF IncidentInv
<1>2. /\ chain' \in [Chains -> Run]
      /\ \A d \in Chains \ {c} : chain'[d] = chain[d]
      /\ chain'[c].pc = "running" /\ chain'[c].attempt = chain[c].attempt
  BY <1>1, GotoEffect DEF Start
<1>3. OthersStay(c)
  BY <1>1, <1>2 DEF OthersStay, Start, IncidentTypeOK
<1>4. RunInv(c)'
  BY <1>1, <1>2 DEF RunInv, Start, InTransaction
<1>5. task' \in Nat /\ now' \in Nat
  BY <1>1 DEF Start, IncidentTypeOK
<1> QED
  BY <1>3, <1>4, <1>5, QuietStep DEF Start

LEMMA EndKeeps ==
    ASSUME IncidentInv, NEW c \in Chains, End(c)
    PROVE  IncidentInv'
<1>1. RunInv(c) /\ IncidentTypeOK
  BY DEF IncidentInv
<1>2. now' \in Nat
  BY <1>1 DEF End, IncidentTypeOK
<1>3. PICK cause \in Causes \cup {None} :
         /\ chain' = [chain EXCEPT ![c].cause = cause, ![c].at = now',
                                   ![c].pc = IF cause = None THEN "succeeded" ELSE "failed"]
         /\ \/ task' = IF cause = None THEN now' ELSE 0
            \/ "status" \in Losses /\ UNCHANGED task
  BY DEF End
<1>4. /\ chain' \in [Chains -> Run]
      /\ \A d \in Chains \ {c} : chain'[d] = chain[d]
      /\ chain'[c].pc = IF cause = None THEN "succeeded" ELSE "failed"
      /\ chain'[c].cause = cause
      /\ chain'[c].attempt = chain[c].attempt
  <2> DEFINE pc == IF cause = None THEN "succeeded" ELSE "failed"
             x == [chain[c] EXCEPT !.cause = cause, !.at = now', !.pc = pc]
  <2>1. pc \in {"succeeded", "failed"} /\ chain \in [Chains -> Run] /\ chain[c] \in Run
    BY <1>1 DEF IncidentTypeOK
  <2>2. chain' = [chain EXCEPT ![c].cause = cause, ![c].at = now', ![c].pc = pc]
    BY <1>3
  <2> HIDE DEF pc
  <2>3. x \in Run /\ x.pc = pc /\ x.attempt = chain[c].attempt /\ x.cause = cause
    BY <1>2, <2>1 DEF Run
  <2>4. chain' = [chain EXCEPT ![c] = x]
    BY <2>1, <2>2 DEF Run
  <2> HIDE DEF x
  <2> QED
    BY <2>1, <2>3, <2>4 DEF pc
<1>5. OthersStay(c)
  BY <1>1, <1>4 DEF OthersStay, End, IncidentTypeOK
<1>6. chain'[c].pc = "failed" => chain'[c].cause \in Causes
  BY <1>4
<1>7. chain'[c].pc \in {"succeeded", "failed"}
  BY <1>4
<1>8. RunInv(c)'
  BY <1>1, <1>4, <1>6, <1>7 DEF RunInv, End, InTransaction
<1>9. task' \in Nat
  BY <1>1, <1>2, <1>3 DEF IncidentTypeOK
<1> QED
  BY <1>2, <1>5, <1>8, <1>9, QuietStep DEF End

LEMMA FindKeeps ==
    ASSUME IncidentInv, NEW c \in Chains, Find(c)
    PROVE  IncidentInv'
<1>1. RunInv(c) /\ IncidentTypeOK
  BY DEF IncidentInv
<1>2. chain[c].cause \in Causes /\ locked[chain[c].cause] = None /\ None # c
  BY <1>1, ButtonsAssumption DEF Find, RunInv
<1> DEFINE Looked ==
         /\ chain' \in [Chains -> Run]
         /\ \A d \in Chains \ {c} : chain'[d] = chain[d]
         /\ chain'[c].cause = chain[c].cause
         /\ chain'[c].attempt = chain[c].attempt
         /\ chain'[c].pc \in InTransaction
         /\ chain'[c].pc \in {"counting", "joining"} =>
               chain'[c].found \in Rows /\ row[chain'[c].found].status # "ABSENT"
         /\ chain'[c].pc \in {"folding", "joining", "opening"} =>
               \A r \in Rows : IsOpen(r) => row[r].cause # chain[c].cause
<1>3. Looked
  <2>1. PICK at \in chain[c].at .. now :
           \/ \E r \in Rows :
                 /\ IsOpen(r) /\ row[r].cause = chain[c].cause
                 /\ chain' = [chain EXCEPT ![c].pc = "counting", ![c].found = r, ![c].at = at]
           \/ /\ \A r \in Rows : IsOpen(r) => row[r].cause # chain[c].cause
              /\ chain' = [chain EXCEPT ![c].at = at,
                     ![c].pc = IF IsRetry(c) /\ chain[c].cause \in Transient THEN "folding" ELSE "opening"]
    BY DEF Find, Look
  <2>2. chain \in [Chains -> Run] /\ chain[c] \in Run /\ at \in Nat
    BY <1>1 DEF IncidentTypeOK, Run
  <2>3. ASSUME NEW r \in Rows, IsOpen(r), row[r].cause = chain[c].cause,
               chain' = [chain EXCEPT ![c].pc = "counting", ![c].found = r, ![c].at = at]
        PROVE  Looked
    <3> DEFINE x == [chain[c] EXCEPT !.pc = "counting", !.found = r, !.at = at]
    <3>1. /\ x \in Run /\ x.pc = "counting" /\ x.found = r
          /\ x.attempt = chain[c].attempt /\ x.cause = chain[c].cause
      BY <2>2 DEF Run, InTransaction
    <3>2. chain' = [chain EXCEPT ![c] = x]
      BY <2>2, <2>3 DEF Run
    <3> HIDE DEF x
    <3> QED
      BY <2>2, <2>3, <3>1, <3>2 DEF IsOpen, Open, InTransaction
  <2>4. ASSUME \A r \in Rows : IsOpen(r) => row[r].cause # chain[c].cause,
               NEW pc \in {"folding", "opening"}, chain' = [chain EXCEPT ![c].at = at, ![c].pc = pc]
        PROVE  Looked
    <3> DEFINE x == [chain[c] EXCEPT !.at = at, !.pc = pc]
    <3>1. /\ x \in Run /\ x.pc = pc
          /\ x.attempt = chain[c].attempt /\ x.cause = chain[c].cause
      BY <2>2 DEF Run, InTransaction
    <3>2. chain' = [chain EXCEPT ![c] = x]
      BY <2>2, <2>4 DEF Run
    <3> HIDE DEF x
    <3> QED
      BY <2>2, <2>4, <3>1, <3>2 DEF InTransaction
  <2> QED
    BY <2>1, <2>3, <2>4
<1>4. /\ locked' \in [Causes -> Chains \cup {None}]
      /\ locked'[chain[c].cause] = c
      /\ \A s \in Causes : s # chain[c].cause => locked'[s] = locked[s]
  BY <1>1, <1>2 DEF Find, IncidentTypeOK
<1>5. OthersStay(c)
  BY <1>1, <1>2, <1>3, <1>4, ButtonsAssumption DEF OthersStay, Find, IncidentTypeOK
<1>6. \A s \in Causes : locked[s] # c
  BY <1>1 DEF RunInv, Find, InTransaction
<1>7. jobLock # c
  BY <1>1 DEF RunInv, Find
<1>8. RunInv(c)'
  BY <1>1, <1>2, <1>3, <1>4, <1>6, <1>7 DEF RunInv, Find, IsOpen
<1>9. task' \in Nat /\ now' \in Nat
  BY <1>1 DEF Find, IncidentTypeOK
<1> QED
  BY <1>5, <1>8, <1>9, QuietStep DEF Find

LEMMA FindFoldKeeps ==
    ASSUME IncidentInv, NEW c \in Chains, FindFold(c)
    PROVE  IncidentInv'
<1>1. RunInv(c) /\ IncidentTypeOK
  BY DEF IncidentInv
<1>2. /\ chain' \in [Chains -> Run]
      /\ \A d \in Chains \ {c} : chain'[d] = chain[d]
      /\ chain'[c].cause = chain[c].cause
      /\ chain'[c].attempt = chain[c].attempt
      /\ chain'[c].pc \in {"joining", "opening"}
      /\ chain'[c].pc = "joining" => chain'[c].found \in Rows /\ row[chain'[c].found].status # "ABSENT"
  <2>1. CASE \E r \in Rows :
                IsOpen(r) /\ GotoFound(c, "joining", r)
    <3>1. PICK r \in Rows :
                IsOpen(r) /\ GotoFound(c, "joining", r)
      BY <2>1
    <3>2. /\ chain' \in [Chains -> Run]
          /\ \A d \in Chains \ {c} : chain'[d] = chain[d]
          /\ chain'[c].cause = chain[c].cause
          /\ chain'[c].attempt = chain[c].attempt
          /\ chain'[c].pc = "joining"
          /\ chain'[c].found = r
      BY <1>1, <3>1, FoundEffect DEF InTransaction
    <3> QED
      BY <3>1, <3>2 DEF IsOpen, Open
  <2>2. CASE Goto(c, "opening")
    <3>1. "opening" \in InTransaction
      BY DEF InTransaction
    <3> QED
      BY <1>1, <2>2, <3>1, GotoEffect
  <2> QED
    BY <2>1, <2>2 DEF FindFold
<1>3. OthersStay(c)
  BY <1>1, <1>2 DEF OthersStay, FindFold, IncidentTypeOK
<1>4. /\ chain[c].cause \in Causes /\ locked[chain[c].cause] = c
      /\ \A s \in Causes : locked[s] = c => chain[c].cause = s
      /\ \A r \in Rows : IsOpen(r) => row[r].cause # chain[c].cause
  BY <1>1 DEF RunInv, FindFold, InTransaction
<1>5. RunInv(c)'
  BY <1>1, <1>2, <1>4 DEF RunInv, FindFold, IsOpen, InTransaction
<1>6. task' \in Nat /\ now' \in Nat
  BY <1>1 DEF FindFold, IncidentTypeOK
<1> QED
  BY <1>3, <1>5, <1>6, QuietStep DEF FindFold

\* The end of a transaction hands back its locks, and leaves nothing to know.
LEMMA TransactionEnds ==
    ASSUME IncidentTypeOK, NEW c \in Chains, chain' \in [Chains -> Run],
           \A d \in Chains \ {c} : chain'[d] = chain[d], chain'[c].attempt >= 1,
           chain'[c].pc = "over" \/ (chain'[c].pc = "idle" /\ chain'[c].attempt > 1), Unlock(c)
    PROVE  OthersStay(c) /\ RunInv(c)'
<1>1. /\ locked' \in [Causes -> Chains \cup {None}]
      /\ jobLock' \in Chains \cup {None}
      /\ \A s \in Causes : locked'[s] # c /\ (locked[s] # c => locked'[s] = locked[s])
      /\ \A s \in Causes : locked'[s] # None => locked'[s] = locked[s]
      /\ jobLock' # c /\ (jobLock # c => jobLock' = jobLock)
      /\ jobLock' # None => jobLock' = jobLock
  BY UnlockEffect
<1>2. OthersStay(c)
  BY <1>1, ButtonsAssumption DEF OthersStay
<1>3. chain'[c].attempt \in Nat
  BY DEF Run
<1>4. RunInv(c)'
  BY <1>1, <1>3 DEF RunInv, InTransaction
<1> QED
  BY <1>2, <1>4

LEMMA CommittedEnds ==
    ASSUME IncidentInv, NEW c \in Chains, Committed(c)
    PROVE  OthersStay(c) /\ RunInv(c)' /\ now' \in Nat
<1>1. RunInv(c) /\ IncidentTypeOK
  BY DEF IncidentInv
<1>2. now' \in Nat
  BY <1>1 DEF Committed, IncidentTypeOK
<1>3. /\ chain' \in [Chains -> Run]
      /\ \A d \in Chains \ {c} : chain'[d] = chain[d]
      /\ chain'[c].pc = "over" \/ (chain'[c].pc = "idle" /\ chain'[c].attempt > 1)
      /\ chain'[c].attempt >= 1
  BY <1>1, NextAttemptEffect DEF Committed, RunInv
<1> QED
  BY <1>1, <1>2, <1>3, TransactionEnds DEF Committed

LEMMA FailKeeps ==
    ASSUME IncidentInv, NEW c \in Chains, Fail(c)
    PROVE  IncidentInv'
<1>1. RunInv(c) /\ IncidentTypeOK
  BY DEF IncidentInv
<1>2. /\ chain' \in [Chains -> Run]
      /\ \A d \in Chains \ {c} : chain'[d] = chain[d]
      /\ chain'[c].pc = "over" \/ (chain'[c].pc = "idle" /\ chain'[c].attempt > 1)
      /\ chain'[c].attempt >= 1
  <2>1. CASE chain' = [chain EXCEPT ![c] = NextAttempt(c)]
    BY <1>1, <2>1, NextAttemptEffect DEF RunInv
  <2>2. CASE chain' = [chain EXCEPT ![c] = Over]
    BY <1>1, <2>2 DEF IncidentTypeOK, Over, Run
  <2> QED
    BY <2>1, <2>2 DEF Fail
<1>3. OthersStay(c) /\ RunInv(c)'
  BY <1>1, <1>2, TransactionEnds DEF Fail
<1>4. task' \in Nat /\ now' \in Nat
  BY <1>1 DEF Fail, IncidentTypeOK
<1> QED
  BY <1>3, <1>4, QuietStep DEF Fail

\* A failure that is counted again, in a row that was opened before.
LEMMA SeenKeeps ==
    ASSUME IncidentInv, NEW c \in Chains, NEW r \in Rows, NEW k \in {0, 1},
           Committed(c), Seen(c, r, k), UNCHANGED <<task, hostVars>>,
           row[r].status # "ABSENT", k = 1 => c \notin blame[r]
    PROVE  IncidentInv'
<1>1. RunInv(c) /\ IncidentTypeOK /\ OneIncidentPerCause /\ \A s \in Rows : RowInv(s)
  BY DEF IncidentInv
<1>2. OthersStay(c) /\ RunInv(c)' /\ now' \in Nat
  BY CommittedEnds
<1>3. /\ row' \in [Rows -> Incident]
      /\ blame' \in [Rows -> SUBSET Chains]
      /\ \A s \in Rows \ {r} : row'[s] = row[s] /\ blame'[s] = blame[s]
      /\ row'[r].status = row[r].status
      /\ row'[r].cause = row[r].cause
      /\ row'[r].marks = row[r].marks
      /\ row'[r].occurrences = row[r].occurrences + k
      /\ blame'[r] = blame[r] \cup {c}
  BY <1>1, <1>2, SeenEffect
<1>4. RowsStay(c)
  <2> SUFFICES ASSUME NEW s \in Rows
               PROVE  /\ row[s].status # "ABSENT" => row'[s].status # "ABSENT"
                      /\ row'[s].status \in Open => row[s].status \in Open /\ row'[s].cause = row[s].cause
                      /\ blame'[s] \subseteq blame[s] \cup {c}
    BY <1>3 DEF RowsStay
  <2> QED
    BY <1>3
<1>5. OneIncidentPerCause'
  BY <1>1, <1>3 DEF OneIncidentPerCause, IsOpen
<1>6. ASSUME NEW s \in Rows
      PROVE  RowInv(s)'
  <2>1. IsFiniteSet(blame[s]) /\ row[s].occurrences <= Cardinality(blame[s]) /\ row[s].occurrences \in Nat
    BY <1>1 DEF RowInv, IncidentTypeOK, Incident
  <2>2. Cardinality(blame[s]) \in Nat
    BY <2>1, FS_CardinalityType
  <2>3. CASE s # r
    <3>1. row'[s] = row[s] /\ blame'[s] = blame[s]
      BY <1>3, <2>3
    <3>2. /\ row'[s].status \in {row[s].status, "resolved"}
          /\ row[s].status = "ABSENT" => row'[s].status = "ABSENT"
          /\ row'[s].cause = row[s].cause
          /\ row'[s].marks = row[s].marks /\ row'[s].occurrences >= row[s].occurrences
          /\ IsFiniteSet(blame'[s]) /\ row'[s].occurrences <= Cardinality(blame'[s])
      BY <2>1, <3>1
    <3> QED
      BY <1>1, <1>3, <3>2, RowKept
  <2>4. CASE s = r
    <3>1. /\ IsFiniteSet(blame[r] \cup {c})
          /\ Cardinality(blame[r] \cup {c}) =
                IF c \in blame[r] THEN Cardinality(blame[r]) ELSE Cardinality(blame[r]) + 1
      BY <2>1, <2>4, FS_AddElement
    <3>2. /\ IsFiniteSet(blame'[r])
          /\ row'[r].occurrences >= row[r].occurrences /\ row'[r].occurrences <= Cardinality(blame'[r])
      BY <1>3, <2>1, <2>2, <2>4, <3>1
    <3> QED
      BY <1>1, <1>3, <2>4, <3>2, RowKept
  <2> QED
    BY <2>3, <2>4
<1>7. task' \in Nat
  BY <1>1 DEF IncidentTypeOK
<1> QED
  BY <1>2, <1>4, <1>5, <1>6, <1>7, LedgerStep

LEMMA CountKeeps ==
    ASSUME IncidentInv, NEW c \in Chains, Count(c)
    PROVE  IncidentInv'
<1>1. RunInv(c) /\ IncidentTypeOK
  BY DEF IncidentInv
<1>2. chain[c].found \in Rows /\ row[chain[c].found].status # "ABSENT"
  BY <1>1 DEF RunInv, Count
<1>3. chain[c].attempt \in Nat /\ chain[c].attempt >= 1
  BY <1>1 DEF RunInv, IncidentTypeOK, Run
<1>4. Increment(c) = 1 => c \notin blame[chain[c].found]
  BY <1>1, <1>2, <1>3 DEF Increment, IsRetry, RunInv, Count
<1>5. Increment(c) \in {0, 1}
  BY DEF Increment
<1> QED
  BY <1>2, <1>4, <1>5, SeenKeeps DEF Count

LEMMA FoldKeeps ==
    ASSUME IncidentInv, NEW c \in Chains, Fold(c)
    PROVE  IncidentInv'
<1>1. RunInv(c) /\ IncidentTypeOK
  BY DEF IncidentInv
<1>2. chain[c].found \in Rows /\ row[chain[c].found].status # "ABSENT"
  BY <1>1 DEF RunInv, Fold
<1>3. CASE IsOpen(chain[c].found)
  BY <1>2, <1>3, SeenKeeps DEF Fold
<1>4. CASE ~IsOpen(chain[c].found)
  <2>1. Goto(c, "opening") /\ UNCHANGED <<locked, jobLock, now, row, blame, task, hostVars>>
    BY <1>4 DEF Fold
  <2>2. /\ chain' \in [Chains -> Run]
        /\ \A d \in Chains \ {c} : chain'[d] = chain[d]
        /\ chain'[c].pc = "opening"
        /\ chain'[c].attempt = chain[c].attempt
        /\ chain'[c].cause = chain[c].cause
    BY <1>1, <2>1, GotoEffect DEF InTransaction
  <2>3. OthersStay(c)
    BY <1>1, <2>1, <2>2 DEF OthersStay, IncidentTypeOK
  <2>4. RunInv(c)'
    BY <1>1, <2>1, <2>2 DEF RunInv, Fold, IsOpen, InTransaction
  <2>5. task' \in Nat /\ now' \in Nat
    BY <1>1, <2>1 DEF IncidentTypeOK
  <2> QED
    BY <2>1, <2>3, <2>4, <2>5, QuietStep
<1> QED
  BY <1>3, <1>4

LEMMA CreateKeeps ==
    ASSUME IncidentInv, NEW c \in Chains, Create(c)
    PROVE  IncidentInv'
<1>1. RunInv(c) /\ IncidentTypeOK /\ OneIncidentPerCause /\ \A s \in Rows : RowInv(s)
  BY DEF IncidentInv
<1>2. OthersStay(c) /\ RunInv(c)' /\ now' \in Nat
  BY CommittedEnds DEF Create
<1> DEFINE x == [NoIncident EXCEPT !.status = "open", !.cause = chain[c].cause,
                                   !.occurrences = 1, !.seen = chain[c].at]
<1>3. /\ chain[c].cause \in Causes /\ locked[chain[c].cause] = c
      /\ \A r \in Rows : IsOpen(r) => row[r].cause # chain[c].cause
  BY <1>1 DEF RunInv, Create, InTransaction
<1>4. /\ x \in Incident
      /\ x.status = "open" /\ x.cause = chain[c].cause /\ x.occurrences = 1 /\ x.marks = {}
  <2>1. chain[c].at \in Nat
    BY <1>1 DEF IncidentTypeOK, Run
  <2> QED
    BY <1>3, <2>1 DEF NoIncident, Incident, Open
<1>5. PICK r \in Rows : /\ row[r] = NoIncident
                        /\ row' = [row EXCEPT ![r] = x]
                        /\ blame' = [blame EXCEPT ![r] = {c}]
  BY DEF Create
<1> HIDE DEF x
<1>6. /\ row' \in [Rows -> Incident] /\ row'[r] = x
      /\ blame' \in [Rows -> SUBSET Chains] /\ blame'[r] = {c}
      /\ \A s \in Rows \ {r} : row'[s] = row[s] /\ blame'[s] = blame[s]
  BY <1>1, <1>4, <1>5 DEF IncidentTypeOK
<1>7. row[r].status = "ABSENT"
  BY <1>5 DEF NoIncident
<1>8. RowsStay(c)
  <2> SUFFICES ASSUME NEW s \in Rows
               PROVE  /\ row[s].status # "ABSENT" => row'[s].status # "ABSENT"
                      /\ row'[s].status \in Open =>
                            \/ row[s].status \in Open /\ row'[s].cause = row[s].cause
                            \/ row'[s].cause \in Causes /\ locked[row'[s].cause] = c
                      /\ blame'[s] \subseteq blame[s] \cup {c}
    BY <1>6 DEF RowsStay
  <2>1. CASE s = r
    BY <1>3, <1>4, <1>6, <1>7, <2>1
  <2>2. CASE s # r
    BY <1>6, <2>2
  <2> QED
    BY <2>1, <2>2
<1>9. OneIncidentPerCause'
  <2> SUFFICES ASSUME NEW s \in Rows, NEW t \in Rows, s # t,
                      row'[s].status \in Open, row'[t].status \in Open
               PROVE  row'[s].cause # row'[t].cause
    BY DEF OneIncidentPerCause, IsOpen
  <2>1. CASE s = r
    BY <1>3, <1>4, <1>6, <2>1 DEF IsOpen
  <2>2. CASE t = r
    BY <1>3, <1>4, <1>6, <2>2 DEF IsOpen
  <2>3. CASE s # r /\ t # r
    BY <1>1, <1>6, <2>3 DEF OneIncidentPerCause, IsOpen
  <2> QED
    BY <2>1, <2>2, <2>3
<1>10. ASSUME NEW s \in Rows
       PROVE  RowInv(s)'
  <2>1. CASE s = r
    <3>1. IsFiniteSet({c}) /\ Cardinality({c}) = 1
      BY FS_Singleton
    <3>2. IsFiniteSet(blame'[r]) /\ row'[r].occurrences <= Cardinality(blame'[r])
      BY <1>4, <1>6, <3>1
    <3>3. UNCHANGED hostVars
      BY DEF Create
    <3>4. row'[r].status = "open" /\ row'[r].marks = {}
      BY <1>4, <1>6
    <3>5. RowInv(r)
      BY <1>1
    <3>6. ~(round'.pc = "escalating" /\ r \in round'.todo)
      BY <1>7, <3>3, <3>5 DEF RowInv, hostVars
    <3>7. "alert" \in row'[r].marks \/ <<r, "alert">> \in round'.acks =>
             <<r, "alert">> \in told' \/ r \in held'
      BY <3>3, <3>4, <3>5 DEF RowInv, hostVars
    <3>8. <<r, "recovery">> \notin round'.list \cup round'.acks \cup told'
      BY <1>7, <3>3, <3>5 DEF RowInv, hostVars
    <3> QED
      BY <2>1, <3>2, <3>4, <3>6, <3>7, <3>8 DEF RowInv
  <2>2. CASE s # r
    <3>1. row'[s] = row[s] /\ blame'[s] = blame[s]
      BY <1>6, <2>2
    <3>2. RowInv(s) /\ UNCHANGED hostVars
      BY <1>1 DEF Create
    <3> QED
      BY <3>1, <3>2 DEF RowInv, ShouldEscalate, hostVars
  <2> QED
    BY <2>1, <2>2
<1>11. task' \in Nat /\ UNCHANGED hostVars
  BY <1>1 DEF Create, IncidentTypeOK
<1> QED
  BY <1>2, <1>8, <1>9, <1>10, <1>11, LedgerStep

LEMMA ResolveKeeps ==
    ASSUME IncidentInv, NEW c \in Chains, Resolve(c)
    PROVE  IncidentInv'
<1>1. RunInv(c) /\ IncidentTypeOK /\ OneIncidentPerCause /\ \A s \in Rows : RowInv(s)
  BY DEF IncidentInv
<1>2. /\ chain' \in [Chains -> Run]
      /\ \A d \in Chains \ {c} : chain'[d] = chain[d]
      /\ chain'[c].pc = "over" /\ chain'[c].attempt = 1
  BY <1>1 DEF Resolve, Over, Run, IncidentTypeOK
<1>3. OthersStay(c)
  BY <1>1, <1>2 DEF OthersStay, Resolve, IncidentTypeOK
<1>4. RunInv(c)'
  BY <1>1, <1>2 DEF RunInv, Resolve, InTransaction
<1>5. /\ task' \in Nat /\ now' \in Nat
      /\ UNCHANGED hostVars /\ blame' = blame
  BY <1>1 DEF Resolve, IncidentTypeOK
<1>6. CASE row' = [r \in Rows |-> IF IsOpen(r) THEN Resolved(row[r]) ELSE row[r]]
  <2>1. ASSUME NEW s \in Rows
        PROVE  /\ Resolved(row[s]) \in Incident /\ Resolved(row[s]).status = "resolved"
               /\ Resolved(row[s]).cause = row[s].cause /\ Resolved(row[s]).marks = row[s].marks
               /\ Resolved(row[s]).occurrences = row[s].occurrences
    BY <1>1, IncidentMoved DEF Resolved, IncidentTypeOK
  <2>2. row' \in [Rows -> Incident]
    BY <1>1, <1>6, <2>1 DEF IncidentTypeOK
  <2>3. ASSUME NEW s \in Rows
        PROVE  /\ row'[s].status = IF IsOpen(s) THEN "resolved" ELSE row[s].status
               /\ row'[s].cause = row[s].cause /\ row'[s].marks = row[s].marks
               /\ row'[s].occurrences = row[s].occurrences
    BY <1>6, <2>1
  <2>4. RowsStay(c)
    BY <1>1, <1>5, <2>2, <2>3 DEF RowsStay, IncidentTypeOK, IsOpen
  <2>5. OneIncidentPerCause'
    BY <1>1, <2>3 DEF OneIncidentPerCause, IsOpen, Open
  <2>6. ASSUME NEW s \in Rows
        PROVE  RowInv(s)'
    <3>1. /\ RowInv(s)
          /\ IsFiniteSet(blame[s]) /\ row[s].occurrences <= Cardinality(blame[s])
          /\ row[s].occurrences \in Nat
      BY <1>1 DEF RowInv, IncidentTypeOK, Incident
    <3>2. /\ row'[s].status \in {row[s].status, "resolved"}
          /\ row[s].status = "ABSENT" => row'[s].status = "ABSENT"
          /\ row'[s].cause = row[s].cause /\ row'[s].marks = row[s].marks
          /\ row'[s].occurrences >= row[s].occurrences
      BY <2>3, <3>1 DEF IsOpen, Open
    <3>3. IsFiniteSet(blame'[s]) /\ row'[s].occurrences <= Cardinality(blame'[s])
      BY <1>5, <2>3, <3>1
    <3> QED
      BY <1>1, <1>5, <2>2, <3>1, <3>2, <3>3, RowKept
  <2> QED
    BY <1>3, <1>4, <1>5, <2>4, <2>5, <2>6, LedgerStep
<1>7. CASE UNCHANGED row
  BY <1>3, <1>4, <1>5, <1>7, QuietStep
<1> QED
  BY <1>6, <1>7 DEF Resolve

LEMMA RunStepKeeps ==
    ASSUME IncidentInv, NEW c \in Chains, RunStep(c)
    PROVE  IncidentInv'
BY StartKeeps, EndKeeps, FindKeeps, CountKeeps, FindFoldKeeps, FoldKeeps, CreateKeeps,
   ResolveKeeps, FailKeeps DEF RunStep

-----------------------------------------------------------------------------
(***************************************************************************)
(* The steps of the host. Most of them move messages only.                 *)
(***************************************************************************)
LEMMA MessageStep ==
    ASSUME IncidentInv, UNCHANGED <<runVars, row, blame, mistaken>>,
           round' \in Round, digest' \in SUBSET Rows,
           told' \in SUBSET (Rows \X (Kinds \cup {"digest"})), told \subseteq told',
           held' \in SUBSET Rows, held \subseteq held',
           \A r \in Rows :
              /\ round'.pc = "escalating" /\ r \in round'.todo => row[r].status # "ABSENT" /\ ShouldEscalate(r)
              /\ <<r, "alert">> \in round'.acks => <<r, "alert">> \in told' \/ r \in held'
              /\ <<r, "recovery">> \in round'.list \cup round'.acks \cup told' =>
                    row[r].status = "resolved" /\ "alert" \in row[r].marks
              /\ round'.pc # "sending" => <<r, "recovery">> \notin round'.list
    PROVE  IncidentInv'
<1>1. IncidentTypeOK /\ \A r \in Rows : RowInv(r)
  BY DEF IncidentInv
<1>2. row' = row /\ blame' = blame /\ UNCHANGED <<runVars, blame>>
  OBVIOUS
<1>3. row' \in [Rows -> Incident] /\ mistaken' \in {"ABSENT", "open", "resolved"}
  BY <1>1 DEF IncidentTypeOK
<1>4. ASSUME NEW r \in Rows
      PROVE  RowInv(r)'
  <2>1. RowInv(r)
    BY <1>1
  <2>2. ShouldEscalate(r) => ShouldEscalate(r)'
    BY <1>2 DEF ShouldEscalate
  <2>3. "alert" \in row[r].marks => <<r, "alert">> \in told' \/ r \in held'
    BY <2>1 DEF RowInv
  <2> QED
    BY <1>2, <2>1, <2>2, <2>3 DEF RowInv
<1> QED
  BY <1>2, <1>3, <1>4, HostStep

LEMMA PollKeeps ==
    ASSUME IncidentInv, Poll
    PROVE  IncidentInv'
<1>1. IncidentTypeOK /\ \A r \in Rows : RowInv(r)
  BY DEF IncidentInv
<1>2. round \in Round /\ Escalatable \in SUBSET Rows
  BY <1>1 DEF IncidentTypeOK, Escalatable
<1>3. /\ round' \in Round /\ round'.pc = "escalating" /\ round'.todo = Escalatable
      /\ round'.list = round.list /\ round'.acks = round.acks
  BY <1>2 DEF Poll, Then, Round
<1>4. ASSUME NEW r \in Rows
      PROVE  /\ r \in round'.todo => row[r].status # "ABSENT" /\ ShouldEscalate(r)
             /\ <<r, "alert">> \in round'.acks => <<r, "alert">> \in told \/ r \in held
             /\ <<r, "recovery">> \in round'.list \cup round'.acks \cup told =>
                   row[r].status = "resolved" /\ "alert" \in row[r].marks
             /\ <<r, "recovery">> \notin round'.list
  BY <1>1, <1>3 DEF RowInv, Escalatable, Poll, Listing
<1>5. UNCHANGED <<runVars, row, blame, mistaken>> /\ digest' = digest /\ told' = told /\ held' = held
  BY DEF Poll
<1>6. digest \in SUBSET Rows /\ told \in SUBSET (Rows \X (Kinds \cup {"digest"})) /\ held \in SUBSET Rows
  BY <1>1 DEF IncidentTypeOK
<1> QED
  BY <1>3, <1>4, <1>5, <1>6, MessageStep

LEMMA ReadPendingKeeps ==
    ASSUME IncidentInv, ReadPending
    PROVE  IncidentInv'
<1>1. IncidentTypeOK /\ \A r \in Rows : RowInv(r)
  BY DEF IncidentInv
<1> DEFINE seen == {<<r, row[r].seen>> : r \in Unannounced}
<1>2. round \in Round /\ seen \in SUBSET (Rows \X Nat)
  BY <1>1 DEF IncidentTypeOK, Unannounced, Incident
<1>3. round' = [round EXCEPT !.pc = "checking", !.read = seen]
  BY DEF ReadPending
<1> HIDE DEF seen
<1>4. round' \in Round /\ round'.pc = "checking" /\ round'.list = round.list /\ round'.acks = round.acks
  BY <1>2, <1>3 DEF Round
<1>5. UNCHANGED <<runVars, row, blame, mistaken>> /\ digest' = digest /\ told' = told /\ held' = held
  BY DEF ReadPending
<1>6. digest \in SUBSET Rows /\ told \in SUBSET (Rows \X (Kinds \cup {"digest"})) /\ held \in SUBSET Rows
  BY <1>1 DEF IncidentTypeOK
<1>7. ASSUME NEW r \in Rows
      PROVE  /\ <<r, "alert">> \in round'.acks => <<r, "alert">> \in told \/ r \in held
             /\ <<r, "recovery">> \in round'.list \cup round'.acks \cup told =>
                   row[r].status = "resolved" /\ "alert" \in row[r].marks
             /\ <<r, "recovery">> \notin round'.list
  BY <1>1, <1>4 DEF RowInv, ReadPending, Listing
<1> QED
  BY <1>4, <1>5, <1>6, <1>7, MessageStep

LEMMA ReadTaskKeeps ==
    ASSUME IncidentInv, ReadTask
    PROVE  IncidentInv'
<1>1. IncidentTypeOK /\ \A r \in Rows : RowInv(r)
  BY DEF IncidentInv
<1> DEFINE alerts == {<<m[1], "alert">> : m \in {m \in round.read : m[1] \notin Healed}}
<1>2. round \in Round
  BY <1>1 DEF IncidentTypeOK
<1>3. /\ Healed \in SUBSET Rows /\ alerts \in SUBSET (Rows \X Kinds)
      /\ \A r \in Rows : <<r, "recovery">> \notin alerts
  BY <1>2 DEF Healed, Round, Kinds
<1>4. round' = [round EXCEPT !.pc = "suppressing", !.todo = Healed, !.read = {}, !.list = alerts]
  BY DEF ReadTask
<1> HIDE DEF alerts
<1>5. round' \in Round /\ round'.pc = "suppressing" /\ round'.list = alerts /\ round'.acks = round.acks
  BY <1>2, <1>3, <1>4 DEF Round
<1>6. UNCHANGED <<runVars, row, blame, mistaken>> /\ digest' = digest /\ told' = told /\ held' = held
  BY DEF ReadTask
<1>7. digest \in SUBSET Rows /\ told \in SUBSET (Rows \X (Kinds \cup {"digest"})) /\ held \in SUBSET Rows
  BY <1>1 DEF IncidentTypeOK
<1>8. ASSUME NEW r \in Rows
      PROVE  /\ <<r, "alert">> \in round'.acks => <<r, "alert">> \in told \/ r \in held
             /\ <<r, "recovery">> \in round'.list \cup round'.acks \cup told =>
                   row[r].status = "resolved" /\ "alert" \in row[r].marks
             /\ <<r, "recovery">> \notin round'.list
  BY <1>1, <1>3, <1>5 DEF RowInv
<1> QED
  BY <1>5, <1>6, <1>7, <1>8, MessageStep

LEMMA ReadRecoveredKeeps ==
    ASSUME IncidentInv, ReadRecovered
    PROVE  IncidentInv'
<1>1. IncidentTypeOK /\ \A r \in Rows : RowInv(r)
  BY DEF IncidentInv
<1> DEFINE news == round.list \cup {<<r, "recovery">> : r \in Recovered}
<1>2. round \in Round
  BY <1>1 DEF IncidentTypeOK
<1>3. /\ news \in SUBSET (Rows \X Kinds)
      /\ \A r \in Rows : <<r, "recovery">> \in news =>
            row[r].status = "resolved" /\ "alert" \in row[r].marks
  <2>1. Recovered \in SUBSET Rows /\ \A r \in Recovered : row[r].status = "resolved" /\ "alert" \in row[r].marks
    BY DEF Recovered
  <2>2. round.list \in SUBSET (Rows \X Kinds) /\ "recovery" \in Kinds
    BY <1>2 DEF Round, Kinds
  <2>3. \A r \in Rows : <<r, "recovery">> \in round.list => row[r].status = "resolved" /\ "alert" \in row[r].marks
    BY <1>1 DEF RowInv
  <2>4. \A r \in Rows : <<r, "recovery">> \in news => <<r, "recovery">> \in round.list \/ r \in Recovered
    OBVIOUS
  <2>5. news \in SUBSET (Rows \X Kinds)
    BY <2>1, <2>2
  <2> QED
    BY <2>1, <2>3, <2>4, <2>5
<1>4. round' = [round EXCEPT !.pc = "sending", !.list = news]
  BY DEF ReadRecovered
<1> HIDE DEF news
<1>5. round' \in Round /\ round'.pc = "sending" /\ round'.list = news /\ round'.acks = round.acks
  BY <1>2, <1>3, <1>4 DEF Round
<1>6. UNCHANGED <<runVars, row, blame, mistaken>> /\ digest' = digest /\ told' = told /\ held' = held
  BY DEF ReadRecovered
<1>7. digest \in SUBSET Rows /\ told \in SUBSET (Rows \X (Kinds \cup {"digest"})) /\ held \in SUBSET Rows
  BY <1>1 DEF IncidentTypeOK
<1>8. ASSUME NEW r \in Rows
      PROVE  /\ <<r, "alert">> \in round'.acks => <<r, "alert">> \in told \/ r \in held
             /\ <<r, "recovery">> \in round'.list \cup round'.acks \cup told =>
                   row[r].status = "resolved" /\ "alert" \in row[r].marks
  BY <1>1, <1>3, <1>5 DEF RowInv
<1> QED
  BY <1>5, <1>6, <1>7, <1>8, MessageStep

LEMMA DropKeeps ==
    ASSUME IncidentInv, Drop
    PROVE  IncidentInv'
<1>1. IncidentTypeOK /\ \A r \in Rows : RowInv(r)
  BY DEF IncidentInv
<1>2. round' \in Round /\ round'.pc = "idle" /\ round'.list = {} /\ round'.acks = {}
  BY DEF Drop, NoRound, Round
<1>3. UNCHANGED <<runVars, row, blame, mistaken>> /\ digest' = digest /\ told' = told /\ held' = held
  BY DEF Drop
<1>4. digest \in SUBSET Rows /\ told \in SUBSET (Rows \X (Kinds \cup {"digest"})) /\ held \in SUBSET Rows
  BY <1>1 DEF IncidentTypeOK
<1>5. \A r \in Rows : <<r, "recovery">> \in told => row[r].status = "resolved" /\ "alert" \in row[r].marks
  BY <1>1 DEF RowInv
<1> QED
  BY <1>2, <1>3, <1>4, <1>5, MessageStep

LEMMA SendKeeps ==
    ASSUME IncidentInv, NEW m \in Rows \X Kinds, Send(m)
    PROVE  IncidentInv'
<1>1. IncidentTypeOK /\ \A r \in Rows : RowInv(r)
  BY DEF IncidentInv
<1>2. round \in Round /\ round.pc = "sending" /\ m \in round.list
  BY <1>1 DEF IncidentTypeOK, Send, Listing
<1> DEFINE less == round.list \ {m}
           more == round.acks \cup {m}
<1>3. /\ less \in SUBSET (Rows \X Kinds) /\ more \in SUBSET (Rows \X Kinds)
      /\ round.acks \in SUBSET (Rows \X Kinds)
  BY <1>2 DEF Round
<1>4. \/ round' = [round EXCEPT !.list = less, !.acks = more] /\ told' = told \cup {m} /\ held' = held
      \/ round' = [round EXCEPT !.list = less] /\ told' = told /\ held' = held
      \/ round' = [round EXCEPT !.list = less, !.acks = more] /\ told' = told /\ held' = held \cup {m[1]}
  BY <1>2 DEF Send, Acks, Round
<1> HIDE DEF less, more
<1>5. /\ round' \in Round /\ round'.pc = "sending" /\ round'.list = less
      /\ \/ round'.acks = more /\ told' = told \cup {m} /\ held' = held
         \/ round'.acks = round.acks /\ told' = told /\ held' = held
         \/ round'.acks = more /\ told' = told /\ held' = held \cup {m[1]}
  BY <1>2, <1>3, <1>4 DEF Round
<1>6. UNCHANGED <<runVars, row, blame, mistaken>> /\ digest' = digest
  BY DEF Send
<1>7. /\ digest \in SUBSET Rows /\ told' \in SUBSET (Rows \X (Kinds \cup {"digest"})) /\ told \subseteq told'
      /\ held' \in SUBSET Rows /\ held \subseteq held'
  BY <1>1, <1>5 DEF IncidentTypeOK
<1>8. ASSUME NEW r \in Rows
      PROVE  /\ <<r, "alert">> \in round'.acks => <<r, "alert">> \in told' \/ r \in held'
             /\ <<r, "recovery">> \in round'.list \cup round'.acks \cup told' =>
                   row[r].status = "resolved" /\ "alert" \in row[r].marks
  <2>1. /\ <<r, "alert">> \in round.acks => <<r, "alert">> \in told \/ r \in held
        /\ <<r, "recovery">> \in round.list \cup round.acks \cup told =>
              row[r].status = "resolved" /\ "alert" \in row[r].marks
    BY <1>1 DEF RowInv
  <2>2. /\ less \subseteq round.list
        /\ \A n : n \in more => n \in round.acks \/ n = m
    BY DEF less, more
  <2>3. <<r, "alert">> \in round'.acks => <<r, "alert">> \in told' \/ r \in held'
    BY <1>5, <2>1, <2>2
  <2>4. <<r, "recovery">> \in round'.list \cup round'.acks \cup told' =>
           <<r, "recovery">> \in round.list \cup round.acks \cup told
    BY <1>2, <1>5, <2>2
  <2> QED
    BY <2>1, <2>3, <2>4
<1> QED
  BY <1>5, <1>6, <1>7, <1>8, MessageStep

LEMMA DigestKeeps ==
    ASSUME IncidentInv, Digest
    PROVE  IncidentInv'
<1>1. IncidentTypeOK /\ \A r \in Rows : RowInv(r)
  BY DEF IncidentInv
<1>2. /\ UNCHANGED <<runVars, row, blame, mistaken>> /\ round' = round /\ digest' \in SUBSET Rows
      /\ held' = held /\ held \in SUBSET Rows
      /\ told' = told \cup {<<r, "digest">> : r \in Undigested \cup Waiting}
  BY <1>1 DEF Digest, Undigested, IncidentTypeOK
<1>3. Undigested \cup Waiting \subseteq Rows
  BY DEF Undigested, Waiting
<1>4. told' \in SUBSET (Rows \X (Kinds \cup {"digest"})) /\ told \subseteq told'
  BY <1>1, <1>2, <1>3 DEF IncidentTypeOK
<1>5. \A r \in Rows : <<r, "recovery">> \in told' => <<r, "recovery">> \in told
  BY <1>2
<1>6. round' \in Round
  BY <1>1, <1>2 DEF IncidentTypeOK
<1>7. ASSUME NEW r \in Rows
      PROVE  /\ round'.pc = "escalating" /\ r \in round'.todo => row[r].status # "ABSENT" /\ ShouldEscalate(r)
             /\ <<r, "alert">> \in round'.acks => <<r, "alert">> \in told' \/ r \in held'
             /\ <<r, "recovery">> \in round'.list \cup round'.acks \cup told' =>
                   row[r].status = "resolved" /\ "alert" \in row[r].marks
             /\ round'.pc # "sending" => <<r, "recovery">> \notin round'.list
  BY <1>1, <1>2, <1>4, <1>5 DEF RowInv
<1> QED
  BY <1>2, <1>4, <1>6, <1>7, MessageStep

\* A row that the host moves on or marks is still right.
LEMMA RowMoved ==
    ASSUME NEW r \in Rows, RowInv(r), IncidentTypeOK, UNCHANGED <<blame, told, held>>,
           row'[r].cause = row[r].cause, row'[r].occurrences = row[r].occurrences,
           row'[r].status = "waiting_owner" => ShouldEscalate(r),
           row[r].status # "ABSENT" => row'[r].status # "ABSENT",
           row[r].status = "resolved" => row'[r].status = "resolved",
           row[r].marks \subseteq row'[r].marks,
           "alert" \in row'[r].marks => "alert" \in row[r].marks \/ <<r, "alert">> \in round.acks,
           round'.acks \subseteq round.acks, round'.list \subseteq round.list,
           round'.pc = "escalating" => round.pc = "escalating" /\ round'.todo \subseteq round.todo,
           round'.pc # "sending" => round.pc # "sending" \/ round'.list = {}
    PROVE  RowInv(r)'
<1>1. ShouldEscalate(r) => ShouldEscalate(r)'
  BY DEF ShouldEscalate
<1>2. row'[r].status = "waiting_owner" => ShouldEscalate(r)'
  BY <1>1
<1>3. IsFiniteSet(blame'[r]) /\ row'[r].occurrences <= Cardinality(blame'[r])
  BY DEF RowInv
<1>4. round'.pc = "escalating" /\ r \in round'.todo => row'[r].status # "ABSENT" /\ ShouldEscalate(r)'
  BY <1>1 DEF RowInv
<1>5. "alert" \in row'[r].marks \/ <<r, "alert">> \in round'.acks =>
         <<r, "alert">> \in told' \/ r \in held'
  BY DEF RowInv
<1>6. <<r, "recovery">> \in round'.list \cup round'.acks \cup told' =>
         row'[r].status = "resolved" /\ "alert" \in row'[r].marks
  BY DEF RowInv
<1>7. round'.pc # "sending" => <<r, "recovery">> \notin round'.list
  BY DEF RowInv
<1> QED
  BY <1>2, <1>3, <1>4, <1>5, <1>6, <1>7 DEF RowInv

LEMMA DoneEffect ==
    ASSUME IncidentTypeOK, NEW r \in Rows, Done(r)
    PROVE  /\ round' \in Round /\ round'.pc = round.pc /\ round'.todo \subseteq round.todo
           /\ round'.list = round.list /\ round'.acks = round.acks
<1> DEFINE less == round.todo \ {r}
<1>1. round \in Round /\ less \in SUBSET Rows /\ less \subseteq round.todo
  BY DEF IncidentTypeOK, Round
<1>2. round' = [round EXCEPT !.todo = less]
  BY DEF Done
<1> HIDE DEF less
<1> QED
  BY <1>1, <1>2 DEF Round

LEMMA EscalateKeeps ==
    ASSUME IncidentInv, NEW r \in Rows, Escalate(r)
    PROVE  IncidentInv'
<1>1. IncidentTypeOK /\ \A s \in Rows : RowInv(s)
  BY DEF IncidentInv
<1>2. /\ round' \in Round /\ round'.pc = round.pc /\ round'.todo \subseteq round.todo
      /\ round'.list = round.list /\ round'.acks = round.acks
  BY <1>1, DoneEffect DEF Escalate
<1>3. UNCHANGED <<runVars, blame, mistaken, digest, told, held>>
  BY DEF Escalate
<1>4. /\ mistaken \in {"ABSENT", "open", "resolved"} /\ digest \in SUBSET Rows
      /\ told \in SUBSET (Rows \X (Kinds \cup {"digest"})) /\ held \in SUBSET Rows
      /\ row \in [Rows -> Incident]
  BY <1>1 DEF IncidentTypeOK
<1>5. CASE row[r].status = "open" /\ row' = [row EXCEPT ![r].status = "waiting_owner"]
  <2> DEFINE x == [row[r] EXCEPT !.status = "waiting_owner"]
  <2>1. /\ x \in Incident /\ x.status = "waiting_owner" /\ x.cause = row[r].cause
        /\ x.occurrences = row[r].occurrences /\ x.marks = row[r].marks
    BY <1>4, IncidentMoved DEF Open
  <2>2. row' = [row EXCEPT ![r] = x]
    BY <1>5
  <2> HIDE DEF x
  <2>3. row' \in [Rows -> Incident] /\ row'[r] = x /\ \A s \in Rows \ {r} : row'[s] = row[s]
    BY <1>4, <2>1, <2>2
  <2>4. ShouldEscalate(r)
    BY <1>1 DEF RowInv, Escalate, Listing
  <2>5. ASSUME NEW s \in Rows
        PROVE  /\ row'[s].cause = row[s].cause /\ row'[s].occurrences = row[s].occurrences
               /\ row'[s].marks = row[s].marks
               /\ row'[s].status = "waiting_owner" => ShouldEscalate(s)
               /\ row[s].status # "ABSENT" => row'[s].status # "ABSENT"
               /\ row[s].status = "resolved" => row'[s].status = "resolved"
               /\ row'[s].status \in Open => row[s].status \in Open
    <3>1. CASE s = r
      BY <1>5, <2>1, <2>3, <2>4, <3>1 DEF Open
    <3>2. CASE s # r
      BY <1>1, <2>3, <3>2 DEF RowInv
    <3> QED
      BY <3>1, <3>2
  <2>6. ASSUME NEW s \in Rows
        PROVE  RowInv(s)'
    <3>1. /\ row'[s].cause = row[s].cause /\ row'[s].occurrences = row[s].occurrences
          /\ row[s].marks \subseteq row'[s].marks
          /\ "alert" \in row'[s].marks => "alert" \in row[s].marks
          /\ row'[s].status = "waiting_owner" => ShouldEscalate(s)
          /\ row[s].status # "ABSENT" => row'[s].status # "ABSENT"
          /\ row[s].status = "resolved" => row'[s].status = "resolved"
      BY <2>5
    <3>2. round.pc # "sending"
      BY DEF Escalate, Listing
    <3> QED
      BY <1>1, <1>2, <1>3, <3>1, <3>2, RowMoved
  <2> QED
    BY <1>2, <1>3, <1>4, <2>3, <2>5, <2>6, HostStep
<1>6. CASE UNCHANGED row
  <2>1. ASSUME NEW s \in Rows
        PROVE  /\ round'.pc = "escalating" /\ s \in round'.todo => row[s].status # "ABSENT" /\ ShouldEscalate(s)
               /\ <<s, "alert">> \in round'.acks => <<s, "alert">> \in told' \/ s \in held'
               /\ <<s, "recovery">> \in round'.list \cup round'.acks \cup told' =>
                     row[s].status = "resolved" /\ "alert" \in row[s].marks
               /\ round'.pc # "sending" => <<s, "recovery">> \notin round'.list
    BY <1>1, <1>2, <1>3 DEF RowInv
  <2> QED
    BY <1>2, <1>3, <1>4, <1>6, <2>1, MessageStep
<1> QED
  BY <1>5, <1>6 DEF Escalate

\* Marks are added to rows, and some are closed.
LEMMA RowsMarked ==
    ASSUME IncidentInv, UNCHANGED <<runVars, blame, told, held>>, row' \in [Rows -> Incident],
           mistaken' \in {"ABSENT", "open", "resolved"}, digest' \in SUBSET Rows, round' \in Round,
           round'.acks \subseteq round.acks, round'.list \subseteq round.list,
           round'.pc = "escalating" => round.pc = "escalating" /\ round'.todo \subseteq round.todo,
           round'.pc # "sending" => round.pc # "sending" \/ round'.list = {},
           \A r \in Rows :
              /\ row'[r].cause = row[r].cause /\ row'[r].occurrences = row[r].occurrences
              /\ row'[r].status = row[r].status \/ (row[r].status \in Open /\ row'[r].status = "resolved")
              /\ row[r].marks \subseteq row'[r].marks
              /\ "alert" \in row'[r].marks => "alert" \in row[r].marks \/ <<r, "alert">> \in round.acks
    PROVE  IncidentInv'
<1>1. IncidentTypeOK /\ \A r \in Rows : RowInv(r)
  BY DEF IncidentInv
<1>2. told' \in SUBSET (Rows \X (Kinds \cup {"digest"})) /\ held' \in SUBSET Rows
  BY <1>1 DEF IncidentTypeOK
<1>3. ASSUME NEW r \in Rows
      PROVE  /\ row[r].status # "ABSENT" => row'[r].status # "ABSENT"
             /\ row[r].status = "resolved" => row'[r].status = "resolved"
             /\ row'[r].status \in Open => row[r].status \in Open
             /\ row'[r].status = "waiting_owner" => row[r].status = "waiting_owner"
  BY DEF Open
<1>4. ASSUME NEW r \in Rows
      PROVE  RowInv(r)'
  <2>1. RowInv(r)
    BY <1>1
  <2>2. row'[r].status = "waiting_owner" => ShouldEscalate(r)
    BY <1>3, <2>1 DEF RowInv
  <2>3. /\ row'[r].cause = row[r].cause /\ row'[r].occurrences = row[r].occurrences
        /\ row[r].marks \subseteq row'[r].marks
        /\ "alert" \in row'[r].marks => "alert" \in row[r].marks \/ <<r, "alert">> \in round.acks
    OBVIOUS
  <2> QED
    BY <1>1, <1>3, <2>1, <2>2, <2>3, RowMoved
<1> QED
  BY <1>2, <1>3, <1>4, HostStep

LEMMA SuppressKeeps ==
    ASSUME IncidentInv, NEW r \in Rows, Suppress(r)
    PROVE  IncidentInv'
<1>1. IncidentTypeOK
  BY DEF IncidentInv
<1>2. /\ round' \in Round /\ round'.pc = "suppressing" /\ round.pc = "suppressing"
      /\ round'.list = round.list /\ round'.acks = round.acks
  BY <1>1, DoneEffect DEF Suppress, Listing
<1>3. UNCHANGED <<runVars, blame, told, held>> /\ digest' = digest
  BY DEF Suppress
<1>4. /\ digest \in SUBSET Rows /\ row \in [Rows -> Incident]
      /\ mistaken \in {"ABSENT", "open", "resolved"}
  BY <1>1 DEF IncidentTypeOK
<1>5. mistaken' \in {"ABSENT", "open", "resolved"}
  BY <1>4 DEF Suppress
<1>6. CASE row[r].status = "waiting_owner" /\ row' = [row EXCEPT ![r] = Marked(Resolved(row[r]), {"suppressed"})]
  <2> DEFINE x == Marked(Resolved(row[r]), {"suppressed"})
  <2>1. /\ Resolved(row[r]) \in Incident /\ Resolved(row[r]).status = "resolved"
        /\ Resolved(row[r]).cause = row[r].cause /\ Resolved(row[r]).marks = row[r].marks
        /\ Resolved(row[r]).occurrences = row[r].occurrences
    BY <1>4, IncidentMoved DEF Resolved
  <2>2. {"suppressed"} \in SUBSET Marks
    BY DEF Marks
  <2>3. /\ x \in Incident /\ x.status = "resolved" /\ x.cause = row[r].cause
        /\ x.occurrences = row[r].occurrences /\ x.marks = row[r].marks \cup {"suppressed"}
    BY <2>1, <2>2, IncidentMarked
  <2>4. row' = [row EXCEPT ![r] = x]
    BY <1>6
  <2> HIDE DEF x
  <2>5. row' \in [Rows -> Incident] /\ row'[r] = x /\ \A s \in Rows \ {r} : row'[s] = row[s]
    BY <1>4, <2>3, <2>4
  <2>6. ASSUME NEW s \in Rows
        PROVE  /\ row'[s].cause = row[s].cause /\ row'[s].occurrences = row[s].occurrences
               /\ row'[s].status = row[s].status \/ (row[s].status \in Open /\ row'[s].status = "resolved")
               /\ row[s].marks \subseteq row'[s].marks
               /\ "alert" \in row'[s].marks => "alert" \in row[s].marks
    <3>1. CASE s = r
      BY <1>6, <2>3, <2>5, <3>1 DEF Open
    <3>2. CASE s # r
      BY <2>5, <3>2
    <3> QED
      BY <3>1, <3>2
  <2> QED
    BY <1>2, <1>3, <1>4, <1>5, <2>5, <2>6, RowsMarked
<1>7. CASE UNCHANGED row
  BY <1>2, <1>3, <1>4, <1>5, <1>7, RowsMarked
<1> QED
  BY <1>6, <1>7 DEF Suppress

LEMMA PostKeeps ==
    ASSUME IncidentInv, Post
    PROVE  IncidentInv'
<1>1. IncidentTypeOK
  BY DEF IncidentInv
<1>2. /\ round' \in Round /\ round'.pc = "idle" /\ round'.list = {} /\ round'.acks = {}
  BY DEF Post, NoRound, Round
<1>3. UNCHANGED <<runVars, blame, told, held>> /\ digest' = digest /\ mistaken' = mistaken
  BY DEF Post
<1>4. /\ digest \in SUBSET Rows /\ row \in [Rows -> Incident]
      /\ mistaken \in {"ABSENT", "open", "resolved"}
  BY <1>1 DEF IncidentTypeOK
<1> DEFINE K(r) == {k \in {"alert", "recovery"} : <<r, k>> \in round.acks}
<1>5. CASE row' = [r \in Rows |-> Marked(row[r], K(r))]
  <2>1. ASSUME NEW r \in Rows
        PROVE  K(r) \in SUBSET Marks /\ ("alert" \in K(r) => <<r, "alert">> \in round.acks)
    BY DEF Marks, Kinds
  <2> HIDE DEF K
  <2>2. ASSUME NEW r \in Rows
        PROVE  /\ Marked(row[r], K(r)) \in Incident
               /\ Marked(row[r], K(r)).status = row[r].status
               /\ Marked(row[r], K(r)).cause = row[r].cause
               /\ Marked(row[r], K(r)).occurrences = row[r].occurrences
               /\ Marked(row[r], K(r)).marks = row[r].marks \cup K(r)
    BY <1>4, <2>1, IncidentMarked
  <2>3. row' \in [Rows -> Incident] /\ \A r \in Rows : row'[r] = Marked(row[r], K(r))
    BY <1>5, <2>2
  <2>4. ASSUME NEW r \in Rows
        PROVE  /\ row'[r].cause = row[r].cause /\ row'[r].occurrences = row[r].occurrences
               /\ row'[r].status = row[r].status
               /\ row[r].marks \subseteq row'[r].marks
               /\ "alert" \in row'[r].marks => "alert" \in row[r].marks \/ <<r, "alert">> \in round.acks
    BY <2>1, <2>2, <2>3
  <2> QED
    BY <1>2, <1>3, <1>4, <2>3, <2>4, RowsMarked
<1>6. CASE UNCHANGED row
  BY <1>2, <1>3, <1>4, <1>6, RowsMarked
<1> QED
  BY <1>5, <1>6 DEF Post

LEMMA PostDigestKeeps ==
    ASSUME IncidentInv, PostDigest
    PROVE  IncidentInv'
<1>1. IncidentTypeOK
  BY DEF IncidentInv
<1>2. UNCHANGED <<runVars, blame, told, held>> /\ digest' = {} /\ mistaken' = mistaken /\ round' = round
  BY DEF PostDigest
<1>3. /\ row \in [Rows -> Incident] /\ round \in Round /\ mistaken \in {"ABSENT", "open", "resolved"}
  BY <1>1 DEF IncidentTypeOK
<1>4. CASE row' = [r \in Rows |-> IF r \in digest THEN Marked(row[r], {"digest"}) ELSE row[r]]
  <2>1. {"digest"} \in SUBSET Marks
    BY DEF Marks
  <2>2. ASSUME NEW r \in Rows
        PROVE  /\ Marked(row[r], {"digest"}) \in Incident
               /\ Marked(row[r], {"digest"}).status = row[r].status
               /\ Marked(row[r], {"digest"}).cause = row[r].cause
               /\ Marked(row[r], {"digest"}).occurrences = row[r].occurrences
               /\ Marked(row[r], {"digest"}).marks = row[r].marks \cup {"digest"}
    BY <1>3, <2>1, IncidentMarked
  <2>3. /\ row' \in [Rows -> Incident]
        /\ \A r \in Rows : row'[r] = IF r \in digest THEN Marked(row[r], {"digest"}) ELSE row[r]
    BY <1>3, <1>4, <2>2
  <2>4. ASSUME NEW r \in Rows
        PROVE  /\ row'[r].cause = row[r].cause /\ row'[r].occurrences = row[r].occurrences
               /\ row'[r].status = row[r].status
               /\ row[r].marks \subseteq row'[r].marks
               /\ "alert" \in row'[r].marks => "alert" \in row[r].marks
    BY <2>2, <2>3
  <2> QED
    BY <1>2, <1>3, <2>3, <2>4, RowsMarked
<1>5. CASE UNCHANGED row
  BY <1>2, <1>3, <1>5, RowsMarked
<1> QED
  BY <1>4, <1>5 DEF PostDigest

-----------------------------------------------------------------------------
LEMMA IncidentInvInit == IncidentInit => IncidentInv
<1> SUFFICES ASSUME IncidentInit
             PROVE  IncidentInv
  OBVIOUS
<1> USE DEF IncidentInit
<1>1. ASSUME NEW r \in Rows
      PROVE  /\ row[r] = NoIncident /\ blame[r] = {} /\ row[r].status = "ABSENT"
             /\ row[r].occurrences = 0 /\ row[r].marks = {} /\ ~IsOpen(r)
  BY DEF NoIncident, IsOpen, Open
<1>2. ASSUME NEW c \in Chains
      PROVE  chain[c].pc = "idle" /\ chain[c].attempt = 1 /\ chain[c] \in Run
  BY DEF Run
<1>3. /\ round = NoRound /\ round \in Round
      /\ round.pc = "idle" /\ round.todo = {} /\ round.list = {} /\ round.acks = {}
  BY DEF NoRound, Round
<1>4. NoIncident \in Incident
  BY DEF NoIncident, Incident
<1>5. IncidentTypeOK
  <2>1. task \in Nat
    OBVIOUS
  <2>2. row \in [Rows -> Incident] /\ blame \in [Rows -> SUBSET Chains]
    BY <1>4
  <2>3. chain \in [Chains -> Run]
    BY <1>2
  <2> QED
    BY <1>3, <2>1, <2>2, <2>3 DEF IncidentTypeOK
<1>6. ASSUME NEW c \in Chains
      PROVE  RunInv(c)
  BY <1>1, <1>2, ButtonsAssumption DEF RunInv, InTransaction
<1>7. OneIncidentPerCause
  BY <1>1 DEF OneIncidentPerCause
<1>8. ASSUME NEW r \in Rows
      PROVE  RowInv(r)
  <2>1. IsFiniteSet({}) /\ Cardinality({}) = 0
    BY FS_EmptySet
  <2> QED
    BY <1>1, <1>3, <2>1 DEF RowInv
<1> QED
  BY <1>5, <1>6, <1>7, <1>8 DEF IncidentInv

LEMMA IncidentInvNext == IncidentInv /\ [IncidentNext]_incidentVars => IncidentInv'
<1> SUFFICES ASSUME IncidentInv, [IncidentNext]_incidentVars
             PROVE  IncidentInv'
  OBVIOUS
<1>1. ASSUME NEW c \in Chains, RunStep(c)
      PROVE  IncidentInv'
  BY <1>1, RunStepKeeps
<1>2. CASE ListStep
  <2>1. ASSUME NEW m \in Rows \X {"alert", "recovery"}, Send(m)
        PROVE  IncidentInv'
    BY <2>1, SendKeeps DEF Kinds
  <2> QED
    BY <1>2, <2>1, PollKeeps, ReadPendingKeeps, ReadTaskKeeps, ReadRecoveredKeeps, EscalateKeeps,
       SuppressKeeps, PostKeeps DEF ListStep
<1>3. CASE DigestStep
  BY <1>3, DigestKeeps, PostDigestKeeps DEF DigestStep
<1>4. CASE Drop
  BY <1>4, DropKeeps
<1>5. CASE UNCHANGED incidentVars
  <2>1. UNCHANGED <<runVars, row, blame, mistaken>> /\ round' = round /\ digest' = digest /\ told' = told /\ held' = held
    BY <1>5 DEF incidentVars, hostVars
  <2>2. IncidentTypeOK /\ \A r \in Rows : RowInv(r)
    BY DEF IncidentInv
  <2>3. /\ round' \in Round /\ digest' \in SUBSET Rows /\ told' \in SUBSET (Rows \X (Kinds \cup {"digest"}))
        /\ held' \in SUBSET Rows
    BY <2>1, <2>2 DEF IncidentTypeOK
  <2> QED
    BY <2>1, <2>2, <2>3, MessageStep DEF RowInv
<1> QED
  BY <1>1, <1>2, <1>3, <1>4, <1>5 DEF IncidentNext

LEMMA IncidentInvariance == IncidentSpec => []IncidentInv
BY IncidentInvInit, IncidentInvNext, PTL DEF IncidentSpec

\* Types hold, and every lock belongs to a run in the transaction that took it.
THEOREM IncidentTypesAreCorrect == IncidentSpec => []IncidentTypeOK
<1>1. IncidentInv => IncidentTypeOK
  BY DEF IncidentInv
<1> QED
  BY <1>1, IncidentInvariance, PTL

\* However many runs fail at once, one cause has one open incident: the lock of
\* its signature spans the search and the insertion.
THEOREM OneIncidentPerCauseHolds == IncidentSpec => []OneIncidentPerCause
<1>1. IncidentInv => OneIncidentPerCause
  BY DEF IncidentInv
<1> QED
  BY <1>1, IncidentInvariance, PTL

\* No passing error is escalated that only one chain met, whatever the number of
\* retries: an incident counts no more than the chains that failed with it.
THEOREM RetriesNeverAlarm == IncidentSpec => []RetriesDoNotAlarm
<1>1. IncidentInv => RetriesDoNotAlarm
  <2> SUFFICES ASSUME IncidentInv, NEW r \in Rows,
                      row[r].status = "waiting_owner", row[r].cause \in Transient
               PROVE  Cardinality(blame[r]) >= 2
    BY DEF RetriesDoNotAlarm
  <2>1. row[r].occurrences \in Nat /\ row[r].occurrences <= Cardinality(blame[r]) /\ ShouldEscalate(r)
    BY DEF IncidentInv, IncidentTypeOK, Incident, RowInv
  <2>2. Cardinality(blame[r]) \in Nat
    BY FS_CardinalityType DEF IncidentInv, RowInv
  <2> QED
    BY <2>1, <2>2 DEF ShouldEscalate
<1> QED
  BY <1>1, IncidentInvariance, PTL

\* The owner is told of a recovery only when the incident is closed and its
\* alarm went out, or was held back for the day.
THEOREM RecoveryIsAlwaysTrue == IncidentSpec => []RecoveryIsTrue
<1>1. IncidentInv => RecoveryIsTrue
  BY DEF IncidentInv, RowInv, RecoveryIsTrue
<1> QED
  BY <1>1, IncidentInvariance, PTL

LEMMA ClosedStepClosed ==
    ASSUME IncidentInv, [IncidentNext]_incidentVars, NEW r \in Rows, row[r].status = "resolved"
    PROVE  row'[r].status = "resolved"
<1>1. IncidentTypeOK /\ row \in [Rows -> Incident] /\ row[r] \in Incident
  BY DEF IncidentInv, IncidentTypeOK
<1>2. ASSUME NEW c \in Chains, NEW s \in Rows, NEW k \in Nat, Committed(c), Seen(c, s, k)
      PROVE  row'[r].status = "resolved"
  BY <1>1, <1>2, SeenEffect, CommittedEnds
<1>3. ASSUME NEW c \in Chains, RunStep(c)
      PROVE  row'[r].status = "resolved"
  <2>1. RunInv(c) /\ Increment(c) \in Nat
    BY DEF IncidentInv, Increment
  <2>2. CASE Count(c)
    BY <1>2, <2>1, <2>2 DEF Count, RunInv
  <2>3. CASE Fold(c)
    BY <1>2, <2>1, <2>3 DEF Fold, RunInv
  <2>4. CASE Create(c)
    BY <1>1, <2>4 DEF Create, NoIncident
  <2>5. CASE Resolve(c)
    BY <1>1, <2>5 DEF Resolve, IsOpen, Open
  <2>6. CASE UNCHANGED row
    BY <2>6
  <2> QED
    BY <1>3, <2>2, <2>3, <2>4, <2>5, <2>6 DEF RunStep, Start, End, Find, FindFold, Fail
<1>4. ASSUME NEW s \in Rows, Escalate(s)
      PROVE  row'[r].status = "resolved"
  BY <1>1, <1>4 DEF Escalate
<1>5. ASSUME NEW s \in Rows, Suppress(s)
      PROVE  row'[r].status = "resolved"
  BY <1>1, <1>5 DEF Suppress
<1>6. ASSUME NEW K \in SUBSET Marks
      PROVE  Marked(row[r], K).status = "resolved"
  BY <1>1, <1>6, IncidentMarked
<1>7. CASE Post
  <2>1. {k \in {"alert", "recovery"} : <<r, k>> \in round.acks} \in SUBSET Marks
    BY DEF Marks, Kinds
  <2> QED
    BY <1>6, <1>7, <2>1 DEF Post
<1>8. CASE PostDigest
  <2>1. {"digest"} \in SUBSET Marks
    BY DEF Marks
  <2> QED
    BY <1>6, <1>8, <2>1 DEF PostDigest
<1>9. CASE UNCHANGED row
  BY <1>9
<1> QED
  BY <1>3, <1>4, <1>5, <1>7, <1>8, <1>9
     DEF IncidentNext, ListStep, DigestStep, Poll, ReadPending, ReadTask, ReadRecovered, Send,
         Digest, Drop, incidentVars

\* No step reopens a closed incident: the escalation and the folding write under
\* the status they read.
THEOREM ClosedIncidentsStayClosed == IncidentSpec => ClosedStaysClosed
<1>1. IncidentInv /\ [IncidentNext]_incidentVars =>
         [\A r \in Rows : row[r].status = "resolved" => row'[r].status = "resolved"]_incidentVars
  BY ClosedStepClosed
<1> QED
  BY <1>1, IncidentInvariance, PTL DEF IncidentSpec, ClosedStaysClosed
=============================================================================
