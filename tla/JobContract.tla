------------------------------ MODULE JobContract ------------------------------
(***************************************************************************)
(* What the agent job queue promises to the bridge that submits a job and  *)
(* polls it over the get and wait calls of rpc-handlers.ts: a job is       *)
(* pending until it settles, it is tried a bounded number of times, it     *)
(* settles once, and an answer that points at an approval card points at a *)
(* card that exists. Leases, workers, timers and processes do not appear.  *)
(***************************************************************************)
EXTENDS Integers

CONSTANTS Jobs, MaxAttempts, Terminal

VARIABLES
    phase,     \* "ABSENT", "pending" or the status the job settled with
    tries,     \* attempts used up
    cards      \* <<job, attempt>> of every card put in the approval inbox

contractVars == <<phase, tries, cards>>

ContractInit ==
    /\ phase = [j \in Jobs |-> "ABSENT"]
    /\ tries = [j \in Jobs |-> 0]
    /\ cards = {}

Accept(j) ==
    /\ phase[j] = "ABSENT"
    /\ phase' = [phase EXCEPT ![j] = "pending"]
    /\ UNCHANGED <<tries, cards>>

\* An attempt leaves its card. Nothing ties this to the job still being
\* pending: an attempt that lost its lease may still get its card in.
PutCard(j, a) ==
    /\ phase[j] # "ABSENT"
    /\ a \in 0 .. tries[j]
    /\ cards' = cards \cup {<<j, a>>}
    /\ UNCHANGED <<phase, tries>>

Settle(j, status) ==
    /\ phase[j] = "pending"
    /\ status \in Terminal
    /\ status = "NEEDS_APPROVAL" => <<j, tries[j]>> \in cards
    /\ phase' = [phase EXCEPT ![j] = status]
    /\ UNCHANGED <<tries, cards>>

GiveBack(j) ==
    /\ phase[j] = "pending"
    /\ tries[j] < MaxAttempts
    /\ tries' = [tries EXCEPT ![j] = @ + 1]
    /\ phase' = [phase EXCEPT ![j] = IF tries[j] + 1 = MaxAttempts
                                     THEN "FAILED_FINAL" ELSE "pending"]
    /\ UNCHANGED cards

ContractNext ==
    \E j \in Jobs : \/ Accept(j)
                    \/ GiveBack(j)
                    \/ \E a \in 0 .. MaxAttempts - 1 : PutCard(j, a)
                    \/ \E status \in Terminal : Settle(j, status)

Contract == ContractInit /\ [][ContractNext]_contractVars
=============================================================================
