--------------------------- MODULE ProposalLifecycle ---------------------------
(***************************************************************************)
(* What an ActionProposal promises: its status follows the table of        *)
(* allowed transitions, EXECUTED and REJECTED are final, and its write     *)
(* action takes effect exactly in the step that makes it EXECUTED. Calls,  *)
(* transactions, crashes and the people behind them do not appear.         *)
(***************************************************************************)
EXTENDS Integers

CONSTANTS Proposals

VARIABLES stage, effects

lifecycleVars == <<stage, effects>>

\* The table TRANSITIONS, with the creation of a proposal.
Allowed ==
    {<<"ABSENT", "PENDING_APPROVAL">>,
     <<"PENDING_APPROVAL", "APPROVED">>, <<"PENDING_APPROVAL", "REJECTED">>,
     <<"APPROVED", "EXECUTED">>, <<"APPROVED", "FAILED">>,
     <<"FAILED", "APPROVED">>}

LifecycleInit ==
    /\ stage = [p \in Proposals |-> "ABSENT"]
    /\ effects = [p \in Proposals |-> 0]

Transition(p, to) ==
    /\ <<stage[p], to>> \in Allowed
    /\ stage' = [stage EXCEPT ![p] = to]
    /\ effects' = IF to = "EXECUTED" THEN [effects EXCEPT ![p] = 1] ELSE effects

LifecycleNext == \E p \in Proposals : \E edge \in Allowed : Transition(p, edge[2])

Lifecycle == LifecycleInit /\ [][LifecycleNext]_lifecycleVars
=============================================================================
