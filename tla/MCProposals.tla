------------------------------ MODULE MCProposals ------------------------------
(* Instances of ProposalApproval for TLC. *)
EXTENDS ProposalProps, TLC

CONSTANTS agent, owner, partner, p1, p2, c1, c2

\* Every proposal is drafted by the bot, except p2, which the owner drafted.
MCAuthor == [p \in Proposals |-> IF p = p2 THEN owner ELSE agent]

CallSymmetry == Permutations(Calls)
=============================================================================
