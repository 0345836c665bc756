------------------------------- MODULE MCAuto -------------------------------
(* Instances of AutoExecute for TLC. *)
EXTENDS AutoProps, TLC

CONSTANTS agent, owner, auto, p1, p2, p3, h1, a1, a2

\* The bot drafts every proposal; p1 and p2 change the same slot.
MCAuthor == [p \in Proposals |-> agent]
MCSlot == [p \in Proposals |-> IF p = p3 THEN 2 ELSE 1]

\* p1 and p2 are interchangeable: same author, same slot.
CandidateSymmetry == Permutations({p1, p2})
=============================================================================
