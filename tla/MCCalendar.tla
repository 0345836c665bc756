------------------------------ MODULE MCCalendar ------------------------------
(* Instances of CalendarInbound for TLC. *)
EXTENDS CalendarProps, TLC

CONSTANTS agent, owner, p1, p2, c1, c2, s1, s2

MCAuthor == [p \in Proposals |-> agent]

\* Every edit gives the event another title.
MCFingerprint == [e \in Editions |-> e]

InboundSymmetry == Permutations(Proposals) \cup Permutations(Calls) \cup Permutations(Scans)
=============================================================================
