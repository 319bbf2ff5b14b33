------------------------------ MODULE MCTickets ------------------------------
(* Instance of Tickets for TLC: the constants are in the .cfg files. *)
EXTENDS Tickets, TLC

CONSTANTS t1, t2, t3, t4, a, b, k, p1, p2

\* Ticket ids, changes and review commands are interchangeable.  No liveness is
\* checked here.
Symmetry == Permutations(Ids) \cup Permutations(Changes) \cup Permutations(Procs)
==============================================================================
