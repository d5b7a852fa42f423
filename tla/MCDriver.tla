------------------------------- MODULE MCDriver -------------------------------
(* Four pages and commands that carry two: giving three pages takes two
   commands, the pool can run out in the middle, and three given back at a time
   are more than the output mailbox array holds. The pages are interchangeable,
   and the run that looks for one bad state may permute them. *)
EXTENDS Driver, TLC

CONSTANTS p1, p2, p3, p4

Pages == Permutations(Page)

=============================================================================
