-------------------------- MODULE MCSessionPool ---------------------------
(* The SessionPool runs: two operators, alice with three client objects and  *)
(* bob with one, and a pool with room for one of them.                       *)
EXTENDS SessionPool

CONSTANTS t1, t2, alice, bob, a1, a2, a3, b1

MCUserOf == [c \in Clients |-> IF c \in {a1, a2, a3} THEN alice ELSE bob]
=============================================================================
