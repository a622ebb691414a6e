--------------------------- MODULE MCWindowSession ---------------------------
(* WindowSession with two windows, the page of one of which is reloaded. *)
EXTENDS WindowSession

CONSTANT w1

MCMaxLoads == [w \in Window |-> IF w = w1 THEN 2 ELSE 1]
=============================================================================
