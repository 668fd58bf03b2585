----------------------------- MODULE MCFailover -----------------------------
(* The chat loop alone on small instances.  A tick stands for the shortest *)
(* cooldown the code sets; the others keep their order.                     *)
EXTENDS ChatFailover

MCCooldowns429 == {1, 3}
MCShortCooldowns429 == {1, 2}
=============================================================================
