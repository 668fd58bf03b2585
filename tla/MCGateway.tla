----------------------------- MODULE MCGateway -----------------------------
(* The composition on small instances.  A tick is the shortest delay; the  *)
(* lease spans two ticks, as two minutes span two reconciles.              *)
EXTENDS Gateway, Backoff

MCCooldowns429 == {1, 3}
MCOneCooldown429 == {1}
MCBackoff(n) == backoff(1, MaxBackoff, n)
=============================================================================
