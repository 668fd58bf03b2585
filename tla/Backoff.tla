------------------------------ MODULE Backoff ------------------------------
(***************************************************************************)
(* The retry delay of the recovery worker: doubling from a base, limited.   *)
(***************************************************************************)
EXTENDS Integers

\* The loop of backoff.  The guards on base and maximum only matter for a
\* Service not built by New, and keep the delay positive.
backoff(base, maximum, attempt) ==
    LET value[i \in 1..(attempt + 1)] ==
            IF i = 1 THEN base
            ELSE IF i <= attempt /\ value[i - 1] < maximum THEN 2 * value[i - 1]
            ELSE value[i - 1]
        last == value[attempt + 1]
    IN  IF last > maximum THEN maximum ELSE last
=============================================================================
