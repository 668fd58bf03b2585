----------------------------- MODULE Selection -----------------------------
(* SelectSeq in terms of a community operator, which a proof can expand.    *)
EXTENDS SequencesExt

\* The elements of a sequence that pass the test, in their order.
Selected(s, Test(_)) ==
    FlattenSeq([i \in DOMAIN s |-> IF Test(s[i]) THEN <<s[i]>> ELSE <<>>])
=============================================================================
