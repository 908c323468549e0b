------------------------------- MODULE Lists -------------------------------
(***************************************************************************)
(* Lists that are mapped and filtered: flatMap and filter of the code, all *)
(* of them by way of FlattenSeq, so that what is proved of it covers them. *)
(***************************************************************************)
EXTENDS Integers, Sequences, SequencesExt

Each(s, f(_)) == FlattenSeq([i \in DOMAIN s |-> f(s[i])])

When(condition, x) == IF condition THEN <<x>> ELSE <<>>

Where(s, Test(_)) == Each(s, LAMBDA x : When(Test(x), x))
=============================================================================
