------------------------- MODULE MCRequestPipeline -------------------------
(* Instances of RequestPipeline for TLC. *)
EXTENDS RequestPipeline, TLC

\* The codes errx/code.go gives the errors in use.
CodesOfSentinels == [s \in Sentinels |-> IF s = "ErrBind" THEN 20001 ELSE 10002]

Symmetry == Permutations(Requests)

=============================================================================
