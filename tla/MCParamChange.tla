---------------------------- MODULE MCParamChange ----------------------------
(* Two parameters with one value and one with two components. *)
EXTENDS ParamChange

CONSTANTS p, q, r

MCParams == {p, q, r}
MCDim == [x \in MCParams |-> IF x = p THEN 2 ELSE 1]
==============================================================================
