-------------------------- MODULE MCRenderSequence --------------------------
(* RenderSequence for TLC: one range, two ranges that overlap, and ranges  *)
(* that are empty or end between two steps.                                *)
EXTENDS RenderSequence

R(b, e, s) == [begin |-> b, end |-> e, step |-> s]

SmallRanges == {<<R(0, 2, 1)>>, <<R(0, 3, 2), R(1, 2, 1)>>, <<R(2, 1, 1), R(-1, 1, 2)>>, <<R(3, 3, 4)>>}

=============================================================================
