------------------------------ MODULE MCNodeHash ------------------------------
(* Small graphs at time for TLC: a merge and a fade over two generators, of which
   "animated" has the edited parameter and "moving" also changes over time. *)
EXTENDS NodeHash

CONSTANTS animated, moving, still, top

\* A graph of plugin p over some inputs, a sequence of clips and vertices.
Over(p, vertices, later, silent, inputs) ==
  LET V == vertices \cup {top}
  IN [vertices |-> V,
      output   |-> top,
      plugin   |-> [v \in V |-> IF v = top THEN p ELSE "generator"],
      varying  |-> [v \in V |-> v = moving],
      later    |-> [v \in V |-> IF v \in later THEN 1 ELSE 0],
      evaluated |-> [v \in V |-> v \notin silent],
      constant |-> [v \in V |-> 0],
      inputs   |-> [v \in V |-> IF v = top THEN inputs ELSE << >>]]

Read(clip, v) == [clip |-> clip, vertex |-> v]
Merge(a, b, later) == Over("merge", {a, b}, later, {}, <<Read("A", a), Read("B", b)>>)
Fade(clip, v) == Over("fade", {v}, {}, {}, <<Read(clip, v)>>)
Shifted(clip, v) == Over("fade", {v}, {v}, {}, <<Read(clip, v)>>)
Silent(v) == Over("fade", {v}, {}, {v}, <<Read("SourceFrom", v)>>)

\* The clips in both orders, one clip or the other connected, a still, an animated and a
\* moving input shifted, an input whose parameter is not evaluated on change.
MCGraphs ==
  {Merge(animated, moving, {}), Merge(moving, animated, {}),
   Fade("SourceFrom", animated), Shifted("SourceTo", animated),
   Merge(animated, still, {}), Merge(animated, still, {still}),
   Fade("SourceFrom", moving), Shifted("SourceFrom", moving), Silent(animated)}

\* A generator that changes over time, with and without a shift.
MCShifted == {Fade("SourceFrom", moving), Shifted("SourceFrom", moving)}

\* Constraint: a kept picture of which the hash cannot tell is checked and not gone on
\* from.  The properties say nothing of it, and all edits and graphs go on from the state before.
OnlyTold == \A k \in kept : k.told

MCAnimated == {animated}
==============================================================================
