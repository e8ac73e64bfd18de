---------------------------- MODULE MCPluginCache ----------------------------
(* Values of the constants of PluginCache for TLC. *)
EXTENDS PluginCache, TLC

\* A plugin in three versions.
Blur(major, minor) == [id |-> "blur", major |-> major, minor |-> minor]
Versions == {Blur(1, 0), Blur(1, 2), Blur(2, 1)}
Libraries == {{Blur(1, 2)}, {Blur(1, 0), Blur(2, 1)}}
Alike == Permutations(Sessions) \cup Permutations(Binaries)
=============================================================================
