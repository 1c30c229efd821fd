---------------------------- MODULE MCIndexStore ----------------------------
(***************************************************************************)
(* Two writers, and two directories of which one's name is a pattern that  *)
(* matches the other's, as a_b does axb.                                   *)
(***************************************************************************)
EXTENDS IndexStore, TLC

CONSTANTS a_b, axb, f

MCNames    == {a_b, axb, f}
MCLike     == {<<n, n>> : n \in MCNames} \cup {<<a_b, axb>>}
MCPaths    == {<<a_b>>, <<a_b, f>>, <<axb, f>>}
MCRootSets == {{}, {<<axb>>}}
MCSymmetry == Permutations(Writers)

=============================================================================
