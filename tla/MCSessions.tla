----------------------------- MODULE MCSessions -----------------------------
(***************************************************************************)
(* Instances of Sessions for TLC.                                          *)
(***************************************************************************)
EXTENDS Sessions

\* Session ids, connections and ports are interchangeable.
Symmetry == Permutations(SessionIds) \cup Permutations(Conns) \cup Permutations(PortIds)
=============================================================================
