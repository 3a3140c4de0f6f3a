--------------------------- MODULE MCAgentRegistry ---------------------------
(***************************************************************************)
(* AgentRegistry for TLC. Threads, paths and calls are interchangeable: no *)
(* action and no invariant distinguishes one from another.                 *)
(***************************************************************************)
EXTENDS AgentRegistry, TLC

Symmetry ==
    Permutations(Threads) \cup Permutations(Paths)
        \cup Permutations(Callers) \cup Permutations(Closers)
=============================================================================
