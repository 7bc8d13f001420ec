--------------------------- MODULE McpClientPoolMC ---------------------------
(***************************************************************************)
(* Symmetry for TLC: callers, connections and settings are interchangeable.*)
(***************************************************************************)
EXTENDS McpClientPool, TLC

Interchangeable == Permutations(Client) \cup Permutations(Caller) \cup Permutations(Setting)
============================================================================
