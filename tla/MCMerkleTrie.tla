---------------------------- MODULE MCMerkleTrie ----------------------------
(* Bounded instance of MerkleTrie for TLC: paths that share none, two or three
   of their nibbles, two of them with a leaf that can be replaced. *)
EXTENDS MerkleTrie

CONSTANTS a, b    \* payloads

MCPaths == {<<0, 0, 0, 0>>, <<0, 0, 0, 1>>, <<0, 0, 2, 1>>, <<1, 0, 1, 0>>}

MCPayloads == [p \in MCPaths |-> IF p[4] = 0 THEN {a, b} ELSE {a}]
=============================================================================
