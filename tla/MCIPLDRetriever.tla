--------------------------- MODULE MCIPLDRetriever ---------------------------
(* Instances of the IPLDRetriever reads for TLC. *)
EXTENDS IPLDRetriever

CONSTANTS c1, c2, k1, v1, v2, a, b

MCContracts == {c1, c2}
MCOneContract == {c1}
MCSlots == {k1}
MCValues == {v1, v2}
MCOneValue == {v1}
MCBranches == {a, b}
MCOneBranch == {a}

(* Slot k1 sits at the same storage_path in every contract's storage trie: *)
(* the tries of two contracts with one slot each have the same shape.      *)
MCPath == [x \in Contracts \X Slots |-> x[2]]
====
