-------------------------- MODULE MCDocumentEditor --------------------------
(* DocumentEditor for TLC: the keys, and the values set, are               *)
(* interchangeable.                                                        *)
EXTENDS DocumentEditor, TLC

Symmetry == Permutations(Keys) \cup Permutations(Values \ {Unset})
=============================================================================
