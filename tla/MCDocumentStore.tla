-------------------------- MODULE MCDocumentStore --------------------------
(* DocumentStore on small instances; writers, readers and edits are         *)
(* interchangeable, and so are compactors.                                  *)
EXTENDS DocumentStore, TLC

Symmetry == Permutations(Writers) \cup Permutations(Edits)
            \cup Permutations(Readers) \cup Permutations(Compactors)

=============================================================================
