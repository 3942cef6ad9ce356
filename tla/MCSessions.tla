----------------------------- MODULE MCSessions -----------------------------
(* Small instances of Sessions: see the .cfg files for the bounds.          *)
EXTENDS Sessions, TLC

\* Three tokens are for one user, two users get by with two (bound).
TokensSuffice == Cardinality(account) <= 1 \/ \E t \in Tokens : token[t] = "unborn"

Symmetry == Permutations(Users) \cup Permutations(Tokens) \cup Permutations(Slots)

=============================================================================
