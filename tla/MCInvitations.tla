---------------------------- MODULE MCInvitations ----------------------------
(* Small instances of Invitations: see the .cfg files for the bounds.       *)
EXTENDS Invitations, TLC

Symmetry == Permutations(Invites) \cup Permutations(Slots)

=============================================================================
