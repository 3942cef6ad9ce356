----------------------------- MODULE MCDocRoom -----------------------------
(* Small instances of DocRoom: see the .cfg files for the bounds.          *)
EXTENDS DocRoom, TLC

\* Connections, rooms and payloads are interchangeable; used by the runs
\* without temporal properties only.
Symmetry ==
    Permutations(Clients) \cup Permutations(Rooms) \cup Permutations(Edits)

=============================================================================
