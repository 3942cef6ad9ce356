---------------------------- MODULE MCBoardRoom ----------------------------
(* Small instances of BoardRoom: see the .cfg file for the bounds.         *)
EXTENDS BoardRoom, TLC

=============================================================================
