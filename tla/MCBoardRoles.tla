---------------------------- MODULE MCBoardRoles ----------------------------
(* Small instances of BoardRoles: see the .cfg files for the bounds.       *)
EXTENDS BoardRoles, TLC

AllOps == WorkspaceOps \cup BoardOps

\* Everything on the board, in a workspace whose members do not change.
BoardOnly == BoardOps \cup {"createBoard"}

\* Requests that decide on a workspace role next to requests that write it.
WorkspaceRivals == { {"addBoardMember", "removeMember"}, {"updateBoard", "removeMember"},
                     {"updateMemberRole"}, {"updateMemberRole", "removeMember"},
                     {"removeMember"}, {"inviteMember", "removeMember"} }

\* Requests that take or give a role on the board, and what ends the board.
BoardRivals == { {"transferOwnership"}, {"transferOwnership", "removeBoardMember"},
                 {"transferOwnership", "updateBoardMemberRole"},
                 {"transferOwnership", "addBoardMember"}, {"transferOwnership", "deleteBoard"},
                 {"removeBoardMember", "updateBoardMemberRole"},
                 {"addBoardMember", "removeBoardMember"} }

Rivals == WorkspaceRivals \cup BoardRivals

\* Requests overlap before there is a board, or before the members change (bound).
OneSubject ==
    \/ \A s, t \in Slots : stage[s] # "idle" /\ stage[t] # "idle" => s = t
    \/ board = "absent"
    \/ wsRole = [u \in Users |-> IF u = Founder THEN "owner" ELSE "member"]

\* Any two of them.
AnyTwo == {{a, b} : a \in AllOps, b \in AllOps}

\* Everybody but the founder is interchangeable, and so are requests in flight.
Symmetry == Permutations(Users \ {Founder}) \cup Permutations(Slots)

=============================================================================
