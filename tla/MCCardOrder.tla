----------------------------- MODULE MCCardOrder -----------------------------
(* Small instances of CardOrder: see the .cfg files for the bounds.         *)
EXTENDS CardOrder, TLC

LoneColumn == CHOOSE k \in Columns : TRUE

\* One column on a board of its own, the others on one board.
TwoBoards == [k \in Columns |-> IF k = LoneColumn THEN "b2" ELSE "b1"]

\* A fourth request is made if none had to do with the board of LoneColumn (bound).
FourOnOneBoard ==
    \/ requests <= 3
    \/ /\ LoneColumn \in columns
       /\ order[LoneColumn] = Step /\ title[LoneColumn] = None
       /\ \A s \in Slots : call[s].col # LoneColumn
       /\ \A c \in Cards : home[c] # BoardOf[LoneColumn]

OneBoard == [k \in Columns |-> "b1"]

\* One of the columns that share a board is created later.
AllButOne == Columns \ {CHOOSE k \in Columns \ {LoneColumn} : TRUE}

\* Dense up to twice Step, then with gaps wider than MinGap; Step is lost on the
\* last.
Doubles == 0..(2 * Step) \cup {3 * Step, 4 * Step}

Symmetry == Permutations(Cards) \cup Permutations(Slots)

=============================================================================
