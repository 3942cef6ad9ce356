------------------------------ MODULE CardOrder ------------------------------
(***************************************************************************)
(* The columns of a board and their cards: creation, changes, moves by     *)
(* fractional position with rebalancing, archiving and deletion, as        *)
(* concurrent HTTP requests, and the events a connected board client       *)
(* applies to its view between two loads of the board.                     *)
(*                                                                         *)
(* A request is a chain of separate SQL statements; what it read may be    *)
(* stale when it writes.  RebalanceColumn is one transaction, but it reads *)
(* the order in one statement and writes it in others.                     *)
(*                                                                         *)
(* Positions are doubles in the code and members of Positions here: the    *)
(* numbers a double can be, dense at first and sparse further up.  Every   *)
(* sum and midpoint is rounded to the nearest of them.  Step stands for    *)
(* 1000 and MinGap for the threshold 0.001, so that a few moves into one   *)
(* gap exhaust it.  A title stands for all that UpdateCard and             *)
(* UpdateColumn overwrite.                                                 *)
(* Not covered: board access (BoardRoles), the loss of events on the way   *)
(* to a client (BoardRoom), and sums that overflow to infinity.            *)
(***************************************************************************)
EXTENDS Integers, FiniteSets

CONSTANTS
    Cards,      \* identities of cards, each created once
    Columns,    \* column identities, each created once
    FirstColumns,\* those the board has at the beginning
    BoardOf,    \* columns.board_id
    Slots,      \* requests in flight at the same time (bound)
    Positions,  \* the numbers a position can be
    Refs,       \* positions a client asks for (bound)
    Titles,     \* what a title may be changed to (bound)
    Ops,        \* the endpoints the run calls
    MaxRequests,\* requests made in all (bound)
    Step,       \* distance of appended cards (1000 in the code)
    MinGap,     \* gap below which a column is rebalanced (0.001 in the code)
    None

CardOps == {"create", "updateCard", "move", "archive", "unarchive", "delete",
            "createColumn", "updateColumn", "deleteColumn"}

ASSUME PositionAssumption ==
    /\ MinGap \in Nat \ {0}
    /\ Step \in Nat /\ Step >= MinGap
    /\ Positions \subseteq Nat /\ 0 \in Positions
    /\ Refs \subseteq Positions \ {0}     \* binding:"required,gt=0"
    /\ Ops \subseteq CardOps
    /\ MaxRequests \in Nat
    /\ FirstColumns \subseteq Columns

\* A board has finitely many columns and cards, few enough to number them all
\* by Step without rounding (1000, 2000, ... are doubles).
ASSUME FiniteAssumption ==
    /\ IsFiniteSet(Cards) /\ IsFiniteSet(Columns)
    /\ \A i \in 1..Cardinality(Cards) + 1 : i * Step \in Positions
    /\ \A i \in 1..Cardinality(FirstColumns) : i * Step \in Positions

ASSUME NoneAssumption ==
    None \notin Cards \cup Columns \cup CardOps \cup Titles

\* They are rows of two tables, each with titles of its own.
ASSUME ApartAssumption == Cards \cap Columns = {}

VARIABLES
    columns,    \* columns that exist
    home,       \* cards.board_id
    status,     \* of each card: "unborn", "shown", "archived" or "deleted"
    column,     \* cards.column_id
    position,   \* cards.position
    order,      \* columns.position, 0 before a column is created
    title,      \* title of a card or column, None as it was created
    requests,   \* requests begun so far
    stage,      \* how far the request of a slot is
    call,       \* its endpoint and arguments
    below,      \* neighbours it has read
    above,
    rebalanced, \* it went through RebalanceColumn
    plan,       \* new positions its RebalanceColumn is about to write
    loaded,     \* the row its UnarchiveCard has read back
    view,       \* what a connected client shows of each card
    columnView, \* and of each column
    silent,     \* ghost: cards a rebalance rewrote without an event
    lost,       \* ghost: cards and columns with a change that is stored and
                \* whose request failed before the event
    crossed,    \* ghost: cards and columns two changes of which were published
                \* while both were written
    under,      \* ghost: cards that were below / above the requested place
    disturbed   \* ghost: requests whose column another one changed meanwhile

cardVars == <<columns, home, status, column, position, order, title>>
reqVars  == <<requests, stage, call, below, above, rebalanced, plan, loaded>>
clientVars == <<view, columnView, silent, lost, crossed>>
vars == <<cardVars, reqVars, clientVars, under, disturbed>>

-----------------------------------------------------------------------------
Stages == {"idle", "below", "above", "decide", "select", "rewrite", "write", "reload",
           "notify"}
NoCall == [op |-> None, card |-> None, col |-> None, ref |-> 0, title |-> None]
Calls  == [op : CardOps \cup {None}, card : Cards \cup {None},
           col : Columns \cup {None}, ref : Positions, title : Titles \cup {None}]
Hidden == [col |-> None, pos |-> 0, title |-> None]
Places == [col : Columns \cup {None}, pos : Positions, title : Titles \cup {None}]
NoColumn == [pos |-> 0, title |-> None]

TypeOK ==
    /\ columns \subseteq Columns
    /\ status \in [Cards -> {"unborn", "shown", "archived", "deleted"}]
    /\ home \in [Cards -> {BoardOf[k] : k \in Columns} \cup {None}]
    /\ column \in [Cards -> Columns \cup {None}]
    /\ position \in [Cards -> Positions]
    /\ order \in [Columns -> Positions]
    /\ title \in [Cards \cup Columns -> Titles \cup {None}]
    /\ requests \in 0..MaxRequests
    /\ stage \in [Slots -> Stages]
    /\ call \in [Slots -> Calls]
    /\ below \in [Slots -> Positions] /\ above \in [Slots -> Positions]
    /\ rebalanced \in [Slots -> BOOLEAN]
    /\ plan \in [Slots -> [Cards -> Positions]]
    /\ loaded \in [Slots -> Places]
    /\ view \in [Cards -> Places]
    /\ columnView \in [Columns -> [pos : Positions, title : Titles \cup {None}]]
    /\ silent \subseteq Cards
    /\ lost \subseteq Cards \cup Columns /\ crossed \subseteq Cards \cup Columns
    /\ under \in [Slots -> [below : SUBSET Cards, above : SUBSET Cards]]
    /\ disturbed \subseteq Slots

NoPlan  == [c \in Cards |-> 0]
NoUnder == [below |-> {}, above |-> {}]

\* The board has been set up and loaded, its columns created one by one.
Init ==
    /\ columns = FirstColumns
    /\ order \in {f \in [Columns -> {0} \cup {i * Step : i \in 1..Cardinality(FirstColumns)}] :
                   /\ \A j, k \in FirstColumns : f[j] = f[k] => j = k
                   /\ \A k \in Columns : f[k] # 0 <=> k \in FirstColumns}
    /\ title = [x \in Cards \cup Columns |-> None]
    /\ columnView = [k \in Columns |-> [pos |-> order[k], title |-> None]]
    /\ status = [c \in Cards |-> "unborn"]
    /\ home = [c \in Cards |-> None]
    /\ column = [c \in Cards |-> None]
    /\ position = [c \in Cards |-> 0]
    /\ requests = 0
    /\ stage = [s \in Slots |-> "idle"]
    /\ call = [s \in Slots |-> NoCall]
    /\ below = [s \in Slots |-> 0] /\ above = [s \in Slots |-> 0]
    /\ rebalanced = [s \in Slots |-> FALSE]
    /\ plan = [s \in Slots |-> NoPlan]
    /\ loaded = [s \in Slots |-> Hidden]
    /\ view = [c \in Cards |-> Hidden]
    /\ silent = {} /\ lost = {} /\ crossed = {}
    /\ under = [s \in Slots |-> NoUnder]
    /\ disturbed = {}

Exists(c) == status[c] \in {"shown", "archived"}

\* Non-archived cards of a column: what the position queries look at.
ShownIn(k) == {c \in Cards : status[c] = "shown" /\ column[c] = k}

-----------------------------------------------------------------------------
(* Positions.  A definition named X_Y is X with a mistake Y; no action uses *)
(* it.                                                                      *)

Highest(S) == CHOOSE m \in S : \A n \in S : n <= m
Lowest(S)  == CHOOSE m \in S : \A n \in S : m <= n

\* The position nearest to half of n.
Distance(m, n) == IF m < n THEN n - m ELSE m - n
RoundedHalf(n) ==
    CHOOSE p \in Positions :
        \A q \in Positions : Distance(2 * p, n) <= Distance(2 * q, n)

\* p + 1000
Appended(p) == RoundedHalf(2 * (p + Step))

PositionsIn(k) == {position[c] : c \in ShownIn(k)}

\* COALESCE(MAX(position), 0), below ref; COALESCE(MIN(position), ref + 1000), above.
PositionBelow(k, ref) == Highest({0} \cup {p \in PositionsIn(k) : p < ref})
PositionAbove(k, ref) ==
    LET higher == {p \in PositionsIn(k) : p > ref}
    IN  IF higher = {} THEN Appended(ref) ELSE Lowest(higher)

NeedsRebalance(b, a) == a - b < MinGap

Between_Upper(b, a) == a
Between_Difference(b, a) == (b - a) \div 2
Between(b, a) == RoundedHalf(b + a)

\* Every way to number cards S from 1 that SELECT ... ORDER BY position may
\* return: cards at the same position come in any order.
Numberings_AnyOrder(S) ==
    {f \in [S -> 1..Cardinality(S)] : \A c, d \in S : f[c] = f[d] => c = d}

Numberings(S) ==
    {f \in [S -> 1..Cardinality(S)] :
        \A c, d \in S : /\ f[c] = f[d] => c = d
                        /\ position[c] < position[d] => f[c] < f[d]}

\* "reassign clean positions: 1000, 2000, 3000..."
NewPosition_Unscaled(i) == i
NewPosition(i) == i * Step

-----------------------------------------------------------------------------
(* A request.                                                              *)

Goto(s, there) == stage' = [stage EXCEPT ![s] = there]

Finish(s) ==
    /\ Goto(s, "idle")
    /\ UNCHANGED requests
    /\ call' = [call EXCEPT ![s] = NoCall]
    /\ below' = [below EXCEPT ![s] = 0] /\ above' = [above EXCEPT ![s] = 0]
    /\ rebalanced' = [rebalanced EXCEPT ![s] = FALSE]
    /\ plan' = [plan EXCEPT ![s] = NoPlan]
    /\ loaded' = [loaded EXCEPT ![s] = Hidden]
    /\ under' = [under EXCEPT ![s] = NoUnder]

Begin(s, op, c, k, ref, t) ==
    /\ stage[s] = "idle" /\ op \in Ops
    /\ requests < MaxRequests
    /\ requests' = requests + 1
    /\ call' = [call EXCEPT ![s] = [op |-> op, card |-> c, col |-> k, ref |-> ref,
                                     title |-> t]]

\* CreateCard: the column is there; read its highest position.
CreateReads(s, c, k) ==
    /\ Begin(s, "create", c, k, 0, None)
    /\ status[c] = "unborn" /\ k \in columns
    /\ \A t \in Slots : call[t].card # c   \* ids are unique
    /\ below' = [below EXCEPT ![s] = Highest({0} \cup PositionsIn(k))]
    /\ Goto(s, "write")
    /\ UNCHANGED <<cardVars, above, rebalanced, plan, loaded, clientVars, under>>

\* MoveCard "prevents cross-board moves".
SameBoard_Unchecked(c, k) == TRUE
SameBoard(c, k) == BoardOf[k] = home[c]

\* MoveCard: card and target column are there and on one board.
MoveChecks(s, c, k, ref) ==
    /\ Begin(s, "move", c, k, ref, None)
    /\ Exists(c) /\ k \in columns
    /\ SameBoard(c, k)
    /\ under' = [under EXCEPT ![s] =
                   [below |-> {d \in ShownIn(k) \ {c} : position[d] < ref},
                    above |-> {d \in ShownIn(k) \ {c} : position[d] > ref}]]
    /\ Goto(s, "below")
    /\ UNCHANGED <<cardVars, below, above, rebalanced, plan, loaded, clientVars>>

ReadBelow(s) ==
    /\ stage[s] = "below"
    /\ below' = [below EXCEPT ![s] = PositionBelow(call[s].col, call[s].ref)]
    /\ Goto(s, "above")
    /\ UNCHANGED <<cardVars, requests, call, above, rebalanced, plan, loaded, clientVars,
                   under>>

ReadAbove(s) ==
    /\ stage[s] = "above"
    /\ above' = [above EXCEPT ![s] = PositionAbove(call[s].col, call[s].ref)]
    /\ Goto(s, "decide")
    /\ UNCHANGED <<cardVars, requests, call, below, rebalanced, plan, loaded, clientVars,
                   under>>

\* The first time the gap is too small, rebalance and read again.
Decide(s) ==
    /\ stage[s] = "decide"
    /\ Goto(s, IF ~rebalanced[s] /\ NeedsRebalance(below[s], above[s])
               THEN "select" ELSE "write")
    /\ UNCHANGED <<cardVars, requests, call, below, above, rebalanced, plan,
                   loaded, clientVars, under>>

\* RebalanceColumn: SELECT id ... ORDER BY position ...
SelectOrder(s) ==
    LET S == ShownIn(call[s].col) IN
    /\ stage[s] = "select"
    /\ \E f \in Numberings(S) :
           plan' = [plan EXCEPT ![s] =
                      [c \in Cards |-> IF c \in S THEN NewPosition(f[c]) ELSE 0]]
    /\ Goto(s, "rewrite")
    /\ UNCHANGED <<cardVars, requests, call, below, above, rebalanced, loaded, clientVars,
                   under>>

\* ... then UPDATE each by its id, wherever it is by now, and COMMIT.
RewritePositions(s) ==
    LET S == {c \in Cards : plan[s][c] # 0 /\ Exists(c)} IN
    /\ stage[s] = "rewrite"
    /\ position' = [c \in Cards |-> IF c \in S THEN plan[s][c] ELSE position[c]]
    /\ silent' = silent \cup {c \in S : position[c] # plan[s][c]}
    /\ rebalanced' = [rebalanced EXCEPT ![s] = TRUE]
    /\ plan' = [plan EXCEPT ![s] = NoPlan]
    /\ Goto(s, "below")
    /\ UNCHANGED <<columns, home, status, column, order, title, requests, call,
                   below, above, loaded, view, columnView, lost, crossed, under>>

-----------------------------------------------------------------------------
(* The writing statement of a request, and the event.                      *)

Create(s) ==
    LET c == call[s].card IN
    /\ stage[s] = "write" /\ call[s].op = "create"
    /\ IF call[s].col \in columns     \* the foreign key
       THEN /\ status' = [status EXCEPT ![c] = "shown"]
            /\ home' = [home EXCEPT ![c] = BoardOf[call[s].col]]
            /\ column' = [column EXCEPT ![c] = call[s].col]
            /\ position' = [position EXCEPT ![c] = Appended(below[s])]
            /\ Goto(s, "notify")
            /\ UNCHANGED <<columns, order, title, requests, call, below, above,
                           rebalanced, plan, loaded, under>>
       ELSE Finish(s) /\ UNCHANGED cardVars
    /\ UNCHANGED clientVars

Move(s) ==
    LET c == call[s].card IN
    /\ stage[s] = "write" /\ call[s].op = "move"
    /\ IF Exists(c) /\ call[s].col \in columns
       THEN /\ column' = [column EXCEPT ![c] = call[s].col]
            /\ position' = [position EXCEPT ![c] = Between(below[s], above[s])]
            /\ silent' = silent \ {c}
            /\ Goto(s, "reload")
            /\ UNCHANGED <<columns, home, status, order, title, requests, call,
                           below, above, rebalanced, plan, loaded, under>>
       ELSE Finish(s) /\ UNCHANGED <<cardVars, silent>>
    /\ UNCHANGED <<view, columnView, lost, crossed>>

\* UpdateCard: lookup and statement; the lookup only decides which error is
\* returned.
UpdateCard(s, c, t) ==
    /\ Begin(s, "updateCard", c, None, 0, t)
    /\ Exists(c)
    /\ title' = [title EXCEPT ![c] = t]
    /\ Goto(s, "reload")
    /\ UNCHANGED <<columns, home, status, column, position, order, below, above,
                   rebalanced, plan, loaded, clientVars, under>>

StatusAfter(op) ==
    CASE op = "archive" -> "archived" [] op = "unarchive" -> "shown"
      [] op = "delete" -> "deleted"

RowsGone(S) ==
    /\ home' = [c \in Cards |-> IF c \in S THEN None ELSE home[c]]
    /\ column' = [c \in Cards |-> IF c \in S THEN None ELSE column[c]]
    /\ position' = [c \in Cards |-> IF c \in S THEN 0 ELSE position[c]]

\* Archive, Unarchive, Delete: lookup and statement.  The events of the first
\* and the last tell all there is to know of the card.
SetStatus(s, op, c) ==
    /\ Begin(s, op, c, None, 0, None)
    /\ op \in {"archive", "unarchive", "delete"}
    /\ Exists(c)
    /\ status' = [status EXCEPT ![c] = StatusAfter(op)]
    /\ IF op = "delete" THEN RowsGone({c}) ELSE UNCHANGED <<home, column, position>>
    /\ silent' = IF op = "unarchive" THEN silent ELSE silent \ {c}
    /\ Goto(s, IF op = "unarchive" THEN "reload" ELSE "notify")
    /\ UNCHANGED <<columns, order, title, below, above, rebalanced, plan, loaded,
                   view, columnView, lost, crossed, under>>

\* CreateColumn: read the highest position of the board's columns ...
CreateColumnReads(s, k) ==
    /\ Begin(s, "createColumn", None, k, 0, None)
    /\ order[k] = 0 /\ \A t \in Slots : call[t].col # k   \* ids are unique
    /\ below' = [below EXCEPT ![s] =
                   Highest({0} \cup {order[j] : j \in {i \in columns : BoardOf[i] = BoardOf[k]}})]
    /\ Goto(s, "write")
    /\ UNCHANGED <<cardVars, above, rebalanced, plan, loaded, clientVars, under>>

\* ... and insert the column above it.
CreateColumn(s) ==
    LET k == call[s].col IN
    /\ stage[s] = "write" /\ call[s].op = "createColumn"
    /\ columns' = columns \cup {k}
    /\ order' = [order EXCEPT ![k] = Appended(below[s])]
    /\ Goto(s, "notify")
    /\ UNCHANGED <<home, status, column, position, title, requests, call, below, above,
                   rebalanced, plan, loaded, clientVars, under>>

\* UpdateColumn: title and position, what is given of them (0 and None: not).
UpdateColumn(s, k, ref, t) ==
    /\ Begin(s, "updateColumn", None, k, ref, t)
    /\ k \in columns
    /\ ref # 0 \/ t # None
    /\ order' = IF ref # 0 THEN [order EXCEPT ![k] = ref] ELSE order
    /\ title' = IF t # None THEN [title EXCEPT ![k] = t] ELSE title
    /\ Goto(s, "notify")
    /\ UNCHANGED <<columns, home, status, column, position, below, above, rebalanced,
                   plan, loaded, clientVars, under>>

\* DeleteColumn: the cards go by cascade.
DeleteColumn(s, k) ==
    LET S == {c \in Cards : Exists(c) /\ column[c] = k} IN
    /\ Begin(s, "deleteColumn", None, k, 0, None)
    /\ k \in columns
    /\ columns' = columns \ {k}
    /\ status' = [c \in Cards |-> IF c \in S THEN "deleted" ELSE status[c]]
    /\ RowsGone(S)
    /\ Goto(s, "notify")
    /\ UNCHANGED <<order, title, below, above, rebalanced, plan, loaded, clientVars,
                   under>>

-----------------------------------------------------------------------------
(* The event, and the client.                                              *)

\* CARD_MOVED carries the position that was written.
MovedTo_AsRequested(s) == call[s].ref
MovedTo(s) == Between(below[s], above[s])

\* A card as the database has it, and as much of it as clients see.
Row(c) == [col |-> column[c], pos |-> position[c], title |-> title[c]]
Actual(c) == IF status[c] = "shown" THEN Row(c) ELSE Hidden

ActualColumn(k) ==
    IF k \in columns THEN [pos |-> order[k], title |-> title[k]] ELSE NoColumn

\* The client's cards after the event of slot s.  It has nothing to change of a
\* card it does not show.
CardsAfter(s) ==
    LET c == call[s].card
        v == view[c]
    IN
    CASE call[s].op = "create" ->
             [view EXCEPT ![c] = [col |-> call[s].col, pos |-> Appended(below[s]),
                                  title |-> None]]
      [] call[s].op = "move" /\ v # Hidden ->
             [view EXCEPT ![c] = [v EXCEPT !.col = call[s].col, !.pos = MovedTo(s)]]
      [] call[s].op = "updateCard" /\ v # Hidden ->
             [view EXCEPT ![c].title = call[s].title]
      [] call[s].op = "unarchive" -> [view EXCEPT ![c] = loaded[s]]
      [] call[s].op \in {"archive", "delete"} -> [view EXCEPT ![c] = Hidden]
      [] call[s].op = "deleteColumn" ->
             [d \in Cards |-> IF view[d].col = call[s].col THEN Hidden ELSE view[d]]
      [] OTHER -> view

\* COLUMN_RENAMED and COLUMN_REORDERED carry what was asked for.
ColumnsAfter(s) ==
    LET k == call[s].col
        v == columnView[k]
    IN
    CASE call[s].op = "createColumn" ->
             [columnView EXCEPT ![k] = [pos |-> Appended(below[s]), title |-> None]]
      [] call[s].op = "updateColumn" /\ v # NoColumn ->
             [columnView EXCEPT ![k] =
                [pos   |-> IF call[s].ref # 0 THEN call[s].ref ELSE v.pos,
                 title |-> IF call[s].title # None THEN call[s].title ELSE v.title]]
      [] call[s].op = "deleteColumn" -> [columnView EXCEPT ![k] = NoColumn]
      [] OTHER -> columnView

\* The row the request of slot s changes, and what goes with it: of a column all
\* the cards, whichever they are.
Subject(s) ==
    IF call[s].op \in {"createColumn", "updateColumn", "deleteColumn"}
    THEN call[s].col ELSE call[s].card
About(s) == {Subject(s)} \cup (IF call[s].op = "deleteColumn" THEN Cards ELSE {})

\* The change of slot s is stored and its event still to come.
Unpublished(s) == stage[s] \in {"reload", "notify"}

\* Another change of the same row is stored and not published.
Crosses(s) ==
    crossed' = crossed \cup UNION {About(s) \cap About(t) :
                                     t \in {u \in Slots \ {s} : Unpublished(u)}}

\* MoveCard, UpdateCard and UnarchiveCard read the card again; no event if it is
\* gone.  Of UnarchiveCard the row read now is what the event will say.
Reload(s) ==
    LET c == call[s].card IN
    /\ stage[s] = "reload"
    /\ IF Exists(c)
       THEN /\ IF call[s].op = "unarchive"
               THEN /\ loaded' = [loaded EXCEPT ![s] = Row(c)]
                    /\ silent' = silent \ {c}
               ELSE UNCHANGED <<loaded, silent>>
            /\ Goto(s, "notify")
            /\ UNCHANGED <<requests, call, below, above, rebalanced, plan, crossed, under>>
       ELSE Crosses(s) /\ Finish(s) /\ UNCHANGED silent
    /\ UNCHANGED <<cardVars, view, columnView, lost>>

\* An event after which the client knows all of the card or column.
Whole(s) == call[s].op \in {"archive", "unarchive", "delete", "deleteColumn"}

Notify(s) ==
    /\ stage[s] = "notify"
    /\ view' = CardsAfter(s)
    /\ columnView' = ColumnsAfter(s)
    /\ lost' = IF Whole(s) THEN lost \ {Subject(s)} ELSE lost
    /\ Crosses(s)
    /\ Finish(s)
    /\ UNCHANGED <<cardVars, silent>>

\* The change is stored, and the request ends with an error before the event: the
\* reply to its statement is lost, the context is cancelled, or a later query
\* fails.  With a column its cards go unannounced.
EventLost(s) ==
    /\ Unpublished(s)
    /\ stage[s] = "notify" => call[s].op \notin {"move", "updateCard"}
    /\ lost' = lost \cup {Subject(s)}
                    \cup (IF call[s].op = "deleteColumn"
                          THEN {c \in Cards : view[c].col = call[s].col} ELSE {})
    /\ Crosses(s)
    /\ Finish(s)
    /\ UNCHANGED <<cardVars, view, columnView, silent>>

\* The client loads the board.  What is written and not published yet will be
\* applied on top of it.
GetBoardDetail ==
    /\ view' = [c \in Cards |-> Actual(c)]
    /\ columnView' = [k \in Columns |-> ActualColumn(k)]
    /\ IF \E s \in Slots : Unpublished(s)
       THEN UNCHANGED <<silent, lost, crossed>>
       ELSE silent' = {} /\ lost' = {} /\ crossed' = {}
    /\ UNCHANGED <<cardVars, reqVars, under, disturbed>>

\* A statement fails, or the request's context ends, with nothing stored.
Abandon(s) ==
    /\ stage[s] # "idle" /\ ~Unpublished(s)
    /\ Finish(s)
    /\ UNCHANGED <<cardVars, clientVars>>

CardRequest(s) ==
    \E c \in Cards :
        \/ \E k \in Columns :
               CreateReads(s, c, k) \/ \E ref \in Refs : MoveChecks(s, c, k, ref)
        \/ \E t \in Titles : UpdateCard(s, c, t)
        \/ \E op \in Ops : SetStatus(s, op, c)

ColumnRequest(s) ==
    \E k \in Columns :
        \/ CreateColumnReads(s, k)
        \/ \E ref \in Refs \cup {0}, t \in Titles \cup {None} : UpdateColumn(s, k, ref, t)
        \/ DeleteColumn(s, k)

Request(s) ==
    \/ CardRequest(s) \/ ColumnRequest(s)
    \/ ReadBelow(s) \/ ReadAbove(s) \/ Decide(s)
    \/ SelectOrder(s) \/ RewritePositions(s)
    \/ Create(s) \/ Move(s) \/ CreateColumn(s)
    \/ Reload(s) \/ Notify(s) \/ EventLost(s)
    \/ Abandon(s)

\* The positions of a column's cards.
Shape(k) == [c \in ShownIn(k) |-> position[c]]

\* The columns this step changes.
Reshaped == {k \in Columns : Shape(k)' # Shape(k)}

\* Who works with a column that the step of slot s changes; s itself starts
\* afresh when it ends and when its rebalance reads the column.
Disturb(s) ==
    disturbed' = {t \in Slots :
        IF t = s THEN t \in disturbed /\ stage'[t] \notin {"idle", "rewrite"}
                 ELSE t \in disturbed \/ (stage[t] # "idle" /\ call[t].col \in Reshaped)}

Next ==
    \/ \E s \in Slots : Request(s) /\ Disturb(s)
    \/ GetBoardDetail

Spec == Init /\ [][Next]_vars

-----------------------------------------------------------------------------
(* Safety.                                                                 *)

\* Wherever concurrent moves, deletions of cards and of columns lead, a card
\* lies in a column that exists, of the board the card was created on.
CardsStayOnBoard ==
    \A c \in Cards :
        Exists(c) => column[c] \in columns /\ BoardOf[column[c]] = home[c]

\* This step is the one in which slot s leaves a stage.
Leaves(s, there) == stage[s] = there /\ stage'[s] # there

\* The order of two cards that stay in their column only changes when one of them
\* is moved, or by a rebalance whose column was changed after it read the order; a
\* rebalance nobody disturbs keeps it, whatever else is under way.
OrderOfOthersKept ==
    [][ \A k \in Columns : \A c, d \in ShownIn(k) :
            (/\ position[c] < position[d]
             /\ ~\E s \in Slots : Leaves(s, "write") /\ call[s].card \in {c, d}
             /\ ~\E s \in disturbed : Leaves(s, "rewrite")
             /\ {c, d} \subseteq ShownIn(k)')
            => position'[c] < position'[d] ]_vars

\* Slot s has moved its card, which lies between the cards that were below and
\* above the requested position at the beginning; at the position of none of them
\* unless the requested position is so high that adding 1000 is lost to rounding.
Placed(s) ==
    LET p == position[call[s].card]
        room == call[s].ref < above[s]
    IN
    /\ Unpublished(s) /\ call[s].op = "move"
    /\ call[s].card \in ShownIn(call[s].col)
    =>
        /\ \A d \in under[s].below : position[d] <= p /\ (room => position[d] # p)
        /\ \A d \in under[s].above : p <= position[d] /\ (room => position[d] # p)

\* A move that found room, and whose column nobody changed while it was under way,
\* ends where it was asked, whatever requests overlap it.
PlacedWhereAsked == \A s \in Slots \ disturbed : ~rebalanced[s] => Placed(s)

\* Once rebalanced there is room, unless another request changes the column: the
\* second look at the neighbours never finds the gap too small again.
RebalanceMakesRoom ==
    \A s \in Slots \ disturbed : stage[s] = "decide" /\ rebalanced[s] =>
        ~NeedsRebalance(below[s], above[s])

Quiet == \A s \in Slots : stage[s] = "idle"

\* A client that loaded the board and applies its events shows every card and
\* every column as it is, save what no event tells it: cards a rebalance rewrote,
\* changes whose request failed between the write and the event, and what two
\* requests published while both had written it (in any order).
ViewFollowsEvents ==
    Quiet =>
        /\ \A c \in Cards \ (silent \cup lost \cup crossed) : view[c] = Actual(c)
        /\ \A k \in Columns \ (lost \cup crossed) : columnView[k] = ActualColumn(k)

-----------------------------------------------------------------------------
(* What comments say and the code does not do.                             *)

\* services/cards.go 193: the midpoint "is safe even if the frontend sent a
\* slightly stale position value": no two cards of a column share a position.
DistinctPositions ==
    \A k \in Columns : \A c, d \in ShownIn(k) : position[c] = position[d] => c = d

\* fractional.go 3: a gap that is not rebalanced is not "too small for reliable
\* float64 midpoint arithmetic": the midpoint lies inside it.
MidpointIsBetween ==
    \A s \in Slots :
        stage[s] = "decide" /\ ~NeedsRebalance(below[s], above[s]) =>
            /\ below[s] < Between(below[s], above[s])
            /\ Between(below[s], above[s]) < above[s]

\* services/cards.go 186: "after rebalance, positions have shifted - recompute
\* neighbors": the card still ends between the cards it was dropped between.
PlacedAfterRebalance == \A s \in Slots : rebalanced[s] => Placed(s)

\* services/cards.go 80: every change is "broadcast to every tab that has this
\* board open": a client that applied all events shows what is stored, also when
\* no request failed on the way.
ViewIsCurrent ==
    Quiet /\ lost \cup crossed = {} => \A c \in Cards : view[c] = Actual(c)

=============================================================================
