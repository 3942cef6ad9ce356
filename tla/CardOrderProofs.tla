--------------------------- MODULE CardOrderProofs ---------------------------
(***************************************************************************)
(* Theorems about CardOrder, for any cards, columns, boards, requests and  *)
(* positions, however wide the gaps between the numbers a double can be.   *)
(*                                                                         *)
(* Whatever overlaps: a card lies in a column that exists, of its board;   *)
(* every variable is of its type (what needs the finite sets: a highest    *)
(* and a lowest position exist); a move or a rebalance whose column no     *)
(* other request changes does what it should; and a client that applies    *)
(* the events shows what is stored.                                        *)
(***************************************************************************)
EXTENDS CardOrder, FiniteSetTheorems, TLAPS

-----------------------------------------------------------------------------
(* The part of the state that decides where a card lies, and its types.    *)

placeVars == <<columns, home, status, column>>

Typed ==
    /\ columns \subseteq Columns
    /\ status \in [Cards -> {"unborn", "shown", "archived", "deleted"}]
    /\ home \in [Cards -> {BoardOf[k] : k \in Columns} \cup {None}]
    /\ column \in [Cards -> Columns \cup {None}]
    /\ stage \in [Slots -> Stages]
    /\ call \in [Slots -> Calls]

Creating(s) == call[s].op = "create" /\ stage[s] \notin {"idle", "notify"}
Moving(s)   == call[s].op = "move" /\ stage[s] # "idle"
Adding(s)   == call[s].op = "createColumn" /\ stage[s] # "idle"

\* What was checked at the beginning of a request and still holds when it
\* writes.  A column may be gone by then, but it never changes its board.
Requests ==
    \A s \in Slots :
        /\ Creating(s) =>
              /\ call[s].card \in Cards /\ call[s].col \in Columns
              /\ status[call[s].card] = "unborn"
        /\ Moving(s) =>
              /\ call[s].card \in Cards /\ call[s].col \in Columns
              /\ status[call[s].card] # "unborn"
              /\ Exists(call[s].card) => BoardOf[call[s].col] = home[call[s].card]
        /\ Adding(s) => call[s].col \in Columns

\* An identity is given to one card.
OneCreator ==
    \A s, t \in Slots :
        Creating(s) /\ Creating(t) /\ call[s].card = call[t].card => s = t

IInv == Typed /\ Requests /\ OneCreator /\ CardsStayOnBoard

LEMMA IInvInit == Init => IInv
<1> HAVE Init
<1>1. NoCall \in Calls
  BY PositionAssumption DEF NoCall, Calls
<1>2. Typed
  BY <1>1, PositionAssumption DEF Init, Typed, Stages
<1>3. \A s \in Slots : ~Creating(s) /\ ~Moving(s) /\ ~Adding(s)
  BY DEF Init, Creating, Moving, Adding
<1>4. CardsStayOnBoard
  BY DEF Init, CardsStayOnBoard, Exists
<1> QED
  BY <1>2, <1>3, <1>4 DEF IInv, Requests, OneCreator

-----------------------------------------------------------------------------
(* The ways a step goes on with the request of a slot.                     *)

\* The request reads, or decides.
LEMMA GotoKeeps ==
  ASSUME IInv, NEW s \in Slots, NEW there \in Stages \ {"idle"},
         stage[s] # "idle", stage[s] = "notify" => there = "notify",
         Goto(s, there), UNCHANGED <<placeVars, call>>
  PROVE  IInv'
<1>1. \A o \in Slots : stage'[o] = IF o = s THEN there ELSE stage[o]
  BY DEF IInv, Typed, Goto
<1>2. Typed'
  BY DEF IInv, Typed, Goto, placeVars
<1>3. \A o \in Slots : /\ Creating(o)' => Creating(o)
                       /\ Moving(o)' => Moving(o)
                       /\ Adding(o)' => Adding(o)
  BY <1>1 DEF Creating, Moving, Adding
<1>4. Requests' /\ OneCreator'
  BY <1>3 DEF IInv, Requests, OneCreator, Exists, placeVars
<1>5. CardsStayOnBoard'
  BY DEF IInv, CardsStayOnBoard, Exists, placeVars
<1> QED
  BY <1>2, <1>4, <1>5 DEF IInv

\* The request ends.
LEMMA FinishKeeps ==
  ASSUME IInv, NEW s \in Slots, Finish(s), UNCHANGED placeVars
  PROVE  IInv'
<1>1. NoCall \in Calls /\ NoCall.op \notin {"create", "move", "createColumn"}
  BY NoneAssumption, PositionAssumption DEF NoCall, Calls, CardOps
<1>2. /\ \A o \in Slots : stage'[o] = IF o = s THEN "idle" ELSE stage[o]
      /\ \A o \in Slots : call'[o] = IF o = s THEN NoCall ELSE call[o]
  BY DEF IInv, Typed, Finish, Goto
<1>3. Typed'
  BY <1>1 DEF IInv, Typed, Finish, Goto, placeVars, Stages
<1>4. \A o \in Slots : /\ Creating(o)' => Creating(o) /\ call'[o] = call[o]
                       /\ Moving(o)' => Moving(o) /\ call'[o] = call[o]
                       /\ Adding(o)' => Adding(o) /\ call'[o] = call[o]
  BY <1>1, <1>2 DEF Creating, Moving, Adding
<1>5. Requests' /\ OneCreator'
  BY <1>4 DEF IInv, Requests, OneCreator, Exists, placeVars
<1>6. CardsStayOnBoard'
  BY DEF IInv, CardsStayOnBoard, Exists, placeVars
<1> QED
  BY <1>3, <1>5, <1>6 DEF IInv

\* What the beginning of a request does to slots.
LEMMA BeginSets ==
  ASSUME IInv, NEW s \in Slots, NEW op \in CardOps, NEW c \in Cards \cup {None},
         NEW k \in Columns \cup {None}, NEW ref \in Positions,
         NEW t \in Titles \cup {None}, NEW there \in Stages,
         Begin(s, op, c, k, ref, t), Goto(s, there)
  PROVE  /\ stage[s] = "idle"
         /\ stage' \in [Slots -> Stages] /\ call' \in [Slots -> Calls]
         /\ \A o \in Slots : stage'[o] = IF o = s THEN there ELSE stage[o]
         /\ \A o \in Slots \ {s} : call'[o] = call[o]
         /\ call'[s].op = op /\ call'[s].card = c /\ call'[s].col = k
<1> DEFINE new == [op |-> op, card |-> c, col |-> k, ref |-> ref, title |-> t]
<1>1. new \in Calls /\ new.op = op /\ new.card = c /\ new.col = k
  BY DEF Calls
<1>2. call' = [call EXCEPT ![s] = new]
  BY DEF Begin
<1> HIDE DEF new
<1> QED
  BY <1>1, <1>2 DEF IInv, Typed, Begin, Goto

-----------------------------------------------------------------------------
(* Beginnings.                                                             *)

LEMMA CreateReadsStep ==
  ASSUME IInv, NEW s \in Slots, NEW c \in Cards, NEW k \in Columns,
         CreateReads(s, c, k)
  PROVE  IInv'
<1>1. /\ stage[s] = "idle"
      /\ stage' \in [Slots -> Stages] /\ call' \in [Slots -> Calls]
      /\ \A o \in Slots : stage'[o] = IF o = s THEN "write" ELSE stage[o]
      /\ \A o \in Slots \ {s} : call'[o] = call[o]
      /\ call'[s].op = "create" /\ call'[s].card = c /\ call'[s].col = k
  <2>1. Begin(s, "create", c, k, 0, None) /\ Goto(s, "write") /\ 0 \in Positions
    BY PositionAssumption DEF CreateReads
  <2> QED
    BY <2>1, BeginSets DEF CardOps, Stages
<1>2. UNCHANGED placeVars /\ status[c] = "unborn"
  BY DEF CreateReads, cardVars, placeVars
<1>3. Typed' /\ CardsStayOnBoard'
  BY <1>1, <1>2 DEF IInv, Typed, CardsStayOnBoard, Exists, placeVars
<1>4. \A o \in Slots : /\ Creating(o)' => o = s \/ Creating(o)
                       /\ Moving(o)' => o # s /\ Moving(o)
                       /\ Adding(o)' => o # s /\ Adding(o)
  BY <1>1 DEF Creating, Moving, Adding
<1>5. Requests'
  BY <1>1, <1>2, <1>4 DEF IInv, Requests, Exists, placeVars
<1>6. \A o \in Slots : call[o].card # c
  BY DEF CreateReads
<1>7. OneCreator'
  BY <1>1, <1>4, <1>6 DEF IInv, OneCreator
<1> QED
  BY <1>3, <1>5, <1>7 DEF IInv

LEMMA MoveChecksStep ==
  ASSUME IInv, NEW s \in Slots, NEW c \in Cards, NEW k \in Columns, NEW ref \in Refs,
         MoveChecks(s, c, k, ref)
  PROVE  IInv'
<1>1. /\ stage[s] = "idle"
      /\ stage' \in [Slots -> Stages] /\ call' \in [Slots -> Calls]
      /\ \A o \in Slots : stage'[o] = IF o = s THEN "below" ELSE stage[o]
      /\ \A o \in Slots \ {s} : call'[o] = call[o]
      /\ call'[s].op = "move" /\ call'[s].card = c /\ call'[s].col = k
  <2>1. Begin(s, "move", c, k, ref, None) /\ Goto(s, "below") /\ ref \in Positions
    BY PositionAssumption DEF MoveChecks
  <2> QED
    BY <2>1, BeginSets DEF CardOps, Stages
<1>2. UNCHANGED placeVars /\ Exists(c) /\ BoardOf[k] = home[c]
  BY DEF MoveChecks, SameBoard, cardVars, placeVars
<1>3. Typed' /\ CardsStayOnBoard'
  BY <1>1, <1>2 DEF IInv, Typed, CardsStayOnBoard, Exists, placeVars
<1>4. \A o \in Slots : /\ Creating(o)' => o # s /\ Creating(o)
                       /\ Moving(o)' => o = s \/ Moving(o)
                       /\ Adding(o)' => o # s /\ Adding(o)
  BY <1>1 DEF Creating, Moving, Adding
<1>5. Requests'
  BY <1>1, <1>2, <1>4 DEF IInv, Requests, Exists, placeVars
<1>6. OneCreator'
  BY <1>1, <1>4 DEF IInv, OneCreator
<1> QED
  BY <1>3, <1>5, <1>6 DEF IInv

\* Any other request that changes nothing of where cards lie.
LEMMA OtherBegins ==
  ASSUME IInv, NEW s \in Slots, NEW op \in CardOps, op \notin {"create", "move"},
         NEW c \in Cards \cup {None}, NEW k \in Columns \cup {None}, NEW ref \in Positions,
         NEW t \in Titles \cup {None}, NEW there \in Stages,
         Begin(s, op, c, k, ref, t), Goto(s, there),
         op = "createColumn" => k \in Columns, UNCHANGED placeVars
  PROVE  IInv'
<1>1. /\ stage[s] = "idle"
      /\ stage' \in [Slots -> Stages] /\ call' \in [Slots -> Calls]
      /\ \A o \in Slots : stage'[o] = IF o = s THEN there ELSE stage[o]
      /\ \A o \in Slots \ {s} : call'[o] = call[o]
      /\ call'[s].op = op /\ call'[s].col = k
  <2> DEFINE new == [op |-> op, card |-> c, col |-> k, ref |-> ref, title |-> t]
  <2>1. new \in Calls /\ new.op = op /\ new.col = k
    BY DEF Calls
  <2>2. call' = [call EXCEPT ![s] = new]
    BY DEF Begin
  <2> HIDE DEF new
  <2> QED
    BY <2>1, <2>2 DEF IInv, Typed, Begin, Goto
<1>2. Typed' /\ CardsStayOnBoard'
  BY <1>1 DEF IInv, Typed, CardsStayOnBoard, Exists, placeVars
<1>3. \A o \in Slots : /\ Creating(o)' => o # s /\ Creating(o)
                       /\ Moving(o)' => o # s /\ Moving(o)
                       /\ Adding(o)' => Adding(o) \/ o = s
  BY <1>1 DEF Creating, Moving, Adding
<1>4. \A o \in Slots : Adding(o)' => call'[o].col \in Columns
  BY <1>1, <1>3 DEF IInv, Requests, Adding
<1>5. Requests' /\ OneCreator'
  BY <1>1, <1>3, <1>4 DEF IInv, Requests, OneCreator, Exists, placeVars
<1> QED
  BY <1>2, <1>5 DEF IInv

\* A card that goes takes its place with it; nothing is said of it any more.
LEMMA SetStatusStep ==
  ASSUME IInv, NEW s \in Slots, NEW c \in Cards, NEW op \in CardOps,
         SetStatus(s, op, c)
  PROVE  IInv'
<1>1. op \in {"archive", "unarchive", "delete"} /\ Exists(c)
  BY DEF SetStatus
<1>2. /\ stage[s] = "idle"
      /\ stage' \in [Slots -> Stages] /\ call' \in [Slots -> Calls]
      /\ \A o \in Slots \ {s} : stage'[o] = stage[o] /\ call'[o] = call[o]
      /\ call'[s].op = op
  <2>1. PICK there \in {"reload", "notify"} :
            Begin(s, op, c, None, 0, None) /\ Goto(s, there) /\ 0 \in Positions
    BY PositionAssumption DEF SetStatus
  <2> QED
    BY <2>1, BeginSets DEF Stages
<1>3. /\ columns' = columns
      /\ \A d \in Cards : status'[d] = IF d = c THEN StatusAfter(op) ELSE status[d]
      /\ status' \in [Cards -> {"unborn", "shown", "archived", "deleted"}]
      /\ StatusAfter(op) # "unborn"
      /\ op = "delete" => StatusAfter(op) = "deleted"
  BY <1>1 DEF IInv, Typed, SetStatus, StatusAfter
<1>4. /\ home' \in [Cards -> {BoardOf[k] : k \in Columns} \cup {None}]
      /\ column' \in [Cards -> Columns \cup {None}]
      /\ \A d \in Cards : d # c \/ op # "delete" =>
            home'[d] = home[d] /\ column'[d] = column[d]
  BY DEF IInv, Typed, SetStatus, RowsGone
<1>5. Typed'
  BY <1>2, <1>3, <1>4 DEF IInv, Typed
<1>6. \A d \in Cards : Exists(d)' =>
          Exists(d) /\ home'[d] = home[d] /\ column'[d] = column[d]
  BY <1>1, <1>3, <1>4 DEF Exists
<1>7. CardsStayOnBoard'
  BY <1>3, <1>6 DEF IInv, CardsStayOnBoard
<1>8. \A o \in Slots : /\ Creating(o)' => o # s /\ Creating(o)
                       /\ Moving(o)' => o # s /\ Moving(o)
                       /\ Adding(o)' => o # s /\ Adding(o)
  BY <1>1, <1>2 DEF Creating, Moving, Adding
<1>9. \A d \in Cards : (status'[d] = "unborn") = (status[d] = "unborn")
  BY <1>1, <1>3 DEF Exists
<1>10. Requests'
  BY <1>2, <1>6, <1>8, <1>9 DEF IInv, Requests
<1>11. OneCreator'
  BY <1>2, <1>8 DEF IInv, OneCreator
<1> QED
  BY <1>5, <1>7, <1>10, <1>11 DEF IInv

\* The cards of a deleted column go with it.
LEMMA DeleteColumnStep ==
  ASSUME IInv, NEW s \in Slots, NEW k \in Columns, DeleteColumn(s, k)
  PROVE  IInv'
<1> DEFINE S == {c \in Cards : Exists(c) /\ column[c] = k}
<1>1. /\ stage[s] = "idle"
      /\ stage' \in [Slots -> Stages] /\ call' \in [Slots -> Calls]
      /\ \A o \in Slots : stage'[o] = IF o = s THEN "notify" ELSE stage[o]
      /\ \A o \in Slots \ {s} : call'[o] = call[o]
      /\ call'[s].op = "deleteColumn"
  <2>1. Begin(s, "deleteColumn", None, k, 0, None) /\ Goto(s, "notify") /\ 0 \in Positions
    BY PositionAssumption DEF DeleteColumn
  <2> QED
    BY <2>1, BeginSets DEF CardOps, Stages
<1>2. /\ columns' = columns \ {k}
      /\ status' = [c \in Cards |-> IF c \in S THEN "deleted" ELSE status[c]]
      /\ home' = [c \in Cards |-> IF c \in S THEN None ELSE home[c]]
      /\ column' = [c \in Cards |-> IF c \in S THEN None ELSE column[c]]
  BY DEF DeleteColumn, RowsGone
<1>3. Typed'
  BY <1>1, <1>2 DEF IInv, Typed
<1>4. \A d \in Cards : Exists(d)' =>
          Exists(d) /\ home'[d] = home[d] /\ column'[d] = column[d] /\ column[d] # k
  BY <1>2 DEF Exists
<1>5. CardsStayOnBoard'
  BY <1>2, <1>4 DEF IInv, CardsStayOnBoard
<1>6. \A o \in Slots : /\ Creating(o)' => o # s /\ Creating(o)
                       /\ Moving(o)' => o # s /\ Moving(o)
                       /\ Adding(o)' => o # s /\ Adding(o)
  BY <1>1 DEF Creating, Moving, Adding
<1>7. \A d \in Cards : (status'[d] = "unborn") = (status[d] = "unborn")
  BY <1>2 DEF Exists
<1>8. Requests'
  BY <1>1, <1>4, <1>6, <1>7 DEF IInv, Requests
<1>9. OneCreator'
  BY <1>1, <1>6 DEF IInv, OneCreator
<1> QED
  BY <1>3, <1>5, <1>8, <1>9 DEF IInv

-----------------------------------------------------------------------------
(* Writing statements.                                                     *)

LEMMA CreateStep ==
  ASSUME IInv, NEW s \in Slots, Create(s)
  PROVE  IInv'
<1>1. CASE call[s].col \notin columns
  <2>1. Finish(s) /\ UNCHANGED placeVars
    BY <1>1 DEF Create, cardVars, placeVars
  <2> QED
    BY <2>1, FinishKeeps
<1>2. CASE call[s].col \in columns
  <2> DEFINE c == call[s].card
             k == call[s].col
  <2>1. Creating(s)
    BY DEF Create, Creating
  <2>2. c \in Cards /\ k \in Columns /\ status[c] = "unborn"
    BY <2>1 DEF IInv, Requests
  <2>3. /\ status' = [status EXCEPT ![c] = "shown"]
        /\ home' = [home EXCEPT ![c] = BoardOf[k]]
        /\ column' = [column EXCEPT ![c] = k]
        /\ stage' = [stage EXCEPT ![s] = "notify"]
        /\ call' = call /\ columns' = columns
    BY <1>2 DEF Create, Goto
  <2> HIDE DEF c, k
  <2>4. /\ \A o \in Slots : stage'[o] = IF o = s THEN "notify" ELSE stage[o]
        /\ \A d \in Cards \ {c} : /\ status'[d] = status[d] /\ home'[d] = home[d]
                                  /\ column'[d] = column[d]
        /\ status'[c] = "shown" /\ home'[c] = BoardOf[k] /\ column'[c] = k
    BY <2>2, <2>3 DEF IInv, Typed
  <2>5. Typed'
    BY <2>2, <2>3 DEF IInv, Typed, Stages
  <2>6. k \in columns
    BY <1>2 DEF k
  <2>7. CardsStayOnBoard'
    BY <2>2, <2>3, <2>4, <2>6 DEF IInv, CardsStayOnBoard, Exists
  <2>8. \A o \in Slots : /\ Creating(o)' => o # s /\ Creating(o)
                         /\ Moving(o)' => Moving(o) \/ o = s
                         /\ Adding(o)' => Adding(o)
    BY <2>1, <2>3, <2>4 DEF Creating, Moving, Adding
  <2>9. \A o \in Slots : Creating(o)' => call[o].card # c
    BY <2>1, <2>8 DEF IInv, OneCreator, c
  <2>10. \A o \in Slots : Moving(o)' => Moving(o) /\ call[o].card # c
    BY <2>1, <2>2, <2>3, <2>8 DEF IInv, Requests, Creating, Moving
  <2>11. Requests'
    BY <2>3, <2>4, <2>8, <2>9, <2>10 DEF IInv, Requests, Exists
  <2>12. OneCreator'
    BY <2>3, <2>8 DEF IInv, OneCreator
  <2> QED
    BY <2>5, <2>7, <2>11, <2>12 DEF IInv
<1> QED
  BY <1>1, <1>2

LEMMA MoveStep ==
  ASSUME IInv, NEW s \in Slots, Move(s)
  PROVE  IInv'
<1> DEFINE c == call[s].card
           k == call[s].col
<1>1. CASE ~(Exists(c) /\ k \in columns)
  <2>1. Finish(s) /\ UNCHANGED placeVars
    BY <1>1 DEF Move, cardVars, placeVars
  <2> QED
    BY <2>1, FinishKeeps
<1>2. CASE Exists(c) /\ k \in columns
  <2>1. Moving(s)
    BY DEF Move, Moving
  <2>2. c \in Cards /\ k \in Columns /\ BoardOf[k] = home[c]
    BY <1>2, <2>1 DEF IInv, Requests
  <2>3. /\ column' = [column EXCEPT ![c] = k]
        /\ stage' = [stage EXCEPT ![s] = "reload"]
        /\ call' = call /\ columns' = columns /\ status' = status /\ home' = home
    BY <1>2 DEF Move, Goto
  <2> HIDE DEF c, k
  <2>4. /\ \A o \in Slots : stage'[o] = IF o = s THEN "reload" ELSE stage[o]
        /\ \A d \in Cards : column'[d] = IF d = c THEN k ELSE column[d]
    BY <2>2, <2>3 DEF IInv, Typed
  <2>5. Typed'
    BY <2>2, <2>3 DEF IInv, Typed, Stages
  <2>6. CardsStayOnBoard'
    BY <1>2, <2>2, <2>3, <2>4 DEF IInv, CardsStayOnBoard, Exists
  <2>7. stage[s] = "write"
    BY DEF Move
  <2>8. \A o \in Slots : /\ Creating(o)' => Creating(o)
                         /\ Moving(o)' => Moving(o)
                         /\ Adding(o)' => Adding(o)
    BY <2>3, <2>4, <2>7 DEF Creating, Moving, Adding
  <2>9. Requests' /\ OneCreator'
    BY <2>3, <2>8 DEF IInv, Requests, OneCreator, Exists
  <2> QED
    BY <2>5, <2>6, <2>9 DEF IInv
<1> QED
  BY <1>1, <1>2

\* A column more disturbs no card.
LEMMA CreateColumnStep ==
  ASSUME IInv, NEW s \in Slots, CreateColumn(s)
  PROVE  IInv'
<1> DEFINE k == call[s].col
<1>1. k \in Columns
  <2>1. Adding(s)
    BY DEF CreateColumn, Adding
  <2> QED
    BY <2>1 DEF IInv, Requests
<1>2. /\ columns' = columns \cup {k}
      /\ stage' = [stage EXCEPT ![s] = "notify"] /\ stage[s] = "write"
      /\ UNCHANGED <<status, home, column, call>>
  BY DEF CreateColumn, Goto
<1> HIDE DEF k
<1>3. \A o \in Slots : stage'[o] = IF o = s THEN "notify" ELSE stage[o]
  BY <1>2 DEF IInv, Typed
<1>4. Typed' /\ CardsStayOnBoard'
  BY <1>1, <1>2 DEF IInv, Typed, Stages, CardsStayOnBoard, Exists
<1>5. \A o \in Slots : /\ Creating(o)' => Creating(o)
                       /\ Moving(o)' => Moving(o)
                       /\ Adding(o)' => Adding(o)
  BY <1>2, <1>3 DEF Creating, Moving, Adding
<1>6. Requests' /\ OneCreator'
  BY <1>2, <1>5 DEF IInv, Requests, OneCreator, Exists
<1> QED
  BY <1>4, <1>6 DEF IInv

-----------------------------------------------------------------------------
LEMMA Inductive == IInv /\ [Next]_vars => IInv'
<1> SUFFICES ASSUME IInv, [Next]_vars PROVE IInv'
  OBVIOUS
<1>1. CASE UNCHANGED <<placeVars, stage, call>>
  BY <1>1 DEF placeVars, IInv, Typed, Requests, OneCreator, Creating, Moving, Adding,
              CardsStayOnBoard, Exists
<1>2. CASE \E s \in Slots : CardRequest(s)
  <2> PICK s \in Slots : CardRequest(s)
    BY <1>2
  <2>1. ASSUME NEW c \in Cards, NEW k \in Columns, CreateReads(s, c, k) PROVE IInv'
    BY <2>1, CreateReadsStep
  <2>2. ASSUME NEW c \in Cards, NEW k \in Columns, NEW ref \in Refs,
               MoveChecks(s, c, k, ref)
        PROVE  IInv'
    BY <2>2, MoveChecksStep
  <2>3. ASSUME NEW c \in Cards, NEW t \in Titles, UpdateCard(s, c, t) PROVE IInv'
    <3>1. /\ Begin(s, "updateCard", c, None, 0, t) /\ Goto(s, "reload")
          /\ UNCHANGED placeVars
      BY <2>3 DEF UpdateCard, placeVars
    <3>2. "updateCard" \in CardOps /\ "reload" \in Stages /\ 0 \in Positions
      BY PositionAssumption DEF CardOps, Stages
    <3> QED
      BY <3>1, <3>2, OtherBegins
  <2>4. ASSUME NEW c \in Cards, NEW op \in Ops, SetStatus(s, op, c) PROVE IInv'
    BY <2>4, SetStatusStep, PositionAssumption
  <2> QED
    BY <2>1, <2>2, <2>3, <2>4 DEF CardRequest
<1>3. CASE \E s \in Slots : ColumnRequest(s)
  <2> PICK s \in Slots : ColumnRequest(s)
    BY <1>3
  <2>1. ASSUME NEW k \in Columns, CreateColumnReads(s, k) PROVE IInv'
    <3>1. /\ Begin(s, "createColumn", None, k, 0, None) /\ Goto(s, "write")
          /\ UNCHANGED placeVars
      BY <2>1 DEF CreateColumnReads, cardVars, placeVars
    <3>2. "createColumn" \in CardOps /\ "write" \in Stages /\ 0 \in Positions
      BY PositionAssumption DEF CardOps, Stages
    <3> QED
      BY <3>1, <3>2, OtherBegins
  <2>2. ASSUME NEW k \in Columns, NEW ref \in Refs \cup {0},
               NEW t \in Titles \cup {None}, UpdateColumn(s, k, ref, t)
        PROVE  IInv'
    <3>1. /\ Begin(s, "updateColumn", None, k, ref, t) /\ Goto(s, "notify")
          /\ UNCHANGED placeVars
      BY <2>2 DEF UpdateColumn, placeVars
    <3>2. /\ "updateColumn" \in CardOps /\ "notify" \in Stages
          /\ ref \in Positions
      BY PositionAssumption DEF CardOps, Stages
    <3> QED
      BY <3>1, <3>2, OtherBegins
  <2>3. ASSUME NEW k \in Columns, DeleteColumn(s, k) PROVE IInv'
    BY <2>3, DeleteColumnStep
  <2> QED
    BY <2>1, <2>2, <2>3 DEF ColumnRequest
<1>4. CASE \E s \in Slots : \/ ReadBelow(s) \/ ReadAbove(s) \/ Decide(s)
                            \/ SelectOrder(s) \/ RewritePositions(s)
                            \/ Create(s) \/ Move(s) \/ CreateColumn(s)
                            \/ Reload(s) \/ Notify(s) \/ EventLost(s)
                            \/ Abandon(s)
  <2> PICK s \in Slots : \/ ReadBelow(s) \/ ReadAbove(s) \/ Decide(s)
                         \/ SelectOrder(s) \/ RewritePositions(s)
                         \/ Create(s) \/ Move(s) \/ CreateColumn(s)
                         \/ Reload(s) \/ Notify(s) \/ EventLost(s)
                         \/ Abandon(s)
    BY <1>4
  <2>1. CASE ReadBelow(s)
    <3>1. Goto(s, "above") /\ stage[s] = "below" /\ UNCHANGED <<placeVars, call>>
      BY <2>1 DEF ReadBelow, cardVars, placeVars
    <3> QED
      BY <3>1, GotoKeeps DEF Stages
  <2>2. CASE ReadAbove(s)
    <3>1. Goto(s, "decide") /\ stage[s] = "above" /\ UNCHANGED <<placeVars, call>>
      BY <2>2 DEF ReadAbove, cardVars, placeVars
    <3> QED
      BY <3>1, GotoKeeps DEF Stages
  <2>3. CASE Decide(s)
    <3>1. /\ Goto(s, "select") \/ Goto(s, "write")
          /\ stage[s] = "decide" /\ UNCHANGED <<placeVars, call>>
      BY <2>3 DEF Decide, Goto, cardVars, placeVars
    <3> QED
      BY <3>1, GotoKeeps DEF Stages
  <2>4. CASE SelectOrder(s)
    <3>1. Goto(s, "rewrite") /\ stage[s] = "select" /\ UNCHANGED <<placeVars, call>>
      BY <2>4 DEF SelectOrder, cardVars, placeVars
    <3> QED
      BY <3>1, GotoKeeps DEF Stages
  <2>5. CASE RewritePositions(s)
    <3>1. Goto(s, "below") /\ stage[s] = "rewrite" /\ UNCHANGED <<placeVars, call>>
      BY <2>5 DEF RewritePositions, placeVars
    <3> QED
      BY <3>1, GotoKeeps DEF Stages
  <2>6. CASE Create(s)
    BY <2>6, CreateStep
  <2>7. CASE Move(s)
    BY <2>7, MoveStep
  <2>8. CASE CreateColumn(s)
    BY <2>8, CreateColumnStep
  <2>9. CASE Notify(s) \/ EventLost(s) \/ Abandon(s)
    <3>1. Finish(s) /\ UNCHANGED placeVars
      BY <2>9 DEF Notify, EventLost, Abandon, cardVars, placeVars
    <3> QED
      BY <3>1, FinishKeeps
  <2>10. CASE Reload(s)
    <3>1. /\ UNCHANGED placeVars
          /\ Finish(s) \/ (stage[s] = "reload" /\ Goto(s, "notify") /\ call' = call)
      BY <2>10 DEF Reload, cardVars, placeVars
    <3> QED
      BY <3>1, FinishKeeps, GotoKeeps DEF Stages
  <2> QED
    BY <2>1, <2>2, <2>3, <2>4, <2>5, <2>6, <2>7, <2>8, <2>9, <2>10
<1>5. CASE GetBoardDetail
  BY <1>1, <1>5 DEF GetBoardDetail, cardVars, reqVars, placeVars
<1>6. CASE UNCHANGED vars
  BY <1>1, <1>6 DEF vars, cardVars, reqVars, placeVars
<1> QED
  BY <1>2, <1>3, <1>4, <1>5, <1>6 DEF Next, Request

\* However moves, deletions of cards and deletions of columns overlap, no card
\* ends on another board or in a column that is gone (MoveCard checks both three
\* statements before it writes).
THEOREM CardsKeepTheirBoard == Spec => []CardsStayOnBoard
<1>1. IInv => CardsStayOnBoard
  BY DEF IInv
<1> QED
  BY <1>1, IInvInit, Inductive, PTL DEF Spec

-----------------------------------------------------------------------------
(* Highest and lowest positions.                                           *)

\* A set of subsets without its own smallest member cannot exist among finite
\* sets: if some subset of S had no highest number, take a smallest such one.
LEMMA HasHighest ==
  ASSUME NEW S \in SUBSET Int, IsFiniteSet(S), S # {}
  PROVE  \E m \in S : \A n \in S : n <= m
<1> DEFINE Bounded(T) == \E m \in T : \A n \in T : n <= m
           Bad == {T \in SUBSET S : T # {} /\ ~Bounded(T)}
<1> SUFFICES ASSUME S \in Bad PROVE FALSE
  OBVIOUS
<1>1. IsWellFoundedOn(StrictSubsetOrdering(S), SUBSET S)
  BY FS_StrictSubsetOrderingWellFounded, FS_FiniteSubsetsOfFinite
<1>2. Bad \subseteq SUBSET S
  OBVIOUS
<1> HIDE DEF Bad
<1>3. PICK T \in Bad : \A U \in Bad : ~(<<U, T>> \in StrictSubsetOrdering(S))
  BY <1>1, <1>2, WFMin
<1> USE DEF Bad
<1>4. PICK x \in T : TRUE
  OBVIOUS
<1> DEFINE U == T \ {x}
<1>5. <<U, T>> \in StrictSubsetOrdering(S)
  BY <1>4 DEF StrictSubsetOrdering
<1>6. U \notin Bad /\ U \in SUBSET S
  BY <1>3, <1>5
<1>7. CASE U = {}
  <2>1. T = {x}
    BY <1>4, <1>7
  <2> QED
    BY <2>1, <1>4
<1>8. CASE U # {}
  <2>1. PICK m \in U : \A n \in U : n <= m
    BY <1>6, <1>8
  <2>2. CASE x <= m
    BY <1>4, <2>1, <2>2
  <2>3. CASE m < x
    <3>1. \A n \in T : n <= x
      BY <1>4, <2>1, <2>3
    <3> QED
      BY <3>1, <1>4
  <2> QED
    BY <1>4, <2>1, <2>2, <2>3
<1> QED
  BY <1>7, <1>8

LEMMA HasLowest ==
  ASSUME NEW S \in SUBSET Int, IsFiniteSet(S), S # {}
  PROVE  \E m \in S : \A n \in S : m <= n
<1> DEFINE R == {-n : n \in S}
           f == [n \in S |-> -n]
<1>1. f \in Surjection(S, R)
  BY DEF Surjection
<1>2. IsFiniteSet(R)
  BY <1>1, FS_Surjection
<1>3. R \in SUBSET Int /\ R # {}
  OBVIOUS
<1> HIDE DEF R
<1>4. PICK r \in R : \A n \in R : n <= r
  BY <1>2, <1>3, HasHighest
<1>5. PICK m \in S : r = -m
  BY <1>4 DEF R
<1>6. ASSUME NEW n \in S PROVE m <= n
  <2>1. -n \in R
    BY DEF R
  <2> QED
    BY <2>1, <1>4, <1>5
<1> QED
  BY <1>5, <1>6

\* What a query for the last position returns.
LEMMA HighestOf ==
  ASSUME NEW S \in SUBSET Int, IsFiniteSet(S), S # {}
  PROVE  Highest(S) \in S /\ \A n \in S : n <= Highest(S)
BY HasHighest DEF Highest

LEMMA LowestOf ==
  ASSUME NEW S \in SUBSET Int, IsFiniteSet(S), S # {}
  PROVE  Lowest(S) \in S /\ \A n \in S : Lowest(S) <= n
BY HasLowest DEF Lowest

\* The values of a function on a finite set are finitely many.
LEMMA FiniteValues ==
  ASSUME NEW D, NEW f \in [D -> Positions], NEW S \in SUBSET D, IsFiniteSet(S)
  PROVE  LET V == {f[x] : x \in S} IN V \in SUBSET Positions /\ IsFiniteSet(V)
<1> DEFINE V == {f[x] : x \in S}
           g == [x \in S |-> f[x]]
<1>1. g \in Surjection(S, V)
  BY DEF Surjection
<1>2. V \in SUBSET Positions
  OBVIOUS
<1> QED
  BY <1>1, <1>2, FS_Surjection

\* What the queries for the last position and for the neighbours return, from
\* the positions as they are at that moment.
LEMMA ColumnPositions ==
  ASSUME position \in [Cards -> Positions], NEW k
  PROVE  PositionsIn(k) \in SUBSET Positions /\ IsFiniteSet(PositionsIn(k))
<1>1. ShownIn(k) \in SUBSET Cards /\ IsFiniteSet(ShownIn(k))
  BY FiniteAssumption, FS_Subset DEF ShownIn
<1> QED
  BY <1>1, FiniteValues DEF PositionsIn

LEMMA WithZero ==
  ASSUME NEW S \in SUBSET Positions, IsFiniteSet(S)
  PROVE  {0} \cup S \in SUBSET Positions /\ IsFiniteSet({0} \cup S)
<1>1. {0} \cup S = S \cup {0} /\ 0 \in Positions
  BY PositionAssumption
<1> QED
  BY <1>1, FS_AddElement

\* There is a position nearest to n / 2: among those no farther than 0 are only
\* finitely many distances.
LEMMA RoundedNearest ==
  ASSUME NEW n \in Nat
  PROVE  /\ RoundedHalf(n) \in Positions
         /\ \A q \in Positions : Distance(2 * RoundedHalf(n), n) <= Distance(2 * q, n)
<1> DEFINE Near == {Distance(2 * q, n) : q \in Positions} \cap 0..n
<1>1. \A q \in Positions : q \in Nat /\ Distance(2 * q, n) \in Nat
  BY PositionAssumption DEF Distance
<1>2. n \in Near
  <2>1. 0 \in Positions /\ Distance(2 * 0, n) = n
    BY PositionAssumption DEF Distance
  <2> QED
    BY <2>1
<1>3. Near \in SUBSET Int /\ IsFiniteSet(Near) /\ Near # {}
  <2>1. IsFiniteSet(0..n)
    BY FS_Interval
  <2>2. Near \in SUBSET (0..n) /\ 0..n \subseteq Int
    OBVIOUS
  <2> HIDE DEF Near
  <2> QED
    BY <1>2, <2>1, <2>2, FS_Subset
<1> HIDE DEF Near
<1>4. PICK m \in Near : \A d \in Near : m <= d
  BY <1>3, HasLowest
<1>5. PICK p \in Positions : m = Distance(2 * p, n) /\ m \in 0..n
  BY <1>4 DEF Near
<1>6. ASSUME NEW q \in Positions PROVE Distance(2 * p, n) <= Distance(2 * q, n)
  <2>1. CASE Distance(2 * q, n) \in 0..n
    <3>1. Distance(2 * q, n) \in Near
      BY <2>1 DEF Near
    <3> QED
      BY <3>1, <1>4, <1>5
  <2>2. CASE Distance(2 * q, n) \notin 0..n
    BY <1>1, <1>5, <2>2
  <2> QED
    BY <2>1, <2>2
<1>7. \E p_1 \in Positions :
          \A q \in Positions : Distance(2 * p_1, n) <= Distance(2 * q, n)
  BY <1>6
<1> QED
  BY <1>7 DEF RoundedHalf

\* Rounding does not pass a position.
LEMMA RoundedWithin ==
  ASSUME NEW n \in Nat, NEW q \in Positions
  PROVE  /\ 2 * q <= n => q <= RoundedHalf(n)
         /\ n <= 2 * q => RoundedHalf(n) <= q
<1> DEFINE r == RoundedHalf(n)
<1>1. r \in Nat /\ q \in Nat /\ Distance(2 * r, n) <= Distance(2 * q, n)
  BY RoundedNearest, PositionAssumption
<1> HIDE DEF r
<1> QED
  BY <1>1 DEF Distance, r

\* n + 1000 is a position, and not below one that n + 1000 is above.
LEMMA AppendedAbove ==
  ASSUME NEW p \in Positions
  PROVE  /\ Appended(p) \in Positions /\ p <= Appended(p)
         /\ \A q \in Positions : q <= p + Step => q <= Appended(p)
<1>1. /\ Step \in Nat /\ p \in Nat /\ Positions \subseteq Nat
      /\ 2 * (p + Step) \in Nat
  BY PositionAssumption
<1>2. \A q \in Positions : q <= p + Step => 2 * q <= 2 * (p + Step)
  BY <1>1
<1>3. p <= p + Step
  BY <1>1
<1> QED
  BY <1>1, <1>2, <1>3, RoundedNearest, RoundedWithin DEF Appended

LEMMA AppendedPositive ==
  ASSUME NEW p \in Positions
  PROVE  Appended(p) # 0
<1>1. Step \in Positions /\ Step \in Nat \ {0} /\ p \in Nat
  <2>1. 1 \in 1..Cardinality(Cards) + 1
    BY FiniteAssumption, FS_CardinalityType
  <2>2. 1 * Step \in Positions /\ Step \in Nat \ {0} /\ p \in Nat
    BY <2>1, FiniteAssumption, PositionAssumption
  <2> QED
    BY <2>2
<1> QED
  BY <1>1, AppendedAbove, PositionAssumption

LEMMA MidpointTyped ==
  ASSUME NEW b \in Positions, NEW a \in Positions
  PROVE  Between(b, a) \in Positions
<1>1. b + a \in Nat
  BY PositionAssumption
<1> QED
  BY <1>1, RoundedNearest DEF Between

\* A midpoint lies between the two, and next to neither if there is a position
\* between them.
LEMMA MidpointInside ==
  ASSUME NEW b \in Positions, NEW a \in Positions, b <= a
  PROVE  /\ b <= Between(b, a) /\ Between(b, a) <= a
         /\ \A q \in Positions : b < q /\ q < a => b < Between(b, a) /\ Between(b, a) < a
<1> DEFINE m == Between(b, a)
<1>1. /\ b \in Nat /\ a \in Nat /\ b + a \in Nat /\ 2 * b <= b + a /\ b + a <= 2 * a
      /\ m \in Nat
  <2>1. Positions \subseteq Nat /\ m \in Positions
    BY PositionAssumption, MidpointTyped
  <2> HIDE DEF m
  <2>2. b \in Nat /\ a \in Nat /\ m \in Nat
    BY <2>1
  <2> QED
    BY <2>2
<1>2. m = RoundedHalf(b + a)
  BY DEF Between
<1>3. b <= m /\ m <= a
  BY <1>1, <1>2, RoundedWithin
<1>4. ASSUME NEW q \in Positions, b < q, q < a
      PROVE  b < m /\ m < a
  <2>1. q \in Nat /\ Distance(2 * m, b + a) <= Distance(2 * q, b + a)
    BY <1>1, <1>2, RoundedNearest, PositionAssumption
  <2> HIDE DEF m
  <2> QED
    BY <1>1, <1>3, <1>4, <2>1 DEF Distance
<1> QED
  BY <1>3, <1>4

LEMMA LastPosition ==
  ASSUME position \in [Cards -> Positions], NEW k
  PROVE  LET h == Highest({0} \cup PositionsIn(k)) IN
         /\ h \in Positions
         /\ \A c \in ShownIn(k) : position[c] <= h
<1> DEFINE S == {0} \cup PositionsIn(k)
<1>1. S \in SUBSET Positions /\ IsFiniteSet(S) /\ Positions \subseteq Nat
  BY ColumnPositions, WithZero, PositionAssumption
<1>2. \A c \in ShownIn(k) : position[c] \in S
  BY DEF PositionsIn
<1>3. 0 \in S
  OBVIOUS
<1> HIDE DEF S
<1>4. Highest(S) \in S /\ \A n \in S : n <= Highest(S)
  BY <1>1, <1>3, HighestOf
<1> QED
  BY <1>1, <1>2, <1>4 DEF S

LEMMA NeighbourBelow ==
  ASSUME position \in [Cards -> Positions], NEW k, NEW ref \in Positions
  PROVE  LET b == PositionBelow(k, ref) IN
         /\ b \in Positions
         /\ b = 0 \/ (b < ref /\ \E c \in ShownIn(k) : b = position[c])
         /\ \A c \in ShownIn(k) : position[c] < ref => position[c] <= b
<1> DEFINE P == {p \in PositionsIn(k) : p < ref}
           S == {0} \cup P
<1>0. Positions \subseteq Nat
  BY PositionAssumption
<1>1. S \in SUBSET Positions /\ IsFiniteSet(S)
  <2>1. P \in SUBSET Positions /\ IsFiniteSet(P)
    BY ColumnPositions, FS_Subset
  <2> QED
    BY <2>1, WithZero
<1>2. \A c \in ShownIn(k) : position[c] < ref => position[c] \in S
  BY DEF PositionsIn
<1>3. PositionBelow(k, ref) = Highest(S)
  BY DEF PositionBelow
<1>4. \A p \in S : p = 0 \/ (p < ref /\ \E c \in ShownIn(k) : p = position[c])
  BY DEF PositionsIn
<1>5. \A c \in ShownIn(k) : position[c] \in Nat
  BY <1>0 DEF ShownIn
<1>6. 0 \in S
  OBVIOUS
<1> HIDE DEF S
<1>7. Highest(S) \in S /\ \A n \in S : n <= Highest(S)
  BY <1>0, <1>1, <1>6, HighestOf
<1> QED
  BY <1>1, <1>2, <1>3, <1>4, <1>5, <1>7

LEMMA NeighbourAbove ==
  ASSUME position \in [Cards -> Positions], NEW k, NEW ref \in Positions
  PROVE  LET a == PositionAbove(k, ref) IN
         /\ a \in Positions /\ a >= ref
         /\ a = Appended(ref) \/ (a > ref /\ \E c \in ShownIn(k) : a = position[c])
         /\ \A c \in ShownIn(k) : ref < position[c] => a <= position[c]
<1> DEFINE P == {p \in PositionsIn(k) : p > ref}
<1>0. Positions \subseteq Nat
  BY PositionAssumption
<1>1. P \in SUBSET Positions /\ IsFiniteSet(P)
  BY ColumnPositions, FS_Subset
<1>2. \A c \in ShownIn(k) : position[c] \in Nat /\ (ref < position[c] => position[c] \in P)
  <2>1. \A c \in ShownIn(k) : position[c] \in PositionsIn(k) /\ position[c] \in Nat
    BY <1>0 DEF PositionsIn, ShownIn
  <2> QED
    BY <1>0, <2>1
<1>3. PositionAbove(k, ref) = IF P = {} THEN Appended(ref) ELSE Lowest(P)
  BY DEF PositionAbove
<1>4. \A p \in P : p > ref /\ \E c \in ShownIn(k) : p = position[c]
  BY DEF PositionsIn
<1>5. Appended(ref) \in Positions /\ ref <= Appended(ref)
  BY AppendedAbove
<1> HIDE DEF P
<1>6. CASE P = {}
  BY <1>0, <1>2, <1>3, <1>5, <1>6
<1>7. CASE P # {}
  <2>1. Lowest(P) \in P /\ \A n \in P : Lowest(P) <= n
    BY <1>0, <1>1, <1>7, LowestOf
  <2> QED
    BY <1>0, <1>1, <1>2, <1>3, <1>4, <1>7, <2>1
<1> QED
  BY <1>6, <1>7

\* The number of cards, and their places at multiples of Step.
Amount == Cardinality(Cards)

LEMMA StepPlaces ==
  /\ Amount \in Nat
  /\ \A i \in 0..Amount + 1 : i * Step \in Positions
<1>1. Amount \in Nat
  BY FiniteAssumption, FS_CardinalityType DEF Amount
<1>2. \A i \in 1..Amount + 1 : i * Step \in Positions
  BY FiniteAssumption DEF Amount
<1>3. 0 * Step \in Positions
  BY PositionAssumption
<1> QED
  BY <1>1, <1>2, <1>3

\* A new order: SelectOrder numbers the cards it selected.
LEMMA Numbered ==
  ASSUME NEW k, NEW f \in Numberings(ShownIn(k))
  PROVE  /\ f \in [ShownIn(k) -> 1..Amount]
         /\ \A c \in ShownIn(k) : NewPosition(f[c]) \in Positions /\ NewPosition(f[c]) >= Step
<1>1. IsFiniteSet(ShownIn(k)) /\ Cardinality(ShownIn(k)) <= Amount
  BY FiniteAssumption, FS_Subset DEF ShownIn, Amount
<1>2. Cardinality(ShownIn(k)) \in Nat
  BY <1>1, FS_CardinalityType
<1>3. f \in [ShownIn(k) -> 1..Amount]
  BY <1>1, <1>2, StepPlaces DEF Numberings
<1>4. Step \in Nat
  BY PositionAssumption
<1>5. ASSUME NEW i \in 1..Amount PROVE i * Step \in Positions /\ i * Step >= Step
  <2>1. i \in 0..Amount + 1 /\ i \in Nat \ {0}
    BY StepPlaces
  <2>2. PICK n \in Nat : i = n + 1
    BY <2>1
  <2>3. n * Step \in Nat /\ i * Step = n * Step + Step
    BY <1>4, <2>2
  <2> QED
    BY <1>4, <2>1, <2>3, StepPlaces
<1> QED
  BY <1>3, <1>5 DEF NewPosition

-----------------------------------------------------------------------------
(* Types.                                                                  *)

ColumnOps == {"createColumn", "updateColumn", "deleteColumn"}

ReloadOps == {"move", "updateCard", "unarchive"}

\* What a request under way is about exists as an identity.
Targets ==
    \A s \in Slots : stage[s] # "idle" =>
        /\ stage[s] = "reload" => call[s].op \in ReloadOps
        /\ call[s].op \in CardOps
        /\ IF call[s].op \in ColumnOps THEN call[s].col \in Columns
                                       ELSE call[s].card \in Cards

RowsTyped ==
    /\ position \in [Cards -> Positions] /\ order \in [Columns -> Positions]
    /\ title \in [Cards \cup Columns -> Titles \cup {None}]

ReadTyped ==
    /\ below \in [Slots -> Positions] /\ above \in [Slots -> Positions]
    /\ rebalanced \in [Slots -> BOOLEAN]
    /\ plan \in [Slots -> [Cards -> Positions]]
    /\ loaded \in [Slots -> Places]
    /\ under \in [Slots -> [below : SUBSET Cards, above : SUBSET Cards]]
    /\ disturbed \subseteq Slots

ClientTyped ==
    /\ view \in [Cards -> Places]
    /\ columnView \in [Columns -> [pos : Positions, title : Titles \cup {None}]]
    /\ silent \subseteq Cards /\ lost \subseteq Cards \cup Columns
    /\ crossed \subseteq Cards \cup Columns

TInv == /\ IInv /\ Targets
        /\ RowsTyped /\ ReadTyped /\ ClientTyped
        /\ requests \in 0..MaxRequests

\* Every step, by what it is.
LEMMA Steps ==
  ASSUME [Next]_vars
  PROVE  \/ \E s \in Slots, c \in Cards, k \in Columns : CreateReads(s, c, k)
         \/ \E s \in Slots, c \in Cards, k \in Columns, ref \in Refs : MoveChecks(s, c, k, ref)
         \/ \E s \in Slots, c \in Cards, t \in Titles : UpdateCard(s, c, t)
         \/ \E s \in Slots, op \in Ops, c \in Cards : SetStatus(s, op, c)
         \/ \E s \in Slots, k \in Columns : CreateColumnReads(s, k)
         \/ \E s \in Slots, k \in Columns, ref \in Refs \cup {0}, t \in Titles \cup {None} :
                UpdateColumn(s, k, ref, t)
         \/ \E s \in Slots, k \in Columns : DeleteColumn(s, k)
         \/ \E s \in Slots : \/ ReadBelow(s) \/ ReadAbove(s) \/ Decide(s)
                             \/ SelectOrder(s) \/ RewritePositions(s)
                             \/ Create(s) \/ Move(s) \/ CreateColumn(s)
                             \/ Reload(s) \/ Notify(s) \/ EventLost(s) \/ Abandon(s)
         \/ GetBoardDetail
         \/ UNCHANGED vars
BY DEF Next, Request, CardRequest, ColumnRequest

\* What a request under way is about, after it began, went on or ended.
LEMMA TargetsFollow ==
  ASSUME TInv, NEW s \in Slots,
         \A o \in Slots \ {s} : stage'[o] = stage[o] /\ call'[o] = call[o],
         stage'[s] # "idle" =>
            /\ stage'[s] = "reload" => call'[s].op \in ReloadOps
            /\ call'[s].op \in CardOps
            /\ IF call'[s].op \in ColumnOps THEN call'[s].col \in Columns
                                            ELSE call'[s].card \in Cards
  PROVE  Targets'
BY DEF TInv, Targets

LEMMA TargetsBegun ==
  ASSUME TInv, NEW s \in Slots, NEW op \in CardOps, NEW c \in Cards \cup {None},
         NEW k \in Columns \cup {None}, NEW ref \in Positions,
         NEW t \in Titles \cup {None}, NEW there \in Stages,
         Begin(s, op, c, k, ref, t), Goto(s, there),
         there = "reload" => op \in ReloadOps,
         IF op \in ColumnOps THEN k \in Columns ELSE c \in Cards
  PROVE  Targets'
<1>1. /\ \A o \in Slots : stage'[o] = IF o = s THEN there ELSE stage[o]
      /\ \A o \in Slots \ {s} : call'[o] = call[o]
      /\ call'[s].op = op /\ call'[s].card = c /\ call'[s].col = k
  BY BeginSets DEF TInv
<1> QED
  BY <1>1, TargetsFollow

LEMMA TargetsStep == TInv /\ [Next]_vars => Targets'
<1> SUFFICES ASSUME TInv, [Next]_vars PROVE Targets'
  OBVIOUS
<1> USE DEF CardOps, ColumnOps, ReloadOps, Stages
<1>1. ASSUME NEW s \in Slots, NEW c \in Cards, NEW k \in Columns, CreateReads(s, c, k)
      PROVE  Targets'
  <2>1. Begin(s, "create", c, k, 0, None) /\ Goto(s, "write") /\ 0 \in Positions
    BY <1>1, PositionAssumption DEF CreateReads
  <2> QED
    BY <2>1, TargetsBegun
<1>2. ASSUME NEW s \in Slots, NEW c \in Cards, NEW k \in Columns, NEW ref \in Refs,
             MoveChecks(s, c, k, ref)
      PROVE  Targets'
  <2>1. Begin(s, "move", c, k, ref, None) /\ Goto(s, "below") /\ ref \in Positions
    BY <1>2, PositionAssumption DEF MoveChecks
  <2> QED
    BY <2>1, TargetsBegun
<1>3. ASSUME NEW s \in Slots, NEW c \in Cards, NEW t \in Titles, UpdateCard(s, c, t)
      PROVE  Targets'
  <2>1. Begin(s, "updateCard", c, None, 0, t) /\ Goto(s, "reload") /\ 0 \in Positions
    BY <1>3, PositionAssumption DEF UpdateCard
  <2> QED
    BY <2>1, TargetsBegun
<1>4. ASSUME NEW s \in Slots, NEW op \in Ops, NEW c \in Cards, SetStatus(s, op, c)
      PROVE  Targets'
  <2>1. PICK there \in {"reload", "notify"} :
            /\ Begin(s, op, c, None, 0, None) /\ Goto(s, there) /\ 0 \in Positions
            /\ op \in {"archive", "unarchive", "delete"}
            /\ there = "reload" => op = "unarchive"
    BY <1>4, PositionAssumption DEF SetStatus
  <2> QED
    BY <2>1, TargetsBegun
<1>5. ASSUME NEW s \in Slots, NEW k \in Columns, CreateColumnReads(s, k)
      PROVE  Targets'
  <2>1. Begin(s, "createColumn", None, k, 0, None) /\ Goto(s, "write") /\ 0 \in Positions
    BY <1>5, PositionAssumption DEF CreateColumnReads
  <2> QED
    BY <2>1, TargetsBegun
<1>6. ASSUME NEW s \in Slots, NEW k \in Columns, NEW ref \in Refs \cup {0},
             NEW t \in Titles \cup {None}, UpdateColumn(s, k, ref, t)
      PROVE  Targets'
  <2>1. Begin(s, "updateColumn", None, k, ref, t) /\ Goto(s, "notify") /\ ref \in Positions
    BY <1>6, PositionAssumption DEF UpdateColumn
  <2> QED
    BY <2>1, TargetsBegun
<1>7. ASSUME NEW s \in Slots, NEW k \in Columns, DeleteColumn(s, k)
      PROVE  Targets'
  <2>1. Begin(s, "deleteColumn", None, k, 0, None) /\ Goto(s, "notify") /\ 0 \in Positions
    BY <1>7, PositionAssumption DEF DeleteColumn
  <2> QED
    BY <2>1, TargetsBegun
<1>8. ASSUME NEW s \in Slots, NEW there \in Stages, Goto(s, there), stage[s] # "idle",
             there = "reload" => call[s].op = "move", call' = call
      PROVE  Targets'
  BY <1>8, TargetsFollow DEF TInv, IInv, Typed, Targets, Goto
<1>9. ASSUME NEW s \in Slots, Finish(s)
      PROVE  Targets'
  BY <1>9, TargetsFollow DEF TInv, IInv, Typed, Finish, Goto
<1>10. ASSUME NEW s \in Slots,
              \/ ReadBelow(s) \/ ReadAbove(s) \/ Decide(s) \/ SelectOrder(s)
              \/ RewritePositions(s) \/ Create(s) \/ Move(s) \/ CreateColumn(s)
              \/ Reload(s) \/ Notify(s) \/ EventLost(s) \/ Abandon(s)
       PROVE  Targets'
  <2>1. \/ /\ \E there \in Stages :
                  Goto(s, there) /\ (there = "reload" => call[s].op = "move")
           /\ stage[s] # "idle" /\ call' = call
        \/ Finish(s)
    BY <1>10 DEF ReadBelow, ReadAbove, Decide, SelectOrder, RewritePositions, Create,
                 Move, CreateColumn, Reload, Notify, EventLost, Abandon, Unpublished
  <2> QED
    BY <2>1, <1>8, <1>9
<1>11. ASSUME UNCHANGED reqVars PROVE Targets'
  BY <1>11 DEF TInv, Targets, reqVars
<1> QED
  BY <1>1, <1>2, <1>3, <1>4, <1>5, <1>6, <1>7, <1>10, <1>11, Steps
     DEF GetBoardDetail, vars

\* A row is written with numbers and titles.
LEMMA RowsTypedStep == TInv /\ [Next]_vars => RowsTyped'
<1> SUFFICES ASSUME TInv, [Next]_vars PROVE RowsTyped'
  OBVIOUS
<1>0. /\ position \in [Cards -> Positions] /\ order \in [Columns -> Positions]
      /\ title \in [Cards \cup Columns -> Titles \cup {None}]
      /\ below \in [Slots -> Positions] /\ above \in [Slots -> Positions]
      /\ plan \in [Slots -> [Cards -> Positions]]
  BY DEF TInv, RowsTyped, ReadTyped
<1>1. CASE UNCHANGED <<position, order, title>>
  BY <1>0, <1>1 DEF RowsTyped
<1>2. ASSUME NEW s \in Slots, NEW c \in Cards, NEW t \in Titles, UpdateCard(s, c, t)
      PROVE  RowsTyped'
  BY <1>0, <1>2 DEF UpdateCard, RowsTyped
<1>3. ASSUME NEW s \in Slots, NEW op \in Ops, NEW c \in Cards, SetStatus(s, op, c)
      PROVE  RowsTyped'
  BY <1>0, <1>3, PositionAssumption DEF SetStatus, RowsGone, RowsTyped
<1>4. ASSUME NEW s \in Slots, NEW k \in Columns, NEW ref \in Refs \cup {0},
             NEW t \in Titles \cup {None}, UpdateColumn(s, k, ref, t)
      PROVE  RowsTyped'
  <2>1. ref \in Positions
    BY PositionAssumption
  <2> QED
    BY <1>0, <1>4, <2>1 DEF UpdateColumn, RowsTyped
<1>5. ASSUME NEW s \in Slots, NEW k \in Columns, DeleteColumn(s, k)
      PROVE  RowsTyped'
  BY <1>0, <1>5, PositionAssumption DEF DeleteColumn, RowsGone, RowsTyped
<1>6. ASSUME NEW s \in Slots, RewritePositions(s) PROVE RowsTyped'
  BY <1>0, <1>6 DEF RewritePositions, RowsTyped
<1>7. ASSUME NEW s \in Slots, Create(s) PROVE RowsTyped'
  <2>1. Appended(below[s]) \in Positions
    BY <1>0, AppendedAbove
  <2> QED
    BY <1>0, <1>1, <1>7, <2>1 DEF Create, cardVars, RowsTyped
<1>8. ASSUME NEW s \in Slots, Move(s) PROVE RowsTyped'
  <2>1. Between(below[s], above[s]) \in Positions
    BY <1>0, MidpointTyped
  <2> QED
    BY <1>0, <1>1, <1>8, <2>1 DEF Move, cardVars, RowsTyped
<1>9. ASSUME NEW s \in Slots, CreateColumn(s) PROVE RowsTyped'
  <2>1. Appended(below[s]) \in Positions
    BY <1>0, AppendedAbove
  <2> QED
    BY <1>0, <1>9, <2>1 DEF CreateColumn, RowsTyped
<1> QED
  BY <1>1, <1>2, <1>3, <1>4, <1>5, <1>6, <1>7, <1>8, <1>9, Steps
     DEF CreateReads, MoveChecks, CreateColumnReads, ReadBelow, ReadAbove, Decide,
         SelectOrder, Reload, Notify, EventLost, Abandon, GetBoardDetail, vars, cardVars

\* A request reads positions and sets of cards, and plans positions.
LEMMA ReadTypedStep == TInv /\ [Next]_vars => ReadTyped' /\ requests' \in 0..MaxRequests
<1> DEFINE Goal == ReadTyped' /\ requests' \in 0..MaxRequests
<1> SUFFICES ASSUME TInv, [Next]_vars PROVE Goal
  OBVIOUS
<1>0. /\ below \in [Slots -> Positions] /\ above \in [Slots -> Positions]
      /\ rebalanced \in [Slots -> BOOLEAN]
      /\ plan \in [Slots -> [Cards -> Positions]]
      /\ loaded \in [Slots -> Places]
      /\ under \in [Slots -> [below : SUBSET Cards, above : SUBSET Cards]]
      /\ disturbed' \subseteq Slots
      /\ requests \in 0..MaxRequests /\ MaxRequests \in Nat
      /\ position \in [Cards -> Positions] /\ order \in [Columns -> Positions]
      /\ columns \subseteq Columns
      /\ call \in [Slots -> Calls]
  <2>1. disturbed' \subseteq Slots
    BY DEF TInv, ReadTyped, Next, Disturb, GetBoardDetail, vars
  <2> QED
    BY <2>1, PositionAssumption DEF TInv, RowsTyped, ReadTyped, IInv, Typed
<1>1. CASE UNCHANGED <<requests, below, above, rebalanced, plan, loaded, under>>
  BY <1>0, <1>1 DEF ReadTyped
<1>2. ASSUME NEW s \in Slots, NEW c \in Cards, NEW k \in Columns, CreateReads(s, c, k)
      PROVE  Goal
  <2> DEFINE h == Highest({0} \cup PositionsIn(k))
  <2>1. h \in Positions
    BY <1>0, LastPosition
  <2>2. /\ below' = [below EXCEPT ![s] = h]
        /\ UNCHANGED <<above, rebalanced, plan, loaded, under>>
        /\ requests < MaxRequests /\ requests' = requests + 1
    BY <1>2 DEF CreateReads, Begin
  <2> HIDE DEF h
  <2> QED
    BY <1>0, <2>1, <2>2 DEF ReadTyped
<1>3. ASSUME NEW s \in Slots, NEW c \in Cards, NEW k \in Columns, NEW ref \in Refs,
             MoveChecks(s, c, k, ref)
      PROVE  Goal
  <2> DEFINE lo == {d \in ShownIn(k) \ {c} : position[d] < ref}
             hi == {d \in ShownIn(k) \ {c} : position[d] > ref}
  <2>1. lo \in SUBSET Cards /\ hi \in SUBSET Cards
    BY DEF ShownIn
  <2>2. /\ under' = [under EXCEPT ![s] = [below |-> lo, above |-> hi]]
        /\ UNCHANGED <<below, above, rebalanced, plan, loaded>>
        /\ requests < MaxRequests /\ requests' = requests + 1
    BY <1>3 DEF MoveChecks, Begin
  <2> HIDE DEF lo, hi
  <2> QED
    BY <1>0, <2>1, <2>2 DEF ReadTyped
<1>4. ASSUME NEW s \in Slots, NEW op, NEW c, NEW k, NEW ref, NEW t,
             Begin(s, op, c, k, ref, t),
             UNCHANGED <<below, above, rebalanced, plan, loaded, under>>
      PROVE  Goal
  BY <1>0, <1>4 DEF Begin, ReadTyped
<1>5. ASSUME NEW s \in Slots, NEW k \in Columns, CreateColumnReads(s, k)
      PROVE  Goal
  <2> DEFINE J == {i \in columns : BoardOf[i] = BoardOf[k]}
             V == {order[j] : j \in J}
             h == Highest({0} \cup V)
  <2>1. /\ below' = [below EXCEPT ![s] = h]
        /\ Begin(s, "createColumn", None, k, 0, None)
        /\ UNCHANGED <<above, rebalanced, plan, loaded, under>>
    BY <1>5 DEF CreateColumnReads
  <2>2. J \in SUBSET Columns /\ IsFiniteSet(J)
    BY <1>0, FiniteAssumption, FS_Subset
  <2> HIDE DEF J
  <2>3. V \in SUBSET Positions /\ IsFiniteSet(V)
    BY <1>0, <2>2, FiniteValues
  <2> HIDE DEF V
  <2>4. h \in Positions
    <3> DEFINE Z == {0} \cup V
    <3>1. Z \in SUBSET Positions /\ IsFiniteSet(Z) /\ Z # {} /\ Positions \subseteq Nat
      BY <2>3, WithZero, PositionAssumption
    <3> HIDE DEF Z
    <3>2. Highest(Z) \in Z
      BY <3>1, HighestOf
    <3> QED
      BY <3>1, <3>2 DEF Z
  <2> HIDE DEF h
  <2> QED
    BY <1>0, <2>1, <2>4 DEF Begin, ReadTyped
<1>6. ASSUME NEW s \in Slots, Finish(s) PROVE Goal
  <2>1. /\ NoPlan \in [Cards -> Positions] /\ Hidden \in Places /\ 0 \in Positions
        /\ NoUnder \in [below : SUBSET Cards, above : SUBSET Cards]
    BY PositionAssumption DEF NoPlan, NoUnder, Hidden, Places
  <2> QED
    BY <1>0, <1>6, <2>1 DEF Finish, ReadTyped
<1>7. ASSUME NEW s \in Slots, ReadBelow(s) PROVE Goal
  <2>1. PositionBelow(call[s].col, call[s].ref) \in Positions
    BY <1>0, NeighbourBelow DEF Calls
  <2> QED
    BY <1>0, <1>7, <2>1 DEF ReadBelow, ReadTyped
<1>8. ASSUME NEW s \in Slots, ReadAbove(s) PROVE Goal
  <2>1. PositionAbove(call[s].col, call[s].ref) \in Positions
    BY <1>0, NeighbourAbove DEF Calls
  <2> QED
    BY <1>0, <1>8, <2>1 DEF ReadAbove, ReadTyped
<1>9. ASSUME NEW s \in Slots, SelectOrder(s) PROVE Goal
  <2> DEFINE S == ShownIn(call[s].col)
  <2>1. PICK f \in Numberings(S) :
            plan' = [plan EXCEPT ![s] =
                       [c \in Cards |-> IF c \in S THEN NewPosition(f[c]) ELSE 0]]
    BY <1>9 DEF SelectOrder
  <2> DEFINE p == [c \in Cards |-> IF c \in S THEN NewPosition(f[c]) ELSE 0]
  <2>2. p \in [Cards -> Positions]
    BY <2>1, Numbered, PositionAssumption
  <2>3. plan' = [plan EXCEPT ![s] = p]
    BY <2>1
  <2>4. UNCHANGED <<requests, below, above, rebalanced, loaded, under>>
    BY <1>9 DEF SelectOrder
  <2> HIDE DEF p
  <2> QED
    BY <1>0, <2>2, <2>3, <2>4 DEF ReadTyped
<1>10. ASSUME NEW s \in Slots, RewritePositions(s) PROVE Goal
  <2>1. NoPlan \in [Cards -> Positions]
    BY PositionAssumption DEF NoPlan
  <2> QED
    BY <1>0, <1>10, <2>1 DEF RewritePositions, ReadTyped
<1>11. CASE \E s \in Slots : \/ Create(s) \/ Move(s) \/ CreateColumn(s) \/ Notify(s)
                             \/ EventLost(s) \/ Abandon(s) \/ Decide(s)
  BY <1>1, <1>6, <1>11 DEF Create, Move, CreateColumn, Notify, EventLost, Abandon, Decide
<1>12. CASE \/ \E s \in Slots, c \in Cards, t \in Titles : UpdateCard(s, c, t)
            \/ \E s \in Slots, op \in Ops, c \in Cards : SetStatus(s, op, c)
            \/ \E s \in Slots, k \in Columns, ref \in Refs \cup {0}, t \in Titles \cup {None} :
                   UpdateColumn(s, k, ref, t)
            \/ \E s \in Slots, k \in Columns : DeleteColumn(s, k)
  BY <1>4, <1>12 DEF UpdateCard, SetStatus, UpdateColumn, DeleteColumn
<1>13. CASE GetBoardDetail \/ UNCHANGED vars
  BY <1>1, <1>13 DEF GetBoardDetail, reqVars, vars
<1>14. ASSUME NEW s \in Slots, Reload(s) PROVE Goal
  <2>1. CASE Finish(s)
    BY <1>6, <2>1
  <2>2. CASE /\ UNCHANGED <<requests, below, above, rebalanced, plan, under>>
             /\ loaded' = loaded \/ loaded' = [loaded EXCEPT ![s] = Row(call[s].card)]
             /\ Exists(call[s].card)
    <3>1. call[s].card \in Cards
      BY <1>14 DEF TInv, Targets, Reload, ReloadOps, ColumnOps
    <3>2. Row(call[s].card) \in Places
      BY <3>1 DEF Row, TInv, IInv, Typed, RowsTyped, Places
    <3> QED
      BY <1>0, <2>2, <3>2 DEF ReadTyped
  <2> QED
    BY <1>14, <2>1, <2>2 DEF Reload
<1> HIDE DEF Goal
<1> QED
  BY <1>2, <1>3, <1>5, <1>7, <1>8, <1>9, <1>10, <1>11, <1>12, <1>13, <1>14, Steps

\* The client shows places, and the ghosts name cards and columns.
LEMMA ViewsTyped ==
  ASSUME TInv, NEW s \in Slots, stage[s] # "idle"
  PROVE  /\ CardsAfter(s) \in [Cards -> Places]
         /\ ColumnsAfter(s) \in [Columns -> [pos : Positions, title : Titles \cup {None}]]
<1> DEFINE c == call[s].card
           k == call[s].col
           new == [col |-> k, pos |-> Appended(below[s]), title |-> None]
           moved == [view[c] EXCEPT !.col = k, !.pos = MovedTo(s)]
<1>1. /\ call[s] \in Calls
      /\ Appended(below[s]) \in Positions /\ 0 \in Positions
      /\ MovedTo(s) \in Positions
      /\ loaded[s] \in Places
      /\ view \in [Cards -> Places]
      /\ columnView \in [Columns -> [pos : Positions, title : Titles \cup {None}]]
  <2>1. below[s] \in Positions /\ above[s] \in Positions /\ loaded[s] \in Places
    BY DEF TInv, ReadTyped
  <2>2. MovedTo(s) \in Positions
    BY <2>1, MidpointTyped DEF MovedTo
  <2>3. Appended(below[s]) \in Positions
    BY <2>1, AppendedAbove
  <2> QED
    BY <2>1, <2>2, <2>3, PositionAssumption DEF TInv, IInv, Typed, ClientTyped
<1>2. /\ k \in Columns \cup {None} /\ c \in Cards \cup {None}
      /\ call[s].title \in Titles \cup {None} /\ call[s].ref \in Positions
  BY <1>1 DEF Calls
<1>3. /\ call[s].op \in ColumnOps => k \in Columns
      /\ call[s].op \notin ColumnOps => c \in Cards
  BY DEF TInv, Targets
<1>4. Hidden \in Places /\ new \in Places
  BY <1>1, <1>2 DEF Hidden, Places
<1>5. c \in Cards => moved \in Places /\ [view[c] EXCEPT !.title = call[s].title] \in Places
  BY <1>1, <1>2 DEF Places
<1>7. /\ [view EXCEPT ![c] = new] \in [Cards -> Places]
      /\ [view EXCEPT ![c] = moved] \in [Cards -> Places]
      /\ [view EXCEPT ![c].title = call[s].title] \in [Cards -> Places]
      /\ [view EXCEPT ![c] = loaded[s]] \in [Cards -> Places]
      /\ [view EXCEPT ![c] = Hidden] \in [Cards -> Places]
      /\ [d \in Cards |-> IF view[d].col = k THEN Hidden ELSE view[d]] \in [Cards -> Places]
  <2> HIDE DEF c, k, new, moved
  <2> QED
    BY <1>1, <1>4, <1>5
<1>8. CardsAfter(s) \in [Cards -> Places]
  <2>1. \/ CardsAfter(s) = [view EXCEPT ![c] = new]
        \/ CardsAfter(s) = [view EXCEPT ![c] = moved]
        \/ CardsAfter(s) = [view EXCEPT ![c].title = call[s].title]
        \/ CardsAfter(s) = [view EXCEPT ![c] = loaded[s]]
        \/ CardsAfter(s) = [view EXCEPT ![c] = Hidden]
        \/ CardsAfter(s) = [d \in Cards |-> IF view[d].col = k THEN Hidden ELSE view[d]]
        \/ CardsAfter(s) = view
    BY DEF CardsAfter
  <2> HIDE DEF c, k, new, moved
  <2> QED
    BY <1>1, <1>7, <2>1
<1>9. ColumnsAfter(s) \in [Columns -> [pos : Positions, title : Titles \cup {None}]]
  <2> DEFINE added == [pos |-> Appended(below[s]), title |-> None]
             changed == [pos   |-> IF call[s].ref # 0 THEN call[s].ref ELSE columnView[k].pos,
                         title |-> IF call[s].title # None THEN call[s].title
                                                           ELSE columnView[k].title]
             R == [pos : Positions, title : Titles \cup {None}]
  <2>1. added \in R /\ NoColumn \in R /\ (k \in Columns => changed \in R)
    BY <1>1, <1>2 DEF NoColumn
  <2>2. \/ ColumnsAfter(s) = [columnView EXCEPT ![k] = added]
        \/ ColumnsAfter(s) = [columnView EXCEPT ![k] = changed]
        \/ ColumnsAfter(s) = [columnView EXCEPT ![k] = NoColumn]
        \/ ColumnsAfter(s) = columnView
    BY DEF ColumnsAfter
  <2> HIDE DEF added, changed, k, R
  <2> QED
    BY <1>1, <2>1, <2>2 DEF R
<1> QED
  BY <1>8, <1>9

LEMMA ClientTypedStep == TInv /\ [Next]_vars => ClientTyped'
<1> SUFFICES ASSUME TInv, [Next]_vars PROVE ClientTyped'
  OBVIOUS
<1>0. /\ view \in [Cards -> Places]
      /\ columnView \in [Columns -> [pos : Positions, title : Titles \cup {None}]]
      /\ silent \subseteq Cards /\ lost \subseteq Cards \cup Columns
      /\ crossed \subseteq Cards \cup Columns
  BY DEF TInv, ClientTyped
<1>1. CASE UNCHANGED clientVars
  BY <1>0, <1>1 DEF clientVars, ClientTyped
<1>2. \A s \in Slots : stage[s] # "idle" =>
          /\ About(s) \subseteq Cards \cup Columns /\ Subject(s) \in Cards \cup Columns
  BY DEF TInv, Targets, About, Subject, ColumnOps, IInv, Typed, Calls
<1>3. ASSUME NEW s \in Slots, stage[s] # "idle", Crosses(s)
      PROVE  crossed' \subseteq Cards \cup Columns
  <2>1. \A t : About(s) \cap About(t) \subseteq Cards \cup Columns
    BY <1>2, <1>3
  <2> QED
    BY <1>0, <1>3, <2>1 DEF Crosses
<1>4. ASSUME NEW s \in Slots, Notify(s) PROVE ClientTyped'
  <2>1. stage[s] = "notify" /\ Crosses(s)
    BY <1>4 DEF Notify
  <2>2. /\ view' = CardsAfter(s) /\ columnView' = ColumnsAfter(s)
        /\ silent' = silent /\ lost' \subseteq lost
    BY <1>4 DEF Notify
  <2> QED
    BY <1>0, <1>3, <2>1, <2>2, ViewsTyped DEF ClientTyped
<1>5. ASSUME NEW s \in Slots, EventLost(s) PROVE ClientTyped'
  <2>1. stage[s] # "idle" /\ Crosses(s)
    BY <1>5 DEF EventLost, Unpublished
  <2>2. /\ lost' \subseteq lost \cup {Subject(s)} \cup Cards
        /\ UNCHANGED <<view, columnView, silent>>
    BY <1>5 DEF EventLost
  <2>3. lost' \subseteq Cards \cup Columns
    BY <1>0, <1>2, <2>1, <2>2
  <2> QED
    BY <1>0, <1>3, <2>1, <2>2, <2>3 DEF ClientTyped
<1>6. CASE GetBoardDetail
  <2>1. \A c \in Cards : Actual(c) \in Places
    BY PositionAssumption DEF Actual, Row, Hidden, Places, TInv, IInv, Typed, RowsTyped
  <2>2. \A k \in Columns : ActualColumn(k) \in [pos : Positions, title : Titles \cup {None}]
    BY PositionAssumption DEF ActualColumn, NoColumn, TInv, IInv, Typed, RowsTyped
  <2> QED
    BY <1>0, <1>6, <2>1, <2>2 DEF GetBoardDetail, ClientTyped
<1>7. ASSUME NEW s \in Slots, RewritePositions(s) PROVE ClientTyped'
  BY <1>0, <1>7 DEF RewritePositions, ClientTyped
<1>8. ASSUME NEW s \in Slots, Move(s) PROVE ClientTyped'
  BY <1>0, <1>8 DEF Move, ClientTyped
<1>9. CASE \/ \E s \in Slots, c \in Cards, k \in Columns : CreateReads(s, c, k)
           \/ \E s \in Slots, c \in Cards, k \in Columns, ref \in Refs : MoveChecks(s, c, k, ref)
           \/ \E s \in Slots, c \in Cards, t \in Titles : UpdateCard(s, c, t)
           \/ \E s \in Slots, k \in Columns : CreateColumnReads(s, k)
           \/ \E s \in Slots, k \in Columns, ref \in Refs \cup {0}, t \in Titles \cup {None} :
                  UpdateColumn(s, k, ref, t)
           \/ \E s \in Slots, k \in Columns : DeleteColumn(s, k)
  <2>1. UNCHANGED clientVars
    BY <1>9 DEF CreateReads, MoveChecks, UpdateCard, CreateColumnReads, UpdateColumn,
                DeleteColumn
  <2> QED
    BY <2>1, <1>1
<1>10. CASE \E s \in Slots : \/ ReadBelow(s) \/ ReadAbove(s) \/ Decide(s) \/ SelectOrder(s)
                             \/ Create(s) \/ CreateColumn(s) \/ Abandon(s)
  <2>1. UNCHANGED clientVars
    BY <1>10 DEF ReadBelow, ReadAbove, Decide, SelectOrder, Create, CreateColumn, Abandon
  <2> QED
    BY <2>1, <1>1
<1>11. ASSUME NEW s \in Slots, NEW op \in Ops, NEW c \in Cards, SetStatus(s, op, c)
       PROVE  ClientTyped'
  BY <1>0, <1>11 DEF SetStatus, ClientTyped
<1>12. ASSUME NEW s \in Slots, Reload(s) PROVE ClientTyped'
  <2>1. stage[s] # "idle"
    BY <1>12 DEF Reload
  <2>2. /\ silent' \subseteq silent /\ UNCHANGED <<view, columnView, lost>>
        /\ crossed' = crossed \/ Crosses(s)
    BY <1>12 DEF Reload
  <2> QED
    BY <1>0, <1>3, <2>1, <2>2 DEF ClientTyped
<1>13. UNCHANGED vars => ClientTyped'
  BY <1>1 DEF vars
<1> QED
  BY <1>4, <1>5, <1>6, <1>7, <1>8, <1>9, <1>10, <1>11, <1>12, <1>13, Steps

LEMMA TInvInit == Init => TInv
<1> HAVE Init
<1>1. IInv
  BY IInvInit
<1>2. Targets /\ requests \in 0..MaxRequests
  BY PositionAssumption DEF Init, Targets
<1>3. 0 \in Positions
  BY PositionAssumption
<1>6. order \in [Columns -> Positions]
  <2>1. order \in [Columns -> {0} \cup {i * Step : i \in 1..Cardinality(FirstColumns)}]
    BY DEF Init
  <2>2. {0} \cup {i * Step : i \in 1..Cardinality(FirstColumns)} \subseteq Positions
    BY <1>3, FiniteAssumption
  <2> QED
    BY <2>1, <2>2
<1>7. RowsTyped
  BY <1>3, <1>6 DEF Init, RowsTyped
<1>8. ReadTyped
  BY <1>3 DEF Init, ReadTyped, NoPlan, NoUnder, Hidden, Places
<1>9. ClientTyped
  BY <1>3, <1>6 DEF Init, ClientTyped, Hidden, Places
<1> QED
  BY <1>1, <1>2, <1>7, <1>8, <1>9 DEF TInv

LEMMA TInvStep == TInv /\ [Next]_vars => TInv'
BY Inductive, TargetsStep, RowsTypedStep, ReadTypedStep, ClientTypedStep DEF TInv

\* Whatever overlaps, every row, every request and every view is what the code's
\* types say; in particular a neighbour or a last position is always a number.
THEOREM TypeCorrect == Spec => []TypeOK
<1>1. TInv => TypeOK
  BY DEF TInv, IInv, Typed, RowsTyped, ReadTyped, ClientTyped, TypeOK
<1> QED
  BY <1>1, TInvInit, TInvStep, PTL DEF Spec

-----------------------------------------------------------------------------
(* A request whose column no other one changes: where its move ends, and   *)
(* what its rebalance keeps.                                               *)

\* The cards of k lie at distances of Step.
Spaced(k) == \A c \in ShownIn(k) : \E i \in 0..Amount : position[c] = i * Step

\* A planned order is the order there is, at distances of Step.
Renumbers(p, k) ==
    /\ \A c \in Cards \ ShownIn(k) : p[c] = 0
    /\ \A c \in ShownIn(k) : \E i \in 0..Amount : p[c] = i * Step /\ p[c] # 0
    /\ \A c, d \in ShownIn(k) : position[c] < position[d] => p[c] < p[d]

Renumbering(s) ==
    /\ stage[s] = "rewrite" => Renumbers(plan[s], call[s].col)
    /\ rebalanced[s] =>
          /\ stage[s] \in {"below", "above"} => Spaced(call[s].col)
          /\ stage[s] = "above" => /\ \E i \in 0..Amount : below[s] = i * Step
                                   /\ below[s] <= call[s].ref
          /\ stage[s] = "decide" => ~NeedsRebalance(below[s], above[s])

\* Until a move is written, what was below and above the place asked for still
\* is, and the neighbours it read are next to that place.
Aiming(s) ==
    /\ call[s].ref # 0
    /\ stage[s] \in {"above", "decide", "write"} => below[s] < call[s].ref
    /\ stage[s] \in {"decide", "write"} => call[s].ref <= above[s]
    /\ \A d \in under[s].below :
          /\ d # call[s].card
          /\ d \in ShownIn(call[s].col) /\ position[d] < call[s].ref
          /\ stage[s] \in {"above", "decide", "write"} => position[d] <= below[s]
    /\ \A d \in under[s].above :
          /\ d # call[s].card
          /\ d \in ShownIn(call[s].col) /\ call[s].ref < position[d]
          /\ stage[s] \in {"decide", "write"} => above[s] <= position[d]

\* Once it is written, they are where they were, and its card is between them.
Arrived(s) ==
    /\ under[s].below \cup under[s].above \subseteq ShownIn(call[s].col)
    /\ Placed(s)

Aimed(s) ==
    call[s].op = "move" /\ ~rebalanced[s] =>
        /\ stage[s] \in {"below", "above", "decide", "write"} => Aiming(s)
        /\ Unpublished(s) => Arrived(s)

\* Only moves rebalance, and a slot without a request has not.
Ordinary(s) ==
    /\ stage[s] = "idle" => ~rebalanced[s] /\ call[s].op # "move"
    /\ stage[s] \in {"below", "above", "decide", "select", "rewrite"} => call[s].op = "move"

Serial ==
    \A s \in Slots :
        /\ Ordinary(s)
        /\ s \notin disturbed => Renumbering(s) /\ Aimed(s)

LEMMA SerialInit == Init => Serial
<1> HAVE Init
<1>1. ASSUME NEW s \in Slots
      PROVE  stage[s] = "idle" /\ rebalanced[s] = FALSE /\ call[s].op # "move"
  BY NoneAssumption DEF Init, NoCall, CardOps
<1> QED
  BY <1>1 DEF Serial, Ordinary, Renumbering, Aimed, Unpublished

\* What is a multiple of Step and higher is higher by Step.
LEMMA StepApart ==
  ASSUME NEW i \in Nat, NEW j \in Nat, i * Step < j * Step
  PROVE  i * Step + Step <= j * Step
<1>1. Step \in Nat
  BY PositionAssumption
<1>2. i * Step \in Nat /\ j * Step \in Nat
  BY <1>1
<1>3. CASE j <= i
  <2>1. PICK n \in Nat : i = j + n
    BY <1>3
  <2>2. n * Step \in Nat /\ i * Step = j * Step + n * Step
    BY <1>1, <2>1
  <2> QED
    BY <1>2, <2>2
<1>4. CASE i + 1 <= j
  <2>1. PICK n \in Nat : j = (i + 1) + n
    BY <1>4
  <2>2. n * Step \in Nat /\ j * Step = i * Step + Step + n * Step
    BY <1>1, <2>1
  <2> QED
    BY <1>1, <1>2, <2>2
<1> QED
  BY <1>3, <1>4

\* A renumbering keeps the order, whichever order cards at one place get.
LEMMA NumberingRenumbers ==
  ASSUME position \in [Cards -> Positions], NEW k, NEW f \in Numberings(ShownIn(k)),
         NEW p, p = [c \in Cards |-> IF c \in ShownIn(k) THEN NewPosition(f[c]) ELSE 0]
  PROVE  Renumbers(p, k)
<1>1. /\ f \in [ShownIn(k) -> 1..Amount] /\ Amount \in Nat
      /\ \A c \in ShownIn(k) : NewPosition(f[c]) \in Nat /\ NewPosition(f[c]) >= Step
  BY Numbered, StepPlaces, PositionAssumption
<1>2. Step \in Nat /\ Step > 0 /\ ShownIn(k) \subseteq Cards
  BY PositionAssumption DEF ShownIn
<1>3. ASSUME NEW c \in ShownIn(k)
      PROVE  \E i \in 0..Amount : p[c] = i * Step /\ p[c] # 0
  <2>1. p[c] = f[c] * Step /\ f[c] \in 0..Amount
    <3>1. f[c] \in 0..Amount
      BY <1>1
    <3>2. p[c] = NewPosition(f[c])
      BY <1>2
    <3> QED
      BY <3>1, <3>2 DEF NewPosition
  <2>2. p[c] \in Nat /\ p[c] >= Step
    BY <1>1, <1>2
  <2> QED
    BY <1>2, <2>1, <2>2
<1>4. ASSUME NEW c \in ShownIn(k), NEW d \in ShownIn(k), position[c] < position[d]
      PROVE  p[c] < p[d]
  <2>1. f[c] < f[d]
    BY <1>4 DEF Numberings
  <2> DEFINE i == f[c]
             n == f[d] - (f[c] + 1)
  <2>2. n \in Nat /\ f[d] = (f[c] + 1) + n
    BY <1>1, <2>1
  <2>3. i \in Nat /\ p[c] = i * Step /\ p[d] = ((i + 1) + n) * Step
    <3>1. p[c] = NewPosition(i)
      BY <1>2
    <3>2. p[d] = NewPosition(f[d])
      BY <1>2
    <3> QED
      BY <1>1, <2>2, <3>1, <3>2 DEF NewPosition
  <2> HIDE DEF i, n
  <2>4. n * Step \in Nat /\ p[d] = i * Step + Step + n * Step
    BY <1>2, <2>2, <2>3
  <2>5. i * Step \in Nat
    BY <1>2, <2>3
  <2> QED
    BY <1>2, <2>3, <2>4, <2>5
<1> QED
  BY <1>2, <1>3, <1>4 DEF Renumbers

\* In a column at distances of Step there is room next to any place, at the end
\* too: the multiple after the last card's is a position.
LEMMA RoomAtSteps ==
  ASSUME position \in [Cards -> Positions], NEW k, Spaced(k), NEW ref \in Positions,
         NEW b \in Positions, b <= ref, \E i \in 0..Amount : b = i * Step
  PROVE  ~NeedsRebalance(b, PositionAbove(k, ref))
<1> DEFINE a == PositionAbove(k, ref)
<1>1. /\ a \in Positions
      /\ a = Appended(ref) \/ (a > ref /\ \E c \in ShownIn(k) : a = position[c])
  BY NeighbourAbove
<1>2. /\ Step \in Nat /\ MinGap \in Nat /\ Step >= MinGap
      /\ Positions \subseteq Nat /\ Amount \in Nat
  BY PositionAssumption, StepPlaces
<1>3. PICK i \in 0..Amount : b = i * Step
  OBVIOUS
<1> HIDE DEF a
<1>4. b + Step <= a
  <2>1. CASE a = Appended(ref)
    <3>1. i + 1 \in 0..Amount + 1 /\ i \in Nat
      BY <1>2
    <3>2. (i + 1) * Step \in Positions
      BY <3>1, StepPlaces
    <3>3. (i + 1) * Step = b + Step
      BY <1>2, <1>3, <3>1
    <3>4. b + Step <= ref + Step
      BY <1>2
    <3> QED
      BY <2>1, <3>2, <3>3, <3>4, AppendedAbove
  <2>2. CASE a > ref /\ \E c \in ShownIn(k) : a = position[c]
    <3>1. PICK j \in 0..Amount : a = j * Step
      BY <2>2 DEF Spaced
    <3>2. i * Step < j * Step /\ i \in Nat /\ j \in Nat
      BY <1>1, <1>2, <1>3, <2>2, <3>1
    <3> QED
      BY <1>3, <3>1, <3>2, StepApart
  <2> QED
    BY <1>1, <2>1, <2>2
<1>5. ~NeedsRebalance(b, a)
  BY <1>1, <1>2, <1>4 DEF NeedsRebalance
<1> QED
  BY <1>5 DEF a

\* A step of slot t leaves the other requests as they are.
LEMMA OthersUntouched ==
  ASSUME TInv, NEW t \in Slots, Request(t), NEW s \in Slots \ {t}
  PROVE  /\ stage'[s] = stage[s] /\ call'[s] = call[s]
         /\ below'[s] = below[s] /\ above'[s] = above[s]
         /\ rebalanced'[s] = rebalanced[s] /\ plan'[s] = plan[s]
         /\ under'[s] = under[s]
<1> DEFINE Same == /\ stage'[s] = stage[s] /\ call'[s] = call[s]
                   /\ below'[s] = below[s] /\ above'[s] = above[s]
                   /\ rebalanced'[s] = rebalanced[s] /\ plan'[s] = plan[s]
                   /\ under'[s] = under[s]
<1>0. /\ DOMAIN stage = Slots /\ DOMAIN call = Slots /\ DOMAIN below = Slots
      /\ DOMAIN above = Slots /\ DOMAIN rebalanced = Slots /\ DOMAIN plan = Slots
      /\ DOMAIN under = Slots
  BY DEF TInv, IInv, Typed, ReadTyped
<1>1. ASSUME Finish(t) PROVE Same
  BY <1>0, <1>1 DEF Finish, Goto
<1>2. ASSUME NEW there, Goto(t, there), UNCHANGED <<call, below, above, rebalanced, plan, under>>
      PROVE  Same
  BY <1>0, <1>2 DEF Goto
<1>3. ASSUME NEW op, NEW c, NEW k, NEW ref, NEW title_1, Begin(t, op, c, k, ref, title_1),
             NEW there, Goto(t, there), UNCHANGED <<above, rebalanced, plan>>,
             below' = below \/ \E b : below' = [below EXCEPT ![t] = b],
             under' = under \/ \E u : under' = [under EXCEPT ![t] = u]
      PROVE  Same
  BY <1>0, <1>3 DEF Begin, Goto
<1>4. ASSUME NEW c \in Cards, NEW k \in Columns, CreateReads(t, c, k) PROVE Same
  BY <1>3, <1>4 DEF CreateReads
<1>5. ASSUME NEW c \in Cards, NEW k \in Columns, NEW ref \in Refs, MoveChecks(t, c, k, ref)
      PROVE  Same
  BY <1>3, <1>5 DEF MoveChecks
<1>6. ASSUME NEW c \in Cards, NEW w \in Titles, UpdateCard(t, c, w) PROVE Same
  BY <1>3, <1>6 DEF UpdateCard
<1>7. ASSUME NEW op \in Ops, NEW c \in Cards, SetStatus(t, op, c) PROVE Same
  <2>1. \E there : Goto(t, there)
    BY <1>7 DEF SetStatus
  <2> QED
    BY <1>3, <1>7, <2>1 DEF SetStatus
<1>8. ASSUME NEW k \in Columns, CreateColumnReads(t, k) PROVE Same
  BY <1>3, <1>8 DEF CreateColumnReads
<1>9. ASSUME NEW k \in Columns, NEW ref \in Refs \cup {0}, NEW w \in Titles \cup {None},
             UpdateColumn(t, k, ref, w)
      PROVE  Same
  BY <1>3, <1>9 DEF UpdateColumn
<1>10. ASSUME NEW k \in Columns, DeleteColumn(t, k) PROVE Same
  BY <1>3, <1>10 DEF DeleteColumn
<1>11. ASSUME \/ ReadBelow(t) \/ ReadAbove(t) \/ SelectOrder(t) \/ RewritePositions(t)
       PROVE  Same
  BY <1>0, <1>11 DEF ReadBelow, ReadAbove, SelectOrder, RewritePositions, Goto
<1>12. ASSUME \/ Decide(t) \/ Create(t) \/ Move(t) \/ CreateColumn(t) \/ Reload(t)
              \/ Notify(t) \/ EventLost(t) \/ Abandon(t)
       PROVE  Same
  <2>1. \/ Finish(t)
        \/ /\ \E there : Goto(t, there)
           /\ UNCHANGED <<call, below, above, rebalanced, plan, under>>
    BY <1>12 DEF Decide, Create, Move, CreateColumn, Reload, Notify, EventLost, Abandon
  <2> QED
    BY <1>1, <1>2, <2>1
<1> HIDE DEF Same
<1>13. Same
  BY <1>4, <1>5, <1>6, <1>7, <1>8, <1>9, <1>10, <1>11, <1>12
     DEF Request, CardRequest, ColumnRequest
<1> QED
  BY <1>13 DEF Same

\* In a column of unchanged shape every card is where it was.
LEMMA SameShape ==
  ASSUME NEW k, Shape(k)' = Shape(k)
  PROVE  ShownIn(k)' = ShownIn(k) /\ \A c \in ShownIn(k) : position'[c] = position[c]
<1>1. ShownIn(k)' = ShownIn(k)
  <2>1. DOMAIN Shape(k) = ShownIn(k) /\ DOMAIN Shape(k)' = ShownIn(k)'
    BY DEF Shape
  <2> QED
    BY <2>1
<1>2. ASSUME NEW c \in ShownIn(k) PROVE position'[c] = position[c]
  <2>1. Shape(k)[c] = position[c] /\ (Shape(k)')[c] = position'[c]
    BY <1>1 DEF Shape
  <2> QED
    BY <2>1
<1> QED
  BY <1>1, <1>2

\* What a request that is not disturbed knows, another one's step keeps.
LEMMA OtherSerial ==
  ASSUME TInv, NEW t \in Slots, Request(t), Disturb(t), NEW s \in Slots \ {t}, Serial
  PROVE  Ordinary(s)' /\ (s \notin disturbed' => Renumbering(s)' /\ Aimed(s)')
<1>1. /\ stage'[s] = stage[s] /\ call'[s] = call[s]
      /\ below'[s] = below[s] /\ above'[s] = above[s]
      /\ rebalanced'[s] = rebalanced[s] /\ plan'[s] = plan[s]
      /\ under'[s] = under[s]
  BY OthersUntouched
<1>2. Ordinary(s) /\ Ordinary(s)'
  BY <1>1 DEF Serial, Ordinary
<1>3. ASSUME s \notin disturbed' PROVE Renumbering(s)' /\ Aimed(s)'
  <2>1. s \notin disturbed /\ (stage[s] = "idle" \/ call[s].col \notin Reshaped)
    BY <1>3 DEF Disturb
  <2>2. Renumbering(s) /\ Aimed(s)
    BY <2>1 DEF Serial
  <2>3. CASE stage[s] = "idle"
    BY <1>1, <1>2, <2>3 DEF Ordinary, Renumbering, Aimed
  <2>4. CASE stage[s] # "idle" /\ call[s].op # "move"
    BY <1>1, <1>2, <2>4 DEF Ordinary, Renumbering, Aimed
  <2>5. CASE stage[s] # "idle" /\ call[s].op = "move"
    <3>1. call[s].col \in Columns
      BY <2>5 DEF TInv, IInv, Requests, Moving
    <3> SUFFICES ASSUME NEW k \in Columns, k = call[s].col
                 PROVE  Renumbering(s)' /\ Aimed(s)'
      BY <3>1
    <3>2. Shape(k)' = Shape(k)
      BY <2>1, <2>5 DEF Reshaped
    <3>3. ShownIn(k)' = ShownIn(k) /\ \A c \in ShownIn(k) : position'[c] = position[c]
      BY <3>2, SameShape
    <3>4. call'[s].col = k
      BY <1>1
    <3>5. Spaced(k) => Spaced(k)'
      BY <3>3 DEF Spaced
    <3>6. \A p : Renumbers(p, k) => Renumbers(p, k)'
      BY <3>3 DEF Renumbers
    <3>7. Renumbering(s)'
      BY <1>1, <2>2, <3>4, <3>5, <3>6 DEF Renumbering, NeedsRebalance
    <3>8. Aiming(s) => Aiming(s)'
      BY <1>1, <3>3, <3>4 DEF Aiming
    <3>9. Arrived(s) => Arrived(s)'
      BY <1>1, <3>3, <3>4 DEF Arrived, Placed, Unpublished
    <3> QED
      BY <1>1, <2>2, <3>7, <3>8, <3>9 DEF Aimed, Unpublished
  <2> QED
    BY <2>3, <2>4, <2>5
<1> QED
  BY <1>2, <1>3

\* Its own steps keep it too, from the moment it is not disturbed.
LEMMA OwnSerial ==
  ASSUME TInv, NEW s \in Slots, Request(s), Disturb(s), Serial
  PROVE  Ordinary(s)' /\ (s \notin disturbed' => Renumbering(s)' /\ Aimed(s)')
<1> DEFINE Goal == Ordinary(s)' /\ (s \notin disturbed' => Renumbering(s)' /\ Aimed(s)')
<1> SUFFICES Goal
  OBVIOUS
<1>0. /\ Ordinary(s)
      /\ stage \in [Slots -> Stages] /\ call \in [Slots -> Calls]
      /\ position \in [Cards -> Positions]
      /\ below \in [Slots -> Positions] /\ above \in [Slots -> Positions]
      /\ rebalanced \in [Slots -> BOOLEAN] /\ plan \in [Slots -> [Cards -> Positions]]
      /\ under \in [Slots -> [below : SUBSET Cards, above : SUBSET Cards]]
      /\ call[s].ref \in Positions
      /\ Positions \subseteq Nat
  BY PositionAssumption DEF Serial, TInv, IInv, Typed, RowsTyped, ReadTyped, Calls
<1>n. call[s].ref \in Nat /\ below[s] \in Nat /\ above[s] \in Nat
  BY <1>0
<1>d. s \notin disturbed' /\ stage'[s] \notin {"idle", "rewrite"}
         => Renumbering(s) /\ Aimed(s)
  BY DEF Disturb, Serial
<1>1. ASSUME \/ stage'[s] = "idle"
             \/ stage'[s] \in {"write", "reload", "notify"} /\ call'[s].op # "move",
             stage'[s] = "idle" => ~rebalanced'[s] /\ call'[s].op # "move"
      PROVE  Goal
  BY <1>1 DEF Ordinary, Renumbering, Aimed
<1>2. ASSUME Finish(s) PROVE Goal
  <2>1. stage'[s] = "idle" /\ rebalanced'[s] = FALSE /\ call'[s] = NoCall
    BY <1>0, <1>2 DEF Finish, Goto
  <2>2. NoCall.op # "move"
    BY NoneAssumption DEF NoCall, CardOps
  <2> QED
    BY <1>1, <2>1, <2>2
<1>3. ASSUME NEW op \in CardOps, op # "move", NEW c, NEW k, NEW ref, NEW t,
             NEW there \in {"write", "reload", "notify"}, Begin(s, op, c, k, ref, t),
             Goto(s, there)
      PROVE  Goal
  <2>1. stage'[s] = there /\ call'[s].op = op
    BY <1>0, <1>3 DEF Begin, Goto
  <2> QED
    BY <1>1, <1>3, <2>1
<1>5. ASSUME NEW c \in Cards, NEW k \in Columns, NEW ref \in Refs, MoveChecks(s, c, k, ref)
      PROVE  Goal
  <2>1. /\ stage[s] = "idle" /\ stage'[s] = "below" /\ rebalanced' = rebalanced
        /\ call'[s].card = c /\ call'[s].col = k /\ call'[s].ref = ref
        /\ call'[s].op = "move"
        /\ under'[s].below = {d \in ShownIn(k) \ {c} : position[d] < ref}
        /\ under'[s].above = {d \in ShownIn(k) \ {c} : position[d] > ref}
        /\ UNCHANGED <<status, column, position>>
    BY <1>0, <1>5 DEF MoveChecks, Begin, Goto, cardVars
  <2>2. /\ ShownIn(k)' = ShownIn(k) /\ ref \in Nat /\ ref # 0
        /\ \A d \in ShownIn(k) : position[d] \in Nat
    BY <1>0, <2>1, PositionAssumption DEF ShownIn
  <2>3. ~rebalanced'[s]
    BY <1>0, <2>1 DEF Ordinary
  <2>4. Aiming(s)'
    BY <2>1, <2>2 DEF Aiming
  <2> QED
    BY <2>1, <2>3, <2>4 DEF Ordinary, Renumbering, Aimed, Unpublished
<1>6. ASSUME ReadBelow(s) PROVE Goal
  <2> DEFINE b == PositionBelow(call[s].col, call[s].ref)
  <2>1. /\ stage[s] = "below" /\ stage'[s] = "above" /\ below'[s] = b
        /\ UNCHANGED <<status, column, position, call, above, rebalanced, plan, under>>
    BY <1>0, <1>6 DEF ReadBelow, Goto, cardVars
  <2>2. /\ b \in Positions
        /\ b = 0 \/ (b < call[s].ref /\ \E c \in ShownIn(call[s].col) : b = position[c])
        /\ \A c \in ShownIn(call[s].col) : position[c] < call[s].ref => position[c] <= b
    BY <1>0, NeighbourBelow
  <2> HIDE DEF b
  <2>3. \A k : ShownIn(k)' = ShownIn(k)
    BY <2>1 DEF ShownIn
  <2>d. s \notin disturbed' => Renumbering(s) /\ Aimed(s)
    BY <1>d, <2>1
  <2>4. Renumbering(s) /\ rebalanced[s]
           => (\E i \in 0..Amount : b = i * Step) /\ b <= call[s].ref
    <3>1. 0 = 0 * Step /\ 0 \in 0..Amount
      BY PositionAssumption, StepPlaces
    <3>2. CASE b = 0
      BY <1>n, <3>1, <3>2
    <3>3. CASE b < call[s].ref /\ \E c \in ShownIn(call[s].col) : b = position[c]
      <4>1. Renumbering(s) /\ rebalanced[s] => \E i \in 0..Amount : b = i * Step
        BY <2>1, <3>3 DEF Renumbering, Spaced
      <4>2. b \in Nat
        BY <1>0, <2>2
      <4> QED
        BY <1>n, <3>3, <4>1, <4>2
    <3> QED
      BY <2>2, <3>2, <3>3
  <2>5. Renumbering(s) => Renumbering(s)'
    BY <1>0, <2>1, <2>3, <2>4 DEF Renumbering, Spaced
  <2>6. Aimed(s) /\ call[s].op = "move" /\ ~rebalanced[s] => Aiming(s)'
    <3>1. \A d \in ShownIn(call[s].col) : position[d] \in Nat
      BY <1>0 DEF ShownIn
    <3>2. Aimed(s) /\ call[s].op = "move" /\ ~rebalanced[s] => Aiming(s)
      BY <2>1 DEF Aimed
    <3>3. Aiming(s) => b < call[s].ref
      BY <1>n, <2>2 DEF Aiming
    <3> QED
      BY <2>1, <2>2, <2>3, <3>2, <3>3 DEF Aiming
  <2>7. Ordinary(s)'
    BY <1>0, <2>1 DEF Ordinary
  <2> QED
    BY <2>1, <2>5, <2>6, <2>7, <2>d DEF Aimed, Unpublished
<1>7. ASSUME ReadAbove(s) PROVE Goal
  <2> DEFINE a == PositionAbove(call[s].col, call[s].ref)
  <2>1. /\ stage[s] = "above" /\ stage'[s] = "decide" /\ above'[s] = a
        /\ UNCHANGED <<status, column, position, call, below, rebalanced, plan, under>>
    BY <1>0, <1>7 DEF ReadAbove, Goto, cardVars
  <2>2. /\ a \in Positions /\ a >= call[s].ref
        /\ \A c \in ShownIn(call[s].col) : call[s].ref < position[c] => a <= position[c]
    BY <1>0, NeighbourAbove
  <2>3. Renumbering(s) /\ rebalanced[s] => ~NeedsRebalance(below[s], a)
    BY <1>0, <2>1, RoomAtSteps DEF Renumbering
  <2> HIDE DEF a
  <2>4. \A k : ShownIn(k)' = ShownIn(k)
    BY <2>1 DEF ShownIn
  <2>d. s \notin disturbed' => Renumbering(s) /\ Aimed(s)
    BY <1>d, <2>1
  <2>5. Renumbering(s) => Renumbering(s)'
    BY <1>0, <2>1, <2>3 DEF Renumbering, NeedsRebalance
  <2>6. Aimed(s) /\ call[s].op = "move" /\ ~rebalanced[s] => Aiming(s)'
    BY <1>0, <2>1, <2>2, <2>4 DEF Aimed, Aiming
  <2>7. Ordinary(s)'
    BY <1>0, <2>1 DEF Ordinary
  <2> QED
    BY <2>1, <2>5, <2>6, <2>7, <2>d DEF Aimed, Unpublished
<1>8. ASSUME Decide(s) PROVE Goal
  <2>1. /\ stage[s] = "decide"
        /\ stage'[s] = IF ~rebalanced[s] /\ NeedsRebalance(below[s], above[s])
                       THEN "select" ELSE "write"
        /\ UNCHANGED <<status, column, position, call, below, above, rebalanced, plan, under>>
    BY <1>0, <1>8 DEF Decide, Goto, cardVars
  <2>2. \A k : ShownIn(k)' = ShownIn(k)
    BY <2>1 DEF ShownIn
  <2>d. s \notin disturbed' => Renumbering(s) /\ Aimed(s)
    BY <1>d, <2>1
  <2>3. Renumbering(s)'
    BY <1>0, <2>1 DEF Renumbering
  <2>4. Aimed(s) /\ call[s].op = "move" /\ ~rebalanced[s] /\ stage'[s] = "write" => Aiming(s)'
    BY <1>0, <2>1, <2>2 DEF Aimed, Aiming
  <2>5. Ordinary(s)'
    BY <1>0, <2>1 DEF Ordinary
  <2> QED
    BY <2>1, <2>3, <2>4, <2>5, <2>d DEF Aimed, Unpublished
<1>9. ASSUME SelectOrder(s) PROVE Goal
  <2> DEFINE k == call[s].col
  <2>1. PICK f \in Numberings(ShownIn(k)) :
            plan' = [plan EXCEPT ![s] =
                       [c \in Cards |-> IF c \in ShownIn(k) THEN NewPosition(f[c]) ELSE 0]]
    BY <1>9 DEF SelectOrder
  <2> DEFINE p == [c \in Cards |-> IF c \in ShownIn(k) THEN NewPosition(f[c]) ELSE 0]
  <2>2. /\ stage[s] = "select" /\ stage'[s] = "rewrite" /\ plan'[s] = p
        /\ UNCHANGED <<status, column, position, call, rebalanced>>
    BY <1>0, <1>9, <2>1 DEF SelectOrder, Goto, cardVars
  <2>3. Renumbers(p, k)
    BY <1>0, NumberingRenumbers
  <2> HIDE DEF p
  <2>4. ShownIn(k)' = ShownIn(k)
    BY <2>2 DEF ShownIn
  <2>5. Renumbers(plan[s], call[s].col)'
    BY <2>2, <2>3, <2>4 DEF Renumbers
  <2>6. Ordinary(s)'
    BY <1>0, <2>2 DEF Ordinary
  <2> QED
    BY <2>2, <2>5, <2>6 DEF Renumbering, Aimed, Unpublished
<1>10. ASSUME RewritePositions(s) PROVE Goal
  <2> DEFINE k == call[s].col
             S == {c \in Cards : plan[s][c] # 0 /\ Exists(c)}
  <2>1. /\ stage[s] = "rewrite" /\ stage'[s] = "below" /\ rebalanced'[s] = TRUE
        /\ position' = [c \in Cards |-> IF c \in S THEN plan[s][c] ELSE position[c]]
        /\ UNCHANGED <<status, column, call>>
    BY <1>0, <1>10 DEF RewritePositions, Goto
  <2>2. \A c \in ShownIn(k) : c \in Cards /\ Exists(c)
    BY DEF ShownIn, Exists
  <2>3. Renumbering(s) => \A c \in ShownIn(k) : \E i \in 0..Amount : position'[c] = i * Step
    BY <1>0, <2>1, <2>2 DEF Renumbering, Renumbers
  <2>4. ShownIn(k)' = ShownIn(k)
    BY <2>1 DEF ShownIn
  <2>5. Renumbering(s) => Spaced(call[s].col)'
    BY <2>1, <2>3, <2>4 DEF Spaced
  <2>6. Ordinary(s)'
    BY <1>0, <2>1 DEF Ordinary
  <2>d. s \notin disturbed' => Renumbering(s) /\ Aimed(s)
    BY <1>d, <2>1
  <2> QED
    BY <2>1, <2>5, <2>6, <2>d DEF Renumbering, Aimed
<1>11. ASSUME Move(s) PROVE Goal
  <2> DEFINE c == call[s].card
             k == call[s].col
             m == Between(below[s], above[s])
  <2>1. CASE Finish(s)
    BY <1>2, <2>1
  <2>2. CASE /\ column' = [column EXCEPT ![c] = k]
             /\ position' = [position EXCEPT ![c] = m] /\ Goto(s, "reload")
             /\ UNCHANGED <<status, call, rebalanced, above, under>>
    <3>1. /\ stage[s] = "write" /\ stage'[s] = "reload" /\ call[s].op = "move"
          /\ \A d \in Cards \ {c} : position'[d] = position[d] /\ column'[d] = column[d]
          /\ c \in Cards => position'[c] = m
      <4>1. stage[s] = "write" /\ stage'[s] = "reload" /\ call[s].op = "move"
        BY <1>0, <1>11, <2>2 DEF Move, Goto
      <4>2. column \in [Cards -> Columns \cup {None}]
        BY DEF TInv, IInv, Typed
      <4> HIDE DEF m, c
      <4> QED
        BY <1>0, <2>2, <4>1, <4>2
    <3>2. c \in Cards
      BY <3>1 DEF TInv, Targets, ColumnOps
    <3>d. s \notin disturbed' => Renumbering(s) /\ Aimed(s)
      BY <1>d, <3>1
    <3>3. ASSUME ~rebalanced[s], Aimed(s) PROVE Arrived(s)'
      <4>1. Aiming(s)
        BY <1>0, <3>1, <3>3 DEF Aimed
      <4>2. below[s] < call[s].ref /\ call[s].ref <= above[s]
        BY <3>1, <4>1 DEF Aiming
      <4>3. /\ below[s] <= m /\ m <= above[s] /\ m \in Positions
            /\ call[s].ref < above[s] => below[s] < m /\ m < above[s]
        <5>1. below[s] \in Positions /\ above[s] \in Positions /\ below[s] <= above[s]
          BY <1>0, <1>n, <4>2
        <5> HIDE DEF m
        <5> QED
          BY <1>0, <1>n, <4>2, <5>1, MidpointInside, MidpointTyped DEF m
      <4> HIDE DEF m, c, k
      <4>4. \A d \in under[s].below :
                d # c /\ d \in ShownIn(k) /\ d \in Cards /\ position[d] <= below[s]
        BY <3>1, <4>1 DEF Aiming, c, k, ShownIn
      <4>5. \A d \in under[s].above :
                d # c /\ d \in ShownIn(k) /\ d \in Cards /\ above[s] <= position[d]
        BY <3>1, <4>1 DEF Aiming, c, k, ShownIn
      <4>6. \A d \in ShownIn(k) \ {c} : d \in ShownIn(k)'
        BY <2>2, <3>1 DEF ShownIn, k
      <4>7. below[s] \in Nat /\ above[s] \in Nat /\ m \in Nat
            /\ \A d \in Cards : position[d] \in Nat
        BY <1>0, <4>3
      <4>8. \A d \in under[s].below :
                 /\ position'[d] <= position'[c]
                 /\ call[s].ref < above[s] => position'[d] # position'[c]
        BY <3>1, <3>2, <4>3, <4>4, <4>7
      <4>9. \A d \in under[s].above :
                 /\ position'[c] <= position'[d]
                 /\ call[s].ref < above[s] => position'[d] # position'[c]
        BY <3>1, <3>2, <4>3, <4>5, <4>7
      <4>10. Placed(s)'
        BY <2>2, <4>8, <4>9 DEF Placed, c
      <4>11. (under[s].below \cup under[s].above \subseteq ShownIn(k))'
        BY <2>2, <4>4, <4>5, <4>6 DEF k
      <4> QED
        BY <2>2, <4>10, <4>11 DEF Arrived, k
    <3>4. Ordinary(s)'
      BY <3>1 DEF Ordinary
    <3> QED
      BY <2>2, <3>1, <3>3, <3>4, <3>d DEF Renumbering, Aimed
  <2> QED
    BY <1>11, <2>1, <2>2 DEF Move
<1>12. ASSUME Create(s) \/ CreateColumn(s) PROVE Goal
  <2>1. \/ Finish(s)
        \/ Goto(s, "notify") /\ call' = call /\ call[s].op # "move"
    BY <1>12 DEF Create, CreateColumn
  <2>2. CASE Finish(s)
    BY <1>2, <2>2
  <2>3. CASE Goto(s, "notify") /\ call' = call /\ call[s].op # "move"
    BY <1>0, <1>1, <2>3 DEF Goto
  <2> QED
    BY <2>1, <2>2, <2>3
<1>13. ASSUME Notify(s) \/ EventLost(s) \/ Abandon(s) PROVE Goal
  BY <1>2, <1>13 DEF Notify, EventLost, Abandon
<1>14. ASSUME Reload(s) PROVE Goal
  <2>1. CASE Finish(s)
    BY <1>2, <2>1
  <2>2. CASE Goto(s, "notify") /\ UNCHANGED <<call, below, above, rebalanced, plan, under>>
    <3>1. /\ stage[s] = "reload" /\ stage'[s] = "notify"
          /\ UNCHANGED <<status, column, position>>
      BY <1>0, <1>14, <2>2 DEF Reload, Goto, cardVars
    <3>2. \A k : ShownIn(k)' = ShownIn(k)
      BY <3>1 DEF ShownIn
    <3>3. Arrived(s) => Arrived(s)'
      BY <2>2, <3>1, <3>2 DEF Arrived, Placed, Unpublished
    <3>4. s \notin disturbed' => Renumbering(s) /\ Aimed(s)
      BY <1>d, <3>1
    <3> QED
      BY <2>2, <3>1, <3>3, <3>4 DEF Ordinary, Renumbering, Aimed, Unpublished
  <2> QED
    BY <1>14, <2>1, <2>2 DEF Reload
<1>15. CASE CardRequest(s) \/ ColumnRequest(s)
  <2>1. ASSUME NEW c \in Cards, NEW k \in Columns, CreateReads(s, c, k) PROVE Goal
    BY <1>3, <2>1 DEF CreateReads, CardOps
  <2>2. ASSUME NEW c \in Cards, NEW t \in Titles, UpdateCard(s, c, t) PROVE Goal
    BY <1>3, <2>2 DEF UpdateCard, CardOps
  <2>3. ASSUME NEW op \in Ops, NEW c \in Cards, SetStatus(s, op, c) PROVE Goal
    BY <1>3, <2>3 DEF SetStatus, CardOps
  <2>4. ASSUME NEW k \in Columns, CreateColumnReads(s, k) PROVE Goal
    BY <1>3, <2>4 DEF CreateColumnReads, CardOps
  <2>5. ASSUME NEW k \in Columns, NEW ref \in Refs \cup {0}, NEW t \in Titles \cup {None},
               UpdateColumn(s, k, ref, t)
        PROVE  Goal
    BY <1>3, <2>5 DEF UpdateColumn, CardOps
  <2>6. ASSUME NEW k \in Columns, DeleteColumn(s, k) PROVE Goal
    BY <1>3, <2>6 DEF DeleteColumn, CardOps
  <2> HIDE DEF Goal
  <2> QED
    BY <1>5, <1>15, <2>1, <2>2, <2>3, <2>4, <2>5, <2>6 DEF CardRequest, ColumnRequest
<1> HIDE DEF Goal
<1> QED
  BY <1>6, <1>7, <1>8, <1>9, <1>10, <1>11, <1>12, <1>13, <1>14, <1>15 DEF Request

LEMMA SerialStep == TInv /\ Serial /\ [Next]_vars => Serial'
<1> SUFFICES ASSUME TInv, Serial, [Next]_vars, NEW s \in Slots
             PROVE  Ordinary(s)' /\ (s \notin disturbed' => Renumbering(s)' /\ Aimed(s)')
  BY DEF Serial
<1>1. ASSUME NEW t \in Slots, Request(t), Disturb(t)
      PROVE  Ordinary(s)' /\ (s \notin disturbed' => Renumbering(s)' /\ Aimed(s)')
  <2>1. CASE s = t
    BY <1>1, <2>1, OwnSerial
  <2>2. CASE s # t
    BY <1>1, <2>2, OtherSerial
  <2> QED
    BY <2>1, <2>2
<1>2. CASE UNCHANGED <<status, column, position, stage, call, below, above, rebalanced,
                       plan, under, disturbed>>
  <2>1. \A k : ShownIn(k)' = ShownIn(k)
    BY <1>2 DEF ShownIn
  <2>2. \A k : Spaced(k) => Spaced(k)'
    BY <1>2, <2>1 DEF Spaced
  <2>3. \A p, k : Renumbers(p, k) => Renumbers(p, k)'
    BY <1>2, <2>1 DEF Renumbers
  <2>4. Ordinary(s) => Ordinary(s)'
    BY <1>2 DEF Ordinary
  <2>5. Renumbering(s) => Renumbering(s)'
    BY <1>2, <2>2, <2>3 DEF Renumbering, NeedsRebalance
  <2>6. Aiming(s) => Aiming(s)'
    BY <1>2, <2>1 DEF Aiming
  <2>7. Arrived(s) => Arrived(s)'
    BY <1>2, <2>1 DEF Arrived, Placed, Unpublished
  <2>8. Aimed(s) => Aimed(s)'
    BY <1>2, <2>6, <2>7 DEF Aimed, Unpublished
  <2> QED
    BY <1>2, <2>4, <2>5, <2>8 DEF Serial
<1>3. CASE GetBoardDetail \/ UNCHANGED vars
  BY <1>2, <1>3 DEF GetBoardDetail, vars, cardVars, reqVars
<1> QED
  BY <1>1, <1>3 DEF Next

LEMMA SerialInvariant == Spec => [](TInv /\ Serial)
<1>1. Init => TInv /\ Serial
  BY TInvInit, SerialInit
<1>2. TInv /\ Serial /\ [Next]_vars => (TInv /\ Serial)'
  BY TInvStep, SerialStep
<1> QED
  BY <1>1, <1>2, PTL DEF Spec

\* A move that found room, in a column no other request changed under way, puts
\* its card between the cards that were below and above the place it was asked
\* for, however far apart they are and whatever else goes on on the board
\* (GetNeighborPositions and the midpoint of MoveCard).
THEOREM MovesGoWhereAsked == Spec => []PlacedWhereAsked
<1>1. ASSUME Serial, NEW s \in Slots \ disturbed, ~rebalanced[s] PROVE Placed(s)
  <2>1. Aimed(s)
    BY <1>1 DEF Serial
  <2> QED
    BY <1>1, <2>1 DEF Aimed, Arrived, Placed
<1>2. Serial => PlacedWhereAsked
  BY <1>1 DEF PlacedWhereAsked
<1> QED
  BY <1>2, SerialInvariant, PTL

\* MoveCard rebalances at most once: while no other request changes the column, the
\* second look at the neighbours finds room for any number of cards and any place.
THEOREM OneRebalanceSuffices == Spec => []RebalanceMakesRoom
<1>1. Serial => RebalanceMakesRoom
  BY DEF Serial, Renumbering, RebalanceMakesRoom
<1> QED
  BY <1>1, SerialInvariant, PTL

\* What OrderOfOthersKept says of a step.
OrderKept ==
    \A k \in Columns : \A c, d \in ShownIn(k) :
        (/\ position[c] < position[d]
         /\ ~\E s \in Slots : Leaves(s, "write") /\ call[s].card \in {c, d}
         /\ ~\E s \in disturbed : Leaves(s, "rewrite")
         /\ {c, d} \subseteq ShownIn(k)')
        => position'[c] < position'[d]

LEMMA OrderKeptStep ==
  ASSUME TInv, Serial, [Next]_vars
  PROVE  OrderKept
<1> SUFFICES ASSUME NEW k \in Columns, NEW c \in ShownIn(k), NEW d \in ShownIn(k),
                    position[c] < position[d],
                    ~\E s \in Slots : Leaves(s, "write") /\ call[s].card \in {c, d},
                    ~\E s \in disturbed : Leaves(s, "rewrite"),
                    {c, d} \subseteq ShownIn(k)'
             PROVE  position'[c] < position'[d]
  BY DEF OrderKept
<1>0. /\ c \in Cards /\ d \in Cards
      /\ column[c] = k /\ column[d] = k
      /\ status'[c] = "shown" /\ status'[d] = "shown"
      /\ status \in [Cards -> {"unborn", "shown", "archived", "deleted"}]
      /\ stage \in [Slots -> Stages]
      /\ position \in [Cards -> Positions]
  BY DEF ShownIn, TInv, RowsTyped, IInv, Typed
<1>1. CASE position'[c] = position[c] /\ position'[d] = position[d]
  BY <1>1
<1>2. ASSUME NEW s \in Slots, RewritePositions(s)
      PROVE  position'[c] < position'[d]
  <2> DEFINE j == call[s].col
             S == {x \in Cards : plan[s][x] # 0 /\ Exists(x)}
  <2>1. /\ stage[s] = "rewrite" /\ stage'[s] = "below"
        /\ position' = [x \in Cards |-> IF x \in S THEN plan[s][x] ELSE position[x]]
    BY <1>0, <1>2 DEF RewritePositions, Goto
  <2>2. s \notin disturbed
    BY <2>1 DEF Leaves
  <2>3. Renumbers(plan[s], j)
    BY <2>1, <2>2 DEF Serial, Renumbering
  <2>4. CASE j = k
    <3>1. plan[s][c] < plan[s][d] /\ plan[s][c] # 0 /\ plan[s][d] # 0
      BY <2>3, <2>4 DEF Renumbers
    <3>2. Exists(c) /\ Exists(d)
      BY DEF ShownIn, Exists
    <3> QED
      BY <1>0, <2>1, <3>1, <3>2
  <2>5. CASE j # k
    <3>1. c \notin ShownIn(j) /\ d \notin ShownIn(j)
      BY <1>0, <2>5 DEF ShownIn
    <3>2. plan[s][c] = 0 /\ plan[s][d] = 0
      BY <1>0, <2>3, <3>1 DEF Renumbers
    <3> QED
      BY <1>0, <1>1, <2>1, <3>2
  <2> QED
    BY <2>4, <2>5
<1>3. ASSUME NEW s \in Slots, Create(s) \/ Move(s)
      PROVE  position'[c] < position'[d]
  <2>1. stage[s] = "write" /\ stage'[s] # "write"
    BY <1>0, <1>3 DEF Create, Move, Finish, Goto
  <2>2. call[s].card \notin {c, d}
    BY <2>1 DEF Leaves
  <2>3. \/ position' = position
        \/ \E p : position' = [position EXCEPT ![call[s].card] = p]
    BY <1>3 DEF Create, Move, cardVars
  <2> QED
    BY <1>0, <1>1, <2>2, <2>3
<1>4. ASSUME NEW s \in Slots, NEW op \in Ops, NEW x \in Cards, SetStatus(s, op, x)
      PROVE  position'[c] < position'[d]
  <2>1. op = "delete" => x # c /\ x # d
    BY <1>0, <1>4 DEF SetStatus, StatusAfter
  <2> QED
    BY <1>0, <1>1, <1>4, <2>1 DEF SetStatus, RowsGone
<1>5. ASSUME NEW s \in Slots, NEW j \in Columns, DeleteColumn(s, j)
      PROVE  position'[c] < position'[d]
  <2> DEFINE S == {x \in Cards : Exists(x) /\ column[x] = j}
  <2>1. /\ status' = [x \in Cards |-> IF x \in S THEN "deleted" ELSE status[x]]
        /\ position' = [x \in Cards |-> IF x \in S THEN 0 ELSE position[x]]
    BY <1>5 DEF DeleteColumn, RowsGone
  <2>2. c \notin S /\ d \notin S
    BY <1>0, <2>1
  <2> QED
    BY <1>0, <1>1, <2>1, <2>2
<1>6. CASE UNCHANGED position
  BY <1>1, <1>6
<1> QED
  BY <1>2, <1>3, <1>4, <1>5, <1>6, Steps
     DEF CreateReads, MoveChecks, UpdateCard, CreateColumnReads, UpdateColumn, ReadBelow,
         ReadAbove, Decide, SelectOrder, CreateColumn, Reload, Notify, EventLost, Abandon,
         GetBoardDetail, vars, cardVars

\* Of two cards that stay in their column the order only changes when one of them
\* is moved or created, or by a rebalance that another request disturbed; any other
\* rebalance keeps it, although it writes every position.
THEOREM OrderIsKept == Spec => OrderOfOthersKept
<1>1. TInv /\ Serial /\ [Next]_vars => OrderKept
  BY OrderKeptStep
<1>2. Spec => [][OrderKept]_vars
  BY <1>1, SerialInvariant, PTL DEF Spec
<1>3. OrderOfOthersKept <=> [][OrderKept]_vars
  BY PTL DEF OrderOfOthersKept, OrderKept
<1> QED
  BY <1>2, <1>3, PTL

-----------------------------------------------------------------------------
(* What a client shows of a card or column, next to the events not yet     *)
(* published.                                                              *)

\* The requests that have written x and not published it.
Pending(x) == {s \in Slots : Unpublished(s) /\ x \in About(s)}

\* What the event of slot s makes of v, which the client shows of card c; that of
\* an unarchived card which has not been read again will be the card as it is.
CardAfter(s, c, v) ==
    CASE call[s].op = "create" ->
             [col |-> call[s].col, pos |-> Appended(below[s]), title |-> None]
      [] call[s].op = "move" /\ v # Hidden ->
             [col |-> call[s].col, pos |-> MovedTo(s), title |-> v.title]
      [] call[s].op = "updateCard" /\ v # Hidden -> [v EXCEPT !.title = call[s].title]
      [] call[s].op = "unarchive" ->
             IF stage[s] = "notify" THEN loaded[s] ELSE Actual(c)
      [] call[s].op \in {"archive", "delete"} -> Hidden
      [] call[s].op = "deleteColumn" /\ v.col = call[s].col -> Hidden
      [] OTHER -> v

ColumnAfter(s, v) ==
    CASE call[s].op = "createColumn" -> [pos |-> Appended(below[s]), title |-> None]
      [] call[s].op = "updateColumn" /\ v # NoColumn ->
             [pos   |-> IF call[s].ref # 0 THEN call[s].ref ELSE v.pos,
              title |-> IF call[s].title # None THEN call[s].title ELSE v.title]
      [] call[s].op = "deleteColumn" -> NoColumn
      [] OTHER -> v

\* v is card c as it is, but for a position that a rebalance rewrote.
Agrees(c, v) ==
    \/ v = Actual(c)
    \/ /\ c \in silent /\ status[c] = "shown"
       /\ v # Hidden /\ v.col = column[c] /\ v.title = title[c]

\* The card that slot s is about to read again is there, if only s changed it.
Rereads(s, c) ==
    stage[s] = "reload" => Exists(c) /\ (call[s].op = "unarchive" => status[c] = "shown")

\* Without an event to come the client shows the card; with one it will, also if
\* it loads the board first.  Of two, the one published first crosses the other.
Followed(c) ==
    c \notin crossed =>
        /\ Pending(c) = {} /\ c \notin lost => Agrees(c, view[c])
        /\ \A s \in Slots : Pending(c) = {s} =>
              /\ Rereads(s, c)
              /\ c \notin lost => Agrees(c, CardAfter(s, c, view[c]))
              /\ Agrees(c, CardAfter(s, c, Actual(c)))

ColumnFollowed(k) ==
    k \notin crossed =>
        /\ Pending(k) = {} /\ k \notin lost => columnView[k] = ActualColumn(k)
        /\ \A s \in Slots : Pending(k) = {s} =>
              /\ k \notin lost => ColumnAfter(s, columnView[k]) = ActualColumn(k)
              /\ ColumnAfter(s, ActualColumn(k)) = ActualColumn(k)

\* A column is created once, by one request.
AddingWrite(s) == call[s].op = "createColumn" /\ stage[s] \notin {"idle", "notify"}

Untitled ==
    /\ \A c \in Cards : status[c] = "unborn" => title[c] = None
    /\ \A k \in Columns : order[k] = 0 => k \notin columns /\ title[k] = None
    /\ \A s \in Slots : AddingWrite(s) => order[call[s].col] = 0
    /\ \A s, t \in Slots : AddingWrite(s) /\ AddingWrite(t) /\ call[s].col = call[t].col => s = t

Following ==
    /\ Untitled
    /\ \A c \in Cards : Followed(c)
    /\ \A k \in Columns : ColumnFollowed(k)

\* A shown card lies in a column, so that it is never taken for a hidden one.
ShownAsIs(c) ==
    /\ Actual(c) \in Places
    /\ Actual(c) = Hidden <=> status[c] # "shown"
    /\ status[c] = "shown" => /\ Actual(c).col = column[c]
                              /\ Actual(c).pos = position[c]
                              /\ Actual(c).title = title[c]

LEMMA ActualIs == TInv => \A c \in Cards : ShownAsIs(c)
<1> SUFFICES ASSUME TInv, NEW c \in Cards PROVE ShownAsIs(c)
  OBVIOUS
<1>1. /\ column[c] \in Columns \cup {None} /\ position[c] \in Positions
      /\ title[c] \in Titles \cup {None} /\ Hidden \in Places
      /\ Hidden.col = None
  BY PositionAssumption DEF TInv, IInv, Typed, RowsTyped, Hidden, Places
<1>2. status[c] = "shown" => column[c] # None
  BY NoneAssumption DEF TInv, IInv, Typed, CardsStayOnBoard, Exists
<1> QED
  BY <1>1, <1>2 DEF ShownAsIs, Actual, Row, Places

LEMMA ActualIsNext == TInv' => (\A c \in Cards : ShownAsIs(c))'
BY ActualIs, PTL

\* Likewise a column that exists has a position.
LEMMA ActualColumnIs ==
  TInv /\ Untitled =>
      \A k \in Columns :
          /\ ActualColumn(k) = NoColumn <=> k \notin columns
          /\ k \in columns => /\ ActualColumn(k).pos = order[k]
                              /\ ActualColumn(k).title = title[k]
BY DEF ActualColumn, NoColumn, Untitled, TInv, RowsTyped

LEMMA PlaceChanged ==
  ASSUME NEW v \in Places, NEW k, NEW p
  PROVE  [v EXCEPT !.col = k, !.pos = p] = [col |-> k, pos |-> p, title |-> v.title]
<1> DEFINE w == [v EXCEPT !.col = k]
<1>1. v = [col |-> v.col, pos |-> v.pos, title |-> v.title]
  BY DEF Places
<1>2. w = [col |-> k, pos |-> v.pos, title |-> v.title]
  BY <1>1
<1>3. [v EXCEPT !.col = k, !.pos = p] = [w EXCEPT !.pos = p]
  OBVIOUS
<1> HIDE DEF w
<1> QED
  BY <1>2, <1>3

\* The client's view after an event, card by card and column by column.
LEMMA AfterEvent ==
  ASSUME TInv, NEW s \in Slots, stage[s] = "notify"
  PROVE  /\ \A c \in Cards : CardsAfter(s)[c] =
                IF c \in About(s) THEN CardAfter(s, c, view[c]) ELSE view[c]
         /\ \A k \in Columns : ColumnsAfter(s)[k] =
                IF k \in About(s) THEN ColumnAfter(s, columnView[k]) ELSE columnView[k]
<1>1. /\ view \in [Cards -> Places]
      /\ columnView \in [Columns -> [pos : Positions, title : Titles \cup {None}]]
      /\ call[s].op \in CardOps
      /\ call[s].op \in ColumnOps => call[s].col \in Columns
      /\ call[s].op \notin ColumnOps => call[s].card \in Cards
  BY DEF TInv, ClientTyped, Targets
<1> DEFINE x == call[s].card
           j == call[s].col
<1>2. ASSUME NEW c \in Cards
      PROVE  CardsAfter(s)[c] = IF c \in About(s) THEN CardAfter(s, c, view[c]) ELSE view[c]
  <2>1. CASE call[s].op = "deleteColumn"
    BY <1>1, <2>1 DEF CardsAfter, CardAfter, About, Subject
  <2>2. CASE call[s].op \in {"createColumn", "updateColumn"}
    BY <1>1, <2>2, ApartAssumption DEF CardsAfter, About, Subject, ColumnOps
  <2>3. CASE call[s].op \notin ColumnOps
    <3>1. About(s) = {x} /\ x \in Cards
      BY <1>1, <2>3 DEF About, Subject, ColumnOps
    <3>2. call[s].op \in {"create", "updateCard", "move", "archive", "unarchive", "delete"}
      BY <1>1, <2>3 DEF CardOps, ColumnOps
    <3> HIDE DEF x
    <3>3. CASE c # x
      <4>1. \/ CardsAfter(s) = view
            \/ \E v : CardsAfter(s) = [view EXCEPT ![x] = v]
            \/ CardsAfter(s) = [view EXCEPT ![x].title = call[s].title]
        BY <3>2 DEF CardsAfter, x
      <4> QED
        BY <1>1, <3>1, <3>3, <4>1
    <3>4. CASE c = x
      <4>1. CASE call[s].op = "move" /\ view[c] # Hidden
        <5>1. CardsAfter(s)[c] = [view[c] EXCEPT !.col = call[s].col, !.pos = MovedTo(s)]
          BY <1>1, <3>1, <3>4, <4>1 DEF CardsAfter, x
        <5>2. view[c] \in Places
          BY <1>1
        <5>3. CardsAfter(s)[c] = [col |-> call[s].col, pos |-> MovedTo(s),
                                  title |-> view[c].title]
          BY <5>1, <5>2, PlaceChanged
        <5> QED
          BY <3>1, <3>4, <4>1, <5>3 DEF CardAfter
      <4>2. CASE ~(call[s].op = "move" /\ view[c] # Hidden)
        BY <1>1, <3>1, <3>2, <3>4, <4>2 DEF CardsAfter, CardAfter, x
      <4> QED
        BY <4>1, <4>2
    <3> QED
      BY <3>3, <3>4
  <2> QED
    BY <2>1, <2>2, <2>3 DEF ColumnOps
<1>3. ASSUME NEW k \in Columns
      PROVE  ColumnsAfter(s)[k] =
                IF k \in About(s) THEN ColumnAfter(s, columnView[k]) ELSE columnView[k]
  <2>1. CASE call[s].op \in ColumnOps
    <3>1. j \in Columns /\ (k \in About(s) <=> k = j)
      BY <1>1, <2>1, ApartAssumption DEF About, Subject, ColumnOps
    <3> QED
      BY <1>1, <2>1, <3>1 DEF ColumnsAfter, ColumnAfter, ColumnOps
  <2>2. CASE call[s].op \notin ColumnOps
    <3>1. k \notin About(s)
      BY <1>1, <2>2, ApartAssumption DEF About, Subject, ColumnOps
    <3> QED
      BY <2>2, <3>1 DEF ColumnsAfter, ColumnOps
  <2> QED
    BY <2>1, <2>2
<1> QED
  BY <1>2, <1>3

-----------------------------------------------------------------------------
(* How steps change who has something to publish.                          *)

LEMMA PendingSame ==
  ASSUME \A t \in Slots : Unpublished(t)' <=> Unpublished(t),
         \A t \in Slots : Unpublished(t) => call'[t] = call[t]
  PROVE  \A x : Pending(x)' = Pending(x)
BY DEF Pending, About, Subject

LEMMA PendingGrows ==
  ASSUME NEW s \in Slots, ~Unpublished(s), Unpublished(s)',
         \A t \in Slots \ {s} : stage'[t] = stage[t] /\ call'[t] = call[t]
  PROVE  \A x : /\ s \notin Pending(x)
                /\ Pending(x)' = IF x \in About(s)' THEN Pending(x) \cup {s} ELSE Pending(x)
BY DEF Pending, About, Subject, Unpublished

LEMMA PendingShrinks ==
  ASSUME NEW s \in Slots, ~Unpublished(s)',
         \A t \in Slots \ {s} : stage'[t] = stage[t] /\ call'[t] = call[t]
  PROVE  \A x : Pending(x)' = Pending(x) \ {s}
BY DEF Pending, About, Subject, Unpublished

-----------------------------------------------------------------------------
(* What a step means for one card or column.                               *)

\* A request that has something to publish stays as it is, or has read its card
\* again without keeping the row.
Waits(t) ==
    /\ call'[t] = call[t] /\ below'[t] = below[t] /\ above'[t] = above[t]
    /\ loaded'[t] = loaded[t]
    /\ stage'[t] = "reload" => stage[t] = "reload"
    /\ call[t].op = "unarchive" => stage'[t] = stage[t]

\* Nothing of the card happens but that a rebalance may move it.
LEMMA CardUntouched ==
  ASSUME TInv, TInv', NEW c \in Cards, Followed(c),
         Pending(c)' = Pending(c),
         \A t \in Pending(c) : Waits(t),
         status'[c] = status[c], column'[c] = column[c], title'[c] = title[c],
         position'[c] = position[c] \/ c \in silent',
         c \in silent => c \in silent',
         view'[c] = view[c], c \in lost => c \in lost', c \in crossed => c \in crossed'
  PROVE  Followed(c)'
<1> SUFFICES ASSUME c \notin crossed'
             PROVE  (/\ Pending(c) = {} /\ c \notin lost => Agrees(c, view[c])
                     /\ \A s \in Slots : Pending(c) = {s} =>
                           /\ Rereads(s, c)
                           /\ c \notin lost => Agrees(c, CardAfter(s, c, view[c]))
                           /\ Agrees(c, CardAfter(s, c, Actual(c))))'
  BY DEF Followed
<1> DEFINE a == Actual(c)
           b == Actual(c)'
           w == view[c]
<1>1. /\ a = Hidden <=> status[c] # "shown"
      /\ a \in Places /\ b \in Places /\ w \in Places
      /\ status[c] = "shown" => a.col = column[c] /\ a.title = title[c] /\ a.pos = position[c]
  <2>1. ShownAsIs(c)
    BY ActualIs
  <2>2. (\A d \in Cards : ShownAsIs(d))'
    BY ActualIsNext
  <2> QED
    BY <2>1, <2>2 DEF ShownAsIs, TInv, ClientTyped
<1>2. /\ b = Hidden <=> status[c] # "shown"
      /\ status[c] = "shown" => b.col = column[c] /\ b.title = title[c] /\ b.pos = position'[c]
  <2>1. (\A d \in Cards : ShownAsIs(d))'
    BY ActualIsNext
  <2> QED
    BY <2>1 DEF ShownAsIs
<1>3. b = a \/ (c \in silent' /\ status[c] = "shown")
  BY DEF Actual, Row
<1> HIDE DEF a, b, w
<1> DEFINE Close(v) == \/ v = b
                       \/ /\ c \in silent' /\ status[c] = "shown"
                          /\ v # Hidden /\ v.col = column[c] /\ v.title = title[c]
<1>4. ASSUME NEW v, Agrees(c, v) PROVE Close(v)
  BY <1>1, <1>2, <1>3, <1>4 DEF Agrees, a
<1>5. Agrees(c, view[c])' <=> Close(w)
  BY DEF Agrees, w, b
<1>6. Pending(c)' = {} /\ c \notin lost' => Close(w)
  BY <1>4 DEF Followed, w
<1>7. ASSUME NEW s \in Slots, Pending(c)' = {s}
      PROVE  /\ Rereads(s, c)'
             /\ c \notin lost' => Agrees(c, CardAfter(s, c, view[c]))'
             /\ Agrees(c, CardAfter(s, c, Actual(c)))'
  <2> DEFINE f(v) == IF call[s].op = "unarchive" /\ stage[s] = "reload" THEN b
                    ELSE CardAfter(s, c, v)
  <2>1. /\ Rereads(s, c)
        /\ c \notin lost => Agrees(c, CardAfter(s, c, w))
        /\ Agrees(c, CardAfter(s, c, a))
        /\ Waits(s) /\ stage[s] \in {"reload", "notify"}
    BY <1>7 DEF Followed, Pending, Unpublished, w, a
  <2>2. CardAfter(s, c, view[c])' = f(w) /\ CardAfter(s, c, Actual(c))' = f(b)
    BY <2>1 DEF CardAfter, MovedTo, Waits, w, b
  <2>3. c \notin lost' => Close(f(w))
    BY <1>4, <2>1
  <2>4. Close(f(b))
    <3>1. CASE b = a
      BY <1>4, <2>1, <3>1
    <3>2. CASE call[s].op \in {"archive", "delete", "unarchive", "create"}
      <4>1. CASE call[s].op = "unarchive" /\ stage[s] = "reload"
        BY <4>1
      <4>2. CASE ~(call[s].op = "unarchive" /\ stage[s] = "reload")
        <5>1. f(b) = CardAfter(s, c, a)
          BY <2>1, <3>2, <4>2 DEF CardAfter
        <5> QED
          BY <1>4, <2>1, <5>1
      <4> QED
        BY <4>1, <4>2
    <3>3. CASE b # a /\ call[s].op = "move"
      <4>1. b # Hidden /\ a # Hidden
        BY <1>1, <1>2, <1>3, <3>3
      <4>2. a.title = b.title
        BY <1>1, <1>2, <1>3, <3>3
      <4>3. CardAfter(s, c, a) = CardAfter(s, c, b)
        BY <3>3, <4>1, <4>2 DEF CardAfter
      <4> QED
        BY <1>4, <2>1, <3>3, <4>3
    <3>4. CASE b # a /\ call[s].op = "updateCard"
      <4>1. b # Hidden /\ a # Hidden /\ status[c] = "shown"
        BY <1>1, <1>2, <1>3, <3>4
      <4>2. /\ CardAfter(s, c, a) = [a EXCEPT !.title = call[s].title]
            /\ CardAfter(s, c, b) = [b EXCEPT !.title = call[s].title]
        BY <3>4, <4>1 DEF CardAfter
      <4>3. CardAfter(s, c, a).title = title[c]
        BY <1>1, <2>1, <4>1 DEF Agrees, a
      <4>4. call[s].title = title[c]
        BY <1>1, <4>2, <4>3 DEF Places
      <4>5. CardAfter(s, c, b) = b
        BY <1>1, <1>2, <4>1, <4>2, <4>4 DEF Places
      <4> QED
        BY <3>4, <4>5
    <3>5. CASE b # a /\ call[s].op = "deleteColumn"
      <4>1. a # Hidden /\ b # Hidden /\ a.col = b.col
        BY <1>1, <1>2, <1>3, <3>5
      <4>2. a.col # call[s].col
        BY <1>1, <2>1, <3>5, <4>1 DEF CardAfter, Agrees, a
      <4>3. CardAfter(s, c, b) = b
        BY <3>5, <4>1, <4>2 DEF CardAfter
      <4> QED
        BY <3>5, <4>3
    <3>6. CASE call[s].op \notin {"create", "move", "updateCard", "unarchive", "archive",
                                  "delete", "deleteColumn"}
      BY <3>6 DEF CardAfter
    <3> QED
      BY <3>1, <3>2, <3>3, <3>4, <3>5, <3>6
  <2>5. Rereads(s, c)'
    BY <2>1 DEF Rereads, Exists, Waits
  <2>6. /\ Agrees(c, CardAfter(s, c, view[c]))' <=> Close(CardAfter(s, c, view[c])')
        /\ Agrees(c, CardAfter(s, c, Actual(c)))' <=> Close(CardAfter(s, c, Actual(c))')
    BY DEF Agrees, b
  <2> HIDE DEF f, Close
  <2> QED
    BY <2>2, <2>3, <2>4, <2>5, <2>6
<1> QED
  BY <1>5, <1>6, <1>7

\* It is written, and an event is due.
LEMMA CardWritten ==
  ASSUME NEW c, NEW s \in Slots, s \notin Pending(c), Pending(c)' = Pending(c) \cup {s},
         c \in crossed => c \in crossed',
         Pending(c) = {} /\ c \notin crossed =>
            (/\ Rereads(s, c)
             /\ c \notin lost => Agrees(c, CardAfter(s, c, view[c]))
             /\ Agrees(c, CardAfter(s, c, Actual(c))))'
  PROVE  Followed(c)'
<1>1. ASSUME NEW t \in Slots, Pending(c)' = {t} PROVE Pending(c) = {} /\ t = s
  BY <1>1
<1>2. Pending(c)' # {}
  OBVIOUS
<1> QED
  BY <1>1, <1>2 DEF Followed

LEMMA ColumnUntouched ==
  ASSUME NEW k \in Columns, ColumnFollowed(k),
         Pending(k)' = Pending(k),
         \A t \in Pending(k) : Waits(t),
         ActualColumn(k)' = ActualColumn(k),
         columnView'[k] = columnView[k], k \in lost => k \in lost',
         k \in crossed => k \in crossed'
  PROVE  ColumnFollowed(k)'
<1>1. ASSUME NEW s \in Slots, Pending(k)' = {s}
      PROVE  /\ ColumnAfter(s, columnView[k])' = ColumnAfter(s, columnView[k])
             /\ ColumnAfter(s, ActualColumn(k))' = ColumnAfter(s, ActualColumn(k))
  <2>1. call'[s] = call[s] /\ below'[s] = below[s]
    BY <1>1 DEF Waits
  <2> QED
    BY <2>1 DEF ColumnAfter
<1> QED
  BY <1>1 DEF ColumnFollowed

LEMMA ColumnWritten ==
  ASSUME NEW k, NEW s \in Slots, s \notin Pending(k), Pending(k)' = Pending(k) \cup {s},
         k \in crossed => k \in crossed',
         Pending(k) = {} /\ k \notin crossed =>
            (/\ k \notin lost => ColumnAfter(s, columnView[k]) = ActualColumn(k)
             /\ ColumnAfter(s, ActualColumn(k)) = ActualColumn(k))'
  PROVE  ColumnFollowed(k)'
<1>1. ASSUME NEW t \in Slots, Pending(k)' = {t} PROVE Pending(k) = {} /\ t = s
  BY <1>1
<1>2. Pending(k)' # {}
  OBVIOUS
<1> QED
  BY <1>1, <1>2 DEF ColumnFollowed

-----------------------------------------------------------------------------
(* What the steps mean for all of them.                                    *)

Shown == /\ \A c \in Cards : Followed(c)
         /\ \A k \in Columns : ColumnFollowed(k)

\* No row is written, but for positions by a rebalance.
LEMMA NothingDue ==
  ASSUME TInv, TInv', Shown,
         \A t \in Slots : Unpublished(t)' <=> Unpublished(t),
         \A t \in Slots : Unpublished(t) => Waits(t),
         UNCHANGED <<columns, status, column, order, title, view, columnView, lost, crossed>>,
         \A c \in Cards : position'[c] = position[c] \/ c \in silent',
         silent \subseteq silent'
  PROVE  Shown'
<1>1. \A x : Pending(x)' = Pending(x)
  BY PendingSame DEF Waits
<1>2. \A x : \A t \in Pending(x) : Waits(t)
  BY DEF Pending
<1>3. ASSUME NEW c \in Cards PROVE Followed(c)'
  BY <1>1, <1>2, CardUntouched DEF Shown
<1>4. ASSUME NEW k \in Columns PROVE ColumnFollowed(k)'
  <2>1. ActualColumn(k)' = ActualColumn(k)
    BY DEF ActualColumn
  <2> QED
    BY <1>1, <1>2, <2>1, ColumnUntouched DEF Shown
<1> QED
  BY <1>3, <1>4 DEF Shown

\* What slots do when one of them has written its row.
Writes(s) ==
    /\ ~Unpublished(s) /\ Unpublished(s)'
    /\ \A t \in Slots \ {s} : Waits(t) /\ stage'[t] = stage[t]
    /\ UNCHANGED <<view, columnView, lost, crossed>>

\* A card is written.
LEMMA CardDue ==
  ASSUME TInv, TInv', Shown, NEW s \in Slots, NEW c \in Cards, Writes(s),
         About(s)' = {c},
         \A d \in Cards \ {c} : /\ status'[d] = status[d] /\ column'[d] = column[d]
                                /\ position'[d] = position[d] /\ title'[d] = title[d],
         UNCHANGED <<columns, order>>, \A k \in Columns : title'[k] = title[k],
         silent \subseteq silent' \cup {c},
         c \notin crossed /\ (c \notin lost => Agrees(c, view[c])) =>
            (/\ Rereads(s, c)
             /\ c \notin lost => Agrees(c, CardAfter(s, c, view[c]))
             /\ Agrees(c, CardAfter(s, c, Actual(c))))'
  PROVE  Shown'
<1>1. \A x : /\ s \notin Pending(x)
             /\ Pending(x)' = IF x = c THEN Pending(x) \cup {s} ELSE Pending(x)
  BY PendingGrows DEF Writes, Waits
<1>2. \A x : \A t \in Pending(x) : Waits(t)
  BY DEF Pending, Writes
<1>3. ASSUME NEW d \in Cards \ {c} PROVE Followed(d)'
  BY <1>1, <1>2, CardUntouched DEF Shown, Writes
<1>4. Followed(c)'
  <2>1. Pending(c) = {} /\ c \notin crossed => (c \notin lost => Agrees(c, view[c]))
    BY DEF Shown, Followed
  <2> QED
    BY <1>1, <2>1, CardWritten DEF Writes
<1>5. ASSUME NEW k \in Columns PROVE ColumnFollowed(k)'
  <2>1. ActualColumn(k)' = ActualColumn(k)
    BY DEF ActualColumn
  <2>2. k # c
    BY ApartAssumption
  <2> QED
    BY <1>1, <1>2, <2>1, <2>2, ColumnUntouched DEF Shown, Writes
<1> QED
  BY <1>3, <1>4, <1>5 DEF Shown

\* A column is written.
LEMMA ColumnDue ==
  ASSUME TInv, TInv', Shown, NEW s \in Slots, NEW k \in Columns, Writes(s),
         About(s)' = {k},
         UNCHANGED <<status, column, position, silent>>,
         \A c \in Cards : title'[c] = title[c],
         \A j \in Columns \ {k} : ActualColumn(j)' = ActualColumn(j),
         k \notin crossed /\ (k \notin lost => columnView[k] = ActualColumn(k)) =>
            (/\ k \notin lost => ColumnAfter(s, columnView[k]) = ActualColumn(k)
             /\ ColumnAfter(s, ActualColumn(k)) = ActualColumn(k))'
  PROVE  Shown'
<1>1. \A x : /\ s \notin Pending(x)
             /\ Pending(x)' = IF x = k THEN Pending(x) \cup {s} ELSE Pending(x)
  BY PendingGrows DEF Writes, Waits
<1>2. \A x : \A t \in Pending(x) : Waits(t)
  BY DEF Pending, Writes
<1>3. ASSUME NEW c \in Cards PROVE Followed(c)'
  <2>1. k # c
    BY ApartAssumption
  <2> QED
    BY <1>1, <1>2, <2>1, CardUntouched DEF Shown, Writes
<1>4. ASSUME NEW j \in Columns \ {k} PROVE ColumnFollowed(j)'
  BY <1>1, <1>2, ColumnUntouched DEF Shown, Writes
<1>5. ColumnFollowed(k)'
  <2>1. Pending(k) = {} /\ k \notin crossed
            => (k \notin lost => columnView[k] = ActualColumn(k))
    BY DEF Shown, ColumnFollowed
  <2> QED
    BY <1>1, <2>1, ColumnWritten DEF Writes
<1> QED
  BY <1>3, <1>4, <1>5 DEF Shown

-----------------------------------------------------------------------------
(* What an event says of the row that was written.                         *)

\* To agree with a shown card is to name its column, its title and, unless it was
\* rewritten, its position.
Reading(c) ==
    \A v \in Places :
        Agrees(c, v) <=> IF status[c] = "shown"
                         THEN /\ v.col = column[c] /\ v.title = title[c]
                              /\ v.pos = position[c] \/ c \in silent
                         ELSE v = Hidden

LEMMA Readings == TInv => \A c \in Cards : Reading(c)
<1> SUFFICES ASSUME TInv, NEW c \in Cards, NEW v \in Places
             PROVE  Agrees(c, v) <=> IF status[c] = "shown"
                                     THEN /\ v.col = column[c] /\ v.title = title[c]
                                          /\ v.pos = position[c] \/ c \in silent
                                     ELSE v = Hidden
  BY DEF Reading
<1>1. ShownAsIs(c)
  BY ActualIs
<1>2. v = [col |-> v.col, pos |-> v.pos, title |-> v.title]
  BY DEF Places
<1>3. CASE status[c] = "shown"
  <2>1. Actual(c) = [col |-> column[c], pos |-> position[c], title |-> title[c]]
    BY <1>3 DEF Actual, Row
  <2>2. v.col = column[c] => v # Hidden
    <3>1. column[c] # None
      BY <1>3, NoneAssumption DEF TInv, IInv, Typed, CardsStayOnBoard, Exists
    <3> QED
      BY <3>1 DEF Hidden
  <2> QED
    BY <1>2, <1>3, <2>1, <2>2 DEF Agrees
<1>4. CASE status[c] # "shown"
  BY <1>1, <1>4 DEF Agrees, ShownAsIs
<1> QED
  BY <1>3, <1>4

LEMMA ReadingsNext == TInv' => (\A c \in Cards : Reading(c))'
BY Readings, PTL

LEMMA UpdateCardDue ==
  ASSUME TInv, TInv', Shown, NEW s \in Slots, NEW c \in Cards, NEW t \in Titles,
         UpdateCard(s, c, t)
  PROVE  Shown'
<1>1. /\ stage[s] = "idle" /\ Exists(c)
      /\ stage' = [stage EXCEPT ![s] = "reload"]
      /\ call' = [call EXCEPT ![s] = [op |-> "updateCard", card |-> c, col |-> None,
                                       ref |-> 0, title |-> t]]
      /\ title' = [title EXCEPT ![c] = t]
      /\ UNCHANGED <<columns, status, column, position, order, below, above, loaded, clientVars>>
  BY DEF UpdateCard, Begin, Goto
<1>2. /\ stage \in [Slots -> Stages] /\ call \in [Slots -> Calls]
      /\ title \in [Cards \cup Columns -> Titles \cup {None}]
      /\ view[c] \in Places
  BY DEF TInv, IInv, Typed, RowsTyped, ClientTyped
<1>3. call'[s].op = "updateCard" /\ call'[s].card = c /\ call'[s].title = t
  BY <1>1, <1>2
<1>4. Writes(s) /\ About(s)' = {c} /\ Rereads(s, c)'
  BY <1>1, <1>2, <1>3 DEF Writes, Waits, Unpublished, About, Subject, Rereads, Exists, clientVars
<1>5. Reading(c) /\ Reading(c)' /\ ShownAsIs(c)' /\ (Actual(c) \in Places)'
  BY Readings, ReadingsNext, ActualIsNext DEF ShownAsIs
<1>6. ASSUME NEW v \in Places,
             IF status[c] = "shown" THEN /\ v.col = column[c]
                                         /\ v.pos = position[c] \/ c \in silent
                                    ELSE v = Hidden
      PROVE  Agrees(c, CardAfter(s, c, v))'
  <2>1. CardAfter(s, c, v)' = IF v # Hidden THEN [v EXCEPT !.title = t] ELSE v
    BY <1>3 DEF CardAfter
  <2> DEFINE u == IF v # Hidden THEN [v EXCEPT !.title = t] ELSE v
  <2>2. u \in Places
    BY DEF Places
  <2>3. IF status'[c] = "shown"
        THEN /\ u.col = column'[c] /\ u.title = title'[c]
             /\ u.pos = position'[c] \/ c \in silent'
        ELSE u = Hidden
    <3>1. status[c] = "shown" => column[c] # None
      BY NoneAssumption DEF TInv, IInv, Typed, CardsStayOnBoard, Exists
    <3>2. v.col # None => v # Hidden
      BY DEF Hidden
    <3> QED
      BY <1>1, <1>2, <1>6, <3>1, <3>2 DEF Places, clientVars
  <2>4. Agrees(c, u)'
    BY <1>5, <2>2, <2>3 DEF Reading
  <2> QED
    BY <2>1, <2>4
<1>7. Agrees(c, view[c]) => Agrees(c, CardAfter(s, c, view[c]))'
  BY <1>1, <1>2, <1>5, <1>6 DEF Reading, clientVars
<1>8. Agrees(c, CardAfter(s, c, Actual(c)))'
  BY <1>1, <1>5, <1>6 DEF ShownAsIs, Actual
<1> QED
  BY <1>1, <1>2, <1>4, <1>7, <1>8, CardDue, ApartAssumption DEF Exists, clientVars

LEMMA SetStatusDue ==
  ASSUME TInv, TInv', Shown, NEW s \in Slots, NEW c \in Cards, NEW op,
         SetStatus(s, op, c)
  PROVE  Shown'
<1>1. /\ stage[s] = "idle" /\ Exists(c)
      /\ op \in {"archive", "unarchive", "delete"}
      /\ stage' = [stage EXCEPT ![s] = IF op = "unarchive" THEN "reload" ELSE "notify"]
      /\ call' = [call EXCEPT ![s] = [op |-> op, card |-> c, col |-> None,
                                       ref |-> 0, title |-> None]]
      /\ status' = [status EXCEPT ![c] = StatusAfter(op)]
      /\ silent \subseteq silent' \cup {c}
      /\ UNCHANGED <<columns, title, order, below, above, loaded>>
      /\ UNCHANGED <<view, columnView, lost, crossed>>
  BY DEF SetStatus, Begin, Goto
<1>2. /\ stage \in [Slots -> Stages] /\ call \in [Slots -> Calls]
      /\ status \in [Cards -> {"unborn", "shown", "archived", "deleted"}]
  BY DEF TInv, IInv, Typed
<1>3. call'[s].op = op /\ call'[s].card = c
  BY <1>1, <1>2
<1>4. Writes(s) /\ About(s)' = {c}
  BY <1>1, <1>2, <1>3 DEF Writes, Waits, Unpublished, About, Subject
<1>5. \A d \in Cards \ {c} : /\ status'[d] = status[d] /\ column'[d] = column[d]
                             /\ position'[d] = position[d] /\ title'[d] = title[d]
  BY <1>1, <1>2 DEF SetStatus, RowsGone
<1>6. Rereads(s, c)'
  BY <1>1, <1>2, <1>3 DEF Rereads, Exists, StatusAfter
<1>7. CardAfter(s, c, view[c])' = Actual(c)' /\ CardAfter(s, c, Actual(c))' = Actual(c)'
  <2>1. CASE op = "unarchive"
    BY <1>1, <1>2, <1>3, <2>1 DEF CardAfter
  <2>2. CASE op \in {"archive", "delete"}
    <3>1. Actual(c)' = Hidden
      BY <1>1, <1>2, <2>2 DEF Actual, StatusAfter
    <3> QED
      BY <1>3, <2>2, <3>1 DEF CardAfter
  <2> QED
    BY <1>1, <2>1, <2>2
<1>8. Agrees(c, CardAfter(s, c, view[c]))' /\ Agrees(c, CardAfter(s, c, Actual(c)))'
  BY <1>7 DEF Agrees
<1> QED
  BY <1>1, <1>4, <1>5, <1>6, <1>8, CardDue

LEMMA CreateDue ==
  ASSUME TInv, TInv', Shown, Untitled, NEW s \in Slots, Create(s),
         call[s].col \in columns,
         NEW c, c = call[s].card, NEW k, k = call[s].col, NEW m, m = Appended(below[s])
  PROVE  Shown'
<1> DEFINE u == [col |-> k, pos |-> m, title |-> None]
<1>1. Creating(s)
  BY DEF Create, Creating
<1>2. /\ c \in Cards /\ k \in Columns /\ status[c] = "unborn" /\ title[c] = None
      /\ call[s].op = "create"
  BY <1>1 DEF TInv, IInv, Requests, Untitled, Create
<1>3. /\ stage[s] = "write" /\ stage' = [stage EXCEPT ![s] = "notify"]
      /\ status' = [status EXCEPT ![c] = "shown"]
      /\ column' = [column EXCEPT ![c] = k]
      /\ position' = [position EXCEPT ![c] = m]
      /\ UNCHANGED <<columns, order, title, call, below, above, loaded, clientVars>>
  BY DEF Create, Goto
<1>4. /\ stage \in [Slots -> Stages]
      /\ status \in [Cards -> {"unborn", "shown", "archived", "deleted"}]
      /\ column \in [Cards -> Columns \cup {None}]
      /\ position \in [Cards -> Positions]
  BY DEF TInv, IInv, Typed, RowsTyped
<1>5. Actual(c)' = u
  BY <1>2, <1>3, <1>4 DEF Actual, Row
<1>6. Agrees(c, CardAfter(s, c, view[c]))' /\ Agrees(c, CardAfter(s, c, Actual(c)))'
  <2>1. CardAfter(s, c, view[c])' = u /\ CardAfter(s, c, Actual(c))' = u
    BY <1>2, <1>3 DEF CardAfter
  <2> QED
    BY <1>5, <2>1 DEF Agrees
<1>7. Writes(s) /\ About(s)' = {c} /\ Rereads(s, c)'
  BY <1>2, <1>3, <1>4 DEF Writes, Waits, Unpublished, About, Subject, Rereads, clientVars
<1>8. \A d \in Cards \ {c} : /\ status'[d] = status[d] /\ column'[d] = column[d]
                             /\ position'[d] = position[d] /\ title'[d] = title[d]
  BY <1>3, <1>4
<1> QED
  BY <1>2, <1>3, <1>6, <1>7, <1>8, CardDue DEF clientVars

LEMMA MoveDue ==
  ASSUME TInv, TInv', Shown, NEW s \in Slots, Move(s),
         Exists(call[s].card), call[s].col \in columns,
         NEW c, c = call[s].card, NEW k, k = call[s].col,
         NEW m, m = Between(below[s], above[s])
  PROVE  Shown'
<1>1. Moving(s)
  BY DEF Move, Moving
<1>2. c \in Cards /\ k \in Columns /\ call[s].op = "move"
  BY <1>1 DEF TInv, IInv, Requests, Move
<1>3. /\ stage[s] = "write" /\ stage' = [stage EXCEPT ![s] = "reload"]
      /\ column' = [column EXCEPT ![c] = k]
      /\ position' = [position EXCEPT ![c] = m]
      /\ silent' = silent \ {c}
      /\ UNCHANGED <<columns, status, order, title, call, below, above, loaded>>
      /\ UNCHANGED <<view, columnView, lost, crossed>>
  BY DEF Move, Goto
<1>4. /\ stage \in [Slots -> Stages]
      /\ column \in [Cards -> Columns \cup {None}]
      /\ position \in [Cards -> Positions]
      /\ view[c] \in Places
  BY <1>2 DEF TInv, IInv, Typed, RowsTyped, ClientTyped
<1>5. m \in Positions
  BY <1>2, MidpointTyped DEF TInv, ReadTyped
<1>6. Exists(c)
  OBVIOUS
<1>7. Writes(s) /\ About(s)' = {c} /\ Rereads(s, c)'
  BY <1>2, <1>3, <1>4, <1>6 DEF Writes, Waits, Unpublished, About, Subject, Rereads, Exists
<1>8. \A d \in Cards \ {c} : /\ status'[d] = status[d] /\ column'[d] = column[d]
                             /\ position'[d] = position[d] /\ title'[d] = title[d]
  BY <1>3, <1>4
<1>9. Reading(c) /\ Reading(c)' /\ ShownAsIs(c)'
  BY <1>2, Readings, ReadingsNext, ActualIsNext
<1>10. ASSUME NEW v \in Places,
              IF status[c] = "shown" THEN v # Hidden /\ v.title = title[c] ELSE v = Hidden
       PROVE  Agrees(c, CardAfter(s, c, v))'
  <2> DEFINE u == IF v # Hidden THEN [col |-> k, pos |-> m, title |-> v.title] ELSE v
  <2>1. CardAfter(s, c, v)' = u
    BY <1>2, <1>3 DEF CardAfter, MovedTo
  <2>2. u \in Places
    BY <1>2, <1>5 DEF Places
  <2>3. IF status'[c] = "shown"
        THEN /\ u.col = column'[c] /\ u.title = title'[c]
             /\ u.pos = position'[c] \/ c \in silent'
        ELSE u = Hidden
    BY <1>2, <1>3, <1>4, <1>10
  <2>4. Agrees(c, u)'
    BY <1>9, <2>2, <2>3 DEF Reading
  <2> QED
    BY <2>1, <2>4
<1>11. Agrees(c, view[c]) => Agrees(c, CardAfter(s, c, view[c]))'
  <2> SUFFICES ASSUME Agrees(c, view[c]) PROVE Agrees(c, CardAfter(s, c, view[c]))'
    OBVIOUS
  <2>1. status[c] = "shown" => view[c].col = column[c] /\ column[c] # None
    BY <1>2, <1>4, <1>9, NoneAssumption
       DEF Reading, TInv, IInv, Typed, CardsStayOnBoard, Exists
  <2>2. IF status[c] = "shown" THEN view[c] # Hidden /\ view[c].title = title[c]
                               ELSE view[c] = Hidden
    BY <1>4, <1>9, <2>1 DEF Reading, Hidden
  <2> QED
    BY <1>3, <1>4, <1>10, <2>2
<1>12. Agrees(c, CardAfter(s, c, Actual(c)))'
  BY <1>3, <1>9, <1>10 DEF ShownAsIs, Actual
<1> QED
  BY <1>2, <1>3, <1>7, <1>8, <1>11, <1>12, CardDue

LEMMA CreateColumnDue ==
  ASSUME TInv, TInv', Shown, Untitled, NEW s \in Slots, CreateColumn(s),
         NEW k, k = call[s].col, NEW m, m = Appended(below[s])
  PROVE  Shown'
<1> DEFINE u == [pos |-> m, title |-> None]
<1>1. /\ k \in Columns /\ order[k] = 0 /\ title[k] = None
      /\ call[s].op = "createColumn"
  BY DEF CreateColumn, TInv, Targets, ColumnOps, Untitled, AddingWrite
<1>2. /\ stage[s] = "write" /\ stage' = [stage EXCEPT ![s] = "notify"]
      /\ columns' = columns \cup {k}
      /\ order' = [order EXCEPT ![k] = m]
      /\ UNCHANGED <<status, column, position, title, call, below, above, loaded, clientVars>>
  BY DEF CreateColumn, Goto
<1>3. stage \in [Slots -> Stages] /\ order \in [Columns -> Positions]
  BY DEF TInv, IInv, Typed, RowsTyped
<1>4. ActualColumn(k)' = u
  BY <1>1, <1>2, <1>3 DEF ActualColumn
<1>5. ColumnAfter(s, columnView[k])' = u /\ ColumnAfter(s, ActualColumn(k))' = u
  BY <1>1, <1>2 DEF ColumnAfter
<1>6. \A j \in Columns \ {k} : ActualColumn(j)' = ActualColumn(j)
  BY <1>2, <1>3 DEF ActualColumn
<1>7. Writes(s) /\ About(s)' = {k}
  BY <1>1, <1>2, <1>3 DEF Writes, Waits, Unpublished, About, Subject, clientVars
<1> QED
  BY <1>1, <1>2, <1>4, <1>5, <1>6, <1>7, ColumnDue DEF clientVars

LEMMA UpdateColumnDue ==
  ASSUME TInv, TInv', Shown, Untitled, NEW s \in Slots, NEW k \in Columns,
         NEW ref \in Refs \cup {0}, NEW t \in Titles \cup {None},
         UpdateColumn(s, k, ref, t)
  PROVE  Shown'
<1> DEFINE o == IF ref # 0 THEN ref ELSE order[k]
           n == IF t # None THEN t ELSE title[k]
           u == [pos |-> o, title |-> n]
<1>1. /\ stage[s] = "idle" /\ k \in columns
      /\ stage' = [stage EXCEPT ![s] = "notify"]
      /\ call' = [call EXCEPT ![s] = [op |-> "updateColumn", card |-> None, col |-> k,
                                       ref |-> ref, title |-> t]]
      /\ UNCHANGED <<columns, status, column, position, below, above, loaded, clientVars>>
  BY DEF UpdateColumn, Begin, Goto
<1>2. /\ stage \in [Slots -> Stages] /\ call \in [Slots -> Calls]
      /\ order \in [Columns -> Positions] /\ order[k] # 0
      /\ title \in [Cards \cup Columns -> Titles \cup {None}]
  BY <1>1 DEF TInv, IInv, Typed, RowsTyped, Untitled
<1>3. /\ \A j \in Columns : order'[j] = IF j = k THEN o ELSE order[j]
      /\ \A x \in Cards \cup Columns : title'[x] = IF x = k THEN n ELSE title[x]
  BY <1>2 DEF UpdateColumn
<1>4. /\ call'[s].op = "updateColumn" /\ call'[s].col = k
      /\ call'[s].ref = ref /\ call'[s].title = t
  BY <1>1, <1>2
<1>5. ActualColumn(k)' = u /\ o # 0
  BY <1>1, <1>2, <1>3 DEF ActualColumn
<1>6. k \notin crossed /\ columnView[k] = ActualColumn(k) =>
          ColumnAfter(s, columnView[k])' = u
  <2>1. columnView[k] = ActualColumn(k) =>
            /\ columnView[k] = [pos |-> order[k], title |-> title[k]]
            /\ columnView[k] # NoColumn
    BY <1>1, <1>2 DEF ActualColumn, NoColumn
  <2> QED
    BY <1>1, <1>4, <2>1 DEF ColumnAfter, clientVars
<1>7. ColumnAfter(s, ActualColumn(k))' = u
  <2>1. u # NoColumn
    BY <1>5 DEF NoColumn
  <2> QED
    BY <1>4, <1>5, <2>1 DEF ColumnAfter
<1>8. \A j \in Columns \ {k} : ActualColumn(j)' = ActualColumn(j)
  BY <1>1, <1>3 DEF ActualColumn
<1>9. \A c \in Cards : title'[c] = title[c]
  BY <1>3, ApartAssumption
<1>10. Writes(s) /\ About(s)' = {k}
  BY <1>1, <1>2, <1>4 DEF Writes, Waits, Unpublished, About, Subject, clientVars
<1> QED
  BY <1>1, <1>5, <1>6, <1>7, <1>8, <1>9, <1>10, ColumnDue DEF clientVars

\* With a column go its cards: the event is about all of them.
LEMMA DeleteColumnDue ==
  ASSUME TInv, TInv', Shown, Untitled, NEW s \in Slots, NEW k \in Columns, DeleteColumn(s, k)
  PROVE  Shown'
<1> DEFINE S == {c \in Cards : Exists(c) /\ column[c] = k}
<1>1. /\ stage[s] = "idle"
      /\ stage' = [stage EXCEPT ![s] = "notify"]
      /\ call' = [call EXCEPT ![s] = [op |-> "deleteColumn", card |-> None, col |-> k,
                                       ref |-> 0, title |-> None]]
      /\ columns' = columns \ {k}
      /\ status' = [c \in Cards |-> IF c \in S THEN "deleted" ELSE status[c]]
      /\ column' = [c \in Cards |-> IF c \in S THEN None ELSE column[c]]
      /\ position' = [c \in Cards |-> IF c \in S THEN 0 ELSE position[c]]
      /\ UNCHANGED <<order, title, below, above, loaded, clientVars>>
  BY DEF DeleteColumn, Begin, Goto, RowsGone
<1>2. stage \in [Slots -> Stages] /\ call \in [Slots -> Calls] /\ view \in [Cards -> Places]
  BY DEF TInv, IInv, Typed, ClientTyped
<1>3. call'[s].op = "deleteColumn" /\ call'[s].col = k
  BY <1>1, <1>2
<1>4. Writes(s) /\ About(s)' = {k} \cup Cards /\ (\A c : Rereads(s, c))'
  BY <1>1, <1>2, <1>3 DEF Writes, Waits, Unpublished, About, Subject, Rereads, clientVars
<1>5. \A x : /\ s \notin Pending(x)
             /\ Pending(x)' = IF x \in {k} \cup Cards THEN Pending(x) \cup {s} ELSE Pending(x)
  BY <1>4, PendingGrows DEF Writes, Waits
<1>6. ASSUME NEW c \in Cards PROVE Followed(c)'
  <2>1. Reading(c) /\ Reading(c)' /\ ShownAsIs(c)'
    BY Readings, ReadingsNext, ActualIsNext
  <2>2. /\ status'[c] = "shown" <=> status[c] = "shown" /\ column[c] # k
        /\ status'[c] = "shown" => /\ column'[c] = column[c] /\ position'[c] = position[c]
                                   /\ column[c] # k
    BY <1>1 DEF Exists
  <2>3. Actual(c)' = IF status[c] = "shown" /\ column[c] # k THEN Actual(c) ELSE Hidden
    BY <1>1, <2>2 DEF Actual, Row
  <2>4. status[c] = "shown" => column[c] # None
    BY NoneAssumption DEF TInv, IInv, Typed, CardsStayOnBoard, Exists
  <2>5. Agrees(c, view[c]) => Agrees(c, CardAfter(s, c, view[c]))'
    <3> SUFFICES ASSUME Agrees(c, view[c]) PROVE Agrees(c, CardAfter(s, c, view[c]))'
      OBVIOUS
    <3>1. IF status[c] = "shown"
          THEN /\ view[c].col = column[c] /\ view[c].title = title[c]
               /\ view[c].pos = position[c] \/ c \in silent
          ELSE view[c] = Hidden
      BY <1>2, <2>1 DEF Reading
    <3>2. CASE status[c] = "shown" /\ column[c] # k
      <4>1. CardAfter(s, c, view[c])' = view[c]
        BY <1>1, <1>3, <3>1, <3>2 DEF CardAfter, clientVars
      <4>2. Agrees(c, view[c])'
        BY <1>1, <1>2, <2>1, <2>2, <3>1, <3>2 DEF Reading, clientVars
      <4> QED
        BY <1>1, <4>1, <4>2 DEF clientVars, Agrees
    <3>3. CASE ~(status[c] = "shown" /\ column[c] # k)
      <4>1. CardAfter(s, c, view[c])' = Hidden
        BY <1>1, <1>3, <3>1, <3>3 DEF CardAfter, clientVars
      <4>2. Actual(c)' = Hidden
        BY <2>3, <3>3
      <4> QED
        BY <4>1, <4>2 DEF Agrees
    <3> QED
      BY <3>2, <3>3
  <2>6. Agrees(c, CardAfter(s, c, Actual(c)))'
    <3>1. CardAfter(s, c, Actual(c))' = Actual(c)'
      <4>1. CASE status[c] = "shown" /\ column[c] # k
        <5>1. Actual(c)'.col # k
          BY <2>1, <2>2, <4>1 DEF ShownAsIs
        <5> QED
          BY <1>3, <5>1 DEF CardAfter
      <4>2. CASE ~(status[c] = "shown" /\ column[c] # k)
        BY <1>3, <2>3, <4>2 DEF CardAfter
      <4> QED
        BY <4>1, <4>2
    <3> QED
      BY <3>1 DEF Agrees
  <2>7. Pending(c) = {} /\ c \notin crossed => (c \notin lost => Agrees(c, view[c]))
    BY DEF Shown, Followed
  <2> QED
    BY <1>1, <1>4, <1>5, <2>5, <2>6, <2>7, CardWritten DEF clientVars
<1>7. ASSUME NEW j \in Columns PROVE ColumnFollowed(j)'
  <2>1. CASE j = k
    <3>1. ActualColumn(j)' = NoColumn
      BY <1>1, <2>1 DEF ActualColumn
    <3>2. ColumnAfter(s, columnView[j])' = NoColumn /\ ColumnAfter(s, ActualColumn(j))' = NoColumn
      BY <1>3 DEF ColumnAfter
    <3> QED
      BY <1>1, <1>5, <2>1, <3>1, <3>2, ColumnWritten DEF clientVars
  <2>2. CASE j # k
    <3>1. Pending(j)' = Pending(j)
      BY <1>5, <2>2, ApartAssumption
    <3>2. \A t \in Pending(j) : Waits(t)
      BY <1>4 DEF Pending, Writes
    <3>3. ActualColumn(j)' = ActualColumn(j)
      BY <1>1, <2>2 DEF ActualColumn
    <3> QED
      BY <1>1, <3>1, <3>2, <3>3, ColumnUntouched DEF Shown, clientVars
  <2> QED
    BY <2>1, <2>2
<1> QED
  BY <1>6, <1>7 DEF Shown

-----------------------------------------------------------------------------
(* The event is published, or is not.                                      *)

\* What slot s was to publish is published or given up, and what another slot
\* has written too counts as crossed.
LEMMA Published ==
  ASSUME TInv, TInv', Shown, NEW s \in Slots, Unpublished(s),
         Finish(s), Crosses(s), UNCHANGED cardVars,
         \A c \in Cards \ About(s) : /\ view'[c] = view[c]
                                     /\ c \in lost => c \in lost'
                                     /\ c \in silent => c \in silent',
         \A k \in Columns \ About(s) : /\ columnView'[k] = columnView[k]
                                       /\ k \in lost => k \in lost',
         \A c \in Cards \cap About(s) :
             Pending(c) = {s} /\ c \notin crossed => (c \notin lost => Agrees(c, view[c]))',
         \A k \in Columns \cap About(s) :
             Pending(k) = {s} /\ k \notin crossed
                 => (k \notin lost => columnView[k] = ActualColumn(k))'
  PROVE  Shown'
<1>1. /\ \A t \in Slots \ {s} : Waits(t) /\ stage'[t] = stage[t] /\ call'[t] = call[t]
      /\ ~Unpublished(s)'
      /\ crossed \subseteq crossed'
  BY DEF Finish, Goto, Crosses, Waits, Unpublished, TInv, IInv, Typed, ReadTyped
<1>2. \A x : Pending(x)' = Pending(x) \ {s}
  BY <1>1, PendingShrinks
<1>3. \A x : x \notin About(s) =>
          /\ Pending(x)' = Pending(x)
          /\ \A t \in Pending(x) : Waits(t)
  BY <1>1, <1>2 DEF Pending
<1>4. ASSUME NEW x \in About(s), x \notin crossed'
      PROVE  Pending(x) = {s} /\ Pending(x)' = {} /\ x \notin crossed
  <2>1. s \in Pending(x)
    BY DEF Pending
  <2>2. ASSUME NEW t \in Pending(x), t # s PROVE FALSE
    <3>1. t \in {u \in Slots \ {s} : Unpublished(u)} /\ x \in About(s) \cap About(t)
      BY <2>2 DEF Pending
    <3> QED
      BY <1>4, <3>1 DEF Crosses
  <2> QED
    BY <1>1, <1>2, <1>4, <2>1, <2>2
<1>5. ASSUME NEW c \in Cards PROVE Followed(c)'
  <2>1. CASE c \in About(s)
    <3>1. c \notin crossed' => Pending(c)' = {} /\ (c \notin lost => Agrees(c, view[c]))'
      BY <1>4, <2>1
    <3> QED
      BY <3>1 DEF Followed
  <2>2. CASE c \notin About(s)
    BY <1>1, <1>3, <2>2, CardUntouched DEF Shown, cardVars
  <2> QED
    BY <2>1, <2>2
<1>6. ASSUME NEW k \in Columns PROVE ColumnFollowed(k)'
  <2>1. CASE k \in About(s)
    <3>1. k \notin crossed' => Pending(k)' = {} /\ (k \notin lost => columnView[k] = ActualColumn(k))'
      BY <1>4, <2>1
    <3> QED
      BY <3>1 DEF ColumnFollowed
  <2>2. CASE k \notin About(s)
    <3>1. ActualColumn(k)' = ActualColumn(k)
      BY DEF ActualColumn, cardVars
    <3> QED
      BY <1>1, <1>3, <2>2, <3>1, ColumnUntouched DEF Shown
  <2> QED
    BY <2>1, <2>2
<1> QED
  BY <1>5, <1>6 DEF Shown

\* What a slot is about, by its endpoint.
LEMMA SubjectIs ==
  ASSUME TInv, NEW s \in Slots, stage[s] # "idle"
  PROVE  /\ Subject(s) \in About(s)
         /\ call[s].op \in ColumnOps => Subject(s) \in Columns /\ Columns \cap About(s) = {Subject(s)}
         /\ call[s].op \notin ColumnOps => /\ Subject(s) \in Cards /\ About(s) = {Subject(s)}
                                         /\ Columns \cap About(s) = {}
         /\ call[s].op \notin {"deleteColumn"} => About(s) = {Subject(s)}
         /\ call[s].op = "deleteColumn" => Cards \subseteq About(s)
BY ApartAssumption DEF TInv, Targets, About, Subject, ColumnOps

LEMMA NotifyDue ==
  ASSUME TInv, TInv', Shown, NEW s \in Slots, Notify(s)
  PROVE  Shown'
<1>1. /\ stage[s] = "notify" /\ Unpublished(s)
      /\ Crosses(s) /\ Finish(s) /\ UNCHANGED cardVars /\ silent' = silent
      /\ view' = CardsAfter(s) /\ columnView' = ColumnsAfter(s)
      /\ lost' = IF Whole(s) THEN lost \ {Subject(s)} ELSE lost
  BY DEF Notify, Unpublished
<1>2. /\ Subject(s) \in About(s)
      /\ call[s].op = "deleteColumn" => Subject(s) \in Columns
      /\ call[s].op # "deleteColumn" => About(s) = {Subject(s)}
  BY <1>1, SubjectIs DEF ColumnOps
<1>3. \A v, c : Agrees(c, v)' <=> Agrees(c, v)
  BY <1>1 DEF Agrees, Actual, Row, cardVars
<1>4. \A k : ActualColumn(k)' = ActualColumn(k)
  BY <1>1 DEF ActualColumn, cardVars
<1>5. /\ \A c \in Cards : view'[c] =
            IF c \in About(s) THEN CardAfter(s, c, view[c]) ELSE view[c]
      /\ \A k \in Columns : columnView'[k] =
            IF k \in About(s) THEN ColumnAfter(s, columnView[k]) ELSE columnView[k]
  BY <1>1, AfterEvent
<1>6. \A x : x \notin About(s) /\ x \in lost => x \in lost'
  BY <1>1, <1>2
<1>7. ASSUME NEW c \in Cards \cap About(s), Pending(c) = {s}, c \notin crossed
      PROVE  (c \notin lost => Agrees(c, view[c]))'
  <2>1. /\ c \notin lost => Agrees(c, CardAfter(s, c, view[c]))
        /\ Agrees(c, CardAfter(s, c, Actual(c)))
    BY <1>7 DEF Shown, Followed
  <2>2. CASE call[s].op \in {"archive", "unarchive", "delete"}
    <3>1. CardAfter(s, c, view[c]) = CardAfter(s, c, Actual(c))
      BY <1>1, <2>2 DEF CardAfter
    <3> QED
      BY <1>3, <1>5, <2>1, <3>1
  <2>3. CASE call[s].op \notin {"archive", "unarchive", "delete"}
    <3>1. c \in lost => c \in lost'
      BY <1>1, <1>2, <2>3, ApartAssumption DEF Whole
    <3> QED
      BY <1>3, <1>5, <2>1, <3>1
  <2> QED
    BY <2>2, <2>3
<1>8. ASSUME NEW k \in Columns \cap About(s), Pending(k) = {s}, k \notin crossed
      PROVE  (k \notin lost => columnView[k] = ActualColumn(k))'
  <2>1. /\ k \notin lost => ColumnAfter(s, columnView[k]) = ActualColumn(k)
        /\ ColumnAfter(s, ActualColumn(k)) = ActualColumn(k)
    BY <1>8 DEF Shown, ColumnFollowed
  <2>2. CASE call[s].op = "deleteColumn"
    BY <1>4, <1>5, <2>1, <2>2 DEF ColumnAfter
  <2>3. CASE call[s].op # "deleteColumn"
    <3>1. ~Whole(s)
      <4>1. call[s].op \in ColumnOps
        BY <1>1, SubjectIs
      <4> QED
        BY <2>3, <4>1 DEF Whole, ColumnOps
    <3> QED
      BY <1>1, <1>4, <1>5, <2>1, <3>1
  <2> QED
    BY <2>2, <2>3
<1>9. \A c \in Cards \ About(s) : /\ view'[c] = view[c]
                                  /\ c \in lost => c \in lost'
                                  /\ c \in silent => c \in silent'
  BY <1>1, <1>5, <1>6
<1>10. \A k \in Columns \ About(s) : /\ columnView'[k] = columnView[k]
                                     /\ k \in lost => k \in lost'
  BY <1>5, <1>6
<1> QED
  BY <1>1, <1>7, <1>8, <1>9, <1>10, Published

LEMMA EventLostDue ==
  ASSUME TInv, TInv', Shown, NEW s \in Slots, EventLost(s)
  PROVE  Shown'
<1>1. /\ Unpublished(s) /\ stage[s] # "idle"
      /\ Crosses(s) /\ Finish(s) /\ UNCHANGED cardVars
      /\ Subject(s) \in lost' /\ lost \subseteq lost'
      /\ \A c \in Cards : call[s].op = "deleteColumn" /\ view[c].col = call[s].col
                             => c \in lost'
      /\ UNCHANGED <<view, columnView, silent>>
  BY DEF EventLost, Unpublished
<1>2. \A v, c : Agrees(c, v)' <=> Agrees(c, v)
  BY <1>1 DEF Agrees, Actual, Row, cardVars
<1>3. ASSUME NEW c \in Cards \cap About(s), Pending(c) = {s}, c \notin crossed
      PROVE  (c \notin lost => Agrees(c, view[c]))'
  <2>1. CASE call[s].op = "deleteColumn"
    <3>1. c \notin lost => Agrees(c, CardAfter(s, c, view[c]))
      BY <1>3 DEF Shown, Followed
    <3>2. view[c].col # call[s].col => CardAfter(s, c, view[c]) = view[c]
      BY <2>1 DEF CardAfter
    <3> QED
      BY <1>1, <1>2, <2>1, <3>1, <3>2
  <2>2. CASE call[s].op # "deleteColumn"
    BY <1>1, <2>2, SubjectIs
  <2> QED
    BY <2>1, <2>2
<1>4. \A k \in Columns \cap About(s) : k \in lost'
  <2>1. Columns \cap About(s) \subseteq {Subject(s)}
    BY <1>1, SubjectIs
  <2> QED
    BY <1>1, <2>1
<1> QED
  BY <1>1, <1>3, <1>4, Published

\* The card is read again: the row that an unarchived one's event will carry is
\* the card as it is, or as it was before a rebalance that comes in between.
LEMMA ReloadDue ==
  ASSUME TInv, TInv', Shown, NEW s \in Slots, Reload(s)
  PROVE  Shown'
<1> SUFFICES ASSUME NEW c, c = call[s].card PROVE Shown'
  OBVIOUS
<1>1. /\ stage[s] = "reload" /\ Unpublished(s)
      /\ UNCHANGED <<cardVars, view, columnView, lost>>
  BY DEF Reload, Unpublished
<1>2. /\ call[s].op \in ReloadOps /\ About(s) = {c} /\ c \in Cards
      /\ Columns \cap About(s) = {}
  <2>1. call[s].op \in ReloadOps
    BY <1>1 DEF TInv, Targets
  <2>2. Subject(s) = c /\ call[s].op \notin ColumnOps
    BY <2>1 DEF Subject, ReloadOps, ColumnOps
  <2> QED
    BY <1>1, <2>1, <2>2, SubjectIs
<1>3. CASE ~Exists(c)
  <2>1. Crosses(s) /\ Finish(s) /\ UNCHANGED silent
    BY <1>3 DEF Reload
  <2>2. ASSUME NEW d \in Cards \cap About(s), Pending(d) = {s}, d \notin crossed PROVE FALSE
    <3>1. d = c /\ Rereads(s, d)
      BY <1>2, <2>2 DEF Shown, Followed
    <3> QED
      BY <1>1, <1>3, <3>1 DEF Rereads
  <2>3. \A d \in Cards \cap About(s) :
             Pending(d) = {s} /\ d \notin crossed => (d \notin lost => Agrees(d, view[d]))'
    BY <2>2
  <2>4. \A k \in Columns \cap About(s) :
             Pending(k) = {s} /\ k \notin crossed
                 => (k \notin lost => columnView[k] = ActualColumn(k))'
    BY <1>2
  <2> QED
    BY <1>1, <2>1, <2>3, <2>4, Published
<1>4. CASE Exists(c)
  <2>1. /\ stage' = [stage EXCEPT ![s] = "notify"]
        /\ UNCHANGED <<call, below, above, crossed>>
        /\ IF call[s].op = "unarchive"
           THEN loaded' = [loaded EXCEPT ![s] = Row(c)] /\ silent' = silent \ {c}
           ELSE UNCHANGED <<loaded, silent>>
    BY <1>4 DEF Reload, Goto
  <2>2. stage \in [Slots -> Stages] /\ loaded \in [Slots -> Places]
    BY DEF TInv, IInv, Typed, ReadTyped
  <2>3. /\ \A t \in Slots : Unpublished(t)' <=> Unpublished(t)
        /\ \A t \in Slots \ {s} : Waits(t)
        /\ call[s].op # "unarchive" => Waits(s)
    BY <1>1, <2>1, <2>2 DEF Unpublished, Waits
  <2>4. \A x : Pending(x)' = Pending(x)
    BY <2>1, <2>3, PendingSame
  <2>5. \A x : x # c => \A t \in Pending(x) : Waits(t)
    BY <1>2, <2>3 DEF Pending
  <2>6. ASSUME NEW d \in Cards, d # c \/ call[s].op # "unarchive" PROVE Followed(d)'
    <3>1. \A t \in Pending(d) : Waits(t)
      BY <2>3, <2>5, <2>6 DEF Pending
    <3>2. d \in silent => d \in silent'
      BY <2>1, <2>6
    <3> QED
      BY <1>1, <2>1, <2>4, <3>1, <3>2, CardUntouched DEF Shown, cardVars
  <2>7. ASSUME call[s].op = "unarchive" PROVE Followed(c)'
    <3>1. ASSUME NEW t \in Slots, Pending(c)' = {t}, c \notin crossed'
          PROVE  /\ Rereads(t, c)'
                 /\ Agrees(c, CardAfter(t, c, view[c]))'
                 /\ Agrees(c, CardAfter(t, c, Actual(c)))'
      <4>1. t = s
        BY <1>1, <1>2, <2>4, <3>1 DEF Pending
      <4>2. status[c] = "shown"
        <5>1. Pending(c) = {s} /\ c \notin crossed
          BY <2>1, <2>4, <3>1, <4>1
        <5>2. Rereads(s, c)
          BY <1>2, <5>1 DEF Shown, Followed
        <5> QED
          BY <1>1, <2>7, <5>2 DEF Rereads
      <4>3. Actual(c)' = Row(c) /\ loaded'[s] = Row(c) /\ stage'[s] = "notify"
        BY <1>1, <2>1, <2>2, <2>7, <4>2 DEF Actual, Row, cardVars
      <4>4. /\ CardAfter(s, c, view[c])' = Actual(c)'
            /\ CardAfter(s, c, Actual(c))' = Actual(c)'
        BY <2>1, <2>7, <4>3 DEF CardAfter
      <4> QED
        BY <4>1, <4>3, <4>4 DEF Agrees, Rereads
    <3>2. Pending(c)' # {}
      BY <1>1, <1>2, <2>4 DEF Pending
    <3>3. Followed(c)'
      BY <3>1, <3>2 DEF Followed
    <3> QED
      BY <3>3
  <2>8. ASSUME NEW d \in Cards PROVE Followed(d)'
    BY <2>6, <2>7
  <2>9. ASSUME NEW k \in Columns PROVE ColumnFollowed(k)'
    <3>1. ActualColumn(k)' = ActualColumn(k)
      BY <1>1 DEF ActualColumn, cardVars
    <3>2. k # c
      BY <1>2, ApartAssumption
    <3> QED
      BY <1>1, <2>1, <2>4, <2>5, <3>1, <3>2, ColumnUntouched DEF Shown
  <2> QED
    BY <2>8, <2>9 DEF Shown
<1> QED
  BY <1>3, <1>4

\* What is written and not published yet says the same of a board just loaded.
LEMMA LoadDue ==
  ASSUME TInv, TInv', Shown, GetBoardDetail
  PROVE  Shown'
<1>1. /\ view' = [c \in Cards |-> Actual(c)]
      /\ columnView' = [k \in Columns |-> ActualColumn(k)]
      /\ UNCHANGED <<cardVars, reqVars>>
  BY DEF GetBoardDetail
<1>2. \A x : Pending(x)' = Pending(x)
  BY <1>1, PendingSame DEF reqVars, Unpublished
<1>3. /\ \A c : Actual(c)' = Actual(c) /\ (Exists(c)' <=> Exists(c))
      /\ \A k : ActualColumn(k)' = ActualColumn(k)
      /\ \A s, c : Rereads(s, c) => Rereads(s, c)'
  BY <1>1 DEF Actual, Row, ActualColumn, Exists, Rereads, cardVars, reqVars
<1>4. ASSUME NEW c \in Cards PROVE Followed(c)'
  <2>1. view'[c] = Actual(c)
    BY <1>1
  <2>2. Agrees(c, view[c])'
    BY <1>3, <2>1 DEF Agrees
  <2>3. ASSUME NEW s \in Slots, Pending(c)' = {s}, c \notin crossed'
        PROVE  /\ Rereads(s, c)'
               /\ Agrees(c, CardAfter(s, c, view[c]))'
               /\ Agrees(c, CardAfter(s, c, Actual(c)))'
    <3>1. Unpublished(s) /\ Pending(c) = {s}
      BY <1>2, <2>3 DEF Pending
    <3>2. UNCHANGED <<silent, lost, crossed>>
      BY <3>1 DEF GetBoardDetail
    <3>3. /\ Rereads(s, c)
          /\ Agrees(c, CardAfter(s, c, Actual(c)))
      BY <2>3, <3>1, <3>2 DEF Shown, Followed
    <3>4. \A v : CardAfter(s, c, v)' = CardAfter(s, c, v)
      BY <1>1, <1>3 DEF CardAfter, MovedTo, reqVars
    <3>5. \A v : Agrees(c, v)' <=> Agrees(c, v)
      BY <1>1, <1>3, <3>2 DEF Agrees, cardVars
    <3> QED
      BY <1>3, <2>1, <3>3, <3>4, <3>5
  <2> QED
    BY <2>2, <2>3 DEF Followed
<1>5. ASSUME NEW k \in Columns PROVE ColumnFollowed(k)'
  <2>1. columnView'[k] = ActualColumn(k)
    BY <1>1
  <2>2. ASSUME NEW s \in Slots, Pending(k)' = {s}, k \notin crossed'
        PROVE  /\ (ColumnAfter(s, columnView[k]) = ActualColumn(k))'
               /\ (ColumnAfter(s, ActualColumn(k)) = ActualColumn(k))'
    <3>1. Unpublished(s) /\ Pending(k) = {s}
      BY <1>2, <2>2 DEF Pending
    <3>2. UNCHANGED <<silent, lost, crossed>>
      BY <3>1 DEF GetBoardDetail
    <3>3. ColumnAfter(s, ActualColumn(k)) = ActualColumn(k)
      BY <2>2, <3>1, <3>2 DEF Shown, ColumnFollowed
    <3>4. \A v : ColumnAfter(s, v)' = ColumnAfter(s, v)
      BY <1>1 DEF ColumnAfter, reqVars
    <3> QED
      BY <1>3, <2>1, <3>3, <3>4
  <2> QED
    BY <1>3, <2>1, <2>2 DEF ColumnFollowed
<1> QED
  BY <1>4, <1>5 DEF Shown

-----------------------------------------------------------------------------
(* Titles and the creation of columns.                                     *)

\* No column is created, none gets another position or title.
LEMMA UntitledKeeps ==
  ASSUME Untitled,
         \A t \in Slots : AddingWrite(t)' => AddingWrite(t) /\ call'[t] = call[t],
         columns' \subseteq columns, UNCHANGED <<order, title>>,
         \A c \in Cards : status'[c] = "unborn" => status[c] = "unborn"
  PROVE  Untitled'
BY DEF Untitled

LEMMA UntitledBegun ==
  ASSUME TInv, NEW s \in Slots, NEW op \in CardOps, NEW c \in Cards \cup {None},
         NEW k \in Columns \cup {None}, NEW ref \in Positions,
         NEW t \in Titles \cup {None}, NEW there \in Stages,
         Begin(s, op, c, k, ref, t), Goto(s, there),
         op # "createColumn" \/ there = "notify"
  PROVE  \A o \in Slots : AddingWrite(o)' => AddingWrite(o) /\ call'[o] = call[o]
BY BeginSets DEF AddingWrite, TInv

LEMMA UntitledFinish ==
  ASSUME TInv, NEW s \in Slots, Finish(s)
  PROVE  \A o \in Slots : AddingWrite(o)' => AddingWrite(o) /\ call'[o] = call[o]
BY DEF AddingWrite, TInv, IInv, Typed, Finish, Goto

LEMMA UntitledGoto ==
  ASSUME TInv, NEW s \in Slots, NEW there, stage[s] \notin {"idle", "notify"},
         Goto(s, there), UNCHANGED call
  PROVE  \A o \in Slots : AddingWrite(o)' => AddingWrite(o) /\ call'[o] = call[o]
BY DEF AddingWrite, TInv, IInv, Typed, Goto

\* A column is about to be created, and is.
LEMMA UntitledCreateColumnReads ==
  ASSUME TInv, Untitled, NEW s \in Slots, NEW k \in Columns, CreateColumnReads(s, k)
  PROVE  Untitled'
<1>1. "createColumn" \in CardOps /\ "write" \in Stages /\ None \in Cards \cup {None}
      /\ k \in Columns \cup {None} /\ 0 \in Positions /\ None \in Titles \cup {None}
  BY PositionAssumption DEF CardOps, Stages
<1>2. /\ \A o \in Slots \ {s} : stage'[o] = stage[o] /\ call'[o] = call[o]
      /\ call'[s].col = k /\ order[k] = 0
      /\ \A o \in Slots : call[o].col # k
      /\ UNCHANGED cardVars
  BY <1>1, BeginSets DEF CreateColumnReads, TInv
<1>3. \A o \in Slots \ {s} : AddingWrite(o)' <=> AddingWrite(o)
  BY <1>2 DEF AddingWrite
<1> QED
  BY <1>2, <1>3 DEF Untitled, cardVars

LEMMA UntitledCreateColumn ==
  ASSUME TInv, Untitled, NEW s \in Slots, CreateColumn(s)
  PROVE  Untitled'
<1> DEFINE k == call[s].col
<1>1. /\ stage[s] = "write" /\ call[s].op = "createColumn"
      /\ columns' = columns \cup {k} /\ order' = [order EXCEPT ![k] = Appended(below[s])]
      /\ Goto(s, "notify") /\ UNCHANGED <<status, title, call>>
  BY DEF CreateColumn
<1>2. AddingWrite(s) /\ stage[s] # "idle" /\ k \in Columns
  BY <1>1 DEF AddingWrite, TInv, Targets, ColumnOps
<1>3. \A o \in Slots : AddingWrite(o)' => o # s /\ AddingWrite(o) /\ call'[o] = call[o]
  BY <1>1 DEF AddingWrite, TInv, IInv, Typed, Goto
<1>4. Appended(below[s]) \in Positions /\ Appended(below[s]) # 0
  BY AppendedAbove, AppendedPositive DEF TInv, ReadTyped
<1>5. \A o \in Slots : AddingWrite(o)' => call[o].col # k
  BY <1>2, <1>3 DEF Untitled
<1>6. order \in [Columns -> Positions]
  BY DEF TInv, RowsTyped
<1> HIDE DEF k
<1>7. \A j \in Columns : order'[j] = IF j = k THEN Appended(below[s]) ELSE order[j]
  BY <1>1, <1>6
<1>8. \A o \in Slots : AddingWrite(o)' => order'[call'[o].col] = 0
  BY <1>1, <1>3, <1>5, <1>6 DEF Untitled
<1>9. \A o, t \in Slots : AddingWrite(o)' /\ AddingWrite(t)' /\ call'[o].col = call'[t].col
                            => o = t
  BY <1>3 DEF Untitled
<1>10. \A j \in Columns : order'[j] = 0 => j \notin columns' /\ title'[j] = None
  BY <1>1, <1>4, <1>7 DEF Untitled
<1> QED
  BY <1>1, <1>8, <1>9, <1>10 DEF Untitled

\* Only what exists gets a new title.
LEMMA UntitledUpdates ==
  ASSUME TInv, Untitled, NEW s \in Slots,
         \/ \E c \in Cards, t \in Titles : UpdateCard(s, c, t)
         \/ \E k \in Columns, ref \in Refs \cup {0}, t \in Titles \cup {None} :
                UpdateColumn(s, k, ref, t)
  PROVE  Untitled'
<1>1. /\ {"reload", "notify"} \subseteq Stages /\ {"updateCard", "updateColumn"} \subseteq CardOps
      /\ 0 \in Positions
  BY PositionAssumption DEF Stages, CardOps
<1>2. /\ order \in [Columns -> Positions]
      /\ title \in [Cards \cup Columns -> Titles \cup {None}]
  BY DEF TInv, RowsTyped
<1>3. ASSUME NEW c \in Cards, NEW t \in Titles, UpdateCard(s, c, t) PROVE Untitled'
  <2>1. /\ Begin(s, "updateCard", c, None, 0, t) /\ Goto(s, "reload")
        /\ Exists(c) /\ title' = [title EXCEPT ![c] = t]
        /\ UNCHANGED <<columns, status, order>>
    BY <1>3 DEF UpdateCard
  <2>2. \A o \in Slots : AddingWrite(o)' => AddingWrite(o) /\ call'[o] = call[o]
    BY <1>1, <2>1, UntitledBegun
  <2> QED
    BY <1>2, <2>1, <2>2, ApartAssumption DEF Untitled, Exists
<1>4. ASSUME NEW k \in Columns, NEW ref \in Refs \cup {0}, NEW t \in Titles \cup {None},
             UpdateColumn(s, k, ref, t)
      PROVE  Untitled'
  <2>1. /\ Begin(s, "updateColumn", None, k, ref, t) /\ Goto(s, "notify")
        /\ k \in columns /\ ref \in Positions
        /\ UNCHANGED <<columns, status>>
    BY <1>4, PositionAssumption DEF UpdateColumn
  <2>2. \A o \in Slots : AddingWrite(o)' => AddingWrite(o) /\ call'[o] = call[o]
    BY <1>1, <2>1, UntitledBegun
  <2>3. /\ order[k] # 0
        /\ \A x \in (Cards \cup Columns) \ {k} : title'[x] = title[x]
        /\ order' = IF ref # 0 THEN [order EXCEPT ![k] = ref] ELSE order
    BY <1>2, <1>4, <2>1 DEF Untitled, UpdateColumn
  <2>4. \A j : order'[j] = order[j] \/ (j = k /\ order'[k] # 0)
    BY <1>2, <2>3
  <2>5. \A o \in Slots : AddingWrite(o)' => order'[call'[o].col] = 0
    BY <2>2, <2>3, <2>4 DEF Untitled
  <2>6. \A j \in Columns : order'[j] = 0 => j # k /\ order[j] = 0
    BY <1>2, <2>3
  <2>7. \A j \in Columns : order'[j] = 0 => j \notin columns' /\ title'[j] = None
    BY <2>1, <2>3, <2>6 DEF Untitled
  <2>8. \A c \in Cards : status'[c] = "unborn" => title'[c] = None
    BY <2>1, <2>3, ApartAssumption DEF Untitled
  <2> QED
    BY <2>2, <2>5, <2>7, <2>8 DEF Untitled
<1> QED
  BY <1>3, <1>4

LEMMA UntitledStep == TInv /\ Untitled /\ [Next]_vars => Untitled'
<1> SUFFICES ASSUME TInv, Untitled, [Next]_vars PROVE Untitled'
  OBVIOUS
<1> DEFINE Goal == Untitled'
<1> SUFFICES Goal
  OBVIOUS
<1>1. CASE \E s \in Slots, c \in Cards, k \in Columns : CreateReads(s, c, k)
  <2> PICK s \in Slots, c \in Cards, k \in Columns : CreateReads(s, c, k)
    BY <1>1
  <2>1. /\ Begin(s, "create", c, k, 0, None) /\ Goto(s, "write")
        /\ UNCHANGED cardVars
    BY DEF CreateReads
  <2>2. "create" \in CardOps /\ "write" \in Stages /\ 0 \in Positions
    BY PositionAssumption DEF CardOps, Stages
  <2> QED
    BY <2>1, <2>2, UntitledBegun, UntitledKeeps DEF cardVars
<1>2. CASE \E s \in Slots, c \in Cards, k \in Columns, ref \in Refs : MoveChecks(s, c, k, ref)
  <2> PICK s \in Slots, c \in Cards, k \in Columns, ref \in Refs : MoveChecks(s, c, k, ref)
    BY <1>2
  <2>1. /\ Begin(s, "move", c, k, ref, None) /\ Goto(s, "below")
        /\ UNCHANGED cardVars /\ ref \in Positions
    BY PositionAssumption DEF MoveChecks
  <2>2. "move" \in CardOps /\ "below" \in Stages /\ 0 \in Positions
    BY PositionAssumption DEF CardOps, Stages
  <2> QED
    BY <2>1, <2>2, UntitledBegun, UntitledKeeps DEF cardVars
<1>3. CASE \/ \E s \in Slots, c \in Cards, t \in Titles : UpdateCard(s, c, t)
           \/ \E s \in Slots, k \in Columns, ref \in Refs \cup {0}, t \in Titles \cup {None} :
                  UpdateColumn(s, k, ref, t)
  BY <1>3, UntitledUpdates
<1>4. CASE \E s \in Slots, op \in Ops, c \in Cards : SetStatus(s, op, c)
  <2> PICK s \in Slots, op \in Ops, c \in Cards : SetStatus(s, op, c)
    BY <1>4
  <2>1. /\ Begin(s, op, c, None, 0, None)
        /\ Goto(s, IF op = "unarchive" THEN "reload" ELSE "notify")
        /\ op \in {"archive", "unarchive", "delete"}
        /\ status' = [status EXCEPT ![c] = StatusAfter(op)]
        /\ UNCHANGED <<columns, order, title>>
    BY DEF SetStatus
  <2>2. /\ op \in CardOps /\ op # "createColumn"
        /\ (IF op = "unarchive" THEN "reload" ELSE "notify") \in Stages
        /\ 0 \in Positions
    BY <2>1, PositionAssumption DEF CardOps, Stages
  <2>3. \A d \in Cards : status'[d] = "unborn" => status[d] = "unborn"
    BY <2>1 DEF StatusAfter, TInv, IInv, Typed
  <2> QED
    BY <2>1, <2>2, <2>3, UntitledBegun, UntitledKeeps
<1>5. CASE \E s \in Slots, k \in Columns : CreateColumnReads(s, k)
  BY <1>5, UntitledCreateColumnReads
<1>6. CASE \E s \in Slots, k \in Columns : DeleteColumn(s, k)
  <2> PICK s \in Slots, k \in Columns : DeleteColumn(s, k)
    BY <1>6
  <2>1. /\ Begin(s, "deleteColumn", None, k, 0, None) /\ Goto(s, "notify")
        /\ columns' \subseteq columns /\ UNCHANGED <<order, title>>
    BY DEF DeleteColumn
  <2>2. "deleteColumn" \in CardOps /\ "notify" \in Stages /\ 0 \in Positions
    BY PositionAssumption DEF CardOps, Stages
  <2>3. \A d \in Cards : status'[d] = "unborn" => status[d] = "unborn"
    BY DEF DeleteColumn
  <2> QED
    BY <2>1, <2>2, <2>3, UntitledBegun, UntitledKeeps
<1>7. CASE \E s \in Slots : ReadBelow(s) \/ ReadAbove(s) \/ Decide(s)
                              \/ SelectOrder(s) \/ RewritePositions(s)
  <2> PICK s \in Slots : ReadBelow(s) \/ ReadAbove(s) \/ Decide(s)
                              \/ SelectOrder(s) \/ RewritePositions(s)
    BY <1>7
  <2>1. /\ stage[s] \notin {"idle", "notify"} /\ \E there : Goto(s, there)
        /\ UNCHANGED <<call, columns, order, title, status>>
    BY DEF ReadBelow, ReadAbove, Decide, SelectOrder, RewritePositions, cardVars
  <2> QED
    BY <2>1, UntitledGoto, UntitledKeeps
<1>8. CASE \E s \in Slots : Create(s) \/ Move(s)
  <2> PICK s \in Slots : Create(s) \/ Move(s)
    BY <1>8
  <2>1. /\ stage[s] \notin {"idle", "notify"}
        /\ Finish(s) \/ \E there : Goto(s, there) /\ UNCHANGED call
        /\ UNCHANGED <<columns, order, title>>
    BY DEF Create, Move, cardVars
  <2>2. \A d \in Cards : status'[d] = "unborn" => status[d] = "unborn"
    BY DEF Create, Move, cardVars, TInv, IInv, Typed
  <2>3. \A o \in Slots : AddingWrite(o)' => AddingWrite(o) /\ call'[o] = call[o]
    BY <2>1, UntitledGoto, UntitledFinish
  <2> QED
    BY <2>1, <2>2, <2>3, UntitledKeeps
<1>9. CASE \E s \in Slots : CreateColumn(s)
  BY <1>9, UntitledCreateColumn
<1>10. CASE \E s \in Slots : Reload(s) \/ Notify(s) \/ EventLost(s) \/ Abandon(s)
  <2> PICK s \in Slots : Reload(s) \/ Notify(s) \/ EventLost(s) \/ Abandon(s)
    BY <1>10
  <2>1. /\ Finish(s) \/ (stage[s] = "reload" /\ Goto(s, "notify") /\ UNCHANGED call)
        /\ UNCHANGED cardVars
    BY DEF Reload, Notify, EventLost, Abandon
  <2>2. \A o \in Slots : AddingWrite(o)' => AddingWrite(o) /\ call'[o] = call[o]
    BY <2>1, UntitledGoto, UntitledFinish
  <2> QED
    BY <2>1, <2>2, UntitledKeeps DEF cardVars
<1>11. CASE GetBoardDetail \/ UNCHANGED vars
  <2>1. UNCHANGED <<cardVars, stage, call>>
    BY <1>11 DEF GetBoardDetail, vars, reqVars
  <2>2. \A o \in Slots : AddingWrite(o)' => AddingWrite(o) /\ call'[o] = call[o]
    BY <2>1 DEF AddingWrite
  <2> QED
    BY <2>1, <2>2, UntitledKeeps DEF cardVars
<1> HIDE DEF Goal
<1> QED
  BY Steps, <1>1, <1>2, <1>3, <1>4, <1>5, <1>6, <1>7, <1>8, <1>9, <1>10, <1>11

\* A request begins, reads, decides or gives up, or a rebalance writes positions.
LEMMA NothingPublished ==
  ASSUME TInv, TInv', Shown, NEW s \in Slots,
         \/ \E c \in Cards, k \in Columns : CreateReads(s, c, k)
         \/ \E c \in Cards, k \in Columns, ref \in Refs : MoveChecks(s, c, k, ref)
         \/ \E k \in Columns : CreateColumnReads(s, k)
         \/ ReadBelow(s) \/ ReadAbove(s) \/ Decide(s)
         \/ SelectOrder(s) \/ RewritePositions(s)
         \/ Create(s) /\ call[s].col \notin columns
         \/ Move(s) /\ ~(Exists(call[s].card) /\ call[s].col \in columns)
         \/ Abandon(s)
  PROVE  Shown'
<1>1. /\ stage \in [Slots -> Stages] /\ call \in [Slots -> Calls]
      /\ below \in [Slots -> Positions] /\ above \in [Slots -> Positions]
      /\ loaded \in [Slots -> Places]
      /\ position \in [Cards -> Positions]
  BY DEF TInv, IInv, Typed, RowsTyped, ReadTyped
<1>2. /\ stage[s] \notin {"reload", "notify"}
      /\ \E there \in Stages \ {"reload", "notify"} : stage' = [stage EXCEPT ![s] = there]
      /\ call' = call \/ \E v : call' = [call EXCEPT ![s] = v]
      /\ below' = below \/ \E v : below' = [below EXCEPT ![s] = v]
      /\ above' = above \/ \E v : above' = [above EXCEPT ![s] = v]
      /\ loaded' = loaded \/ \E v : loaded' = [loaded EXCEPT ![s] = v]
  BY DEF CreateReads, MoveChecks, CreateColumnReads, ReadBelow, ReadAbove, Decide,
         SelectOrder, RewritePositions, Create, Move, Abandon, Begin, Finish, Goto, Stages,
         Unpublished
<1>3. /\ \A t \in Slots : Unpublished(t)' <=> Unpublished(t)
      /\ \A t \in Slots : Unpublished(t) => Waits(t)
  BY <1>1, <1>2 DEF Unpublished, Waits
<1>4. UNCHANGED <<columns, status, column, order, title, view, columnView, lost, crossed>>
  BY DEF CreateReads, MoveChecks, CreateColumnReads, ReadBelow, ReadAbove, Decide,
         SelectOrder, RewritePositions, Create, Move, Abandon, cardVars, clientVars
<1>5. /\ \A c \in Cards : position'[c] = position[c] \/ c \in silent'
      /\ silent \subseteq silent'
  <2>1. CASE RewritePositions(s)
    BY <1>1, <2>1 DEF RewritePositions
  <2>2. CASE ~RewritePositions(s)
    BY <2>2 DEF CreateReads, MoveChecks, CreateColumnReads, ReadBelow, ReadAbove, Decide,
                SelectOrder, Create, Move, Abandon, cardVars, clientVars
  <2> QED
    BY <2>1, <2>2
<1> QED
  BY <1>3, <1>4, <1>5, NothingDue

LEMMA ShownStep == TInv /\ TInv' /\ Untitled /\ Shown /\ [Next]_vars => Shown'
<1> SUFFICES ASSUME TInv, TInv', Untitled, Shown, [Next]_vars PROVE Shown'
  OBVIOUS
<1> DEFINE Goal == Shown'
<1> SUFFICES Goal
  OBVIOUS
<1>1. CASE \E s \in Slots :
               \/ \E c \in Cards, k \in Columns : CreateReads(s, c, k)
               \/ \E c \in Cards, k \in Columns, ref \in Refs : MoveChecks(s, c, k, ref)
               \/ \E k \in Columns : CreateColumnReads(s, k)
               \/ ReadBelow(s) \/ ReadAbove(s) \/ Decide(s)
               \/ SelectOrder(s) \/ RewritePositions(s)
               \/ Abandon(s)
  BY <1>1, NothingPublished
<1>2. CASE \E s \in Slots, c \in Cards, t \in Titles : UpdateCard(s, c, t)
  BY <1>2, UpdateCardDue
<1>3. CASE \E s \in Slots, op \in Ops, c \in Cards : SetStatus(s, op, c)
  BY <1>3, SetStatusDue
<1>4. CASE \E s \in Slots, k \in Columns, ref \in Refs \cup {0}, t \in Titles \cup {None} :
                UpdateColumn(s, k, ref, t)
  BY <1>4, UpdateColumnDue
<1>5. CASE \E s \in Slots, k \in Columns : DeleteColumn(s, k)
  BY <1>5, DeleteColumnDue
<1>6. CASE \E s \in Slots : Create(s)
  <2> PICK s \in Slots : Create(s)
    BY <1>6
  <2>1. CASE call[s].col \in columns
    <3>1. \E c, k, m : c = call[s].card /\ k = call[s].col /\ m = Appended(below[s])
      OBVIOUS
    <3> QED
      BY <2>1, <3>1, CreateDue
  <2>2. CASE call[s].col \notin columns
    BY <2>2, NothingPublished
  <2> QED
    BY <2>1, <2>2
<1>7. CASE \E s \in Slots : Move(s)
  <2> PICK s \in Slots : Move(s)
    BY <1>7
  <2>1. CASE Exists(call[s].card) /\ call[s].col \in columns
    <3>1. \E c, k, m : /\ c = call[s].card /\ k = call[s].col
                       /\ m = Between(below[s], above[s])
      OBVIOUS
    <3> QED
      BY <2>1, <3>1, MoveDue
  <2>2. CASE ~(Exists(call[s].card) /\ call[s].col \in columns)
    BY <2>2, NothingPublished
  <2> QED
    BY <2>1, <2>2
<1>8. CASE \E s \in Slots : CreateColumn(s)
  <2> PICK s \in Slots : CreateColumn(s)
    BY <1>8
  <2>1. \E k, m : k = call[s].col /\ m = Appended(below[s])
    OBVIOUS
  <2> QED
    BY <2>1, CreateColumnDue
<1>9. CASE \E s \in Slots : Reload(s) \/ Notify(s) \/ EventLost(s)
  BY <1>9, ReloadDue, NotifyDue, EventLostDue
<1>10. CASE GetBoardDetail
  BY <1>10, LoadDue
<1>11. CASE UNCHANGED vars
  BY <1>11, NothingDue DEF vars, cardVars, reqVars, clientVars, Unpublished, Waits
<1> HIDE DEF Goal
<1> QED
  BY Steps, <1>1, <1>2, <1>3, <1>4, <1>5, <1>6, <1>7, <1>8, <1>9, <1>10, <1>11

LEMMA FollowingInit == Init => Following
<1> SUFFICES ASSUME Init PROVE Following
  OBVIOUS
<1>1. \A x : Pending(x) = {}
  BY DEF Init, Pending, Unpublished
<1>2. \A k \in Columns : (order[k] = 0 <=> k \notin columns) /\ title[k] = None
  BY DEF Init
<1>3. Untitled
  BY <1>2 DEF Init, Untitled, AddingWrite
<1>4. \A c \in Cards : view[c] = Actual(c)
  BY DEF Init, Actual
<1>5. \A k \in Columns : columnView[k] = ActualColumn(k)
  BY <1>2 DEF Init, ActualColumn, NoColumn
<1> QED
  BY <1>1, <1>3, <1>4, <1>5 DEF Following, Followed, ColumnFollowed, Agrees

LEMMA FollowingStep == TInv /\ TInv' /\ Following /\ [Next]_vars => Following'
BY UntitledStep, ShownStep DEF Following, Shown

\* However requests, failures and loads of the board interleave, a client that
\* applies the events shows, once no request is under way, every card and every
\* column as it is stored, save those an event cannot speak of.
THEOREM ClientFollowsEvents == Spec => []ViewFollowsEvents
<1>1. Following => ViewFollowsEvents
  <2> SUFFICES ASSUME Following, Quiet PROVE ViewFollowsEvents
    BY DEF ViewFollowsEvents
  <2>1. \A x : Pending(x) = {}
    BY DEF Quiet, Pending, Unpublished
  <2> QED
    BY <2>1 DEF Following, Followed, ColumnFollowed, Agrees, ViewFollowsEvents
<1>2. Spec => []TInv
  BY TInvInit, TInvStep, PTL DEF Spec
<1>3. Spec => []Following
  BY <1>2, FollowingInit, FollowingStep, PTL DEF Spec
<1> QED
  BY <1>1, <1>3, PTL

=============================================================================
