------------------------------- MODULE DocLog -------------------------------
(***************************************************************************)
(* What the document side of the hub promises: one log of edits, to which  *)
(* every edit is committed at most once, and members that see the edits of *)
(* others in the order of the log, from the moment they join, without a    *)
(* gap.  Rooms, goroutines, channels, buffers, slow clients and shutdown   *)
(* are the implementation's business (DocRoom): a member that is cut off   *)
(* simply sees no more.                                                    *)
(***************************************************************************)
EXTENDS Naturals, Sequences

CONSTANTS Clients, Edits, Nobody

VARIABLES
    log,       \* committed edits, an edit's clock is its position
    author,    \* who submitted an edit
    members,   \* who has joined
    start,     \* length of the log when a member joined
    seen       \* edits shown to a member, in order

vars == <<log, author, members, start, seen>>

Init ==
    /\ log = <<>>
    /\ author = [e \in Edits |-> Nobody]
    /\ members = {}
    /\ start = [c \in Clients |-> 0]
    /\ seen = [c \in Clients |-> <<>>]

Committed(e) == \E k \in DOMAIN log : log[k] = e

\* How far c has been shown the log.
ShownUpTo(c) ==
    IF seen[c] = <<>> THEN start[c]
    ELSE CHOOSE k \in DOMAIN log : log[k] = seen[c][Len(seen[c])]

Join(c) ==
    /\ c \notin members
    /\ members' = members \cup {c}
    /\ start' = [start EXCEPT ![c] = Len(log)]
    /\ UNCHANGED <<log, author, seen>>

Submit(c, e) ==
    /\ c \in members
    /\ author[e] = Nobody
    /\ author' = [author EXCEPT ![e] = c]
    /\ UNCHANGED <<log, members, start, seen>>

Commit(e) ==
    /\ author[e] # Nobody
    /\ ~Committed(e)
    /\ log' = Append(log, e)
    /\ UNCHANGED <<author, members, start, seen>>

\* The next edit of somebody else.
Show(c) ==
    /\ c \in members
    /\ \E k \in ShownUpTo(c) + 1 .. Len(log) :
          /\ author[log[k]] # c
          /\ \A j \in ShownUpTo(c) + 1 .. k - 1 : author[log[j]] = c
          /\ seen' = [seen EXCEPT ![c] = Append(@, log[k])]
    /\ UNCHANGED <<log, author, members, start>>

Next ==
    \/ \E c \in Clients : Join(c) \/ Show(c) \/ \E e \in Edits : Submit(c, e)
    \/ \E e \in Edits : Commit(e)

Spec == Init /\ [][Next]_vars

=============================================================================
