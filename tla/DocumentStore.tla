--------------------------- MODULE DocumentStore ---------------------------
(***************************************************************************)
(* The rows of one document: documents (snapshot, snapshot_clock) and      *)
(* document_updates, under the transactions of repositories/documents.go.  *)
(*                                                                         *)
(* Writers are the goroutines in PersistUpdate: the event loops of rooms   *)
(* (an old and a new one may both be inside it, see DocRoom) and of other  *)
(* server processes.  Readers bootstrap or reconnect.  Compactors call     *)
(* CompactSnapshot; that function and GetUpdatesSinceClock have no caller  *)
(* in the repository, so who calls them, and with what, is taken from      *)
(* their comments; as long as no compaction was stored (~compacted) this   *)
(* is the program as it runs today.                                        *)
(*                                                                         *)
(* A transaction is atomic, save that IncrementClock reads the clock under *)
(* a row lock in one statement and writes it in a later one.  The Yjs      *)
(* state of a document is the set of edits merged into it.                 *)
(***************************************************************************)
EXTENDS Integers, FiniteSets

CONSTANTS
    Writers,        \* goroutines calling PersistUpdate
    Compactors,     \* goroutines calling CompactSnapshot
    Readers,        \* clients loading the document
    Edits,          \* distinct Yjs updates
    Nobody, NoEdit

ASSUME StoreAssumption == Nobody \notin Writers /\ NoEdit \notin Edits

VARIABLES
    exists,     \* the documents row is there (its card was not deleted)
    clock,      \* documents.snapshot_clock
    snapshot,   \* documents.snapshot, as the set of edits merged into it
    updates,    \* document_updates: records [clock, edit]
    lock,       \* transaction holding the row lock of the document
    writing,    \* edit each writer's open transaction is about to store
    read,       \* currentClock of each writer's transaction
    tried,      \* edits handed to PersistUpdate
    acked,      \* edits for which PersistUpdate returned no error
    committed,  \* ghost: every [clock, edit] ever committed
    compacted,  \* ghost: a compaction was stored
    merge,      \* what each compactor has merged and is about to store
    view        \* what each reader has loaded

storeVars == <<exists, clock, snapshot, updates>>
txVars    == <<lock, writing, read>>
ghostVars == <<tried, acked, committed, compacted>>
vars == <<storeVars, txVars, ghostVars, merge, view>>

-----------------------------------------------------------------------------
Update == [clock : Nat, edit : Edits]
Merge  == [active : BOOLEAN, edits : SUBSET Edits, clock : Nat]
View   == [phase : {"none", "bootstrap", "reconnect", "bootstrapped", "reconnected"},
           has : SUBSET Edits, clock : Nat, owed : SUBSET Edits]

NoMerge == [active |-> FALSE, edits |-> {}, clock |-> 0]
NoView  == [phase |-> "none", has |-> {}, clock |-> 0, owed |-> {}]

EditsOf(U) == {u.edit : u \in U}

TypeOK ==
    /\ exists \in BOOLEAN
    /\ clock \in Nat
    /\ snapshot \subseteq Edits
    /\ updates \subseteq Update
    /\ lock \in Writers \cup {Nobody}
    /\ writing \in [Writers -> Edits \cup {NoEdit}]
    /\ read \in [Writers -> Nat]
    /\ tried \subseteq Edits /\ acked \subseteq Edits
    /\ committed \subseteq Update
    /\ compacted \in BOOLEAN
    /\ merge \in [Compactors -> Merge]
    /\ view \in [Readers -> View]

\* CreateWithDocument inserts the row with the column defaults.
Init ==
    /\ exists = TRUE
    /\ clock = 0
    /\ snapshot = {}
    /\ updates = {}
    /\ lock = Nobody
    /\ writing = [w \in Writers |-> NoEdit]
    /\ read = [w \in Writers |-> 0]
    /\ tried = {} /\ acked = {}
    /\ committed = {}
    /\ compacted = FALSE
    /\ merge = [m \in Compactors |-> NoMerge]
    /\ view = [r \in Readers |-> NoView]

-----------------------------------------------------------------------------
(* IncrementClock.  A definition named X_Y, here and below, is X with a    *)
(* mistake Y; no action uses it.                                           *)

\* Another transaction's row lock makes FOR UPDATE, UPDATE and DELETE wait.
RowFree_PlainSelect == TRUE
RowFree == lock = Nobody

\* SELECT snapshot_clock ... FOR UPDATE
SelectForUpdate(w, e) ==
    /\ writing[w] = NoEdit /\ e \notin tried
    /\ exists /\ RowFree
    /\ tried' = tried \cup {e}
    /\ lock' = w
    /\ writing' = [writing EXCEPT ![w] = e]
    /\ read' = [read EXCEPT ![w] = clock]
    /\ UNCHANGED <<storeVars, acked, committed, compacted, merge, view>>

\* ErrNotFound: the room's document went away with its card.
DocumentMissing(w, e) ==
    /\ writing[w] = NoEdit /\ e \notin tried
    /\ ~exists
    /\ tried' = tried \cup {e}
    /\ UNCHANGED <<storeVars, txVars, acked, committed, compacted, merge, view>>

\* The transaction of w is over.
EndTx(w) ==
    /\ lock' = Nobody
    /\ writing' = [writing EXCEPT ![w] = NoEdit]
    /\ UNCHANGED read

NewClock_NotIncremented(w) == read[w]
NewClock(w) == read[w] + 1

\* The unique index on (document_id, clock).
ClockTaken(n) == \E u \in updates : u.clock = n

\* UPDATE, INSERT, COMMIT; the reply to COMMIT may be lost with the connection,
\* and then PersistUpdate reports an error for an edit that is stored.
Commit(w) ==
    LET u == [clock |-> NewClock(w), edit |-> writing[w]] IN
    /\ writing[w] # NoEdit
    /\ ~ClockTaken(u.clock)
    /\ clock' = u.clock
    /\ updates' = updates \cup {u}
    /\ committed' = committed \cup {u}
    /\ acked' \in {acked, acked \cup {u.edit}}
    /\ EndTx(w)
    /\ UNCHANGED <<exists, snapshot, tried, compacted, merge, view>>

\* The INSERT violates the index: error, rollback, the edit is dropped.
CommitConflicts(w) ==
    /\ writing[w] # NoEdit
    /\ ClockTaken(NewClock(w))
    /\ EndTx(w)
    /\ UNCHANGED <<storeVars, ghostVars, merge, view>>

\* Any statement fails: error, rollback.
Rollback(w) ==
    /\ writing[w] # NoEdit
    /\ EndTx(w)
    /\ UNCHANGED <<storeVars, ghostVars, merge, view>>

-----------------------------------------------------------------------------
(* Readers: GetSnapshot, GetUpdatesSinceClock.                             *)

\* document_updates WHERE clock > n
Since_SkipsNext(n) == {u \in updates : u.clock > n + 1}
Since(n) == {u \in updates : u.clock > n}

\* GET /documents/:id/snapshot
GetSnapshot(r) ==
    /\ exists /\ view[r].phase = "none"
    /\ view' = [view EXCEPT ![r] = [phase |-> "bootstrap", has |-> snapshot,
                                    clock |-> clock, owed |-> EditsOf(committed)]]
    /\ UNCHANGED <<storeVars, txVars, ghostVars, merge>>

\* A client that saw everything up to clock n, and was away since.
Reconnect(r, n) ==
    /\ exists /\ view[r].phase = "none" /\ n <= clock
    /\ view' = [view EXCEPT ![r] =
                  [phase |-> "reconnect",
                   has   |-> EditsOf({u \in committed : u.clock <= n}),
                   clock |-> n, owed |-> EditsOf(committed)]]
    /\ UNCHANGED <<storeVars, txVars, ghostVars, merge>>

\* Either one then asks for the updates after its clock.
GetUpdatesSinceClock(r) ==
    /\ view[r].phase \in {"bootstrap", "reconnect"}
    /\ view' = [view EXCEPT
                  ![r].has   = @ \cup EditsOf(Since(view[r].clock)),
                  ![r].phase = IF @ = "bootstrap" THEN "bootstrapped"
                                                  ELSE "reconnected"]
    /\ UNCHANGED <<storeVars, txVars, ghostVars, merge>>

-----------------------------------------------------------------------------
(* Compaction.                                                             *)

\* The caller merges everything up to the current clock ...
MergeUpdates(m) ==
    /\ exists /\ ~merge[m].active
    /\ merge' = [merge EXCEPT ![m] =
                   [active |-> TRUE, clock |-> clock,
                    edits  |-> snapshot
                               \cup EditsOf({u \in updates : u.clock <= clock})]]
    /\ UNCHANGED <<storeVars, txVars, ghostVars, view>>

\* DELETE FROM document_updates WHERE clock <= n
Uncompacted_DeleteAll(n) == {}
Uncompacted(n) == {u \in updates : u.clock > n}

\* ... and UpdateSnapshot stores the result under the clock of the merge.
UpdateSnapshot(m) ==
    /\ merge[m].active
    /\ RowFree
    /\ IF exists
       THEN /\ snapshot' = merge[m].edits
            /\ clock' = merge[m].clock
            /\ updates' = Uncompacted(merge[m].clock)
            /\ compacted' = TRUE
       ELSE UNCHANGED <<snapshot, clock, updates, compacted>>
    /\ merge' = [merge EXCEPT ![m] = NoMerge]
    /\ UNCHANGED <<exists, txVars, tried, acked, committed, view>>

\* DeleteCard: ON DELETE CASCADE takes the document and its updates along.
DeleteDocument ==
    /\ exists /\ RowFree
    /\ exists' = FALSE
    /\ snapshot' = {}
    /\ updates' = {}
    /\ UNCHANGED <<clock, txVars, ghostVars, merge, view>>

-----------------------------------------------------------------------------
IncrementClock(w) ==
    \/ \E e \in Edits : SelectForUpdate(w, e) \/ DocumentMissing(w, e)
    \/ Commit(w)
    \/ CommitConflicts(w)
    \/ Rollback(w)

Load(r) ==
    \/ GetSnapshot(r)
    \/ \E n \in 0..clock : Reconnect(r, n)
    \/ GetUpdatesSinceClock(r)

CompactSnapshot(m) == MergeUpdates(m) \/ UpdateSnapshot(m)

Next ==
    \/ \E w \in Writers : IncrementClock(w)
    \/ \E r \in Readers : Load(r)
    \/ \E m \in Compactors : CompactSnapshot(m)
    \/ DeleteDocument

Spec == Init /\ [][Next]_vars

-----------------------------------------------------------------------------
(* Safety.                                                                 *)

\* Until a compaction is stored: the stored updates carry the clocks 1, 2, ... up to the
\* document's clock, each once, whatever writers ran side by side or failed
\* between reading the clock and committing.
ClocksAreDense ==
    exists /\ ~compacted =>
              /\ {u.clock : u \in updates} = 1..clock
              /\ \A u, v \in updates : u.clock = v.clock => u = v

\* "two simultaneous writes cannot get the same clock value": no writer is about
\* to lose its edit to the unique index because another edit has its clock, as
\* long as no compaction put the clock back.
NoClockConflict ==
    ~compacted => \A w \in Writers : writing[w] # NoEdit => ~ClockTaken(NewClock(w))

\* An edit that was broadcast after PersistUpdate succeeded is in the document
\* for good, in the snapshot or as an update, also across a compaction that
\* merged while further edits were committed.
NoEditLost == exists => acked \subseteq snapshot \cup EditsOf(updates)

\* A client that asks for what came after its clock ends up with every edit
\* committed when it reconnected, as long as no compaction took updates away.
ReconnectMissesNothing ==
    exists /\ ~compacted => \A r \in Readers :
        view[r].phase = "reconnected" => view[r].owed \subseteq view[r].has

-----------------------------------------------------------------------------
(* What comments say and the code does not do.                             *)

\* services/documents.go 105: the clock returned with the snapshot "tells the
\* client which updates it still needs on top of the snapshot".
BootstrapMissesNothing ==
    exists => \A r \in Readers :
        view[r].phase = "bootstrapped" => view[r].owed \subseteq view[r].has

\* services/documents.go 166: compaction is "safe to run concurrently with live
\* edits": it never takes the document to a state in which no further edit can
\* be stored.
CompactionKeepsDocumentWritable == exists => ~ClockTaken(clock + 1)

=============================================================================
