------------------------ MODULE DocumentStoreProofs ------------------------
(***************************************************************************)
(* What is proved of DocumentStore, for any number of writers, readers and *)
(* edits.  What holds only until a compaction is stored says so; the last  *)
(* theorem allows one compactor at a time (two at once may undo each other).*)
(***************************************************************************)
EXTENDS DocumentStore, TLAPS

\* The row lock: an open transaction holds it, and the clock is what it read.
Locked ==
    \A w \in Writers :
        writing[w] # NoEdit => lock = w /\ read[w] = clock /\ exists

LEMMA TypeInit == Init => TypeOK
<1> SUFFICES ASSUME Init PROVE TypeOK
  OBVIOUS
<1>1. NoMerge \in Merge /\ NoView \in View
  BY DEF NoMerge, NoView, Merge, View
<1>2. /\ exists \in BOOLEAN /\ compacted \in BOOLEAN /\ clock \in Nat
      /\ snapshot \subseteq Edits /\ updates \subseteq Update
      /\ tried \subseteq Edits /\ acked \subseteq Edits /\ committed \subseteq Update
  BY DEF Init
<1>3. /\ lock \in Writers \cup {Nobody}
      /\ writing \in [Writers -> Edits \cup {NoEdit}] /\ read \in [Writers -> Nat]
      /\ merge \in [Compactors -> Merge] /\ view \in [Readers -> View]
  BY <1>1 DEF Init
<1> QED
  BY <1>2, <1>3 DEF TypeOK

LEMMA TypeStep == TypeOK /\ [Next]_vars => TypeOK'
<1> SUFFICES ASSUME TypeOK, [Next]_vars PROVE TypeOK'
  OBVIOUS
<1> USE DEF TypeOK
<1>1. ASSUME NEW w \in Writers, NEW e \in Edits, SelectForUpdate(w, e) PROVE TypeOK'
  BY <1>1 DEF SelectForUpdate, storeVars
<1>2. ASSUME NEW w \in Writers, NEW e \in Edits, DocumentMissing(w, e) PROVE TypeOK'
  BY <1>2 DEF DocumentMissing, storeVars, txVars
<1>3. ASSUME NEW w \in Writers, Commit(w) PROVE TypeOK'
  <2> DEFINE u == [clock |-> NewClock(w), edit |-> writing[w]]
  <2>1. writing[w] \in Edits
    BY <1>3 DEF Commit
  <2>2. u \in Update /\ u.clock \in Nat /\ u.edit \in Edits
    BY <2>1 DEF Update, NewClock
  <2>3. /\ clock' = u.clock /\ updates' = updates \cup {u}
        /\ committed' = committed \cup {u}
        /\ acked' \in {acked, acked \cup {u.edit}}
        /\ UNCHANGED <<exists, snapshot, read, tried, compacted, merge, view>>
        /\ lock' = Nobody /\ writing' = [writing EXCEPT ![w] = NoEdit]
    BY <1>3 DEF Commit, EndTx
  <2>4. clock' \in Nat /\ updates' \subseteq Update /\ committed' \subseteq Update
    BY <2>2, <2>3
  <2>5. acked' \subseteq Edits
    BY <2>2, <2>3
  <2> HIDE DEF u
  <2> QED
    BY <2>3, <2>4, <2>5
<1>4. ASSUME NEW w \in Writers, CommitConflicts(w) \/ Rollback(w) PROVE TypeOK'
  BY <1>4 DEF CommitConflicts, Rollback, EndTx, storeVars, ghostVars
<1>5. ASSUME NEW r \in Readers, Load(r) PROVE TypeOK'
  <2> /\ EditsOf(committed) \subseteq Edits
      /\ \A n : EditsOf(Since(n)) \subseteq Edits
      /\ \A n : EditsOf({u \in committed : u.clock <= n}) \subseteq Edits
    BY DEF EditsOf, Since, Update
  <2>1. CASE GetSnapshot(r)
    BY <2>1 DEF GetSnapshot, View, storeVars, txVars, ghostVars
  <2>2. ASSUME NEW n \in 0..clock, Reconnect(r, n) PROVE TypeOK'
    <3> DEFINE v == [phase |-> "reconnect",
                     has   |-> EditsOf({u \in committed : u.clock <= n}),
                     clock |-> n, owed |-> EditsOf(committed)]
    <3>1. v \in View
      BY DEF View
    <3>2. view' = [view EXCEPT ![r] = v]
      BY <2>2 DEF Reconnect
    <3> HIDE DEF v
    <3>3. view' \in [Readers -> View]
      BY <3>1, <3>2
    <3> QED
      BY <2>2, <3>3 DEF Reconnect, storeVars, txVars, ghostVars
  <2>3. CASE GetUpdatesSinceClock(r)
    BY <2>3 DEF GetUpdatesSinceClock, View, storeVars, txVars, ghostVars
  <2> QED
    BY <1>5, <2>1, <2>2, <2>3 DEF Load
<1>6. ASSUME NEW m \in Compactors, MergeUpdates(m) PROVE TypeOK'
  <2>1. snapshot \cup EditsOf({u \in updates : u.clock <= clock}) \subseteq Edits
    BY DEF EditsOf, Update
  <2> QED
    BY <1>6, <2>1 DEF MergeUpdates, Merge, storeVars, txVars, ghostVars
<1>7. ASSUME NEW m \in Compactors, UpdateSnapshot(m) PROVE TypeOK'
  <2>1. merge[m].edits \subseteq Edits /\ merge[m].clock \in Nat
    BY DEF Merge
  <2>2. Uncompacted(merge[m].clock) \subseteq Update
    BY DEF Uncompacted
  <2>3. NoMerge \in Merge
    BY DEF NoMerge, Merge
  <2> QED
    BY <1>7, <2>1, <2>2, <2>3 DEF UpdateSnapshot, txVars, ghostVars
<1>8. CASE DeleteDocument
  BY <1>8 DEF DeleteDocument, txVars, ghostVars
<1>9. CASE UNCHANGED vars
  BY <1>9 DEF vars, storeVars, txVars, ghostVars
<1> QED
  BY <1>1, <1>2, <1>3, <1>4, <1>5, <1>6, <1>7, <1>8, <1>9
  DEF Next, IncrementClock, CompactSnapshot

\* Whoever holds the row lock keeps everybody else from moving the clock.
LEMMA LockedStep == TypeOK /\ Locked /\ [Next]_vars => Locked'
<1> SUFFICES ASSUME TypeOK, Locked, [Next]_vars PROVE Locked'
  OBVIOUS
<1> USE StoreAssumption DEF TypeOK, Locked
<1>0. lock = Nobody => \A w \in Writers : writing[w] = NoEdit
  OBVIOUS
<1>1. ASSUME NEW w \in Writers, NEW e \in Edits, SelectForUpdate(w, e) PROVE Locked'
  BY <1>0, <1>1 DEF SelectForUpdate, storeVars, RowFree
<1>2. ASSUME NEW w \in Writers, NEW e \in Edits, DocumentMissing(w, e) PROVE Locked'
  BY <1>2 DEF DocumentMissing, storeVars, txVars
<1>3. ASSUME NEW w \in Writers, writing[w] # NoEdit, EndTx(w) PROVE Locked'
  <2>1. \A v \in Writers \ {w} : writing[v] = NoEdit
    BY <1>3
  <2> QED
    BY <1>3, <2>1 DEF EndTx
<1>4. ASSUME NEW r \in Readers, Load(r) PROVE Locked'
  BY <1>4 DEF Load, GetSnapshot, Reconnect, GetUpdatesSinceClock, storeVars,
              txVars, ghostVars
<1>5. ASSUME NEW m \in Compactors, MergeUpdates(m) PROVE Locked'
  BY <1>5 DEF MergeUpdates, storeVars, txVars, ghostVars
<1>6. ASSUME NEW m \in Compactors, UpdateSnapshot(m) PROVE Locked'
  BY <1>0, <1>6 DEF UpdateSnapshot, RowFree, txVars, ghostVars
<1>7. CASE DeleteDocument
  BY <1>0, <1>7 DEF DeleteDocument, RowFree, txVars, ghostVars
<1>8. CASE UNCHANGED vars
  BY <1>8 DEF vars, storeVars, txVars, ghostVars
<1> QED
  BY <1>1, <1>2, <1>3, <1>4, <1>5, <1>6, <1>7, <1>8
  DEF Next, IncrementClock, CompactSnapshot, Commit, CommitConflicts, Rollback

-----------------------------------------------------------------------------
(* The program as it runs today: no compaction was stored.                 *)

\* Until then nothing ever leaves document_updates ...
AllStored == exists /\ ~compacted => committed = updates

\* ... so whoever reconnects finds all it misses after its own clock.
Reachable ==
    exists /\ ~compacted => \A r \in Readers :
        /\ view[r].phase = "reconnect" =>
              view[r].owed \subseteq
                  view[r].has \cup EditsOf({u \in committed : u.clock > view[r].clock})
        /\ view[r].phase = "reconnected" => view[r].owed \subseteq view[r].has

AppendInv == TypeOK /\ Locked /\ ClocksAreDense /\ AllStored /\ Reachable

LEMMA AppendStep == AppendInv /\ [Next]_vars => AppendInv'
<1> SUFFICES ASSUME AppendInv, [Next]_vars
             PROVE  ClocksAreDense' /\ AllStored' /\ Reachable'
  BY TypeStep, LockedStep DEF AppendInv
<1> USE DEF AppendInv
<1>1. CASE UNCHANGED <<storeVars, committed, compacted, view>>
  BY <1>1 DEF storeVars, ClocksAreDense, AllStored, Reachable, EditsOf
<1>2. ASSUME NEW w \in Writers, Commit(w), ~compacted
      PROVE  ClocksAreDense' /\ AllStored' /\ Reachable'
  <2> DEFINE u == [clock |-> NewClock(w), edit |-> writing[w]]
  <2>1. exists /\ read[w] = clock /\ clock \in Nat /\ u.clock = clock + 1
    BY <1>2 DEF Commit, Locked, TypeOK, NewClock
  <2>2. /\ clock' = u.clock /\ updates' = updates \cup {u}
        /\ committed' = committed \cup {u} /\ UNCHANGED <<exists, view, compacted>>
    BY <1>2 DEF Commit
  <2> HIDE DEF u
  <2>3. \A v \in updates : v.clock \in 1..clock
    BY <1>2, <2>1 DEF ClocksAreDense
  <2>4. {v.clock : v \in updates'} = 1..(clock + 1)
    <3>1. {v.clock : v \in updates'} = {v.clock : v \in updates} \cup {u.clock}
      BY <2>2
    <3>2. {v.clock : v \in updates} = 1..clock
      BY <1>2, <2>1 DEF ClocksAreDense
    <3>3. (1..clock) \cup {clock + 1} = 1..(clock + 1)
      BY <2>1
    <3> QED
      BY <2>1, <3>1, <3>2, <3>3, Zenon
  <2>5. \A x, y \in updates' : x.clock = y.clock => x = y
    BY <1>2, <2>1, <2>2, <2>3 DEF ClocksAreDense
  <2>6. ClocksAreDense' /\ AllStored'
    BY <2>1, <2>2, <2>4, <2>5 DEF ClocksAreDense, AllStored
  <2>7. \A n : EditsOf({v \in committed : v.clock > n})
               \subseteq EditsOf({v \in committed' : v.clock > n})
    BY <2>2 DEF EditsOf
  <2>8. Reachable'
    BY <2>1, <2>2, <2>7 DEF Reachable
  <2> QED
    BY <2>6, <2>8
<1>3. ASSUME NEW r \in Readers, Load(r)
      PROVE  ClocksAreDense' /\ AllStored' /\ Reachable'
  <2>1. UNCHANGED <<storeVars, committed, compacted>>
    BY <1>3 DEF Load, GetSnapshot, Reconnect, GetUpdatesSinceClock, storeVars,
                ghostVars
  <2>2. ClocksAreDense' /\ AllStored'
    BY <2>1 DEF storeVars, ClocksAreDense, AllStored
  <2>3. ASSUME GetSnapshot(r) PROVE Reachable'
    BY <2>1, <2>3 DEF GetSnapshot, Reachable, TypeOK, storeVars
  <2>4. ASSUME NEW n \in 0..clock, Reconnect(r, n) PROVE Reachable'
    <3> DEFINE v == [phase |-> "reconnect",
                     has   |-> EditsOf({u \in committed : u.clock <= n}),
                     clock |-> n, owed |-> EditsOf(committed)]
    <3>1. view' = [view EXCEPT ![r] = v]
      BY <2>4 DEF Reconnect
    <3>2. EditsOf(committed) \subseteq
              EditsOf({u \in committed : u.clock <= n})
              \cup EditsOf({u \in committed : u.clock > n})
      BY DEF EditsOf, TypeOK, Update
    <3>3. v.phase = "reconnect"
          /\ v.owed \subseteq v.has \cup EditsOf({u \in committed : u.clock > v.clock})
      BY <3>2
    <3> HIDE DEF v
    <3>4. \A s \in Readers : view'[s] = IF s = r THEN v ELSE view[s]
      BY <3>1 DEF TypeOK
    <3> QED
      BY <2>1, <3>3, <3>4 DEF Reachable, storeVars
  <2>5. ASSUME GetUpdatesSinceClock(r) PROVE Reachable'
    <3>1. exists /\ ~compacted => Since(view[r].clock) = {u \in committed : u.clock > view[r].clock}
      BY DEF Since, AllStored
    <3>2. \A s \in Readers \ {r} : view'[s] = view[s]
      BY <2>5 DEF GetUpdatesSinceClock, TypeOK
    <3>3. /\ view'[r].owed = view[r].owed
          /\ view'[r].has = view[r].has \cup EditsOf(Since(view[r].clock))
          /\ view'[r].phase \in {"bootstrapped", "reconnected"}
          /\ view'[r].phase = "reconnected" => view[r].phase = "reconnect"
      BY <2>5 DEF GetUpdatesSinceClock, TypeOK, View
    <3> QED
      BY <2>1, <3>1, <3>2, <3>3 DEF Reachable, storeVars
  <2> QED
    BY <1>3, <2>2, <2>3, <2>4, <2>5 DEF Load
<1>4. CASE DeleteDocument
  BY <1>4 DEF DeleteDocument, ClocksAreDense, AllStored, Reachable
<1>5. CASE compacted'
  BY <1>5 DEF ClocksAreDense, AllStored, Reachable
<1>6. ASSUME NEW m \in Compactors, UpdateSnapshot(m)
      PROVE  ClocksAreDense' /\ AllStored' /\ Reachable'
  <2>1. CASE exists
    BY <1>5, <1>6, <2>1 DEF UpdateSnapshot
  <2>2. CASE ~exists
    BY <1>6, <2>2 DEF UpdateSnapshot, ClocksAreDense, AllStored, Reachable
  <2> QED
    BY <2>1, <2>2
<1>7. ASSUME NEW w \in Writers, IncrementClock(w)
      PROVE  ClocksAreDense' /\ AllStored' /\ Reachable'
  <2>1. CASE Commit(w)
    BY <1>2, <1>5, <2>1 DEF Commit
  <2>2. CASE ~Commit(w)
    BY <1>1, <1>7, <2>2 DEF IncrementClock, SelectForUpdate, DocumentMissing,
        CommitConflicts, Rollback, storeVars, ghostVars
  <2> QED
    BY <2>1, <2>2
<1>8. ASSUME NEW m \in Compactors, MergeUpdates(m)
      PROVE  ClocksAreDense' /\ AllStored' /\ Reachable'
  BY <1>1, <1>8 DEF MergeUpdates, ghostVars
<1>9. CASE UNCHANGED vars
  BY <1>1, <1>9 DEF vars, ghostVars
<1> QED
  BY <1>3, <1>4, <1>6, <1>7, <1>8, <1>9 DEF Next, CompactSnapshot

LEMMA AppendInvariant == Spec => []AppendInv
<1>1. Init => AppendInv
  <2> SUFFICES ASSUME Init PROVE Locked /\ ClocksAreDense /\ AllStored /\ Reachable
    BY TypeInit DEF AppendInv
  <2>1. Locked /\ AllStored /\ Reachable
    BY DEF Init, Locked, AllStored, Reachable, NoView
  <2>2. ClocksAreDense
    BY DEF Init, ClocksAreDense
  <2> QED
    BY <2>1, <2>2
<1> QED
  BY <1>1, AppendStep, PTL DEF Spec

\* The rows and the transactions in flight hold what their columns allow.
THEOREM TypeCorrect == Spec => []TypeOK
  BY TypeInit, TypeStep, PTL DEF Spec

\* The clocks of a document's updates are 1, 2, ..., clock for any number of
\* concurrent PersistUpdate calls, failures and lost replies.
THEOREM UpdatesAreDense == Spec => []ClocksAreDense
<1>1. AppendInv => ClocksAreDense
  BY DEF AppendInv
<1> QED
  BY <1>1, AppendInvariant, PTL

\* SELECT FOR UPDATE does what its comment says: no INSERT ever meets the
\* unique index on the clock.
THEOREM NoTwoWritesOneClock == Spec => []NoClockConflict
<1>1. AppendInv => NoClockConflict
  <2> SUFFICES ASSUME AppendInv, ~compacted, NEW w \in Writers, writing[w] # NoEdit
               PROVE  ~ClockTaken(NewClock(w))
    BY DEF NoClockConflict
  <2>1. exists /\ NewClock(w) = clock + 1 /\ clock \in Nat
    BY DEF AppendInv, Locked, TypeOK, NewClock
  <2>2. \A u \in updates : u.clock \in 1..clock
    BY <2>1 DEF AppendInv, ClocksAreDense
  <2> QED
    BY <2>1, <2>2 DEF ClockTaken
<1> QED
  BY <1>1, AppendInvariant, PTL

\* GetUpdatesSinceClock returns everything a client missed, while others write.
THEOREM ReconnectIsComplete == Spec => []ReconnectMissesNothing
<1>1. AppendInv => ReconnectMissesNothing
  BY DEF AppendInv, Reachable, ReconnectMissesNothing
<1> QED
  BY <1>1, AppendInvariant, PTL

-----------------------------------------------------------------------------
(* One compactor at a time, next to any number of writers.                 *)

\* What a compactor holds covers all it is about to delete: nobody else changed
\* the snapshot since, and what was committed since has a later clock.
MergeCovers ==
    exists => \A m \in Compactors : merge[m].active =>
        /\ merge[m].clock <= clock
        /\ snapshot \subseteq merge[m].edits
        /\ EditsOf({u \in updates : u.clock <= merge[m].clock})
              \subseteq merge[m].edits

CompactInv == TypeOK /\ Locked /\ NoEditLost /\ MergeCovers

LEMMA CompactStep ==
  ASSUME \A m, n \in Compactors : m = n
  PROVE  CompactInv /\ [Next]_vars => CompactInv'
<1> SUFFICES ASSUME CompactInv, [Next]_vars PROVE NoEditLost' /\ MergeCovers'
  BY TypeStep, LockedStep DEF CompactInv
<1> USE DEF CompactInv
<1>1. CASE UNCHANGED storeVars /\ UNCHANGED acked /\ UNCHANGED merge
  BY <1>1 DEF storeVars, NoEditLost, MergeCovers, EditsOf
<1>2. ASSUME NEW w \in Writers, Commit(w) PROVE NoEditLost' /\ MergeCovers'
  <2> DEFINE u == [clock |-> NewClock(w), edit |-> writing[w]]
  <2>1. exists /\ clock \in Nat /\ u.clock = clock + 1
    BY <1>2 DEF Commit, Locked, TypeOK, NewClock
  <2>2. /\ clock' = u.clock /\ updates' = updates \cup {u}
        /\ acked' \in {acked, acked \cup {u.edit}}
        /\ UNCHANGED <<exists, snapshot, merge>>
    BY <1>2 DEF Commit
  <2> HIDE DEF u
  <2>3. EditsOf(updates') = EditsOf(updates) \cup {u.edit}
    BY <2>2 DEF EditsOf
  <2>4. NoEditLost'
    BY <2>1, <2>2, <2>3 DEF NoEditLost
  <2>5. ASSUME NEW m \in Compactors, merge[m].active
        PROVE  /\ merge[m].clock <= clock'
               /\ {v \in updates' : v.clock <= merge[m].clock}
                    = {v \in updates : v.clock <= merge[m].clock}
    <3>1. merge[m].clock \in Nat /\ merge[m].clock <= clock
      BY <2>1, <2>5 DEF MergeCovers, TypeOK, Merge
    <3> QED
      BY <2>1, <2>2, <3>1
  <2> QED
    BY <2>1, <2>2, <2>4, <2>5 DEF MergeCovers
<1>3. ASSUME NEW m \in Compactors, MergeUpdates(m) PROVE NoEditLost' /\ MergeCovers'
  <2>1. UNCHANGED storeVars /\ UNCHANGED acked /\ exists /\ clock \in Nat
    BY <1>3 DEF MergeUpdates, ghostVars, TypeOK
  <2>2. NoEditLost'
    BY <2>1 DEF storeVars, NoEditLost
  <2> DEFINE x == [active |-> TRUE, clock |-> clock,
                   edits  |-> snapshot \cup EditsOf({u \in updates : u.clock <= clock})]
  <2>3. /\ x.clock <= clock /\ snapshot \subseteq x.edits
        /\ EditsOf({u \in updates : u.clock <= x.clock}) \subseteq x.edits
    BY <2>1
  <2>4. merge' = [merge EXCEPT ![m] = x]
    BY <1>3 DEF MergeUpdates
  <2> HIDE DEF x
  <2>5. \A n \in Compactors : merge'[n] = x
    BY <2>4 DEF TypeOK
  <2> QED
    BY <2>1, <2>2, <2>3, <2>5 DEF MergeCovers, storeVars
<1>4. ASSUME NEW m \in Compactors, UpdateSnapshot(m) PROVE NoEditLost' /\ MergeCovers'
  <2>1. \A n \in Compactors : ~merge'[n].active
    BY <1>4 DEF UpdateSnapshot, TypeOK, NoMerge
  <2>2. MergeCovers'
    BY <2>1 DEF MergeCovers
  <2>3. CASE exists
    <3>1. merge[m].clock \in Nat /\ \A u \in updates : u.clock \in Nat
      BY DEF TypeOK, Merge, Update
    <3>2. EditsOf(updates) \subseteq
              EditsOf({u \in updates : u.clock <= merge[m].clock})
              \cup EditsOf(Uncompacted(merge[m].clock))
      BY <3>1 DEF EditsOf, Uncompacted
    <3>3. /\ snapshot \subseteq merge[m].edits
          /\ EditsOf({u \in updates : u.clock <= merge[m].clock})
                \subseteq merge[m].edits
      BY <1>4, <2>3 DEF UpdateSnapshot, MergeCovers
    <3>4. /\ snapshot' = merge[m].edits
          /\ updates' = Uncompacted(merge[m].clock)
          /\ acked' = acked
      BY <1>4, <2>3 DEF UpdateSnapshot, ghostVars
    <3> QED
      BY <2>2, <2>3, <3>2, <3>3, <3>4 DEF NoEditLost
  <2>4. CASE ~exists
    BY <1>4, <2>2, <2>4 DEF UpdateSnapshot, NoEditLost
  <2> QED
    BY <2>3, <2>4
<1>5. CASE DeleteDocument
  BY <1>5 DEF DeleteDocument, NoEditLost, MergeCovers
<1> QED
  BY <1>1, <1>2, <1>3, <1>4, <1>5
  DEF Next, IncrementClock, SelectForUpdate, DocumentMissing, CommitConflicts,
      Rollback, Load, GetSnapshot, Reconnect, GetUpdatesSinceClock,
      CompactSnapshot, storeVars, ghostVars, vars

\* A compaction that merges while edits are being committed loses none of those
\* that were acknowledged, as long as no second one runs beside it.
THEOREM AcknowledgedEditsStay ==
  ASSUME \A m, n \in Compactors : m = n PROVE Spec => []NoEditLost
<1>1. Init => CompactInv
  BY TypeInit DEF CompactInv, Init, Locked, NoEditLost, MergeCovers, NoMerge
<1>2. CompactInv => NoEditLost
  BY DEF CompactInv
<1> QED
  BY <1>1, <1>2, CompactStep, PTL DEF Spec

=============================================================================
