------------------------- MODULE SftpTaskTableProofs -------------------------
(***************************************************************************)
(* Proofs about SftpTaskTable for any finite set of tasks, any limit and   *)
(* any retention: what a persist that meets no other does to the table and *)
(* to the file.                                                            *)
(***************************************************************************)
EXTENDS SftpTaskTable, FiniteSetTheorems, TLAPS

\* A thread that has met no other is the only one that persists.
Alone == \A th \in Busy \ crowd : Busy = {th}

\* The row of t may be left out.
MayDrop(t) ==
  \/ mem[t].status # "running" /\ now > mem[t].at + Retention
  \/ Cardinality(AtLeastAsNew(t)) >= MaxRows

\* It has a snapshot of the rows as they are, except those that may go ...
SnapshotFaithful ==
  \A th \in Busy \ crowd : stage[th] = "replace" =>
    \A t \in Listed(mem) :
      snap[th][t] = mem[t] \/ (snap[th][t] = None /\ MayDrop(t))

\* ... and what it saves is the table.
SavesTable ==
  \A th \in Busy \ crowd : stage[th] = "save" => snap[th] = mem

IInv ==
  /\ TypeOK
  /\ Alone
  /\ SnapshotFaithful
  /\ SavesTable
  /\ LoneSaveAgrees

-----------------------------------------------------------------------------
(***************************************************************************)
(* prune_sftp_tasks                                                        *)
(***************************************************************************)

\* What is pruned from a table is a table.
LEMMA PrunedType ==
  ASSUME NEW table \in Table
  PROVE  Pruned(table) \in Table
  BY DEF Pruned, Table

\* A row of the table that is not in the pruned one may be left out.
LEMMA PrunedRows ==
  ASSUME TypeOK, NEW t \in Listed(mem)
  PROVE  Pruned(mem)[t] = mem[t] \/ (Pruned(mem)[t] = None /\ MayDrop(t))
  <1> DEFINE kept == {u \in Listed(mem) : ~Expired(mem[u])}
             ahead == {u \in kept : Ahead(mem, u, t)}
  <1>1. /\ t \in Tasks /\ mem[t] \in Row /\ now \in Int /\ Retention \in Int
        /\ \A u \in Listed(mem) : u \in Int /\ mem[u] \in Row /\ mem[u].at \in Int
    BY ConstantsAssumption DEF TypeOK, Table, Listed, Row
  <1>2. Pruned(mem)[t] = IF t \in kept /\ Cardinality(ahead) < MaxRows
                         THEN mem[t] ELSE None
    BY <1>1 DEF Pruned
  <1>3. CASE t \notin kept
    <2>1. mem[t].status # "running" /\ now > mem[t].at + Retention
      BY <1>1, <1>3 DEF Expired
    <2> QED
      BY <1>2, <1>3, <2>1 DEF MayDrop
  <1>4. CASE ~(Cardinality(ahead) < MaxRows)
    <2>1. ahead \subseteq AtLeastAsNew(t)
      BY <1>1 DEF AtLeastAsNew, Ahead
    <2>2. IsFiniteSet(AtLeastAsNew(t))
      BY ConstantsAssumption, FS_Subset DEF AtLeastAsNew, Listed
    <2>3. Cardinality(ahead) <= Cardinality(AtLeastAsNew(t)) /\ IsFiniteSet(ahead)
      BY <2>1, <2>2, FS_Subset
    <2>4. Cardinality(ahead) \in Nat /\ Cardinality(AtLeastAsNew(t)) \in Nat
      BY <2>2, <2>3, FS_CardinalityType
    <2>5. Cardinality(AtLeastAsNew(t)) >= MaxRows
      BY <1>4, <2>3, <2>4, ConstantsAssumption
    <2> QED
      BY <1>2, <1>4, <2>5 DEF MayDrop
  <1> QED
    BY <1>2, <1>3, <1>4

\* The ranks of the rows that are kept are different and less than MaxRows, so
\* no more than that many are left.
Small(table) == Cardinality(Listed(table)) <= MaxRows

LEMMA PrunedSmall ==
  ASSUME TypeOK
  PROVE  Small(Pruned(mem))
  <1> DEFINE kept     == {u \in Listed(mem) : ~Expired(mem[u])}
             ahead(t) == {u \in kept : Ahead(mem, u, t)}
             left     == Listed(Pruned(mem))
             rank     == [t \in left |-> Cardinality(ahead(t))]
  <1>1. \A u \in kept : u \in Int /\ u \in Tasks /\ mem[u] \in Row /\ mem[u].at \in Int
    BY ConstantsAssumption DEF TypeOK, Table, Listed, Row
  <1>2. left = {t \in kept : Cardinality(ahead(t)) < MaxRows}
    BY <1>1, ConstantsAssumption DEF Pruned, Listed
  <1>3. /\ IsFiniteSet(kept)
        /\ \A t \in kept : IsFiniteSet(ahead(t)) /\ Cardinality(ahead(t)) \in Nat
    <2>1. IsFiniteSet(kept)
      BY ConstantsAssumption, FS_Subset DEF Listed
    <2> QED
      BY <2>1, FS_Subset, FS_CardinalityType
  <1>4. ASSUME NEW t \in kept, NEW u \in kept, Ahead(mem, t, u)
        PROVE  Cardinality(ahead(t)) < Cardinality(ahead(u))
    <2>1. ahead(t) \subseteq ahead(u) /\ t \in ahead(u) /\ t \notin ahead(t)
      BY <1>1, <1>4 DEF Ahead
    <2> HIDE DEF ahead
    <2>2. /\ Cardinality(ahead(t)) <= Cardinality(ahead(u))
          /\ Cardinality(ahead(t)) # Cardinality(ahead(u))
      BY <1>3, <2>1, FS_Subset
    <2> QED
      BY <1>3, <2>2
  <1>5. \A t, u \in kept : t # u => Ahead(mem, t, u) \/ Ahead(mem, u, t)
    BY <1>1 DEF Ahead
  <1>6. rank \in Injection(left, 0 .. MaxRows - 1)
    <2> HIDE DEF ahead, kept
    <2>1. rank \in [left -> 0 .. MaxRows - 1]
      BY <1>2, <1>3, ConstantsAssumption
    <2>2. ASSUME NEW t \in left, NEW u \in left, rank[t] = rank[u]
          PROVE  t = u
      BY <1>2, <1>3, <1>4, <1>5, <2>2
    <2> QED
      BY <2>1, <2>2 DEF Injection, IsInjective
  <1> HIDE DEF rank, left
  <1>7. Cardinality(0 .. MaxRows - 1) = MaxRows /\ IsFiniteSet(0 .. MaxRows - 1)
    BY FS_Interval, ConstantsAssumption
  <1>8. Cardinality(left) <= MaxRows
    BY <1>6, <1>7, FS_Injection
  <1> QED
    BY <1>8 DEF Small, left

-----------------------------------------------------------------------------
\* At the start nobody persists, and the disk has the empty table.
LEMMA InitIInv == Init => IInv
  <1> SUFFICES ASSUME Init PROVE IInv
    OBVIOUS
  <1>1. Empty \in Table
    BY DEF Empty, Table
  <1>2. Busy = {}
    BY DEF Init, Busy
  <1>3. \A t \in Tasks : pc[t] = "registering" <=> starting = t
    BY ConstantsAssumption DEF Init
  <1>4. now \in 0 .. MaxNow
    BY ConstantsAssumption DEF Init
  <1>5. TypeOK
    BY <1>1, <1>2, <1>3, <1>4 DEF Init, TypeOK
  <1> QED
    BY <1>2, <1>5 DEF Init, IInv, Alone, SnapshotFaithful, SavesTable, LoneSaveAgrees

\* When a persist begins, either nobody else is busy or all have met.
LEMMA BeginAlone ==
  ASSUME TypeOK, NEW th \in Threads, Begin(th)
  PROVE  /\ Busy' = Busy \cup {th}
         /\ crowd' \subseteq Busy'
         /\ stage'[th] = "snapshot"
         /\ Busy' \ crowd' \subseteq {th}
         /\ Busy' \ crowd' # {} => Busy' = {th}
  BY DEF Begin, Goto, Busy, TypeOK

\* So the invariant holds after it, whatever has happened to a row.
LEMMA BeginIInv ==
  ASSUME IInv, NEW th \in Threads, Begin(th),
         mem' \in Table,
         pc' \in [Tasks -> {"new", "registering", "running", "ended"}],
         starting' \in Tasks \cup {None},
         \A t \in Tasks : pc'[t] = "registering" <=> starting' = t,
         starting' # None => starting' = starting \/ th = Main
  PROVE  IInv'
  <1>1. TypeOK
    BY DEF IInv
  <1>3. /\ stage' \in [Threads -> {"idle", "snapshot", "replace", "save"}]
        /\ UNCHANGED <<file, now, snap, dirty>>
    BY <1>1 DEF Begin, Goto, TypeOK
  <1>4. /\ starting' # None => Main \in Busy'
        /\ crowd' \subseteq Busy'
    BY <1>1, BeginAlone DEF TypeOK
  <1>5. TypeOK'
    BY <1>1, <1>3, <1>4 DEF TypeOK
  <1>2. /\ Busy' # {}
        /\ \A u \in Busy' \ crowd' : u = th /\ stage'[u] = "snapshot" /\ Busy' = {u}
    BY <1>1, BeginAlone
  <1> QED
    BY <1>2, <1>5 DEF IInv, Alone, SnapshotFaithful, SavesTable, LoneSaveAgrees

-----------------------------------------------------------------------------
\* Every transition, every step of a persist, and a restart keep it.
LEMMA NextIInv == IInv /\ [Next]_vars => IInv'
  <1> SUFFICES ASSUME IInv, [Next]_vars
               PROVE  IInv'
    OBVIOUS
  <1>0. /\ TypeOK /\ Alone /\ SnapshotFaithful /\ SavesTable /\ LoneSaveAgrees
        /\ now \in 0 .. MaxNow
        /\ Empty \in Table /\ Main \in Threads /\ Tasks \subseteq Threads
    BY DEF IInv, TypeOK, Empty, Table, Threads
  <1>a. ASSUME NEW t \in Tasks, NEW s \in {"running", "done", "failed", "cancelled"},
               Apply(t, s)
        PROVE  mem' \in Table
    BY <1>0, <1>a DEF Apply, Table, Row, Outcome, TypeOK
  <1>1. CASE UNCHANGED vars
    BY <1>0, <1>1 DEF vars, IInv, TypeOK, Alone, SnapshotFaithful, SavesTable,
       LoneSaveAgrees, Busy, Listed, MayDrop, AtLeastAsNew
  <1>2. ASSUME NEW t \in Tasks, Register(t)
        PROVE  IInv'
    <2>1. Begin(Main) /\ mem' \in Table
      BY <1>2, <1>a DEF Register
    <2>2. Main \notin Busy
      BY <2>1 DEF Begin, Goto, Busy
    <2>3. starting = None /\ \A u \in Tasks : pc[u] # "registering"
      BY <1>0, <2>2, ConstantsAssumption DEF TypeOK
    <2>4. /\ pc' \in [Tasks -> {"new", "registering", "running", "ended"}]
          /\ starting' \in Tasks \cup {None}
          /\ \A u \in Tasks : pc'[u] = "registering" <=> starting' = u
      BY <1>0, <1>2, <2>3, ConstantsAssumption DEF TypeOK, Register
    <2> QED
      BY <1>0, <2>1, <2>3, <2>4, BeginIInv DEF Register
  <1>3. ASSUME NEW t \in Tasks, NEW s \in Reports, Report(t, s)
        PROVE  IInv'
    <2>1. Begin(t) /\ mem' \in Table
      BY <1>3, <1>a, ConstantsAssumption DEF Report
    <2>2. /\ pc' \in [Tasks -> {"new", "registering", "running", "ended"}]
          /\ starting' = starting
          /\ \A u \in Tasks : pc'[u] = "registering" <=> pc[u] = "registering"
      BY <1>0, <1>3 DEF TypeOK, Report
    <2> QED
      BY <1>0, <2>1, <2>2, BeginIInv DEF TypeOK
  <1>4. ASSUME NEW t \in Tasks, Cancel(t)
        PROVE  IInv'
    <2>1. Begin(Main) /\ mem' \in Table
      BY <1>4, <1>a DEF Cancel
    <2>2. Main \notin Busy
      BY <2>1 DEF Begin, Goto, Busy
    <2>3. starting = None /\ \A u \in Tasks : pc[u] # "registering"
      BY <1>0, <2>2, ConstantsAssumption DEF TypeOK
    <2>4. /\ pc' \in [Tasks -> {"new", "registering", "running", "ended"}]
          /\ starting' \in Tasks \cup {None}
          /\ \A u \in Tasks : pc'[u] = "registering" <=> starting' = u
      BY <1>0, <1>4, <2>3, ConstantsAssumption DEF TypeOK, Cancel
    <2> QED
      BY <1>0, <2>1, <2>3, <2>4, BeginIInv DEF Cancel
  <1>5. CASE List
    BY <1>0, <1>5, BeginIInv DEF List, TypeOK
  <1>6. ASSUME NEW th \in Threads, Snapshot(th)
        PROVE  IInv'
    <2>1. Busy' = Busy /\ th \in Busy
      BY <1>0, <1>6 DEF Snapshot, Goto, Busy, TypeOK
    <2>2. /\ snap' = [snap EXCEPT ![th] = Pruned(mem)] /\ Pruned(mem) \in Table
          /\ UNCHANGED <<mem, file, now, pc, starting, crowd, dirty>>
      BY <1>0, <1>6, PrunedType DEF Snapshot, TypeOK
    <2>3. TypeOK'
      BY <1>0, <1>6, <2>1, <2>2 DEF TypeOK, Snapshot, Goto
    <2>4. Alone' /\ LoneSaveAgrees'
      BY <1>0, <2>1, <2>2 DEF Alone, LoneSaveAgrees
    <2>5. \A u \in (Busy \ crowd)' : u = th
      BY <1>0, <2>1, <2>2 DEF Alone
    <2>6. SavesTable'
      BY <1>0, <1>6, <2>5 DEF SavesTable, Snapshot, Goto, TypeOK
    <2>7. \A t \in Listed(mem)' : MayDrop(t)' <=> MayDrop(t)
      BY <2>2 DEF MayDrop, AtLeastAsNew, Listed
    <2>8. snap'[th] = Pruned(mem)
      BY <1>0, <2>2 DEF TypeOK
    <2>9. SnapshotFaithful'
      BY <1>0, <2>2, <2>5, <2>7, <2>8, PrunedRows DEF SnapshotFaithful, Listed
    <2> QED
      BY <2>3, <2>4, <2>6, <2>9 DEF IInv
  <1>7. ASSUME NEW th \in Threads, Replace(th)
        PROVE  IInv'
    <2>1. Busy' = Busy /\ th \in Busy
      BY <1>0, <1>7 DEF Replace, Goto, Busy, TypeOK
    <2>2. TypeOK'
      BY <1>0, <1>7, <2>1 DEF TypeOK, Replace, Goto
    <2>3. Alone' /\ LoneSaveAgrees'
      BY <1>0, <1>7, <2>1 DEF Alone, LoneSaveAgrees, Replace
    <2>4. \A u \in (Busy \ crowd)' : u = th
      BY <1>0, <1>7, <2>1 DEF Alone, Replace
    <2>5. SavesTable' /\ SnapshotFaithful'
      BY <1>0, <1>7, <2>4 DEF SavesTable, SnapshotFaithful, Replace, Goto, TypeOK
    <2> QED
      BY <2>2, <2>3, <2>5 DEF IInv
  <1>8. ASSUME NEW th \in Threads, NEW ok \in BOOLEAN, SaveReturns(th, ok),
               file' \in Table,
               th \notin crowd /\ ok => file' = snap[th]
        PROVE  IInv'
    <2>1. Busy' = Busy \ {th} /\ th \in Busy
      BY <1>0, <1>8 DEF SaveReturns, Goto, Busy, TypeOK
    <2>2. /\ snap' \in [Threads -> Table]
          /\ stage' \in [Threads -> {"idle", "snapshot", "replace", "save"}]
      BY <1>0, <1>8 DEF TypeOK, SaveReturns, Goto
    <2>3. /\ pc' \in [Tasks -> {"new", "registering", "running", "ended"}]
          /\ starting' \in Tasks \cup {None}
          /\ \A t \in Tasks : pc'[t] = "registering" <=> starting' = t
      <3>1. CASE th = Main /\ starting # None
        BY <1>0, <1>8, <3>1, ConstantsAssumption DEF TypeOK, SaveReturns
      <3>2. CASE ~(th = Main /\ starting # None)
        BY <1>0, <1>8, <3>2, ConstantsAssumption DEF TypeOK, SaveReturns
      <3> QED
        BY <3>1, <3>2
    <2>4. starting' # None => Main \in Busy'
      BY <1>0, <1>8, <2>1 DEF TypeOK, SaveReturns
    <2>5. TypeOK'
      BY <1>0, <1>8, <2>1, <2>2, <2>3, <2>4 DEF TypeOK, SaveReturns
    <2>6. (Busy \ crowd)' = {}
      BY <1>0, <1>8, <2>1 DEF Alone, SaveReturns
    <2>7. LoneSaveAgrees'
      BY <1>0, <1>8, <2>1 DEF LoneSaveAgrees, SavesTable, SaveReturns, Goto
    <2> QED
      BY <2>5, <2>6, <2>7 DEF IInv, Alone, SnapshotFaithful, SavesTable
  <1>b. Unsure \subseteq Table
    BY <1>0 DEF Unsure, Saving, TypeOK
  <1>9. ASSUME NEW th \in Threads, Save(th) \/ SaveErr(th)
        PROVE  IInv'
    <2>1. snap[th] \in Table /\ file \in Table
      BY <1>0 DEF TypeOK
    <2>2. CASE Save(th)
      BY <1>b, <1>8, <2>1, <2>2 DEF Save
    <2>3. CASE SaveErr(th)
      BY <1>0, <1>b, <1>8, <2>1, <2>3 DEF SaveErr
    <2> QED
      BY <1>9, <2>2, <2>3
  <1>10. CASE Tick
    <2>1. Busy' = Busy
      BY <1>10 DEF Tick, Busy
    <2>2. TypeOK' /\ now' >= now /\ now' \in Int
      BY <1>0, <1>10, <2>1, ConstantsAssumption DEF TypeOK, Tick
    <2>3. \A t \in Listed(mem) : MayDrop(t) => MayDrop(t)'
      <3> SUFFICES ASSUME NEW t \in Listed(mem), MayDrop(t)
                   PROVE  MayDrop(t)'
        OBVIOUS
      <3>1. mem[t].at \in Int /\ now \in Int /\ Retention \in Int
        BY <1>0, ConstantsAssumption DEF TypeOK, Table, Listed, Row
      <3>2. AtLeastAsNew(t)' = AtLeastAsNew(t)
        BY <1>10 DEF Tick, AtLeastAsNew, Listed
      <3> QED
        BY <1>10, <2>2, <3>1, <3>2 DEF MayDrop, Tick
    <2>4. SnapshotFaithful'
      BY <1>0, <1>10, <2>1, <2>3 DEF SnapshotFaithful, Tick, Listed
    <2> QED
      BY <1>0, <1>10, <2>1, <2>2, <2>4 DEF IInv, Tick, Alone, SavesTable, LoneSaveAgrees
  <1>11. CASE Restart
    <2>1. Busy' = {}
      BY <1>11 DEF Restart, Busy
    <2>2. mem' \in Table
      BY <1>0, <1>b, <1>11 DEF Restart, TypeOK
    <2>3. TypeOK'
      BY <1>0, <1>11, <2>1, <2>2, ConstantsAssumption DEF TypeOK, Restart
    <2> QED
      BY <1>11, <2>1, <2>3
      DEF IInv, Alone, SnapshotFaithful, SavesTable, LoneSaveAgrees, Restart
  <1> QED
    BY <1>1, <1>2, <1>3, <1>4, <1>5, <1>6, <1>7, <1>9, <1>10, <1>11 DEF Next

-----------------------------------------------------------------------------
(***************************************************************************)
(* The number of rows.                                                     *)
(***************************************************************************)
Bounds ==
  /\ TableBounded
  /\ Small(file)
  /\ \A th \in Threads : Small(snap[th])

LEMMA EmptySmall == Listed(Empty) = {} /\ Small(Empty)
  <1>1. Listed(Empty) = {}
    BY DEF Listed, Empty
  <1> QED
    BY <1>1, FS_EmptySet, ConstantsAssumption DEF Small

LEMMA CountsAreNumbers ==
  /\ IsFiniteSet(Early) /\ Cardinality(Early) \in Nat
  /\ IsFiniteSet(Early') /\ Cardinality(Early') \in Nat
  /\ \A table : IsFiniteSet(Listed(table)) /\ Cardinality(Listed(table)) \in Nat
  <1>1. IsFiniteSet(Threads)
    BY FS_AddElement, ConstantsAssumption DEF Threads
  <1>2. IsFiniteSet(Early) /\ IsFiniteSet(Early')
    BY <1>1, FS_Subset DEF Early, Busy
  <1>3. \A table : IsFiniteSet(Listed(table))
    BY ConstantsAssumption, FS_Subset DEF Listed
  <1> QED
    BY <1>2, <1>3, FS_CardinalityType

\* A transition adds a row at most, and its thread is early then.
LEMMA BeginBounds ==
  ASSUME Bounds, TypeOK, NEW th \in Threads, Begin(th),
         mem' = mem \/ \E t \in Tasks, row \in Row : mem' = [mem EXCEPT ![t] = row]
  PROVE  Bounds'
  <1>1. Early' = Early \cup {th} /\ th \notin Early
    BY DEF Begin, Goto, Early, Busy, TypeOK
  <1>2. Cardinality(Early') = Cardinality(Early) + 1
    BY <1>1, CountsAreNumbers, FS_AddElement
  <1>3. Cardinality(Listed(mem')) <= Cardinality(Listed(mem)) + 1
    <2>1. CASE mem' = mem
      BY <2>1, CountsAreNumbers
    <2>2. ASSUME NEW t \in Tasks, NEW row \in Row, mem' = [mem EXCEPT ![t] = row]
          PROVE  Cardinality(Listed(mem')) <= Cardinality(Listed(mem)) + 1
      <3>1. Listed(mem') = Listed(mem) \cup {t}
        BY <2>2, ConstantsAssumption DEF Listed, TypeOK, Table
      <3>2. IsFiniteSet(Listed(mem)) /\ Cardinality(Listed(mem)) \in Nat
        BY CountsAreNumbers
      <3>3. Cardinality(Listed(mem) \cup {t}) =
              IF t \in Listed(mem) THEN Cardinality(Listed(mem)) ELSE Cardinality(Listed(mem)) + 1
        BY <3>2, FS_AddElement, Zenon
      <3> QED
        BY <3>1, <3>2, <3>3
    <2> QED
      BY <2>1, <2>2
  <1>4. TableBounded'
    BY <1>2, <1>3, CountsAreNumbers, ConstantsAssumption DEF Bounds, TableBounded
  <1>5. file' = file /\ snap' = snap
    BY DEF Begin
  <1> QED
    BY <1>4, <1>5 DEF Bounds, Small, Listed

LEMMA NextBounds == Bounds /\ TypeOK /\ [Next]_vars => Bounds'
  <1> SUFFICES ASSUME Bounds, TypeOK, [Next]_vars
               PROVE  Bounds'
    OBVIOUS
  <1>0. /\ Main \in Threads /\ Tasks \subseteq Threads
        /\ \A s \in Outcome \cup {"running"} : [status |-> s, at |-> now] \in Row
    BY DEF Threads, TypeOK, Row
  <1>a. \A table : Small(table)' <=> Small(table)
    BY DEF Small, Listed
  <1>b. \A table \in Unsure : Small(table)
    BY EmptySmall DEF Bounds, Unsure, Saving
  <1>1. CASE UNCHANGED vars
    BY <1>1 DEF vars, Bounds, TableBounded, Early, Busy, Small, Listed
  <1>2. ASSUME NEW t \in Tasks, Register(t)
        PROVE  Bounds'
    BY <1>0, <1>2, BeginBounds DEF Register, Apply
  <1>3. ASSUME NEW t \in Tasks, NEW s \in Reports, Report(t, s)
        PROVE  Bounds'
    BY <1>0, <1>3, BeginBounds, ConstantsAssumption DEF Report, Apply, Outcome
  <1>4. ASSUME NEW t \in Tasks, Cancel(t)
        PROVE  Bounds'
    BY <1>0, <1>4, BeginBounds DEF Cancel, Apply, Outcome
  <1>5. CASE List
    BY <1>0, <1>5, BeginBounds DEF List
  <1>6. ASSUME NEW th \in Threads, Snapshot(th)
        PROVE  Bounds'
    <2>1. Early' = Early
      BY <1>6 DEF Snapshot, Goto, Early, Busy, TypeOK
    <2>2. /\ snap' = [snap EXCEPT ![th] = Pruned(mem)] /\ Small(Pruned(mem))
          /\ mem' = mem /\ file' = file
      BY <1>6, PrunedSmall DEF Snapshot
    <2>3. \A u \in Threads : Small(snap'[u])
      BY <2>2 DEF Bounds, TypeOK
    <2> QED
      BY <2>1, <2>2, <2>3 DEF Bounds, TableBounded, Small, Listed
  <1>7. ASSUME NEW th \in Threads, Replace(th)
        PROVE  Bounds'
    <2>1. Small(mem') /\ snap' = snap /\ file' = file
      BY <1>7 DEF Replace, Bounds
    <2>2. TableBounded'
      BY <2>1, CountsAreNumbers, ConstantsAssumption DEF TableBounded, Small
    <2> QED
      BY <2>1, <2>2 DEF Bounds, Small, Listed
  <1>8. ASSUME NEW th \in Threads, NEW ok \in BOOLEAN, SaveReturns(th, ok),
               file' \in Unsure \cup {snap[th]}
        PROVE  Bounds'
    <2>1. Early' = Early /\ mem' = mem
      BY <1>8 DEF SaveReturns, Goto, Early, Busy, TypeOK
    <2>2. \A u \in Threads : Small(snap'[u])
      BY <1>8, EmptySmall DEF SaveReturns, Bounds, TypeOK
    <2>3. Small(file')
      BY <1>8, <1>b DEF Bounds
    <2> QED
      BY <2>1, <2>2, <2>3 DEF Bounds, TableBounded, Small, Listed
  <1>9. ASSUME NEW th \in Threads, Save(th) \/ SaveErr(th)
        PROVE  Bounds'
    BY <1>8, <1>9 DEF Save, SaveErr, Unsure
  <1>10. CASE Tick
    BY <1>10 DEF Tick, Bounds, TableBounded, Early, Busy, Small, Listed
  <1>11. CASE Restart
    <2>1. Small(mem') /\ file' = mem' /\ \A th \in Threads : snap'[th] = Empty
      BY <1>11, <1>b DEF Restart, Unsure
    <2>2. TableBounded'
      BY <2>1, CountsAreNumbers, ConstantsAssumption DEF TableBounded, Small
    <2> QED
      BY <2>1, <2>2, EmptySmall DEF Bounds, Small, Listed
  <1> QED
    BY <1>1, <1>2, <1>3, <1>4, <1>5, <1>6, <1>7, <1>9, <1>10, <1>11 DEF Next

-----------------------------------------------------------------------------
\* The invariant holds in every behaviour.
THEOREM Invariance == Spec => []IInv
  <1> QED
    BY InitIInv, NextIInv, PTL DEF Spec

\* Every variable keeps its type, and exactly the transfer that the main
\* thread registers is being registered.
THEOREM TypeCorrect == Spec => []TypeOK
  <1>1. IInv => TypeOK
    BY DEF IInv
  <1> QED
    BY Invariance, <1>1, PTL

\* After a persist that met no other and was saved, the file has the table.
THEOREM FileFollowsTable == Spec => []LoneSaveAgrees
  <1>1. IInv => LoneSaveAgrees
    BY DEF IInv
  <1> QED
    BY Invariance, <1>1, PTL

\* A persist that met no other drops rows for a reason, and alters none.
THEOREM RowsAreKept == Spec => RowsLeaveForAReason
  <1> DEFINE Kept ==
        \A th \in Threads, t \in Listed(mem) :
          stage[th] = "replace" /\ stage'[th] = "save" /\ th \notin crowd =>
            \/ mem'[t] = mem[t]
            \/ /\ mem'[t] = None
               /\ \/ mem[t].status # "running" /\ now > mem[t].at + Retention
                  \/ Cardinality(AtLeastAsNew(t)) >= MaxRows
  <1>1. IInv /\ [Next]_vars => [Kept]_vars
    <2> SUFFICES ASSUME IInv, Next,
                        NEW th \in Threads, NEW t \in Listed(mem),
                        stage[th] = "replace", stage'[th] = "save", th \notin crowd
                 PROVE  mem'[t] = mem[t] \/ (mem'[t] = None /\ MayDrop(t))
      BY DEF MayDrop
    <2>1. TypeOK /\ SnapshotFaithful /\ th \in Busy \ crowd
      BY DEF IInv, Busy
    <2>2. mem' = snap[th]
      BY <2>1 DEF Next, TypeOK, Register, Report, Cancel, List, Begin, Snapshot, Replace,
                  Save, SaveErr, SaveReturns, Tick, Restart, Goto
    <2> QED
      BY <2>1, <2>2 DEF SnapshotFaithful
  <1> QED
    BY Invariance, <1>1, PTL DEF Spec, RowsLeaveForAReason

\* The table never outgrows its limit by more than the threads still early.
THEOREM TableStaysBounded == Spec => []TableBounded
  <1>1. Init => Bounds
    <2> SUFFICES ASSUME Init PROVE Bounds
      OBVIOUS
    <2>1. Listed(mem) = {} /\ Small(file) /\ \A th \in Threads : Small(snap[th])
      BY EmptySmall DEF Init
    <2>2. TableBounded
      BY <2>1, FS_EmptySet, CountsAreNumbers, ConstantsAssumption DEF TableBounded
    <2> QED
      BY <2>1, <2>2 DEF Bounds
  <1>2. Bounds => TableBounded
    BY DEF Bounds
  <1> QED
    BY TypeCorrect, NextBounds, <1>1, <1>2, PTL DEF Spec
=============================================================================
