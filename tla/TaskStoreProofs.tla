-------------------------- MODULE TaskStoreProofs --------------------------
(***************************************************************************)
(* What TLAPS proves about TaskStore for any tasks, blockers, contracts    *)
(* and statuses, any number of days and crashes, and any interleaving of   *)
(* readers with the writes of an operation.                                *)
(***************************************************************************)
EXTENDS TaskStore, WellFoundedInduction, TLAPS

(* The properties of the store, with what holds in the middle of an        *)
(* operation: the record is in the archive before the index names it, a    *)
(* task leaves the board only with an index entry and loses its entry only *)
(* when it is on the board.                                                *)
IInv ==
    /\ TypeOK
    /\ NeverVanishes
    /\ IndexLeadsToRecord
    /\ GetFinds
    /\ ReleasedAfterDeps
    /\ \A t \in OnBoard : active[t].status \in Open
    /\ board.closed = {}
    /\ sought # Absent => Archived(sought) # {}
    /\ op.do = "mark" => \E i \in Archived(op.task) : archive[i].day = day
    /\ op.do = "pop" => op.task \in Indexed
    /\ op.do = "unmark" => op.task \in OnBoard

-----------------------------------------------------------------------------
(* The last entry of a task in the archive exists                          *)

Less == {ss \in Nat \X Nat : ss[1] < ss[2]}

(* A nonempty set of naturals has a least element.                         *)
LEMMA Least ==
    ASSUME NEW S \in SUBSET Nat, S # {}
    PROVE  \E m \in S : \A k \in S : m <= k
  <1>1. OpToRel(<, Nat) = Less
    BY Zenon DEF OpToRel, Less
  <1>2. IsWellFoundedOn(Less, Nat)
    BY <1>1, NatLessThanWellFounded, Zenon
  <1>3. PICK m \in S : \A k \in S : <<k, m>> \notin Less
    BY <1>2, WFMin, Zenon
  <1>4. \A k \in S : ~(k < m)
    BY <1>3, Zenon DEF Less
  <1>5. QED BY <1>4

(* Arithmetic of revisions, for leaves in a large context.                 *)
LEMMA NextRevision ==
    \A a \in Nat : a <= a /\ a + 1 \in Nat /\ \A b \in Nat : b <= a => b # a + 1
  OBVIOUS

(* A nonempty set of naturals with a bound has a greatest element.         *)
LEMMA Greatest ==
    ASSUME NEW n \in Nat, NEW S \in SUBSET (0 .. n), S # {}
    PROVE  \E m \in S : \A k \in S : m >= k
  <1> DEFINE T == {j \in Nat : \E k \in S : j + k = n}
  <1>1. T # {}
    <2>1. PICK k \in S : TRUE
      BY Zenon
    <2>2. n - k \in Nat /\ (n - k) + k = n
      OBVIOUS
    <2>3. QED BY <2>2, Zenon
  <1>2. PICK j \in T : \A k \in T : j <= k
    BY <1>1, Least, Zenon
  <1>3. PICK m \in S : j + m = n
    OBVIOUS
  <1>4. ASSUME NEW k \in S PROVE m >= k
    <2>1. n - k \in T
      OBVIOUS
    <2>2. j <= n - k
      BY <1>2, <2>1, Zenon
    <2>3. j \in Nat /\ k \in Nat /\ m \in Nat
      OBVIOUS
    <2>4. QED BY <1>3, <2>2, <2>3
  <1>5. QED BY <1>4

LEMMA GreatestIs ==
    ASSUME NEW S \in SUBSET Nat, NEW i \in S, \A j \in S : j <= i
    PROVE  (CHOOSE k \in S : \A j \in S : k >= j) = i
  <1>1. \A j \in S : i >= j
    OBVIOUS
  <1>2. ASSUME NEW k \in S, \A j \in S : k >= j PROVE k = i
    <2>1. k >= i /\ k <= i /\ k \in Nat /\ i \in Nat
      BY <1>2
    <2>2. QED BY <2>1
  <1>3. QED BY <1>1, <1>2, Zenon

LEMMA EntryOfArchive ==
    ASSUME TypeOK
    PROVE  \A i \in 1 .. Len(archive) : archive[i] \in [id: Tasks, day: Nat, rec: Record]
  <1> DEFINE E == [id: Tasks, day: Nat, rec: Record]
  <1>1. archive \in Seq(E)
    BY DEF TypeOK
  <1> HIDE DEF E
  <1>2. \A i \in 1 .. Len(archive) : archive[i] \in E
    BY <1>1
  <1>3. QED BY <1>2 DEF E

(* A reopening starts from a record of the archive.                        *)
LEMMA LatestTyped ==
    ASSUME TypeOK, NEW t \in Tasks, t \notin OnBoard, Dated(t) # {}
    PROVE  Latest(t) \in Record
  <1>1. Dated(t) \subseteq DOMAIN archive /\ DOMAIN archive = 1 .. Len(archive)
    BY DEF Dated, Archived, TypeOK
  <1>2. Len(archive) \in Nat /\ Dated(t) \in SUBSET (0 .. Len(archive))
    BY <1>1 DEF TypeOK
  <1>3. \E i \in Dated(t) : \A j \in Dated(t) : i >= j
    BY <1>2, Greatest, Zenon
  <1>4. PICK i \in Dated(t) : Latest(t) = archive[i].rec
    BY <1>3, Zenon DEF Latest, OnBoard
  <1>5. archive[i] \in [id: Tasks, day: Nat, rec: Record]
    BY <1>1, <1>4, EntryOfArchive
  <1>6. QED BY <1>4, <1>5

-----------------------------------------------------------------------------
(* The steps                                                               *)

(* What is in the archive stays there.                                     *)
LEMMA ArchiveGrows ==
    ASSUME TypeOK, NEW e \in [id: Tasks, day: Nat, rec: Record],
           archive' = Append(archive, e), NEW t \in Tasks
    PROVE  /\ \A i \in Archived(t) : i \in Archived(t)' /\ archive'[i] = archive[i]
           /\ Len(archive') \in Archived(e.id)' /\ archive'[Len(archive')] = e
  <1>1. /\ archive \in Seq([id: Tasks, day: Nat, rec: Record])
        /\ archive' \in Seq([id: Tasks, day: Nat, rec: Record])
        /\ Len(archive') = Len(archive) + 1
    BY DEF TypeOK
  <1>2. archive'[Len(archive')] = e /\ Len(archive') \in DOMAIN archive'
    BY <1>1
  <1>3. \A i \in DOMAIN archive : archive'[i] = archive[i] /\ i \in DOMAIN archive'
    BY <1>1
  <1>4. QED BY <1>2, <1>3 DEF Archived

(* A step that leaves the archive and the day alone.                       *)
LEMMA SameArchive ==
    ASSUME UNCHANGED archive
    PROVE  \A t \in Tasks : Archived(t)' = Archived(t)
  BY DEF Archived

LEMMA InitIInv == Init => IInv
  BY TaskStoreAssumption, AbsentAssumption
  DEF Init, IInv, TypeOK, NeverVanishes, IndexLeadsToRecord, GetFinds, ReleasedAfterDeps,
      Known, OnBoard, Indexed, NoOp, NoBoard, Boards

(* The writes of one file: add, update, patch and their batch.             *)
LEMMA BoardSteps ==
    ASSUME IInv, NEW new \in [Tasks -> Record \cup {Absent}], NEW more \in SUBSET Tasks,
           Idle, active' = new, added' = added \cup more,
           UNCHANGED <<archive, index, op, day, readers, crashes>>,
           \A t \in OnBoard : new[t] # Absent,
           \A t \in more : new[t] # Absent \/ t \in Indexed,
           \A t \in Tasks : new[t] # Absent => new[t].status \in Open
    PROVE  IInv'
  <1>1. TypeOK'
    BY DEF IInv, TypeOK, readers
  <1>2. NeverVanishes'
    BY DEF IInv, NeverVanishes, Known, OnBoard, Indexed
  <1>3. IndexLeadsToRecord' /\ GetFinds' /\ ReleasedAfterDeps'
    BY DEF IInv, IndexLeadsToRecord, GetFinds, ReleasedAfterDeps, Indexed, Archived, readers
  <1>4. QED BY <1>1, <1>2, <1>3 DEF IInv, OnBoard, Idle, NoOp, readers, Archived

LEMMA CloseKeeps ==
    ASSUME IInv, NEW t \in Tasks, NEW status \in Terminal, Close(t, status)
    PROVE  IInv'
  <1> DEFINE rec == [active[t] EXCEPT !.status = status]
             e   == [id |-> t, day |-> day, rec |-> rec]
  <1>1. active[t] \in Record
    BY DEF IInv, TypeOK, Close, OnBoard
  <1>2. rec \in Record /\ e \in [id: Tasks, day: Nat, rec: Record]
    BY <1>1, Zenon DEF Record, Terminal, IInv, TypeOK
  <1>3. archive' = Append(archive, e) /\ op' = [do |-> "mark", task |-> t, rec |-> rec]
    BY DEF Close
  <1>4. UNCHANGED <<active, index, day, added, board, released, sought, missed, crashes>>
    BY DEF Close, readers
  <1> HIDE DEF rec
  <1>5. TypeOK'
    BY <1>2, <1>3, <1>4 DEF IInv, TypeOK
  <1>6. \A u \in Tasks : \A i \in Archived(u) : i \in Archived(u)' /\ archive'[i] = archive[i]
    BY <1>2, <1>3, ArchiveGrows, Zenon DEF IInv
  <1>7. Len(archive') \in Archived(t)' /\ archive'[Len(archive')].day = day
    BY <1>2, <1>3, ArchiveGrows DEF IInv
  <1>8. NeverVanishes' /\ GetFinds'
    BY <1>4 DEF IInv, NeverVanishes, GetFinds, Known, OnBoard, Indexed
  <1>9. IndexLeadsToRecord'
    BY <1>4, <1>6 DEF IInv, IndexLeadsToRecord, Indexed
  <1>10. ReleasedAfterDeps'
    BY <1>4, <1>6, TaskStoreAssumption DEF IInv, TypeOK, ReleasedAfterDeps
  <1>11. sought' # Absent => Archived(sought)' # {}
    BY <1>4, <1>6 DEF IInv, TypeOK
  <1>12. QED
    BY <1>3, <1>4, <1>5, <1>7, <1>8, <1>9, <1>10, <1>11 DEF IInv, OnBoard

LEMMA MarkKeeps == ASSUME IInv, Mark PROVE IInv'
  <1>1. op \in [do: {"mark", "pop", "unmark"}, task: Tasks, rec: Record] /\ op.do = "mark"
    BY DEF IInv, TypeOK, Mark, NoOp
  <1>2. UNCHANGED <<active, archive, day, added, board, released, sought, missed, crashes>>
    BY DEF Mark, readers
  <1>3. index' = [index EXCEPT ![op.task] = day] /\ op' = [op EXCEPT !.do = "pop"]
    BY DEF Mark
  <1>4. day \in Nat \ {0} /\ index \in [Tasks -> Nat]
    BY DEF IInv, TypeOK
  <1>5. TypeOK'
    BY <1>1, <1>2, <1>3, <1>4, Zenon DEF IInv, TypeOK
  <1>6. index' = [index EXCEPT ![op.task] = day] /\ Indexed \subseteq Indexed'
    BY <1>1, <1>3, <1>4 DEF Indexed
  <1>7. NeverVanishes' /\ GetFinds'
    BY <1>2, <1>6 DEF IInv, NeverVanishes, GetFinds, Known, OnBoard
  <1>8. IndexLeadsToRecord'
    BY <1>1, <1>2, <1>3, <1>4, SameArchive DEF IInv, IndexLeadsToRecord, Indexed
  <1>9. ReleasedAfterDeps' /\ (sought' # Absent => Archived(sought)' # {})
    BY <1>2 DEF IInv, ReleasedAfterDeps, Archived
  <1>10. op'.do = "pop" /\ op'.task \in Indexed'
    BY <1>1, <1>3, <1>4 DEF Indexed
  <1>11. QED BY <1>2, <1>5, <1>7, <1>8, <1>9, <1>10 DEF IInv, OnBoard

LEMMA PopKeeps == ASSUME IInv, Pop PROVE IInv'
  <1>1. op \in [do: {"mark", "pop", "unmark"}, task: Tasks, rec: Record] /\ op.task \in Indexed
    BY DEF IInv, TypeOK, Pop, NoOp
  <1>2. UNCHANGED <<archive, index, day, added, board, released, sought, missed, crashes>>
    BY DEF Pop, readers
  <1>3. active' = [active EXCEPT ![op.task] = Absent] /\ op' = NoOp
    BY DEF Pop, Save
  <1>4. TypeOK'
    BY <1>1, <1>2, <1>3 DEF IInv, TypeOK
  <1>5. NeverVanishes' /\ GetFinds'
    BY <1>1, <1>2, <1>3 DEF IInv, TypeOK, NeverVanishes, GetFinds, Known, OnBoard, Indexed
  <1>6. IndexLeadsToRecord' /\ ReleasedAfterDeps' /\ (sought' # Absent => Archived(sought)' # {})
    BY <1>2 DEF IInv, IndexLeadsToRecord, ReleasedAfterDeps, Archived, Indexed
  <1>7. \A t \in OnBoard' : active'[t].status \in Open
    BY <1>1, <1>3 DEF IInv, TypeOK, OnBoard
  <1>8. QED BY <1>2, <1>3, <1>4, <1>5, <1>6, <1>7 DEF IInv, NoOp

LEMMA UnmarkKeeps == ASSUME IInv, Unmark PROVE IInv'
  <1>1. op \in [do: {"mark", "pop", "unmark"}, task: Tasks, rec: Record] /\ op.task \in OnBoard
    BY DEF IInv, TypeOK, Unmark, NoOp
  <1>2. UNCHANGED <<active, archive, day, added, board, released, sought, missed, crashes>>
    BY DEF Unmark, readers
  <1>3. index' = [index EXCEPT ![op.task] = 0] /\ op' = NoOp
    BY DEF Unmark
  <1>4. TypeOK'
    BY <1>1, <1>2, <1>3 DEF IInv, TypeOK
  <1>5. NeverVanishes' /\ GetFinds'
    BY <1>1, <1>2, <1>3 DEF IInv, TypeOK, NeverVanishes, GetFinds, Known, OnBoard, Indexed
  <1>6. IndexLeadsToRecord'
    BY <1>1, <1>2, <1>3, Zenon DEF IInv, TypeOK, IndexLeadsToRecord, Archived, Indexed
  <1>7. ReleasedAfterDeps' /\ (sought' # Absent => Archived(sought)' # {})
    BY <1>2 DEF IInv, ReleasedAfterDeps, Archived
  <1>8. QED BY <1>2, <1>3, <1>4, <1>5, <1>6, <1>7 DEF IInv, NoOp, OnBoard
LEMMA ReopenedTyped ==
    ASSUME NEW l \in Record, NEW contract \in Contracts
    PROVE  LET rec == [l EXCEPT !.status = "backlog", !.contract = contract, !.seq = @ + 1]
           IN  rec \in Record /\ rec.status = "backlog"
  <1> DEFINE one == [l EXCEPT !.status = "backlog"]
             two == [one EXCEPT !.contract = contract]
  <1>1. one \in Record /\ one.status = "backlog" /\ one.seq = l.seq
    BY TaskStoreAssumption DEF Record
  <1> HIDE DEF one
  <1>2. two \in Record /\ two.status = "backlog" /\ two.seq = l.seq
    BY <1>1 DEF Record
  <1> HIDE DEF two
  <1>3. two.seq + 1 \in Nat
    BY <1>2 DEF Record
  <1>4. [two EXCEPT !.seq = @ + 1] \in Record /\ [two EXCEPT !.seq = @ + 1].status = "backlog"
    BY <1>2, <1>3 DEF Record
  <1>5. QED BY <1>4 DEF two, one

LEMMA ReopenKeeps ==
    ASSUME IInv, NEW t \in Tasks, NEW contract \in Contracts, Reopen(t, contract)
    PROVE  IInv'
  <1> DEFINE rec == [Latest(t) EXCEPT !.status = "backlog", !.contract = contract,
                                      !.seq = @ + 1]
  <1>1. Latest(t) \in Record
    BY LatestTyped DEF IInv, Reopen
  <1>2. rec \in Record /\ rec.status = "backlog"
    BY <1>1, ReopenedTyped, Zenon
  <1>3. active' = [active EXCEPT ![t] = rec] /\ t \notin OnBoard
    BY DEF Reopen, Replace, Save
  <1>4. op' = [do |-> "unmark", task |-> t, rec |-> rec]
    BY <1>3 DEF Reopen, Replace
  <1>5. UNCHANGED <<archive, index, day, added, board, released, sought, missed, crashes>>
    BY DEF Reopen, Replace, readers
  <1> HIDE DEF rec
  <1>6. rec # Absent
    BY <1>2, AbsentAssumption
  <1>7. TypeOK'
    BY <1>2, <1>3, <1>4, <1>5 DEF IInv, TypeOK
  <1>8. OnBoard' = OnBoard \cup {t}
    BY <1>3, <1>6 DEF IInv, TypeOK, OnBoard
  <1>9. NeverVanishes' /\ GetFinds'
    BY <1>5, <1>8 DEF IInv, NeverVanishes, GetFinds, Known, Indexed
  <1>10. IndexLeadsToRecord' /\ ReleasedAfterDeps' /\ (sought' # Absent => Archived(sought)' # {})
    BY <1>5 DEF IInv, IndexLeadsToRecord, ReleasedAfterDeps, Archived, Indexed
  <1>11. \A u \in OnBoard' : active'[u].status \in Open
    BY <1>2, <1>3, <1>8, TaskStoreAssumption DEF IInv, TypeOK, OnBoard
  <1>12. QED BY <1>4, <1>5, <1>7, <1>8, <1>9, <1>10, <1>11 DEF IInv

LEMMA ReadersKeep == ASSUME IInv, Read PROVE IInv'
  <1>1. CASE ReadyBegin
    <2>1. UNCHANGED <<files, op, day, added, released, sought, missed, crashes>>
      BY <1>1 DEF ReadyBegin
    <2>2. board' \in Boards /\ board'.closed = {}
      BY <1>1, TaskStoreAssumption DEF IInv, ReadyBegin, Boards, OnBoard, Terminal
    <2>3. QED BY <2>1, <2>2 DEF IInv, TypeOK, NeverVanishes, IndexLeadsToRecord, GetFinds,
              ReleasedAfterDeps, Known, OnBoard, Indexed, Archived, files
  <1>2. CASE ReadyEnd
    <2>1. UNCHANGED <<active, archive, index, op, day, added, sought, missed, crashes>>
      BY <1>2 DEF ReadyEnd, files
    <2>2. board' = NoBoard /\ board \in Boards
      BY <1>2 DEF ReadyEnd, IInv, TypeOK
    <2>3. released' \subseteq Tasks
      BY <1>2, <2>2 DEF ReadyEnd, IInv, TypeOK, Boards
    <2>4. ASSUME NEW t \in released', NEW d \in Deps[t] PROVE Archived(d) # {}
      <3>1. CASE t \in released
        BY <3>1 DEF IInv, ReleasedAfterDeps
      <3>2. CASE t \notin released
        BY <1>2, <3>2 DEF ReadyEnd, IInv, IndexLeadsToRecord
      <3>3. QED BY <3>1, <3>2
    <2>5. NoBoard \in Boards /\ NoBoard.closed = {}
      BY DEF NoBoard, Boards
    <2>6. QED BY <2>1, <2>2, <2>3, <2>4, <2>5 DEF IInv, TypeOK, NeverVanishes,
              IndexLeadsToRecord, GetFinds, ReleasedAfterDeps, Known, OnBoard, Indexed, Archived
  <1>3. ASSUME NEW t \in Tasks, GetBegin(t) PROVE IInv'
    <2>1. UNCHANGED <<active, archive, index, op, day, added, board, released, missed, crashes>>
      BY <1>3 DEF GetBegin, files
    <2>2. sought' = t /\ Archived(t) # {}
      BY <1>3 DEF GetBegin, IInv, NeverVanishes, Known, IndexLeadsToRecord
    <2>3. QED BY <2>1, <2>2 DEF IInv, TypeOK, NeverVanishes, IndexLeadsToRecord, GetFinds,
              ReleasedAfterDeps, Known, OnBoard, Indexed, Archived
  <1>4. CASE GetEnd
    <2>1. UNCHANGED <<active, archive, index, op, day, added, board, released, crashes>>
      BY <1>4 DEF GetEnd, files
    <2>2. sought' = Absent /\ missed' = missed
      BY <1>4 DEF GetEnd, IInv
    <2>3. QED BY <2>1, <2>2 DEF IInv, TypeOK, NeverVanishes, IndexLeadsToRecord, GetFinds,
              ReleasedAfterDeps, Known, OnBoard, Indexed, Archived
  <1>5. QED BY <1>1, <1>2, <1>3, <1>4 DEF Read

LEMMA NewTaskTyped ==
    /\ NewTask \in Record /\ NewTask # Absent
    /\ NewTask.seq = 0 /\ NewTask.status \in Open
  <1>1. "backlog" \in Open
    BY TaskStoreAssumption
  <1>2. NewTask \in Record
    BY <1>1 DEF NewTask, Record
  <1>3. NewTask.seq = 0 /\ NewTask.status \in Open
    BY <1>1 DEF NewTask
  <1>4. QED BY <1>2, <1>3, AbsentAssumption

LEMMA WritersKeep ==
    ASSUME IInv, Write
    PROVE  IInv'
  <1>1. NewTask \in Record /\ NewTask # Absent /\ NewTask.status \in Open
    BY NewTaskTyped
  <1>2. active \in [Tasks -> Record \cup {Absent}] /\ added \subseteq Tasks
    BY DEF IInv, TypeOK
  <1>3. \A t \in Tasks : active[t] # Absent => active[t] \in Record /\ active[t].status \in Open
    BY <1>2 DEF IInv, OnBoard
  <1>4. ASSUME NEW t \in Tasks, Add(t) PROVE IInv'
    <2> DEFINE new == [active EXCEPT ![t] = NewTask]
    <2>1. new \in [Tasks -> Record \cup {Absent}] /\ new[t] = NewTask
          /\ \A u \in Tasks \ {t} : new[u] = active[u]
      BY <1>1, <1>2
    <2>2. active' = new /\ added' = added \cup {t} /\ Idle
          /\ UNCHANGED <<archive, index, op, day, readers, crashes>>
      BY <1>4 DEF Add, Save
    <2> HIDE DEF new
    <2>3. \A u \in Tasks : new[u] # Absent => new[u].status \in Open
      BY <1>1, <1>3, <2>1
    <2>4. \A u \in OnBoard : new[u] # Absent
      BY <1>1, <2>1 DEF OnBoard
    <2>5. {t} \in SUBSET Tasks /\ \A u \in {t} : new[u] # Absent \/ u \in Indexed
      BY <1>1, <2>1
    <2>6. QED BY <2>1, <2>2, <2>3, <2>4, <2>5, BoardSteps, Zenon
  <1>5. ASSUME NEW batch \in SUBSET Tasks, AddMany(batch) PROVE IInv'
    <2> DEFINE new == [t \in Tasks |-> IF t \in batch \ Known THEN NewTask ELSE active[t]]
    <2>1. new \in [Tasks -> Record \cup {Absent}]
      BY <1>1, <1>2
    <2>2. \A t \in Tasks : new[t] # Absent => new[t].status \in Open
      BY <1>1, <1>3
    <2>3. \A t \in OnBoard : new[t] # Absent
      BY DEF Known, OnBoard
    <2>4. \A t \in batch : new[t] # Absent \/ t \in Indexed
      BY <1>1 DEF Known, OnBoard
    <2>5. active' = new /\ added' = added \cup batch /\ Idle
          /\ UNCHANGED <<archive, index, op, day, readers, crashes>>
      BY <1>5 DEF AddMany
    <2> HIDE DEF new
    <2>6. QED BY <2>1, <2>2, <2>3, <2>4, <2>5, BoardSteps
  <1>6. ASSUME NEW t \in Tasks, NEW rec \in Record, rec.status \in Open, Idle, t \in OnBoard,
               Save(t, rec), UNCHANGED <<archive, index, op, day, added, readers, crashes>>
        PROVE  IInv'
    <2> DEFINE new == [active EXCEPT ![t] = rec]
    <2>1. new \in [Tasks -> Record \cup {Absent}] /\ new[t] = rec
          /\ \A u \in Tasks \ {t} : new[u] = active[u]
      BY <1>2
    <2>2. active' = new /\ added' = added \cup {}
      BY <1>6 DEF Save
    <2> HIDE DEF new
    <2>3. \A u \in Tasks : new[u] # Absent => new[u].status \in Open
      BY <1>3, <1>6, <2>1
    <2>4. \A u \in OnBoard : new[u] # Absent
      BY <1>6, <2>1, AbsentAssumption DEF OnBoard
    <2>5. {} \in SUBSET Tasks /\ \A u \in {} : new[u] # Absent \/ u \in Indexed
      OBVIOUS
    <2>6. QED BY <1>6, <2>1, <2>2, <2>3, <2>4, <2>5, BoardSteps, Zenon
  <1>7. ASSUME NEW t \in Tasks, NEW status \in Open, Update(t, status) PROVE IInv'
    <2>1. active[t] \in Record
      BY <1>3, <1>7 DEF Update, OnBoard
    <2>2. /\ [active[t] EXCEPT !.status = status] \in Record
          /\ [active[t] EXCEPT !.status = status].status \in Open
      BY <2>1 DEF Record
    <2>3. QED BY <1>6, <1>7, <2>2, Zenon DEF Update
  <1>8. Closings \subseteq Terminal
    BY TaskStoreAssumption DEF Terminal
  <1>9. QED BY <1>4, <1>5, <1>7, <1>8, CloseKeeps, MarkKeeps, PopKeeps, UnmarkKeeps DEF Write

LEMMA StepKeeps == IInv /\ [Next]_vars => IInv'
  <1> SUFFICES ASSUME IInv, [Next]_vars PROVE IInv'
    OBVIOUS
  <1>1. CASE Crash
    <2>1. UNCHANGED <<active, archive, index, day, added, board, released, sought, missed>>
      BY <1>1 DEF Crash, files, readers
    <2>2. op' = NoOp /\ crashes' \in Nat
      BY <1>1 DEF Crash, IInv, TypeOK
    <2>3. TypeOK'
      BY <2>1, <2>2 DEF IInv, TypeOK, NoOp
    <2>4. QED BY <2>1, <2>2, <2>3 DEF IInv, NeverVanishes, IndexLeadsToRecord, GetFinds,
              ReleasedAfterDeps, Known, OnBoard, Indexed, Archived, NoOp
  <1>2. CASE NextDay
    <2>1. UNCHANGED <<active, archive, index, op, added, board, released, sought, missed, crashes>>
      BY <1>2 DEF NextDay, files, readers
    <2>2. op.do = "nothing" /\ day' \in Nat \ {0}
      BY <1>2 DEF NextDay, Idle, NoOp, IInv, TypeOK
    <2>3. QED BY <2>1, <2>2 DEF IInv, TypeOK, NeverVanishes, IndexLeadsToRecord, GetFinds,
              ReleasedAfterDeps, Known, OnBoard, Indexed, Archived
  <1>3. CASE UNCHANGED vars
    <2>1. UNCHANGED <<active, archive, index, op, day, added, board, released, sought, missed,
                      crashes>>
      BY <1>3 DEF vars, files, readers
    <2>2. TypeOK'
      BY <2>1 DEF IInv, TypeOK
    <2>3. QED BY <2>1, <2>2 DEF IInv, NeverVanishes, IndexLeadsToRecord, GetFinds,
              ReleasedAfterDeps, Known, OnBoard, Indexed, Archived
  <1>4. Reopenable \subseteq Tasks
    BY TaskStoreAssumption
  <1>5. QED BY <1>1, <1>2, <1>3, <1>4, WritersKeep, ReadersKeep, ReopenKeeps DEF Next

-----------------------------------------------------------------------------
(* The theorems                                                            *)

(* Every reachable state has the inductive invariant.                      *)
LEMMA StoreInvariant == Spec => []IInv
  BY InitIInv, StepKeeps, PTL DEF Spec

(* The files, the readers and the lock holder have their types.            *)
THEOREM StoreTypes == Spec => []TypeOK
  <1>1. IInv => TypeOK
    BY DEF IInv
  <1>2. QED BY <1>1, StoreInvariant, PTL

(* Whatever a process dies in, update and the contract update leave every  *)
(* task on the board or in the terminal index.                             *)
THEOREM TaskNeverVanishes == Spec => []NeverVanishes
  <1>1. IInv => NeverVanishes
    BY DEF IInv
  <1>2. QED BY <1>1, StoreInvariant, PTL

(* Every entry of the terminal index names an archive file that holds the  *)
(* task, since _append_archive comes before _mark_terminal.                *)
THEOREM IndexSound == Spec => []IndexLeadsToRecord
  <1>1. IInv => IndexLeadsToRecord
    BY DEF IInv
  <1>2. QED BY <1>1, StoreInvariant, PTL

(* get() finds every task that was added, between any two writes.          *)
THEOREM GetNeverMisses == Spec => []GetFinds
  <1>1. IInv => GetFinds
    BY DEF IInv
  <1>2. QED BY <1>1, StoreInvariant, PTL

(* ready() returns a task only after each of its blockers was archived.    *)
THEOREM ReadySound == Spec => []ReleasedAfterDeps
  <1>1. IInv => ReleasedAfterDeps
    BY DEF IInv
  <1>2. QED BY <1>1, StoreInvariant, PTL

-----------------------------------------------------------------------------
(* The order of the contract revisions of a task: a reopening gets a new   *)
(* one                                                                     *)

SeqAt(i) == archive[i].rec.seq

(* The last record of a task was archived on day d ...                     *)
Filed(t, d) ==
    \E i \in Archived(t) : archive[i].day = d /\ \A j \in Archived(t) : j <= i

(* ... and, while a task is being closed, has the revision on the board.   *)
Closing(t, d) ==
    \E i \in Archived(t) : /\ archive[i].day = d /\ \A j \in Archived(t) : j <= i
                           /\ SeqAt(i) = active[t].seq

(* The order of the revisions: they grow along the archive of a task, the  *)
(* board is not behind it, and the index leads from a closed task to its   *)
(* last record.                                                            *)
OrderInv ==
    /\ TypeOK
    /\ OnBoard \subseteq added /\ Indexed \subseteq added
    /\ \A t \in Tasks : Archived(t) # {} => t \in added
    /\ \A t \in added \ OnBoard : index[t] # 0 /\ Filed(t, index[t])
    /\ \A t \in OnBoard : \A i \in Archived(t) : SeqAt(i) <= active[t].seq
    /\ \A t \in Tasks : \A i, j \in Archived(t) : i <= j => SeqAt(i) <= SeqAt(j)
    /\ op.do = "mark" => op.task \in OnBoard /\ Closing(op.task, day)
    /\ op.do = "pop" => /\ op.task \in OnBoard /\ index[op.task] # 0
                        /\ Closing(op.task, index[op.task])
    /\ op.do = "unmark" => op.task \in OnBoard

(* The store has been at sequence s of task t.                             *)
Reached(t, s) ==
    \/ t \in OnBoard /\ s <= active[t].seq
    \/ \E i \in Archived(t) : s <= SeqAt(i)

(* What a step of the store keeps.                                         *)
Kept == OrderInv' /\ \A t \in Tasks, s \in Nat : Reached(t, s) => Reached(t, s)'

-----------------------------------------------------------------------------
(* Lookups                                                                 *)

LEMMA SeqTyped ==
    ASSUME TypeOK
    PROVE  /\ \A t \in Tasks : \A i \in Archived(t) :
                /\ i \in 1 .. Len(archive) /\ i \in Nat
                /\ archive[i].rec \in Record /\ SeqAt(i) \in Nat
           /\ \A t \in OnBoard : active[t] \in Record /\ active[t].seq \in Nat
  <1>1. DOMAIN archive = 1 .. Len(archive) /\ Len(archive) \in Nat
    BY DEF TypeOK
  <1>2. \A i \in 1 .. Len(archive) : archive[i] \in [id: Tasks, day: Nat, rec: Record]
    BY EntryOfArchive
  <1>3. \A i \in 1 .. Len(archive) : archive[i].rec \in Record
    BY <1>2
  <1>4. \A rec \in Record : rec.seq \in Nat
    BY DEF Record
  <1>5. \A t \in OnBoard : active[t] \in Record
    BY DEF TypeOK, OnBoard
  <1>6. QED BY <1>1, <1>3, <1>4, <1>5 DEF Archived, SeqAt

LEMMA BoardTyped ==
    ASSUME TypeOK'
    PROVE  \A t \in OnBoard' : active'[t] \in Record /\ active'[t].seq \in Nat
  <1>1. \A t \in OnBoard' : active'[t] \in Record
    BY DEF TypeOK, OnBoard
  <1>2. QED BY <1>1 DEF Record

(* Off the board a task is its last record, if the index names its day.    *)
LEMMA LatestFiled ==
    ASSUME TypeOK, NEW t \in Tasks, t \notin OnBoard, NEW i \in Archived(t),
           archive[i].day = index[t], \A j \in Archived(t) : j <= i
    PROVE  Latest(t) = archive[i].rec
  <1>1. i \in Dated(t) /\ Dated(t) \in SUBSET Nat /\ \A j \in Dated(t) : j <= i
    BY SeqTyped DEF Dated
  <1>2. (CHOOSE k \in Dated(t) : \A j \in Dated(t) : k >= j) = i
    BY <1>1, GreatestIs
  <1>3. QED BY <1>2, Zenon DEF Latest, OnBoard

(* compare_and_update_contract compares with the newest revision there is. *)
LEMMA LatestTop ==
    ASSUME OrderInv, NEW t \in added
    PROVE  /\ Latest(t) \in Record
           /\ \A i \in Archived(t) : SeqAt(i) <= Latest(t).seq
           /\ \A s \in Nat : Reached(t, s) => s <= Latest(t).seq
  <1>1. TypeOK /\ t \in Tasks
    BY DEF OrderInv, TypeOK
  <1>2. CASE t \in OnBoard
    <2>1. Latest(t) = active[t] /\ active[t] \in Record
      BY <1>1, <1>2, SeqTyped DEF Latest, OnBoard
    <2>2. \A i \in Archived(t) : SeqAt(i) <= active[t].seq
      BY <1>2 DEF OrderInv
    <2>3. active[t].seq \in Nat /\ \A i \in Archived(t) : SeqAt(i) \in Nat
      BY <1>1, <1>2, SeqTyped
    <2>4. ASSUME NEW s \in Nat, Reached(t, s) PROVE s <= active[t].seq
      <3>1. CASE t \in OnBoard /\ s <= active[t].seq
        BY <3>1
      <3>2. CASE \E i \in Archived(t) : s <= SeqAt(i)
        BY <2>2, <2>3, <3>2
      <3>3. QED BY <2>4, <3>1, <3>2 DEF Reached
    <2>5. QED BY <2>1, <2>2, <2>4, Zenon
  <1>3. CASE t \notin OnBoard
    <2>1. PICK i \in Archived(t) : archive[i].day = index[t] /\ \A j \in Archived(t) : j <= i
      BY <1>3 DEF OrderInv, Filed
    <2>5. Latest(t) = archive[i].rec
      BY <1>1, <1>3, <2>1, LatestFiled
    <2>6. Latest(t) \in Record /\ Latest(t).seq = SeqAt(i)
      BY <1>1, <2>1, <2>5, SeqTyped DEF SeqAt
    <2>7. \A j \in Archived(t) : SeqAt(j) <= SeqAt(i)
      BY <1>1, <2>1 DEF OrderInv
    <2>8. ASSUME NEW s \in Nat, Reached(t, s) PROVE s <= SeqAt(i)
      <3>1. PICK j \in Archived(t) : s <= SeqAt(j)
        BY <1>3, <2>8 DEF Reached
      <3>2. SeqAt(j) \in Nat /\ SeqAt(i) \in Nat /\ SeqAt(j) <= SeqAt(i)
        BY <1>1, <2>1, <2>7, SeqTyped
      <3>3. QED BY <3>1, <3>2
    <2>9. QED BY <2>6, <2>7, <2>8
  <1>4. QED BY <1>2, <1>3

(* get() finds a record.                                                   *)
LEMMA GetTyped ==
    ASSUME OrderInv, NEW t \in added
    PROVE  Get(t) \in Record
  <1>1. TypeOK /\ t \in Tasks
    BY DEF OrderInv, TypeOK
  <1>2. CASE t \in OnBoard
    BY <1>1, <1>2, SeqTyped DEF Get, OnBoard
  <1>3. CASE t \notin OnBoard
    <2>1. PICK i \in Archived(t) : archive[i].day = index[t]
      BY <1>3 DEF OrderInv, Filed
    <2>2. Dated(t) \in SUBSET Nat /\ Dated(t) # {}
      BY <1>1, <2>1, SeqTyped DEF Dated
    <2>3. \E k \in Dated(t) : \A j \in Dated(t) : k <= j
      BY <2>2, Least
    <2>4. PICK k \in Dated(t) : Get(t) = archive[k].rec
      BY <1>1, <1>3, <2>3, Zenon DEF Get, OnBoard
    <2>5. QED BY <1>1, <2>4, SeqTyped DEF Dated
  <1>4. QED BY <1>2, <1>3

-----------------------------------------------------------------------------
(* The steps of the store                                                  *)

(* A write of kanban.json alone, which no task leaves and which takes no   *)
(* task back to an earlier revision.                                       *)
LEMMA BoardOrder ==
    ASSUME OrderInv, TypeOK', Idle, NEW more \in SUBSET Tasks,
           added' = added \cup more, UNCHANGED <<archive, index, day>>,
           op' = NoOp \/ (op'.do = "unmark" /\ op'.task \in OnBoard'),
           \A t \in OnBoard : t \in OnBoard' /\ active[t].seq <= active'[t].seq,
           \A t \in OnBoard' \ OnBoard :
              t \in added' /\ \A i \in Archived(t) : SeqAt(i) <= active'[t].seq,
           more \subseteq added \cup OnBoard'
    PROVE  Kept
  <1>1. /\ \A t : Archived(t)' = Archived(t)
        /\ \A i : SeqAt(i)' = SeqAt(i)
    BY DEF Archived, SeqAt
  <1>2. TypeOK
    BY DEF OrderInv
  <1>3. /\ OnBoard' \subseteq added' /\ Indexed' \subseteq added'
        /\ \A t \in Tasks : Archived(t)' # {} => t \in added'
    BY <1>1 DEF OrderInv, Indexed
  <1>4. ASSUME NEW t \in added' \ OnBoard' PROVE index'[t] # 0 /\ Filed(t, index[t])'
    <2>1. t \in added \ OnBoard
      OBVIOUS
    <2>2. index[t] # 0 /\ Filed(t, index[t])
      BY <2>1 DEF OrderInv
    <2>3. QED BY <1>1, <2>2 DEF Filed
  <1>5. ASSUME NEW t \in OnBoard', NEW i \in Archived(t) PROVE SeqAt(i) <= active'[t].seq
    <2>1. CASE t \notin OnBoard
      BY <2>1, <1>5
    <2>2. CASE t \in OnBoard
      <3>1. t \in Tasks /\ SeqAt(i) \in Nat /\ active[t].seq \in Nat
        BY <1>2, <2>2, SeqTyped DEF OnBoard
      <3>2. active'[t].seq \in Nat
        BY <1>5, BoardTyped
      <3>3. SeqAt(i) <= active[t].seq /\ active[t].seq <= active'[t].seq
        BY <2>2 DEF OrderInv
      <3>4. QED BY <3>1, <3>2, <3>3
    <2>3. QED BY <2>1, <2>2
  <1>6. \A t \in Tasks : \A i, j \in Archived(t)' : i <= j => SeqAt(i)' <= SeqAt(j)'
    BY <1>1 DEF OrderInv
  <1>7. op'.do # "mark" /\ op'.do # "pop" /\ (op'.do = "unmark" => op'.task \in OnBoard')
    BY DEF NoOp
  <1>8. OrderInv'
    BY <1>1, <1>3, <1>4, <1>5, <1>6, <1>7 DEF OrderInv
  <1>9. ASSUME NEW t \in Tasks, NEW s \in Nat, Reached(t, s) PROVE Reached(t, s)'
    <2>1. CASE t \in OnBoard /\ s <= active[t].seq
      <3>1. active[t].seq \in Nat /\ active'[t].seq \in Nat /\ t \in OnBoard'
        BY <1>2, <2>1, SeqTyped, BoardTyped
      <3>2. s <= active'[t].seq
        BY <2>1, <3>1
      <3>3. QED BY <3>1, <3>2 DEF Reached
    <2>2. CASE \E i \in Archived(t) : s <= SeqAt(i)
      BY <1>1, <2>2 DEF Reached
    <2>3. QED BY <1>9, <2>1, <2>2 DEF Reached
  <1>10. QED BY <1>8, <1>9 DEF Kept

(* A step that changes neither the files nor what the lock holder, if it   *)
(* goes on, still has to do.                                               *)
LEMMA StillOrder ==
    ASSUME OrderInv, TypeOK', UNCHANGED <<active, archive, index>>, added' = added,
           op' = NoOp \/ (op' = op /\ (day' = day \/ Idle))
    PROVE  Kept
  <1>1. /\ \A t : Archived(t)' = Archived(t)
        /\ \A i : SeqAt(i)' = SeqAt(i)
        /\ OnBoard' = OnBoard /\ Indexed' = Indexed
    BY DEF Archived, SeqAt, OnBoard, Indexed
  <1>2. \A t \in Tasks, s \in Nat : Reached(t, s) => Reached(t, s)'
    BY <1>1 DEF Reached
  <1>3. \A t \in added' \ OnBoard' : index'[t] # 0 /\ Filed(t, index[t])'
    BY <1>1 DEF OrderInv, Filed
  <1>4. CASE op' = NoOp
    <2>1. op'.do = "nothing"
      BY <1>4 DEF NoOp
    <2>2. QED BY <1>1, <1>2, <1>3, <2>1 DEF OrderInv, Kept
  <1>5. CASE op' = op /\ Idle
    <2>1. op'.do = "nothing"
      BY <1>5 DEF NoOp, Idle
    <2>2. QED BY <1>1, <1>2, <1>3, <2>1 DEF OrderInv, Kept
  <1>6. CASE op' = op /\ day' = day
    <2>1. op'.do = "mark" => op'.task \in OnBoard' /\ Closing(op.task, day)'
      BY <1>1, <1>6 DEF OrderInv, Closing
    <2>2. op'.do = "pop" => /\ op'.task \in OnBoard' /\ index'[op'.task] # 0
                            /\ Closing(op.task, index[op.task])'
      BY <1>1, <1>6 DEF OrderInv, Closing
    <2>3. op'.do = "unmark" => op'.task \in OnBoard'
      BY <1>1, <1>6 DEF OrderInv
    <2>4. QED BY <1>1, <1>2, <1>3, <2>1, <2>2, <2>3 DEF OrderInv, Kept
  <1>7. QED BY <1>4, <1>5, <1>6

LEMMA Appended ==
    ASSUME TypeOK, NEW e \in [id: Tasks, day: Nat, rec: Record], archive' = Append(archive, e),
           NEW n \in Nat, n = Len(archive) + 1
    PROVE  /\ Len(archive) \in Nat /\ n = Len(archive) + 1 /\ archive'[n] = e
           /\ DOMAIN archive' = 1 .. n /\ DOMAIN archive = 1 .. Len(archive)
           /\ \A i \in 1 .. Len(archive) : archive'[i] = archive[i]
  <1>1. archive \in Seq([id: Tasks, day: Nat, rec: Record])
    BY DEF TypeOK
  <1>2. QED BY <1>1

(* Closing appends the revision on the board.                              *)
LEMMA CloseOrder ==
    ASSUME OrderInv, TypeOK', NEW t \in Tasks, NEW status \in Terminal, Close(t, status)
    PROVE  Kept
  <1> DEFINE rec == [active[t] EXCEPT !.status = status]
             e   == [id |-> t, day |-> day, rec |-> rec]
  <1>1. TypeOK /\ t \in OnBoard /\ active[t] \in Record /\ active[t].seq \in Nat
    BY SeqTyped DEF OrderInv, Close
  <1>2. rec \in Record /\ rec.seq = active[t].seq
    BY <1>1 DEF Record, Terminal
  <1>3. e \in [id: Tasks, day: Nat, rec: Record] /\ e.id = t /\ e.day = day /\ e.rec = rec
    BY <1>1, <1>2 DEF TypeOK
  <1>4. archive' = Append(archive, e) /\ op' = [do |-> "mark", task |-> t, rec |-> rec]
    BY DEF Close
  <1>5. UNCHANGED <<active, index, day, added>>
    BY DEF Close
  <1> HIDE DEF rec, e
  <1>a. Len(archive) \in Nat
    BY <1>1 DEF TypeOK
  <1>b. PICK n \in Nat : n = Len(archive) + 1
    BY <1>a
  <1>6. /\ Len(archive) \in Nat /\ n = Len(archive) + 1 /\ archive'[n] = e
        /\ DOMAIN archive' = 1 .. n /\ DOMAIN archive = 1 .. Len(archive)
        /\ \A i \in 1 .. Len(archive) : archive'[i] = archive[i]
    BY <1>1, <1>3, <1>4, <1>b, Appended, Zenon
  <1>7. \A u \in Tasks : /\ Archived(u) \subseteq 1 .. Len(archive)
                         /\ u # t => Archived(u)' = Archived(u)
                         /\ u = t => Archived(u)' = Archived(u) \cup {n}
    <2>1. \A u \in Tasks : Archived(u) = {i \in 1 .. Len(archive) : archive[i].id = u}
      BY <1>6 DEF Archived
    <2>2. \A u \in Tasks : Archived(u)' = {i \in 1 .. n : archive'[i].id = u}
      BY <1>6 DEF Archived
    <2>3. 1 .. n = (1 .. Len(archive)) \cup {n}
      BY <1>6
    <2>4. archive'[n].id = t /\ \A i \in 1 .. Len(archive) : archive'[i].id = archive[i].id
      BY <1>3, <1>6
    <2>5. ASSUME NEW u \in Tasks
          PROVE  \A i : i \in Archived(u)' <=> i \in Archived(u) \/ (i = n /\ u = t)
      BY <2>1, <2>2, <2>3, <2>4
    <2>6. QED BY <2>1, <2>5, Zenon
  <1>8. /\ SeqAt(n)' = active[t].seq /\ archive'[n].day = day
        /\ \A i \in 1 .. Len(archive) : SeqAt(i)' = SeqAt(i) /\ archive'[i].day = archive[i].day
    BY <1>2, <1>3, <1>6 DEF SeqAt
  <1>9. OnBoard' = OnBoard /\ Indexed' = Indexed
    BY <1>5 DEF OnBoard, Indexed
  <1>10. \A u \in Tasks : Archived(u)' # {} => u \in added'
    BY <1>1, <1>5, <1>7 DEF OrderInv
  <1>11. ASSUME NEW u \in added' \ OnBoard' PROVE index'[u] # 0 /\ Filed(u, index[u])'
    <2>1. u \in Tasks /\ u # t /\ u \in added \ OnBoard
      BY <1>1, <1>5, <1>9 DEF TypeOK
    <2>2. index[u] # 0 /\ Filed(u, index[u])
      BY <2>1 DEF OrderInv
    <2>3. QED BY <1>5, <1>7, <1>8, <2>1, <2>2 DEF Filed
  <1>12. ASSUME NEW u \in OnBoard', NEW i \in Archived(u)' PROVE SeqAt(i)' <= active'[u].seq
    <2>1. u \in Tasks /\ u \in OnBoard
      BY <1>9 DEF OnBoard
    <2>2. CASE i \in Archived(u)
      BY <1>5, <1>7, <1>8, <2>1, <2>2 DEF OrderInv
    <2>3. CASE i \notin Archived(u)
      BY <1>1, <1>5, <1>7, <1>8, <1>12, <2>1, <2>3
    <2>4. QED BY <2>2, <2>3
  <1>13. ASSUME NEW u \in Tasks, NEW i \in Archived(u)', NEW j \in Archived(u)', i <= j
         PROVE  SeqAt(i)' <= SeqAt(j)'
    <2>1. CASE j \in Archived(u)
      <3>1. i \in Archived(u)
        BY <1>6, <1>7, <1>13, <2>1
      <3>2. QED BY <1>7, <1>8, <1>13, <2>1, <3>1 DEF OrderInv
    <2>2. CASE j \notin Archived(u)
      <3>1. u = t /\ j = n
        BY <1>7, <2>2
      <3>2. SeqAt(i)' <= active'[t].seq
        BY <1>1, <1>9, <1>12, <3>1, Zenon
      <3>3. QED BY <1>5, <1>8, <3>1, <3>2
    <2>3. QED BY <2>1, <2>2
  <1>14. Closing(t, day)'
    <2>1. n \in Archived(t)' /\ \A j \in Archived(t)' : j <= n
      BY <1>6, <1>7
    <2>2. QED BY <1>5, <1>8, <2>1 DEF Closing
  <1>15. OrderInv'
    <2>1. op'.do = "mark" /\ op'.task = t
      BY <1>4
    <2>2. OnBoard' \subseteq added' /\ Indexed' \subseteq added'
      BY <1>5, <1>9 DEF OrderInv
    <2>3. QED BY <1>1, <1>9, <1>10, <1>11, <1>12, <1>13, <1>14, <2>1, <2>2 DEF OrderInv
  <1>16. ASSUME NEW u \in Tasks, NEW s \in Nat, Reached(u, s) PROVE Reached(u, s)'
    BY <1>5, <1>7, <1>8, <1>9, <1>16 DEF Reached
  <1>17. QED BY <1>15, <1>16 DEF Kept

LEMMA MarkOrder == ASSUME OrderInv, TypeOK', Mark PROVE Kept
  <1>1. /\ op.task \in OnBoard /\ op.task \in Tasks /\ Closing(op.task, day)
        /\ op \in [do: {"mark", "pop", "unmark"}, task: Tasks, rec: Record]
    BY DEF OrderInv, TypeOK, Mark, NoOp, OnBoard
  <1>2. UNCHANGED <<active, archive, day, added>> /\ day # 0 /\ index \in [Tasks -> Nat]
    BY DEF Mark, OrderInv, TypeOK
  <1>3. index' = [index EXCEPT ![op.task] = day] /\ op' = [op EXCEPT !.do = "pop"]
    BY DEF Mark
  <1>4. op'.do = "pop" /\ op'.task = op.task
    BY <1>1, <1>3
  <1>5. /\ \A t : Archived(t)' = Archived(t)
        /\ \A i : SeqAt(i)' = SeqAt(i)
        /\ OnBoard' = OnBoard
    BY <1>2 DEF Archived, SeqAt, OnBoard
  <1>6. \A t \in Tasks, s \in Nat : Reached(t, s) => Reached(t, s)'
    BY <1>2, <1>5 DEF Reached
  <1>7. ASSUME NEW t \in added' \ OnBoard' PROVE index'[t] # 0 /\ Filed(t, index[t])'
    <2>1. t \in added \ OnBoard /\ t \in Tasks /\ t # op.task
      BY <1>1, <1>2, <1>5 DEF OrderInv, TypeOK
    <2>2. index'[t] = index[t]
      BY <1>2, <1>3, <2>1
    <2>3. index[t] # 0 /\ Filed(t, index[t])
      BY <2>1 DEF OrderInv
    <2>4. QED BY <1>2, <1>5, <2>2, <2>3 DEF Filed
  <1>8. index'[op'.task] = day /\ index'[op'.task] # 0
    BY <1>1, <1>2, <1>3, <1>4
  <1>9. Closing(op.task, index[op.task])'
    BY <1>1, <1>2, <1>4, <1>5, <1>8 DEF Closing
  <1>10. Indexed' \subseteq added'
    BY <1>1, <1>2, <1>3 DEF OrderInv, Indexed
  <1>11. OrderInv'
    BY <1>1, <1>2, <1>4, <1>5, <1>7, <1>8, <1>9, <1>10 DEF OrderInv
  <1>12. QED BY <1>6, <1>11 DEF Kept

(* The task leaves the board: its revision is the last in the archive.     *)
LEMMA PopOrder == ASSUME OrderInv, TypeOK', Pop PROVE Kept
  <1>1. /\ op.task \in OnBoard /\ op.task \in Tasks /\ index[op.task] # 0
        /\ Closing(op.task, index[op.task])
    BY DEF OrderInv, Pop, OnBoard
  <1>2. UNCHANGED <<archive, index, day, added>> /\ op' = NoOp
    BY DEF Pop
  <1>3. active' = [active EXCEPT ![op.task] = Absent] /\ active \in [Tasks -> Record \cup {Absent}]
    BY DEF Pop, Save, OrderInv, TypeOK
  <1>4. OnBoard' = OnBoard \ {op.task} /\ \A t \in OnBoard' : active'[t] = active[t]
    BY <1>1, <1>3 DEF OnBoard
  <1>5. /\ \A t : Archived(t)' = Archived(t)
        /\ \A i : SeqAt(i)' = SeqAt(i)
    BY <1>2 DEF Archived, SeqAt
  <1>6. op'.do = "nothing"
    BY <1>2 DEF NoOp
  <1>7. ASSUME NEW t \in added' \ OnBoard' PROVE index'[t] # 0 /\ Filed(t, index[t])'
    <2>1. CASE t = op.task
      BY <1>1, <1>2, <1>5, <2>1 DEF Closing, Filed
    <2>2. CASE t # op.task
      <3>1. index[t] # 0 /\ Filed(t, index[t])
        BY <1>2, <1>4, <2>2 DEF OrderInv
      <3>2. QED BY <1>2, <1>5, <3>1 DEF Filed
    <2>3. QED BY <2>1, <2>2
  <1>8. OrderInv'
    BY <1>2, <1>4, <1>5, <1>6, <1>7 DEF OrderInv, Indexed
  <1>9. ASSUME NEW t \in Tasks, NEW s \in Nat, Reached(t, s) PROVE Reached(t, s)'
    <2>1. CASE \E i \in Archived(t) : s <= SeqAt(i)
      BY <1>5, <2>1 DEF Reached
    <2>2. CASE t \in OnBoard /\ s <= active[t].seq /\ t # op.task
      BY <1>4, <2>2 DEF Reached
    <2>3. CASE t \in OnBoard /\ s <= active[t].seq /\ t = op.task
      <3>1. PICK i \in Archived(t) : SeqAt(i) = active[t].seq
        BY <1>1, <2>3 DEF Closing
      <3>2. QED BY <1>5, <2>3, <3>1 DEF Reached
    <2>4. QED BY <1>9, <2>1, <2>2, <2>3 DEF Reached
  <1>10. QED BY <1>8, <1>9 DEF Kept

LEMMA UnmarkOrder == ASSUME OrderInv, TypeOK', Unmark PROVE Kept
  <1>1. op.task \in OnBoard /\ op.task \in Tasks /\ index \in [Tasks -> Nat]
    BY DEF OrderInv, Unmark, OnBoard, TypeOK
  <1>2. UNCHANGED <<active, archive, day, added>> /\ op' = NoOp
    BY DEF Unmark
  <1>3. index' = [index EXCEPT ![op.task] = 0]
    BY DEF Unmark
  <1>4. /\ \A t : Archived(t)' = Archived(t)
        /\ \A i : SeqAt(i)' = SeqAt(i)
        /\ OnBoard' = OnBoard
    BY <1>2 DEF Archived, SeqAt, OnBoard
  <1>5. op'.do = "nothing"
    BY <1>2 DEF NoOp
  <1>6. ASSUME NEW t \in added' \ OnBoard' PROVE index'[t] # 0 /\ Filed(t, index[t])'
    <2>1. t \in added \ OnBoard /\ t \in Tasks /\ t # op.task
      BY <1>1, <1>2, <1>4 DEF OrderInv, TypeOK
    <2>2. index'[t] = index[t]
      BY <1>1, <1>3, <2>1
    <2>3. index[t] # 0 /\ Filed(t, index[t])
      BY <2>1 DEF OrderInv
    <2>4. QED BY <1>2, <1>4, <2>2, <2>3 DEF Filed
  <1>7. OrderInv'
    <2>1. Indexed' \subseteq added'
      BY <1>1, <1>2, <1>3 DEF OrderInv, Indexed
    <2>2. QED BY <1>2, <1>4, <1>5, <1>6, <2>1, Zenon DEF OrderInv
  <1>8. \A t \in Tasks, s \in Nat : Reached(t, s) => Reached(t, s)'
    BY <1>2, <1>4 DEF Reached
  <1>9. QED BY <1>7, <1>8 DEF Kept

LEMMA SelfBound == ASSUME NEW m \in Nat PROVE m <= m
  OBVIOUS

LEMMA BelowNewer ==
    ASSUME NEW k \in Nat, NEW m \in Nat, NEW n \in Nat, k <= m, m < n
    PROVE  k < n /\ k <= n
  OBVIOUS

(* A write of one task on the board that keeps its revision or raises it.  *)
LEMMA RewriteOrder ==
    ASSUME OrderInv, TypeOK', Idle, NEW t \in OnBoard, NEW rec \in Record, Save(t, rec),
           active[t].seq <= rec.seq, op' = NoOp, UNCHANGED <<archive, index, day, added>>
    PROVE  Kept
  <1>1. active \in [Tasks -> Record \cup {Absent}] /\ t \in Tasks /\ rec # Absent
    BY AbsentAssumption DEF OrderInv, TypeOK, OnBoard
  <1>2. active' = [active EXCEPT ![t] = rec]
    BY DEF Save
  <1>3. active'[t] = rec /\ \A u \in Tasks \ {t} : active'[u] = active[u]
    BY <1>1, <1>2
  <1>4. OnBoard' = OnBoard
    BY <1>1, <1>3 DEF OnBoard
  <1>5. \A u \in OnBoard : active[u].seq \in Nat
    BY SeqTyped DEF OrderInv
  <1>6. \A u \in OnBoard : u \in OnBoard' /\ active[u].seq <= active'[u].seq
    <2> SUFFICES ASSUME NEW u \in OnBoard PROVE active[u].seq <= active'[u].seq
      BY <1>4
    <2>1. CASE u = t
      BY <1>3, <2>1
    <2>2. CASE u # t
      <3>1. active'[u] = active[u] /\ active[u].seq \in Nat
        BY <1>3, <1>5, <2>2, Zenon DEF OnBoard
      <3>2. QED BY <3>1, SelfBound, Zenon
    <2>3. QED BY <2>1, <2>2
  <1>7. {} \in SUBSET Tasks /\ added' = added \cup {} /\ {} \subseteq added \cup OnBoard'
    OBVIOUS
  <1>8. \A u \in OnBoard' \ OnBoard :
           u \in added' /\ \A i \in Archived(u) : SeqAt(i) <= active'[u].seq
    BY <1>4
  <1>9. QED BY <1>6, <1>7, <1>8, BoardOrder, Zenon

(* A task that is put back on the board, one revision on.                  *)
LEMMA ReturnOrder ==
    ASSUME OrderInv, TypeOK', Idle, NEW t \in added \ OnBoard, NEW rec \in Record,
           Save(t, rec), Latest(t).seq < rec.seq, op'.do = "unmark", op'.task = t,
           UNCHANGED <<archive, index, day, added>>
    PROVE  Kept /\ \A i \in Archived(t) : SeqAt(i) < active'[t].seq
  <1>1. active \in [Tasks -> Record \cup {Absent}] /\ t \in Tasks /\ rec # Absent /\ TypeOK
    BY AbsentAssumption DEF OrderInv, TypeOK
  <1>2. active' = [active EXCEPT ![t] = rec]
    BY DEF Save
  <1>3. active'[t] = rec /\ \A u \in Tasks \ {t} : active'[u] = active[u]
    BY <1>1, <1>2
  <1>4. OnBoard' = OnBoard \cup {t}
    BY <1>1, <1>3 DEF OnBoard
  <1>5. \A u \in OnBoard : active[u].seq \in Nat
    BY <1>1, SeqTyped
  <1>6. \A u \in OnBoard : u \in OnBoard' /\ active[u].seq <= active'[u].seq
    <2> SUFFICES ASSUME NEW u \in OnBoard PROVE active[u].seq <= active'[u].seq
      BY <1>4
    <2>1. active'[u] = active[u] /\ active[u].seq \in Nat
      BY <1>3, <1>5, Zenon DEF OnBoard
    <2>2. QED BY <2>1, SelfBound, Zenon
  <1>7. Latest(t) \in Record /\ \A i \in Archived(t) : SeqAt(i) <= Latest(t).seq
    BY LatestTop
  <1>8. Latest(t).seq \in Nat /\ rec.seq \in Nat
    BY <1>7 DEF Record
  <1>9. \A i \in Archived(t) : SeqAt(i) \in Nat
    BY <1>1, SeqTyped
  <1>10. \A i \in Archived(t) : SeqAt(i) < active'[t].seq /\ SeqAt(i) <= active'[t].seq
    BY <1>3, <1>7, <1>8, <1>9, BelowNewer, Zenon
  <1>11. {} \in SUBSET Tasks /\ added' = added \cup {} /\ {} \subseteq added \cup OnBoard'
    OBVIOUS
  <1>12. \A u \in OnBoard' \ OnBoard :
            u \in added' /\ \A i \in Archived(u) : SeqAt(i) <= active'[u].seq
    BY <1>4, <1>10
  <1>13. op'.task \in OnBoard'
    BY <1>4
  <1>14. Kept
    BY <1>6, <1>11, <1>12, <1>13, BoardOrder, Zenon
  <1>15. QED BY <1>10, <1>14

(* New tasks, which nobody has seen before.                                *)
LEMMA NewOrder ==
    ASSUME OrderInv, TypeOK', Idle, NEW batch \in SUBSET Tasks,
           active' = [t \in Tasks |-> IF t \in batch \ Known THEN NewTask ELSE active[t]],
           added' = added \cup batch, UNCHANGED <<archive, index, day, op>>
    PROVE  Kept /\ \A t \in added : active'[t] = active[t]
  <1>1. NewTask # Absent /\ NewTask.seq = 0
    BY NewTaskTyped
  <1>2. added \subseteq Known /\ OnBoard \subseteq added /\ added \subseteq Tasks
    BY DEF OrderInv, TypeOK, Known, Indexed
  <1>3. \A t \in Tasks : /\ t \in batch \ Known => active'[t] = NewTask
                         /\ t \notin batch \ Known => active'[t] = active[t]
    OBVIOUS
  <1>4. \A t \in added : active'[t] = active[t]
    BY <1>2, <1>3
  <1>5. OnBoard' = OnBoard \cup (batch \ Known)
    BY <1>1, <1>2, <1>3 DEF OnBoard, Known
  <1>6. \A u \in OnBoard : active[u].seq \in Nat
    BY SeqTyped DEF OrderInv
  <1>7. \A u \in OnBoard : u \in OnBoard' /\ active[u].seq <= active'[u].seq
    <2>1. \A u \in OnBoard : u \in OnBoard' /\ active'[u] = active[u]
      BY <1>2, <1>4, <1>5
    <2>2. QED BY <1>6, <2>1, NextRevision, Zenon
  <1>8. ASSUME NEW u \in OnBoard' \ OnBoard
        PROVE  u \in added' /\ \A i \in Archived(u) : SeqAt(i) <= active'[u].seq
    <2>1. u \in batch /\ u \notin added /\ u \in Tasks
      BY <1>2, <1>5, <1>8
    <2>2. Archived(u) = {}
      BY <2>1 DEF OrderInv
    <2>3. QED BY <2>1, <2>2
  <1>9. batch \subseteq added \cup OnBoard'
    <2>1. ASSUME NEW u \in batch, u \notin OnBoard' PROVE u \in added
      <3>1. u \in Tasks /\ u \in Indexed
        BY <1>5, <2>1 DEF Known
      <3>2. QED BY <3>1 DEF OrderInv
    <2>2. QED BY <2>1
  <1>10. op' = NoOp
    BY DEF Idle
  <1>11. Kept
    BY <1>7, <1>8, <1>9, <1>10, BoardOrder
  <1>12. QED BY <1>4, <1>11

-----------------------------------------------------------------------------
(* The revisions of TaskStore                                              *)

(* The step ReopenAdvances speaks of.                                      *)
Advances ==
    \A t \in added : t \notin OnBoard /\ active'[t] # Absent =>
        \A i \in Archived(t) : SeqAt(i) < active'[t].seq

(* A step that puts nothing back.                                          *)
LEMMA NothingBack ==
    ASSUME OrderInv, \A t \in added \ OnBoard : active'[t] \in {active[t], Absent}
    PROVE  Advances
  BY DEF Advances, OnBoard, OrderInv, TypeOK

LEMMA UpdatedTyped ==
    ASSUME NEW rec \in Record, NEW status \in Open \cup Terminal
    PROVE  LET new == [rec EXCEPT !.status = status]
           IN  new \in Record /\ new.seq = rec.seq /\ new.seq <= rec.seq
  BY DEF Record

LEMMA WriteOrder ==
    ASSUME OrderInv, TypeOK', Write
    PROVE  Kept /\ Advances
  <1>1. active \in [Tasks -> Record \cup {Absent}]
    BY DEF OrderInv, TypeOK
  <1>2. ASSUME NEW t \in Tasks, Add(t) PROVE Kept /\ Advances
    <2>1. t \notin Known
      BY <1>2 DEF Add, OrderInv, Known
    <2>2. active' = [u \in Tasks |-> IF u \in {t} \ Known THEN NewTask ELSE active[u]]
      BY <1>1, <1>2, <2>1, Zenon DEF Add, Save
    <2>3. Idle /\ added' = added \cup {t} /\ UNCHANGED <<archive, index, day, op>>
      BY <1>2 DEF Add
    <2>4. {t} \in SUBSET Tasks
      OBVIOUS
    <2>5. Kept /\ \A u \in added : active'[u] = active[u]
      BY <2>2, <2>3, <2>4, NewOrder, Zenon
    <2>6. QED BY <2>5, NothingBack
  <1>3. ASSUME NEW batch \in SUBSET Tasks, AddMany(batch) PROVE Kept /\ Advances
    <2>1. Kept /\ \A u \in added : active'[u] = active[u]
      BY <1>3, NewOrder DEF AddMany
    <2>2. QED BY <2>1, NothingBack
  <1>4. ASSUME NEW t \in Tasks, NEW status \in Open, Update(t, status) PROVE Kept /\ Advances
    <2> DEFINE rec == [active[t] EXCEPT !.status = status]
    <2>1. t \in OnBoard /\ active[t] \in Record /\ active[t].seq \in Nat /\ Idle
      BY <1>4, SeqTyped DEF Update, OrderInv
    <2>2. rec \in Record /\ active[t].seq <= rec.seq
      BY <2>1, UpdatedTyped
    <2>3. Save(t, rec) /\ op' = NoOp /\ UNCHANGED <<archive, index, day, added>>
      BY <1>4 DEF Update, Idle
    <2> HIDE DEF rec
    <2>4. Kept
      BY <2>1, <2>2, <2>3, RewriteOrder
    <2>5. \A u \in added \ OnBoard : active'[u] \in {active[u], Absent}
      BY <1>1, <2>1, <2>3 DEF Save, OrderInv, TypeOK
    <2>6. QED BY <2>4, <2>5, NothingBack
  <1>5. ASSUME NEW t \in Tasks, NEW status \in Closings, Close(t, status) PROVE Kept /\ Advances
    <2>1. status \in Terminal
      BY TaskStoreAssumption DEF Terminal
    <2>2. Kept
      BY <1>5, <2>1, CloseOrder
    <2>3. \A u \in added \ OnBoard : active'[u] \in {active[u], Absent}
      BY <1>5 DEF Close
    <2>4. QED BY <2>2, <2>3, NothingBack
  <1>6. CASE Mark
    <2>1. \A u \in added \ OnBoard : active'[u] \in {active[u], Absent}
      BY <1>6 DEF Mark
    <2>2. QED BY <1>6, <2>1, MarkOrder, NothingBack
  <1>7. CASE Pop
    <2>1. \A u \in added \ OnBoard : active'[u] \in {active[u], Absent}
      BY <1>1, <1>7 DEF Pop, Save, OrderInv, TypeOK
    <2>2. QED BY <1>7, <2>1, PopOrder, NothingBack
  <1>8. CASE Unmark
    <2>1. \A u \in added \ OnBoard : active'[u] \in {active[u], Absent}
      BY <1>8 DEF Unmark
    <2>2. QED BY <1>8, <2>1, UnmarkOrder, NothingBack
  <1>9. QED BY <1>2, <1>3, <1>4, <1>5, <1>6, <1>7, <1>8 DEF Write

LEMMA ReopenOrder ==
    ASSUME OrderInv, TypeOK', NEW t \in Tasks, NEW contract \in Contracts, Reopen(t, contract)
    PROVE  Kept /\ Advances
  <1> DEFINE l   == Latest(t)
             rec == [l EXCEPT !.status = "backlog", !.contract = contract, !.seq = @ + 1]
  <1>1. t \in added \ OnBoard /\ Idle
    BY DEF Reopen, Replace
  <1>2. l \in Record
    BY <1>1, LatestTop
  <1>3. Save(t, rec) /\ op' = [do |-> "unmark", task |-> t, rec |-> rec]
    BY <1>1 DEF Reopen, Replace
  <1>4. UNCHANGED <<archive, index, day, added>>
    BY DEF Reopen, Replace
  <1> HIDE DEF l
  <1>5. rec \in Record
    BY <1>2, ReopenedTyped, Zenon
  <1>6. rec.seq = l.seq + 1 /\ l.seq \in Nat
    BY <1>2 DEF Record
  <1> HIDE DEF rec
  <1>7. l.seq < rec.seq /\ op'.do = "unmark" /\ op'.task = t
    BY <1>3, <1>6
  <1>8. Kept /\ \A i \in Archived(t) : SeqAt(i) < active'[t].seq
    BY <1>1, <1>3, <1>4, <1>5, <1>7, ReturnOrder DEF l
  <1>9. \A u \in added \ {t} : u \notin OnBoard => active'[u] = Absent
    BY <1>3 DEF Save, OnBoard, OrderInv, TypeOK
  <1>10. Advances
    BY <1>8, <1>9 DEF Advances
  <1>11. QED BY <1>8, <1>10

LEMMA OrderStep == OrderInv /\ TypeOK' /\ [Next]_vars => OrderInv' /\ Advances
  <1> SUFFICES ASSUME OrderInv, TypeOK', [Next]_vars PROVE OrderInv' /\ Advances
    OBVIOUS
  <1>1. CASE Write
    BY <1>1, WriteOrder DEF Kept
  <1>2. ASSUME NEW t \in Reopenable, NEW contract \in Contracts, Reopen(t, contract)
        PROVE  OrderInv' /\ Advances
    <2>1. t \in Tasks
      BY TaskStoreAssumption
    <2>2. QED BY <1>2, <2>1, ReopenOrder DEF Kept
  <1>3. ASSUME UNCHANGED <<active, archive, index>>, added' = added,
               op' = NoOp \/ (op' = op /\ (day' = day \/ Idle))
        PROVE  OrderInv' /\ Advances
    <2>1. \A u \in added \ OnBoard : active'[u] \in {active[u], Absent}
      BY <1>3
    <2>2. QED BY <1>3, <2>1, StillOrder, NothingBack DEF Kept
  <1>4. CASE Read
    <2>1. UNCHANGED <<active, archive, index, op, day, added>>
      BY <1>4 DEF Read, ReadyBegin, ReadyEnd, GetBegin, GetEnd, files
    <2>2. QED BY <1>3, <2>1
  <1>5. CASE Crash
    BY <1>3, <1>5 DEF Crash, files
  <1>6. CASE NextDay
    BY <1>3, <1>6 DEF NextDay, files
  <1>7. CASE UNCHANGED vars
    BY <1>3, <1>7 DEF vars, files
  <1>8. QED BY <1>1, <1>2, <1>4, <1>5, <1>6, <1>7 DEF Next

LEMMA InitOrder == Init => OrderInv
  <1> SUFFICES ASSUME Init PROVE OrderInv
    OBVIOUS
  <1>1. TypeOK
    BY InitIInv DEF IInv
  <1>2. \A t : Archived(t) = {}
    BY DEF Init, Archived
  <1>3. OnBoard = {} /\ Indexed = {} /\ added = {} /\ op.do = "nothing"
    BY DEF Init, OnBoard, Indexed, NoOp
  <1>4. QED BY <1>1, <1>2, <1>3 DEF OrderInv

(* A task that is put back on the board by compare_and_update_contract     *)
(* gets a sequence no archived record of it has, whatever was closed,      *)
(* reopened or interrupted before.                                         *)
THEOREM ReopeningAdvances == Spec => ReopenAdvances
  <1>1. IInv => TypeOK
    BY DEF IInv
  <1>2. Advances =>
          (\A t \in added : t \notin OnBoard /\ active'[t] # Absent =>
             \A i \in Archived(t) : archive[i].rec.seq < active'[t].seq)
    BY DEF Advances, SeqAt
  <1>3. QED BY <1>1, <1>2, InitOrder, OrderStep, StoreInvariant, PTL DEF Spec, ReopenAdvances

-----------------------------------------------------------------------------
(* The implementation of TaskBoard                                         *)

(* Archived records are closed, and the record a closing has archived is   *)
(* the last one of its task and the one on the board but for the status.   *)
ClosedInv ==
    /\ \A t \in Tasks : \A i \in Archived(t) : archive[i].rec.status \in Terminal
    /\ op.do \in {"mark", "pop"} =>
         \E i \in Archived(op.task), status \in Terminal :
            /\ \A j \in Archived(op.task) : j <= i
            /\ archive[i].rec = [active[op.task] EXCEPT !.status = status]

BoardInv == IInv /\ OrderInv /\ ClosedInv

(* One more record in the archive: of its task the last, of the others     *)
(* nothing.                                                                *)
LEMMA OneMoreRecord ==
    ASSUME TypeOK, NEW e \in [id: Tasks, day: Nat, rec: Record],
           archive' = Append(archive, e)
    PROVE  \E n \in Nat :
             /\ archive'[n] = e
             /\ Archived(e.id)' = Archived(e.id) \cup {n}
             /\ \A u \in Tasks :
                  /\ u # e.id => Archived(u)' = Archived(u)
                  /\ \A i \in Archived(u) : archive'[i] = archive[i] /\ i <= n
  <1>1. Len(archive) \in Nat /\ archive \in Seq([id: Tasks, day: Nat, rec: Record])
    BY DEF TypeOK
  <1>2. PICK n \in Nat : n = Len(archive) + 1
    BY <1>1
  <1>3. /\ archive'[n] = e /\ DOMAIN archive' = 1 .. n /\ DOMAIN archive = 1 .. Len(archive)
        /\ \A i \in 1 .. Len(archive) : archive'[i] = archive[i]
    BY <1>1, <1>2
  <1>4. 1 .. n = (1 .. Len(archive)) \cup {n} /\ \A i \in 1 .. Len(archive) : i <= n
    BY <1>1, <1>2
  <1>5. \A u \in Tasks : /\ Archived(u) = {i \in 1 .. Len(archive) : archive[i].id = u}
                         /\ Archived(u)' = {i \in 1 .. n : archive'[i].id = u}
    BY <1>3 DEF Archived
  <1>6. \A i \in 1 .. Len(archive) : archive'[i].id = archive[i].id
    BY <1>3
  <1>7. ASSUME NEW u \in Tasks
        PROVE  \A i : i \in Archived(u)' <=> i \in Archived(u) \/ (i = n /\ u = e.id)
    BY <1>3, <1>4, <1>5, <1>6
  <1>8. e.id \in Tasks
    OBVIOUS
  <1>9. Archived(e.id)' = Archived(e.id) \cup {n}
    BY <1>7, <1>8
  <1>10. \A u \in Tasks : u # e.id => Archived(u)' = Archived(u)
    BY <1>7, Zenon
  <1>11. \A u \in Tasks : \A i \in Archived(u) : archive'[i] = archive[i] /\ i <= n
    BY <1>3, <1>4, <1>5
  <1>12. QED BY <1>3, <1>9, <1>10, <1>11, Zenon

(* The lookup of a task no write concerns.                                 *)
LEMMA LatestSame ==
    ASSUME OrderInv, NEW t \in added, active'[t] = active[t],
           \/ t \in OnBoard
           \/ /\ Archived(t)' = Archived(t) /\ index'[t] = index[t]
              /\ \A i \in Archived(t) : archive'[i] = archive[i]
    PROVE  Latest(t)' = Latest(t)
  <1>1. TypeOK /\ t \in Tasks
    BY DEF OrderInv, TypeOK
  <1>2. CASE t \in OnBoard
    BY <1>2 DEF Latest, OnBoard
  <1>3. CASE t \notin OnBoard
    <2>1. PICK i \in Archived(t) : archive[i].day = index[t] /\ \A j \in Archived(t) : j <= i
      BY <1>3 DEF OrderInv, Filed
    <2>2. Latest(t) = archive[i].rec
      BY <1>1, <1>3, <2>1, LatestFiled
    <2>3. Dated(t)' = Dated(t) /\ archive'[i] = archive[i]
      BY <1>3, <2>1 DEF Dated
    <2>4. i \in Dated(t) /\ Dated(t) \in SUBSET Nat /\ \A j \in Dated(t) : j <= i
      BY <1>1, <2>1, SeqTyped DEF Dated
    <2>5. (CHOOSE k \in Dated(t)' : \A j \in Dated(t)' : k >= j) = i
      BY <2>3, <2>4, GreatestIs
    <2>6. active'[t] = Absent
      BY <1>1, <1>3 DEF OnBoard
    <2>7. Latest(t)' = archive'[i].rec
      BY <2>5, <2>6, Zenon DEF Latest
    <2>8. QED BY <2>2, <2>3, <2>7
  <1>4. QED BY <1>2, <1>3

(* The steps that no lookup notices: the first two writes of a closing,    *)
(* the last of a reopening, a death, midnight and the readers.             *)
LEMMA StillLatest ==
    ASSUME OrderInv, UNCHANGED <<active, archive, index>>, NEW t \in added
    PROVE  Latest(t)' = Latest(t)
  <1>1. Archived(t)' = Archived(t)
    BY DEF Archived
  <1>2. QED BY <1>1, LatestSame

LEMMA CloseLatest ==
    ASSUME OrderInv, NEW t \in Tasks, NEW status \in Terminal, Close(t, status), NEW u \in added
    PROVE  Latest(u)' = Latest(u)
  <1> DEFINE rec == [active[t] EXCEPT !.status = status]
             e   == [id |-> t, day |-> day, rec |-> rec]
  <1>1. TypeOK /\ active[t] \in Record /\ t \in OnBoard /\ u \in Tasks
    BY DEF OrderInv, TypeOK, Close, OnBoard
  <1>2. rec \in Record
    BY <1>1 DEF Record
  <1>3. e \in [id: Tasks, day: Nat, rec: Record] /\ e.id = t
    BY <1>1, <1>2 DEF TypeOK
  <1>4. archive' = Append(archive, e) /\ active' = active /\ index' = index
    BY DEF Close
  <1> HIDE DEF e
  <1>5. u # t => /\ Archived(u)' = Archived(u)
                 /\ \A i \in Archived(u) : archive'[i] = archive[i]
    BY <1>1, <1>3, <1>4, OneMoreRecord, Zenon
  <1>6. QED BY <1>1, <1>4, <1>5, LatestSame, Zenon

LEMMA IndexLatest ==
    ASSUME OrderInv, Mark \/ Unmark, NEW u \in added
    PROVE  Latest(u)' = Latest(u)
  <1>1. UNCHANGED <<active, archive>> /\ \E d : index' = [index EXCEPT ![op.task] = d]
    BY DEF Mark, Unmark
  <1>2. op.task \in OnBoard /\ u \in Tasks /\ index \in [Tasks -> Nat]
    BY DEF OrderInv, TypeOK, Mark, Unmark
  <1>3. Archived(u)' = Archived(u)
    BY <1>1 DEF Archived
  <1>4. u # op.task => index'[u] = index[u]
    BY <1>1, <1>2
  <1>5. QED BY <1>1, <1>2, <1>3, <1>4, LatestSame

(* A write of one task to the board, and the batch that adds tasks.        *)
LEMMA SaveLatest ==
    ASSUME OrderInv, NEW t \in Tasks, NEW rec \in Record, Save(t, rec),
           UNCHANGED <<archive, index>>
    PROVE  Latest(t)' = rec /\ \A u \in added \ {t} : Latest(u)' = Latest(u)
  <1>1. active' = [active EXCEPT ![t] = rec] /\ active \in [Tasks -> Record \cup {Absent}]
    BY DEF Save, OrderInv, TypeOK
  <1>2. active'[t] = rec /\ rec # Absent /\ \A u \in Tasks \ {t} : active'[u] = active[u]
    BY <1>1, AbsentAssumption
  <1>3. ASSUME NEW u \in added \ {t} PROVE Latest(u)' = Latest(u)
    <2>1. Archived(u)' = Archived(u) /\ u \in Tasks
      BY DEF Archived, OrderInv, TypeOK
    <2>2. QED BY <1>2, <2>1, LatestSame
  <1>4. QED BY <1>2, <1>3 DEF Latest

LEMMA AddLatest ==
    ASSUME OrderInv, NEW batch \in SUBSET Tasks, UNCHANGED <<archive, index>>,
           active' = [t \in Tasks |-> IF t \in batch \ Known THEN NewTask ELSE active[t]]
    PROVE  /\ \A u \in added : Latest(u)' = Latest(u)
           /\ \A u \in batch \ added : Latest(u)' = NewTask
  <1>1. added \subseteq Known /\ Known \subseteq added /\ added \subseteq Tasks
    BY DEF OrderInv, TypeOK, Known, Indexed
  <1>2. NewTask # Absent
    BY NewTaskTyped
  <1>3. ASSUME NEW u \in added PROVE Latest(u)' = Latest(u)
    <2>1. Archived(u)' = Archived(u) /\ active'[u] = active[u]
      BY <1>1 DEF Archived
    <2>2. QED BY <2>1, LatestSame
  <1>4. ASSUME NEW u \in batch \ added PROVE Latest(u)' = NewTask
    <2>1. active'[u] = NewTask
      BY <1>1
    <2>2. QED BY <1>2, <2>1 DEF Latest
  <1>5. QED BY <1>3, <1>4

(* The last write of a closing takes the task to its last record.          *)
LEMMA PopLatest ==
    ASSUME OrderInv, Pop, NEW t, t = op.task
    PROVE  /\ t \in OnBoard /\ \A u \in added \ {t} : Latest(u)' = Latest(u)
           /\ \A i \in Archived(t) :
                (\A j \in Archived(t) : j <= i) => Latest(t)' = archive[i].rec
  <1>1. /\ t \in OnBoard /\ t \in Tasks /\ Closing(t, index[t]) /\ TypeOK
        /\ active \in [Tasks -> Record \cup {Absent}]
    BY DEF OrderInv, TypeOK, Pop, OnBoard
  <1>2. active' = [active EXCEPT ![t] = Absent] /\ UNCHANGED <<archive, index>>
    BY DEF Pop, Save
  <1>3. active'[t] = Absent /\ \A u \in Tasks \ {t} : active'[u] = active[u]
    BY <1>1, <1>2
  <1>4. ASSUME NEW u \in added \ {t} PROVE Latest(u)' = Latest(u)
    <2>1. Archived(u)' = Archived(u) /\ u \in Tasks
      BY <1>2 DEF Archived, OrderInv, TypeOK
    <2>2. QED BY <1>2, <1>3, <2>1, LatestSame
  <1>5. ASSUME NEW i \in Archived(t), \A j \in Archived(t) : j <= i
        PROVE  Latest(t)' = archive[i].rec
    <2>1. PICK k \in Archived(t) : archive[k].day = index[t] /\ \A j \in Archived(t) : j <= k
      BY <1>1 DEF Closing
    <2>2. k = i
      <3>1. k \in Nat /\ i \in Nat /\ k <= i /\ i <= k
        BY <1>1, <1>5, <2>1, SeqTyped
      <3>2. QED BY <3>1
    <2>3. i \in Dated(t) /\ Dated(t) \in SUBSET Nat /\ \A j \in Dated(t) : j <= i
      BY <1>1, <2>1, <2>2, SeqTyped DEF Dated
    <2>4. Dated(t)' = Dated(t)
      BY <1>2 DEF Dated, Archived
    <2>5. (CHOOSE l \in Dated(t)' : \A j \in Dated(t)' : l >= j) = i
      BY <2>3, <2>4, GreatestIs
    <2>6. QED BY <1>2, <1>3, <2>5, Zenon DEF Latest
  <1>6. QED BY <1>1, <1>4, <1>5

LEMMA CloseClosed ==
    ASSUME TypeOK, ClosedInv, NEW t \in Tasks, NEW status \in Terminal, Close(t, status)
    PROVE  ClosedInv'
  <1> DEFINE rec == [active[t] EXCEPT !.status = status]
             e   == [id |-> t, day |-> day, rec |-> rec]
  <1>1. TypeOK /\ active[t] \in Record
    BY DEF TypeOK, Close, OnBoard
  <1>2. rec \in Record /\ rec.status \in Terminal
    BY <1>1 DEF Record
  <1>3. e \in [id: Tasks, day: Nat, rec: Record] /\ e.id = t /\ e.rec = rec
    BY <1>1, <1>2 DEF TypeOK
  <1>4. archive' = Append(archive, e) /\ op'.do = "mark" /\ op'.task = t /\ active' = active
    BY DEF Close
  <1> HIDE DEF e
  <1>5. PICK n \in Nat :
             /\ archive'[n] = e
             /\ Archived(t)' = Archived(t) \cup {n}
             /\ \A u \in Tasks :
                  /\ u # t => Archived(u)' = Archived(u)
                  /\ \A i \in Archived(u) : archive'[i] = archive[i] /\ i <= n
    BY <1>1, <1>3, <1>4, OneMoreRecord, Zenon
  <1>6. ASSUME NEW u \in Tasks, NEW i \in Archived(u)'
        PROVE  archive'[i].rec.status \in Terminal
    <2>1. CASE i \in Archived(u)
      BY <1>5, <2>1 DEF ClosedInv
    <2>2. CASE i \notin Archived(u)
      BY <1>2, <1>3, <1>5, <1>6, <2>2, Zenon
    <2>3. QED BY <2>1, <2>2
  <1>7. n \in Archived(t)' /\ archive'[n].rec = [active'[t] EXCEPT !.status = status]
    BY <1>3, <1>4, <1>5
  <1>8. \A j \in Archived(t)' : j <= n
    BY <1>5
  <1> HIDE DEF rec
  <1>9. QED BY <1>4, <1>6, <1>7, <1>8, Zenon DEF ClosedInv

(* Every other step keeps the archive, and the closing in progress, if     *)
(* any, goes on with the record of its task on the board.                  *)
LEMMA ClosedKept ==
    ASSUME ClosedInv, archive' = archive,
           op'.do \in {"mark", "pop"} => /\ op.do \in {"mark", "pop"} /\ op'.task = op.task
                                        /\ active'[op.task] = active[op.task]
    PROVE  ClosedInv'
  <1>1. \A t : Archived(t)' = Archived(t)
    BY DEF Archived
  <1>2. \A t \in Tasks : \A i \in Archived(t)' : archive'[i].rec.status \in Terminal
    BY <1>1 DEF ClosedInv
  <1>3. ASSUME op'.do \in {"mark", "pop"}
        PROVE  \E i \in Archived(op'.task), status \in Terminal :
                  /\ \A j \in Archived(op'.task) : j <= i
                  /\ archive[i].rec = [active'[op'.task] EXCEPT !.status = status]
    <2>1. op.do \in {"mark", "pop"} /\ op'.task = op.task /\ active'[op.task] = active[op.task]
      BY <1>3
    <2>2. PICK i \in Archived(op.task), status \in Terminal :
             /\ \A j \in Archived(op.task) : j <= i
             /\ archive[i].rec = [active[op.task] EXCEPT !.status = status]
      BY <2>1 DEF ClosedInv
    <2>3. /\ i \in Archived(op'.task) /\ \A j \in Archived(op'.task) : j <= i
          /\ archive[i].rec = [active'[op'.task] EXCEPT !.status = status]
      BY <2>1, <2>2
    <2>4. QED BY <2>3
  <1>4. Archived(op.task)' = Archived(op'.task)
    BY DEF Archived
  <1>5. QED BY <1>2, <1>3, <1>4 DEF ClosedInv

LEMMA WriteClosed == ASSUME TypeOK, ClosedInv, Write PROVE ClosedInv'
  <1>1. ASSUME archive' = archive, op'.do \notin {"mark", "pop"} PROVE ClosedInv'
    BY <1>1, ClosedKept
  <1>2. NoOp.do \notin {"mark", "pop"}
    BY DEF NoOp
  <1>3. ASSUME NEW t \in Tasks, NEW status \in Closings, Close(t, status) PROVE ClosedInv'
    <2>1. status \in Terminal
      BY TaskStoreAssumption DEF Terminal
    <2>2. QED BY <1>3, <2>1, CloseClosed
  <1>4. ASSUME NEW t \in Tasks, Add(t) PROVE ClosedInv'
    BY <1>1, <1>2, <1>4 DEF Add, Idle
  <1>5. ASSUME NEW batch \in SUBSET Tasks, AddMany(batch) PROVE ClosedInv'
    BY <1>1, <1>2, <1>5 DEF AddMany, Idle
  <1>6. ASSUME NEW t \in Tasks, NEW status \in Open, Update(t, status) PROVE ClosedInv'
    BY <1>1, <1>2, <1>6 DEF Update, Idle
  <1>7. CASE Mark
    <2>1. op \in [do: {"mark", "pop", "unmark"}, task: Tasks, rec: Record]
      BY <1>7 DEF TypeOK, Mark, NoOp
    <2>2. op'.task = op.task /\ op.do = "mark" /\ UNCHANGED <<active, archive>>
      BY <1>7, <2>1 DEF Mark
    <2>3. QED BY <2>2, ClosedKept
  <1>8. CASE Pop \/ Unmark
    BY <1>1, <1>2, <1>8 DEF Pop, Unmark
  <1>9. QED BY <1>3, <1>4, <1>5, <1>6, <1>7, <1>8 DEF Write

LEMMA CrashClosed == ASSUME ClosedInv, Crash PROVE ClosedInv'
  <1>1. NoOp.do \notin {"mark", "pop"}
    BY DEF NoOp
  <1>2. QED BY <1>1, ClosedKept DEF Crash, files

LEMMA ClosedStep == BoardInv /\ [Next]_vars => ClosedInv'
  <1> SUFFICES ASSUME BoardInv, [Next]_vars PROVE ClosedInv'
    OBVIOUS
  <1>1. TypeOK /\ ClosedInv
    BY DEF BoardInv, IInv
  <1>2. CASE Write
    BY <1>1, <1>2, WriteClosed
  <1>3. ASSUME NEW t, NEW contract, Reopen(t, contract) PROVE ClosedInv'
    <2>1. archive' = archive /\ op'.do = "unmark"
      BY <1>3 DEF Reopen, Replace
    <2>2. QED BY <1>1, <2>1, ClosedKept
  <1>4. CASE Read \/ NextDay \/ UNCHANGED vars
    <2>1. UNCHANGED <<active, archive, op>>
      BY <1>4 DEF Read, ReadyBegin, ReadyEnd, GetBegin, GetEnd, NextDay, vars, files
    <2>2. QED BY <1>1, <2>1, ClosedKept
  <1>5. QED BY <1>1, <1>2, <1>3, <1>4, CrashClosed DEF Next

LEMMA BoardInvariant == Spec => []BoardInv
  <1>1. Init => ClosedInv
    BY DEF Init, ClosedInv, Archived, NoOp
  <1>2. IInv => TypeOK
    BY DEF IInv
  <1>3. BoardInv <=> IInv /\ OrderInv /\ ClosedInv
    BY DEF BoardInv
  <1>4. QED
    BY <1>1, <1>2, <1>3, InitIInv, StepKeeps, InitOrder, OrderStep, ClosedStep, PTL DEF Spec

(* A step no lookup notices.                                               *)
LEMMA SameStored ==
    ASSUME added' = added, \A t \in added : Latest(t)' = Latest(t)
    PROVE  UNCHANGED Stored
  BY DEF Stored

(* An operation on one task, at its last or only write.                    *)
LEMMA OneStored ==
    ASSUME OrderInv, NEW t \in added, added' = added, NEW rec, Latest(t)' = rec,
           \A u \in added \ {t} : Latest(u)' = Latest(u)
    PROVE  /\ t \in Tasks /\ Stored[t] = Latest(t) /\ Latest(t) \in Record /\ Stored[t] # Absent
           /\ Stored' = [Stored EXCEPT ![t] = rec]
  <1>1. t \in Tasks /\ Latest(t) \in Record
    BY LatestTop DEF OrderInv, TypeOK
  <1>2. Stored[t] = Latest(t) /\ Stored[t] # Absent
    BY <1>1, AbsentAssumption DEF Stored
  <1>3. QED BY <1>1, <1>2, Zenon DEF Stored

LEMMA AddBoard ==
    ASSUME OrderInv, NEW batch \in SUBSET Tasks, UNCHANGED <<archive, index>>,
           active' = [t \in Tasks |-> IF t \in batch \ Known THEN NewTask ELSE active[t]],
           added' = added \cup batch
    PROVE  Board!Next
  <1> DEFINE new == batch \ added
  <1>1. /\ \A u \in added : Latest(u)' = Latest(u)
        /\ \A u \in new : Latest(u)' = NewTask
    BY AddLatest
  <1>2. \A t \in new : Stored[t] = Absent
    BY DEF Stored
  <1>3. Stored' = [t \in Tasks |-> IF t \in new THEN NewTask ELSE Stored[t]]
    BY <1>1 DEF Stored
  <1>4. Board!Add(new)
    BY <1>2, <1>3 DEF Board!Add
  <1>5. QED BY <1>4 DEF Board!Next

LEMMA UpdateBoard ==
    ASSUME BoardInv, NEW t \in Tasks, NEW status \in Open, Update(t, status)
    PROVE  Board!Next
  <1> DEFINE rec == [active[t] EXCEPT !.status = status]
  <1>1. /\ OrderInv /\ t \in OnBoard /\ t \in added /\ active[t] \in Record
        /\ active[t].status \in Open
    BY SeqTyped DEF BoardInv, OrderInv, IInv, Update
  <1>2. rec \in Record
    BY <1>1, UpdatedTyped
  <1>3. Save(t, rec) /\ UNCHANGED <<archive, index, added>>
    BY DEF Update
  <1>4. Latest(t) = active[t]
    BY <1>1 DEF Latest, OnBoard
  <1> HIDE DEF rec
  <1>5. Latest(t)' = rec /\ \A u \in added \ {t} : Latest(u)' = Latest(u)
    BY <1>1, <1>2, <1>3, SaveLatest
  <1>6. Stored[t] = active[t] /\ Stored[t] # Absent /\ Stored' = [Stored EXCEPT ![t] = rec]
    BY <1>1, <1>3, <1>4, <1>5, OneStored
  <1>7. Board!Move(t, status)
    BY <1>1, <1>6 DEF Board!Move, Board!IsOpen, rec
  <1>8. QED BY <1>7 DEF Board!Next

LEMMA PopBoard ==
    ASSUME BoardInv, Pop
    PROVE  Board!Next
  <1>1. PICK t : t = op.task
    OBVIOUS
  <1>2. /\ t \in OnBoard /\ \A u \in added \ {t} : Latest(u)' = Latest(u)
        /\ \A i \in Archived(t) :
             (\A j \in Archived(t) : j <= i) => Latest(t)' = archive[i].rec
    BY <1>1, PopLatest DEF BoardInv
  <1>3. PICK status \in Terminal : Latest(t)' = [active[t] EXCEPT !.status = status]
    BY <1>1, <1>2, Zenon DEF BoardInv, ClosedInv, Pop
  <1>4. OrderInv /\ t \in added /\ active[t].status \in Open /\ added' = added
    BY <1>2, Zenon DEF BoardInv, OrderInv, IInv, Pop
  <1>5. Latest(t) = active[t]
    BY <1>2 DEF Latest, OnBoard
  <1>6. /\ t \in Tasks /\ Stored[t] = active[t] /\ Stored[t] # Absent
        /\ Stored' = [Stored EXCEPT ![t] = [active[t] EXCEPT !.status = status]]
    BY <1>2, <1>3, <1>4, <1>5, OneStored
  <1>7. Board!Move(t, status)
    BY <1>4, <1>6 DEF Board!Move, Board!IsOpen
  <1>8. QED BY <1>6, <1>7 DEF Board!Next

LEMMA ReopenBoard ==
    ASSUME BoardInv, NEW t \in Tasks, NEW contract \in Contracts, Reopen(t, contract)
    PROVE  Board!Next
  <1> DEFINE l   == Latest(t)
             rec == [l EXCEPT !.status = "backlog", !.contract = contract, !.seq = @ + 1]
  <1>1. OrderInv /\ TypeOK /\ t \in added \ OnBoard
    BY DEF BoardInv, OrderInv, Reopen
  <1>2. Save(t, rec) /\ UNCHANGED <<archive, index, added>>
    BY DEF Reopen, Replace
  <1>3. l \in Record
    BY <1>1, LatestTop
  <1>4. l.status \in Terminal
    <2>1. PICK i \in Archived(t) : archive[i].day = index[t] /\ \A j \in Archived(t) : j <= i
      BY <1>1 DEF OrderInv, Filed
    <2>2. l = archive[i].rec
      BY <1>1, <2>1, LatestFiled
    <2>3. QED BY <2>1, <2>2 DEF BoardInv, ClosedInv
  <1> HIDE DEF l
  <1>5. rec \in Record
    BY <1>3, ReopenedTyped, Zenon
  <1> HIDE DEF rec
  <1>6. Latest(t)' = rec /\ \A u \in added \ {t} : Latest(u)' = Latest(u)
    BY <1>1, <1>2, <1>5, SaveLatest
  <1>7. Stored[t] = l /\ Stored[t] # Absent /\ Stored' = [Stored EXCEPT ![t] = rec]
    BY <1>1, <1>2, <1>6, OneStored DEF l
  <1>8. Board!Reopen(t, contract)
    BY <1>4, <1>7 DEF Board!Reopen, Board!IsClosed, rec
  <1>9. QED BY <1>8 DEF Board!Next

(* The files implement the board of atomic operations: the update of a     *)
(* task, its closing and its reopening are one step each for a writer that *)
(* looks a task up, whatever write the lock holder dies before.            *)
THEOREM BoardRefinement == Spec => ImplementsBoard
  <1>1. Init => Board!Init
    BY DEF Init, Board!Init, Stored
  <1>2. BoardInv /\ [Next]_vars => [Board!Next]_Stored
    <2> SUFFICES ASSUME BoardInv, [Next]_vars
                 PROVE  Board!Next \/ UNCHANGED Stored
      OBVIOUS
    <2>1. OrderInv /\ active \in [Tasks -> Record \cup {Absent}]
      BY DEF BoardInv, OrderInv, TypeOK
    <2>2. ASSUME NEW t \in Tasks, Add(t) PROVE Board!Next
      <3>1. t \notin Known
        BY <2>1, <2>2 DEF Add, OrderInv, Known
      <3>2. active' = [u \in Tasks |-> IF u \in {t} \ Known THEN NewTask ELSE active[u]]
        BY <2>1, <2>2, <3>1, Zenon DEF Add, Save
      <3>3. {t} \in SUBSET Tasks /\ added' = added \cup {t} /\ UNCHANGED <<archive, index>>
        BY <2>2 DEF Add
      <3>4. QED BY <2>1, <3>2, <3>3, AddBoard, Zenon
    <2>3. ASSUME NEW batch \in SUBSET Tasks, AddMany(batch) PROVE Board!Next
      BY <2>1, <2>3, AddBoard DEF AddMany
    <2>4. ASSUME NEW t \in Tasks, NEW status \in Closings, Close(t, status)
          PROVE  UNCHANGED Stored
      <3>1. status \in Terminal /\ added' = added
        BY <2>4, TaskStoreAssumption DEF Terminal, Close
      <3>2. QED BY <2>1, <2>4, <3>1, CloseLatest, SameStored
    <2>5. CASE Mark \/ Unmark
      <3>1. added' = added
        BY <2>5 DEF Mark, Unmark
      <3>2. QED BY <2>1, <2>5, <3>1, IndexLatest, SameStored
    <2>6. ASSUME NEW t \in Reopenable, NEW contract \in Contracts, Reopen(t, contract)
          PROVE  Board!Next
      <3>1. t \in Tasks
        BY TaskStoreAssumption
      <3>2. QED BY <2>6, <3>1, ReopenBoard
    <2>7. CASE Read \/ Crash \/ NextDay \/ UNCHANGED vars
      <3>1. UNCHANGED <<active, archive, index, added>>
        BY <2>7 DEF Read, ReadyBegin, ReadyEnd, GetBegin, GetEnd, Crash, NextDay, vars, files
      <3>2. QED BY <2>1, <3>1, StillLatest, SameStored
    <2>8. CASE Write
      BY <2>2, <2>3, <2>4, <2>5, <2>8, UpdateBoard, PopBoard DEF Write
    <2>9. QED BY <2>6, <2>7, <2>8 DEF Next
  <1>3. QED BY <1>1, <1>2, BoardInvariant, PTL DEF Spec, ImplementsBoard, Board!Spec

-----------------------------------------------------------------------------
(* The duplicate of board and index                                        *)

(* Only the operation in progress leaves a task on the board and indexed.  *)
DuplicateInv ==
    /\ crashes = 0
    /\ \A t \in OnBoard \cap Indexed : op.task = t /\ op.do \in {"pop", "unmark"}

LEMMA DuplicateStep ==
    ASSUME MaxCrashes = 0, OrderInv, DuplicateInv, [Next]_vars
    PROVE  DuplicateInv'
  <1>1. TypeOK /\ active \in [Tasks -> Record \cup {Absent}] /\ index \in [Tasks -> Nat]
    BY DEF OrderInv, TypeOK
  <1>2. ASSUME crashes' = crashes, OnBoard' \subseteq OnBoard, Indexed' \subseteq Indexed,
               Idle \/ op' = op
        PROVE  DuplicateInv'
    BY <1>2 DEF DuplicateInv, Idle, NoOp
  <1>3. ASSUME Idle, crashes' = crashes, NEW S, OnBoard' = OnBoard \cup S,
               S \cap Indexed = {}, UNCHANGED index
        PROVE  DuplicateInv'
    BY <1>3 DEF DuplicateInv, Idle, NoOp, Indexed
  <1>4. ASSUME NEW t \in Tasks, Add(t) PROVE DuplicateInv'
    <2>1. OnBoard' = OnBoard \cup {t} /\ {t} \cap Indexed = {}
      BY <1>1, <1>4, NewTaskTyped DEF Add, Save, OnBoard, OrderInv
    <2>2. QED BY <1>3, <1>4, <2>1, Zenon DEF Add
  <1>5. ASSUME NEW batch \in SUBSET Tasks, AddMany(batch) PROVE DuplicateInv'
    <2>1. OnBoard' = OnBoard \cup (batch \ Known) /\ (batch \ Known) \cap Indexed = {}
      BY <1>1, <1>5, NewTaskTyped DEF AddMany, OnBoard, Known
    <2>2. QED BY <1>3, <1>5, <2>1, Zenon DEF AddMany
  <1>6. ASSUME NEW t \in Tasks, NEW status \in Open, Update(t, status) PROVE DuplicateInv'
    BY <1>1, <1>2, <1>6 DEF Update, Save, OnBoard, Indexed
  <1>7. ASSUME NEW t \in Tasks, NEW status \in Closings, Close(t, status) PROVE DuplicateInv'
    BY <1>2, <1>7 DEF Close, OnBoard, Indexed
  <1>8. CASE Mark
    <2>1. op'.do = "pop" /\ op'.task = op.task /\ OnBoard' = OnBoard /\ crashes' = crashes
      BY <1>1, <1>8 DEF Mark, OnBoard, TypeOK, NoOp
    <2>2. Indexed' \subseteq Indexed \cup {op.task}
      BY <1>1, <1>8 DEF Mark, Indexed
    <2>3. OnBoard \cap Indexed = {}
      BY <1>8 DEF Mark, DuplicateInv
    <2>4. QED BY <2>1, <2>2, <2>3 DEF DuplicateInv
  <1>9. CASE Pop
    <2>1. OnBoard' = OnBoard \ {op.task} /\ Indexed' = Indexed /\ crashes' = crashes
      BY <1>1, <1>9 DEF Pop, Save, OnBoard, Indexed
    <2>2. QED BY <2>1 DEF DuplicateInv
  <1>10. CASE Unmark
    <2>1. OnBoard' = OnBoard /\ Indexed' = Indexed \ {op.task} /\ crashes' = crashes
      BY <1>1, <1>10 DEF Unmark, OnBoard, Indexed
    <2>2. QED BY <2>1 DEF DuplicateInv
  <1>11. ASSUME NEW t \in Reopenable, NEW contract \in Contracts, Reopen(t, contract)
         PROVE  DuplicateInv'
    <2>1. t \notin OnBoard /\ Idle /\ crashes' = crashes /\ UNCHANGED index
          /\ op'.do = "unmark" /\ op'.task = t
      BY <1>11 DEF Reopen, Replace
    <2>2. OnBoard' \subseteq OnBoard \cup {t} /\ Indexed' = Indexed
      BY <1>1, <1>11 DEF Reopen, Replace, Save, OnBoard, Indexed
    <2>3. OnBoard \cap Indexed = {}
      BY <2>1 DEF DuplicateInv, Idle, NoOp
    <2>4. QED BY <2>1, <2>2, <2>3 DEF DuplicateInv
  <1>12. CASE Read
    BY <1>2, <1>12 DEF Read, ReadyBegin, ReadyEnd, GetBegin, GetEnd, files, OnBoard, Indexed
  <1>13. CASE Crash
    BY <1>13 DEF Crash, DuplicateInv
  <1>14. CASE NextDay
    BY <1>2, <1>14 DEF NextDay, files, OnBoard, Indexed
  <1>15. CASE UNCHANGED vars
    BY <1>2, <1>15 DEF vars, files, OnBoard, Indexed
  <1>16. QED BY <1>4, <1>5, <1>6, <1>7, <1>8, <1>9, <1>10, <1>11, <1>12, <1>13, <1>14, <1>15
             DEF Next, Write

(* As long as nobody dies inside an operation, a task is never on the      *)
(* board and in the index between two operations: the duplicate comes from *)
(* a death and from nothing else, for any tasks, days and reopenings.      *)
THEOREM DuplicateNeedsCrash ==
    ASSUME MaxCrashes = 0
    PROVE  Spec => []DuplicateHarmless
  <1>1. Init => DuplicateInv
    BY DEF Init, DuplicateInv, OnBoard
  <1>2. OrderInv /\ DuplicateInv /\ [Next]_vars => DuplicateInv'
    BY DuplicateStep
  <1>3. DuplicateInv => DuplicateHarmless
    BY DEF DuplicateInv, DuplicateHarmless, Idle, NoOp
  <1>4. BoardInv => OrderInv
    BY DEF BoardInv
  <1>5. QED BY <1>1, <1>2, <1>3, <1>4, BoardInvariant, PTL DEF Spec
=============================================================================
