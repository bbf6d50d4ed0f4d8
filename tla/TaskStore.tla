----------------------------- MODULE TaskStore -----------------------------
(***************************************************************************)
(* The kanban: active tasks in kanban.json, closed ones in one archive     *)
(* file per day, and the terminal index that says which day. Writers hold  *)
(* one lock, but an operation is up to three file writes, a process may    *)
(* die between two of them, and readers take no lock.                      *)
(***************************************************************************)
EXTENDS Naturals, Sequences, FiniteSets

CONSTANTS
    Tasks,      \* task ids
    Deps,       \* Deps[t]: the blocked_by of t
    Contracts,  \* contracts a task may be given
    NoContract, \* the contract of a task before its first authority stamp
    Notes,      \* evidence that may be merged into a contract
    Absent,     \* no such task on the board
    Open,       \* the statuses of an open task
    Closings,   \* the statuses tasks are closed with
    Reopenable, \* tasks that get a new contract after they were closed
    MaxSequence, MaxArchive, MaxDay, MaxCrashes

ASSUME TaskStoreAssumption ==
    /\ Deps \in [Tasks -> SUBSET Tasks]
    /\ "backlog" \in Open /\ Open \cap {"done", "cancelled"} = {}
    /\ Closings \subseteq {"done", "cancelled"} /\ Reopenable \subseteq Tasks
    /\ NoContract \notin Contracts /\ Absent \notin Tasks
    /\ {MaxSequence, MaxArchive, MaxDay, MaxCrashes} \subseteq Nat

Terminal == {"done", "cancelled"}

(* What the properties see of a task: seq and contract determine the       *)
(* authority revision, meta is the evidence in the contract.               *)
Record == [status: Open \cup Terminal, seq: Nat,
           contract: Contracts \cup {NoContract}, meta: SUBSET Notes]

ASSUME AbsentAssumption == Absent \notin Record

VARIABLES
    active,    \* kanban.json
    archive,   \* the archive files: records in the order they were written
    index,     \* kanban-terminal-index.json: the day, or 0 for no entry
    op,        \* the writes the lock holder still has to do
    day,       \* today
    added,     \* every task ever added
    board,     \* what a ready() in progress has read of kanban.json
    released,  \* what ready() has ever returned
    sought,    \* the task a get() in progress has not found in kanban.json
    missed,    \* tasks a get() did not find at all
    crashes

files   == <<active, archive, index>>
readers == <<board, released, sought, missed>>
vars    == <<files, op, day, added, readers, crashes>>

NoOp == [do |-> "nothing", task |-> Absent, rec |-> Absent]
Idle == op = NoOp

NoBoard == [read |-> FALSE, backlog |-> {}, closed |-> {}]
Boards  == [read: BOOLEAN, backlog: SUBSET Tasks, closed: SUBSET Tasks]

TypeOK ==
    /\ active \in [Tasks -> Record \cup {Absent}]
    /\ archive \in Seq([id: Tasks, day: Nat, rec: Record])
    /\ index \in [Tasks -> Nat]
    /\ op \in {NoOp} \cup [do: {"mark", "pop", "unmark"}, task: Tasks, rec: Record]
    /\ day \in Nat \ {0}
    /\ added \subseteq Tasks /\ released \subseteq Tasks /\ missed \subseteq Tasks
    /\ board \in Boards
    /\ sought \in Tasks \cup {Absent}
    /\ crashes \in Nat

Init ==
    /\ active = [t \in Tasks |-> Absent] /\ archive = <<>> /\ index = [t \in Tasks |-> 0]
    /\ op = NoOp /\ day = 1 /\ added = {}
    /\ board = NoBoard /\ released = {} /\ sought = Absent /\ missed = {}
    /\ crashes = 0

-----------------------------------------------------------------------------
(* Lookups                                                                 *)

Indexed == {t \in Tasks : index[t] # 0}
OnBoard == {t \in Tasks : active[t] # Absent}
Known   == OnBoard \cup Indexed

Archived(t) == {i \in DOMAIN archive : archive[i].id = t}

(* The entries get() and the contract update look at: those of the day in  *)
(* the index, or any if there is no index entry.                           *)
Dated(t) == {i \in Archived(t) : index[t] \in {0, archive[i].day}}

(* get() takes the first match of the file.                                *)
Get(t) ==
    IF active[t] # Absent THEN active[t]
    ELSE archive[CHOOSE i \in Dated(t) : \A j \in Dated(t) : i <= j].rec

(* Mutant of Latest: the first match, like get().                          *)
LatestFirst(t) == Get(t)

(* compare_and_update_contract takes the last one.                         *)
Latest(t) ==
    IF active[t] # Absent THEN active[t]
    ELSE archive[CHOOSE i \in Dated(t) : \A j \in Dated(t) : i >= j].rec

-----------------------------------------------------------------------------
(* Writers, each under the lock                                            *)

Save(t, rec) == active' = [active EXCEPT ![t] = rec]

(* Mutant of NewTask: a status no task has.                                *)
NewTaskTodo == [status |-> "todo", seq |-> 0, contract |-> NoContract, meta |-> {}]

NewTask == [status |-> "backlog", seq |-> 0, contract |-> NoContract, meta |-> {}]

(* add_many: a batch closed under blocked_by; known ids are skipped.       *)
AddMany(batch) ==
    /\ Idle /\ batch # {}
    /\ \A t \in batch : Deps[t] \subseteq Known \cup batch
    /\ active' = [t \in Tasks |-> IF t \in batch \ Known THEN NewTask ELSE active[t]]
    /\ added' = added \cup batch
    /\ UNCHANGED <<archive, index, op, day, readers, crashes>>

(* add, with an id nobody has used.                                        *)
Add(t) ==
    /\ Idle /\ t \notin added
    /\ Deps[t] \subseteq Known
    /\ Save(t, NewTask)
    /\ added' = added \cup {t}
    /\ UNCHANGED <<archive, index, op, day, readers, crashes>>

(* update to an open status: one write.                                    *)
Update(t, status) ==
    /\ Idle /\ t \in OnBoard
    /\ active[t].status # status
    /\ Save(t, [active[t] EXCEPT !.status = status])
    /\ UNCHANGED <<archive, index, op, day, added, readers, crashes>>

(* patch_contract_fields: evidence is merged, the revision stays. Only the *)
(* authority calls it (TaskAuthority).                                     *)
Patch(t, note) ==
    /\ Idle /\ t \in OnBoard
    /\ note \notin active[t].meta
    /\ Save(t, [active[t] EXCEPT !.meta = @ \cup {note}])
    /\ UNCHANGED <<archive, index, op, day, added, readers, crashes>>

(* Mutant of Close: off the board before the index entry is written.       *)
CloseActiveFirst(t, status) ==
    /\ Idle /\ t \in OnBoard
    /\ Len(archive) < MaxArchive
    /\ LET rec == [active[t] EXCEPT !.status = status]
       IN /\ archive' = Append(archive, [id |-> t, day |-> day, rec |-> rec])
          /\ op' = [do |-> "mark", task |-> t, rec |-> rec]
    /\ Save(t, Absent)
    /\ UNCHANGED <<index, day, added, readers, crashes>>

(* Mutant of Close: the record is archived as it was before the update.    *)
CloseUnchanged(t, status) ==
    /\ Idle /\ t \in OnBoard
    /\ Len(archive) < MaxArchive
    /\ archive' = Append(archive, [id |-> t, day |-> day, rec |-> active[t]])
    /\ op' = [do |-> "mark", task |-> t, rec |-> active[t]]
    /\ UNCHANGED <<active, index, day, added, readers, crashes>>

(* update to a terminal status: archive, then index, then active file.     *)
Close(t, status) ==
    /\ Idle /\ t \in OnBoard
    /\ Len(archive) < MaxArchive
    /\ LET rec == [active[t] EXCEPT !.status = status]
       IN /\ archive' = Append(archive, [id |-> t, day |-> day, rec |-> rec])
          /\ op' = [do |-> "mark", task |-> t, rec |-> rec]
    /\ UNCHANGED <<active, index, day, added, readers, crashes>>

(* Mutant of Mark: the entry names the day after.                          *)
MarkTomorrow ==
    /\ op.do = "mark"
    /\ index' = [index EXCEPT ![op.task] = day + 1]
    /\ op' = [op EXCEPT !.do = "pop"]
    /\ UNCHANGED <<active, archive, day, added, readers, crashes>>

(* The second write enters the day of the archive write.                   *)
Mark ==
    /\ op.do = "mark"
    /\ index' = [index EXCEPT ![op.task] = day]
    /\ op' = [op EXCEPT !.do = "pop"]
    /\ UNCHANGED <<active, archive, day, added, readers, crashes>>

Pop ==
    /\ op.do = "pop"
    /\ Save(op.task, Absent)
    /\ op' = NoOp
    /\ UNCHANGED <<archive, index, day, added, readers, crashes>>

(* compare_and_update_contract once its token matches: a task on the board *)
(* is rewritten; a closed one is put back before its index entry goes.     *)
Replace(t, rec) ==
    /\ Idle
    /\ Save(t, rec)
    /\ op' = IF t \in OnBoard THEN NoOp ELSE [do |-> "unmark", task |-> t, rec |-> rec]
    /\ UNCHANGED <<archive, index, day, added, readers, crashes>>

(* A reopening with a new contract by a caller that is up to date.         *)
Reopen(t, contract) ==
    /\ t \in added \ OnBoard /\ Dated(t) # {}
    /\ Latest(t).seq < MaxSequence
    /\ Replace(t, [Latest(t) EXCEPT !.status = "backlog", !.contract = contract,
                                    !.seq = @ + 1])

Unmark ==
    /\ op.do = "unmark"
    /\ index' = [index EXCEPT ![op.task] = 0]
    /\ op' = NoOp
    /\ UNCHANGED <<active, archive, day, added, readers, crashes>>

(* The lock holder dies between two writes.                                *)
Crash ==
    /\ ~Idle /\ crashes < MaxCrashes
    /\ op' = NoOp
    /\ crashes' = crashes + 1
    /\ UNCHANGED <<files, day, added, readers>>

(* Midnight. An operation computes its day once, so it does not straddle.  *)
NextDay ==
    /\ Idle /\ day < MaxDay
    /\ day' = day + 1
    /\ UNCHANGED <<files, op, added, readers, crashes>>

-----------------------------------------------------------------------------
(* Readers, without the lock                                               *)

(* Mutant of ReadyBegin: a task that was started counts as closed.         *)
ReadyBeginStarted ==
    /\ ~board.read
    /\ board' = [read |-> TRUE,
                 backlog |-> {t \in OnBoard : active[t].status = "backlog"},
                 closed |-> {t \in OnBoard : active[t].status # "backlog"}]
    /\ UNCHANGED <<files, op, day, added, released, sought, missed, crashes>>

(* ready() reads the board first.                                          *)
ReadyBegin ==
    /\ ~board.read
    /\ board' = [read |-> TRUE,
                 backlog |-> {t \in OnBoard : active[t].status = "backlog"},
                 closed |-> {t \in OnBoard : active[t].status \in Terminal}]
    /\ UNCHANGED <<files, op, day, added, released, sought, missed, crashes>>

(* Mutant of ReadyEnd: the index is not read.                              *)
ReadyEndBoard ==
    /\ board.read
    /\ released' = released \cup {t \in board.backlog : Deps[t] \subseteq board.closed}
    /\ board' = NoBoard
    /\ UNCHANGED <<files, op, day, added, sought, missed, crashes>>

(* Then the index.                                                         *)
ReadyEnd ==
    /\ board.read
    /\ released' = released \cup
          {t \in board.backlog : Deps[t] \subseteq board.closed \cup Indexed}
    /\ board' = NoBoard
    /\ UNCHANGED <<files, op, day, added, sought, missed, crashes>>

(* get() of a task it does not find on the board.                          *)
GetBegin(t) ==
    /\ sought = Absent
    /\ t \in added \ OnBoard
    /\ sought' = t
    /\ UNCHANGED <<files, op, day, added, board, released, missed, crashes>>

(* Mutant of GetEnd: only the file the index names.                        *)
GetEndIndexed ==
    /\ sought # Absent
    /\ missed' = IF \E i \in Archived(sought) : archive[i].day = index[sought] THEN missed
                 ELSE missed \cup {sought}
    /\ sought' = Absent
    /\ UNCHANGED <<files, op, day, added, board, released, crashes>>

(* The file the index names, then every archive file.                      *)
GetEnd ==
    /\ sought # Absent
    /\ missed' = IF Archived(sought) # {} THEN missed ELSE missed \cup {sought}
    /\ sought' = Absent
    /\ UNCHANGED <<files, op, day, added, board, released, crashes>>

-----------------------------------------------------------------------------
Write ==
    \/ \E t \in Tasks : Add(t)
    \/ \E batch \in SUBSET Tasks : AddMany(batch)
    \/ \E t \in Tasks, status \in Open : Update(t, status)
    \/ \E t \in Tasks, status \in Closings : Close(t, status)
    \/ Mark \/ Pop \/ Unmark

Read == ReadyBegin \/ ReadyEnd \/ GetEnd \/ \E t \in Tasks : GetBegin(t)

Next ==
    \/ Write \/ Read \/ Crash \/ NextDay
    \/ \E t \in Reopenable, contract \in Contracts : Reopen(t, contract)

Spec == Init /\ [][Next]_vars

(* The lock holder goes on, the scheduler polls, and a worker finishes a   *)
(* task it was given.                                                      *)
Finish(t) ==
    /\ t \in released \/ (t \in OnBoard /\ active[t].status = "in_progress")
    /\ \E status \in Closings : Close(t, status)

FairSpec ==
    /\ Spec
    /\ WF_vars(Mark) /\ WF_vars(Pop) /\ WF_vars(Unmark)
    /\ WF_vars(ReadyBegin) /\ WF_vars(ReadyEnd)
    /\ \A t \in Tasks : SF_vars(Finish(t))

-----------------------------------------------------------------------------
(* Properties                                                              *)

(* Whatever a process dies in, a task is on the board or in the index: the *)
(* order of the writes of update and of a reopening.                       *)
NeverVanishes == added \subseteq Known

(* An index entry leads to a record: it is written after the record, and   *)
(* names the day of the archive file.                                      *)
IndexLeadsToRecord ==
    \A t \in Indexed : \E i \in Archived(t) : archive[i].day = index[t]

(* get() takes no lock, yet never misses a task that was added.            *)
GetFinds == missed = {}

(* ready() reads two files without the lock, yet never releases a task     *)
(* before everything it waits for was closed.                              *)
ReleasedAfterDeps == \A t \in released : \A d \in Deps[t] : Archived(d) # {}

(* Between operations a task is open on the board or closed in the index:  *)
(* the duplicate a crash leaves is "harmless" only if it is closed there.  *)
DuplicateHarmless ==
    Idle => \A t \in OnBoard \cap Indexed : active[t].status \in Terminal

(* A reopening continues from the last record of the task, so that it gets *)
(* an authority sequence no archived record has, over any number of        *)
(* closings, reopenings and crashes in between.                            *)
ReopenAdvances ==
    [][\A t \in added : t \notin OnBoard /\ active'[t] # Absent =>
          \A i \in Archived(t) : archive[i].rec.seq < active'[t].seq]_vars

(* A task as a writer finds it: on the board, or its last archived record. *)
Stored == [t \in Tasks |-> IF t \in added THEN Latest(t) ELSE Absent]

Board == INSTANCE TaskBoard WITH tasks <- Stored

(* Closing and reopening a task are atomic for those who look at the board *)
(* first: whatever write a process dies before, the task is as it was or   *)
(* as the operation leaves it, and no other task changes.                  *)
ImplementsBoard == Board!Spec

(* A task waiting for others is released or closed: no crash leaves a      *)
(* dependency unresolved for good.                                         *)
DependentsReleased == \A t \in Tasks : t \in added ~> t \in released \/ Archived(t) # {}
=============================================================================
