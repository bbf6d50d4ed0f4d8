------------------------ MODULE TaskAuthorityProofs ------------------------
(***************************************************************************)
(* What TLAPS proves about TaskAuthority, for any tasks, requests,         *)
(* contracts, days and crashes: two mutations never land on the same       *)
(* revision of a task, a request lands at most once, the revisions are one *)
(* history, the store keeps its promises, and evidence outlives the first  *)
(* stamp of a contract.                                                    *)
(***************************************************************************)
EXTENDS TaskAuthority, TaskStoreProofs

Asked == [pc: {"queued", "prepared", "landed", "done"}, task: Tasks, contract: Contracts,
          was: Open \cup Terminal, base: Record]

(* A mutation landed one revision after the one its request was based on,  *)
(* and the store has been there.                                           *)
Landed(m) ==
    /\ req[m.request].pc # "new"
    /\ m.task = req[m.request].task /\ m.seq = req[m.request].base.seq + 1
    /\ Reached(m.task, m.seq)

AuthInv ==
    /\ OrderInv /\ AuthTypeOK /\ NoLostMutation
    /\ \A r \in Requests : req[r].pc # "new" => req[r].task \in added
    /\ \A m \in landed : Landed(m)

LEMMA RequestTyped ==
    ASSUME AuthTypeOK, NEW r \in Requests
    PROVE  IF req[r].pc = "new" THEN req[r] = Request0 ELSE req[r] \in Asked
  BY DEF AuthTypeOK, Asked, Request0

(* A step of the store that no request takes.                              *)
LEMMA StoreKeeps ==
    ASSUME AuthInv, Kept, added \subseteq added', UNCHANGED requests,
           noted' \subseteq [task: Tasks, note: Notes]
    PROVE  AuthInv'
  <1>1. UNCHANGED <<req, outcome, landed>>
    BY DEF requests
  <1>2. OrderInv' /\ TypeOK'
    BY DEF Kept, OrderInv
  <1>3. AuthTypeOK' /\ NoLostMutation'
    BY <1>1, <1>2 DEF AuthInv, AuthTypeOK, NoLostMutation
  <1>4. ASSUME NEW m \in landed' PROVE Landed(m)'
    <2>1. Landed(m) /\ m.task \in Tasks /\ m.seq \in Nat
      BY <1>1 DEF AuthInv, AuthTypeOK
    <2>2. Reached(m.task, m.seq)'
      BY <2>1 DEF Kept, Landed
    <2>3. QED BY <1>1, <2>1, <2>2 DEF Landed
  <1>5. QED BY <1>1, <1>2, <1>3, <1>4 DEF AuthInv

(* A request takes a step that keeps its task and its base revision.       *)
LEMMA RequestKeeps ==
    ASSUME AuthInv, Kept, added \subseteq added', NEW r \in Requests, NEW q \in Asked,
           req' = [req EXCEPT ![r] = q], q.task \in added',
           req[r].pc # "new" => q.task = req[r].task /\ q.base.seq = req[r].base.seq,
           outcome' \in [Requests -> SUBSET {"applied", "rejected"}],
           landed' = landed, noted' = noted
    PROVE  AuthInv'
  <1>1. req'[r] = q /\ \A u \in Requests \ {r} : req'[u] = req[u]
    BY DEF AuthInv, AuthTypeOK
  <1>2. OrderInv' /\ TypeOK' /\ q.pc # "new"
    BY DEF Kept, OrderInv, Asked
  <1>3. AuthTypeOK'
    BY <1>2, Zenon DEF AuthInv, AuthTypeOK, Asked
  <1>4. NoLostMutation'
    BY DEF AuthInv, NoLostMutation
  <1>5. \A u \in Requests : req'[u].pc # "new" => req'[u].task \in added'
    BY <1>1 DEF AuthInv
  <1>6. ASSUME NEW m \in landed' PROVE Landed(m)'
    <2>1. Landed(m) /\ m.task \in Tasks /\ m.seq \in Nat /\ m.request \in Requests
      BY DEF AuthInv, AuthTypeOK
    <2>2. Reached(m.task, m.seq)'
      BY <2>1 DEF Kept, Landed
    <2>3. CASE m.request = r
      BY <1>1, <1>2, <2>1, <2>2, <2>3 DEF Landed
    <2>4. CASE m.request # r
      BY <1>1, <2>1, <2>2, <2>4 DEF Landed
    <2>5. QED BY <2>3, <2>4
  <1>7. QED BY <1>2, <1>3, <1>4, <1>5, <1>6 DEF AuthInv

(* Nothing happens to the store.                                           *)
LEMMA StoreStill == ASSUME AuthInv, UNCHANGED vars PROVE Kept /\ added \subseteq added'
  <1>1. UNCHANGED <<active, archive, index, op, day, added, board, released, sought, missed, crashes>>
    BY DEF vars, files, readers
  <1>2. TypeOK'
    BY <1>1 DEF AuthInv, OrderInv, TypeOK
  <1>3. QED BY <1>1, <1>2, StillOrder DEF AuthInv

(* The three ways a request goes on without a mutation.                    *)
LEMMA GotoKeeps ==
    ASSUME AuthInv, Kept, added \subseteq added', NEW r \in Requests, req[r].pc # "new",
           NEW pc \in {"queued", "prepared", "landed", "done"}, Goto(r, pc),
           outcome' \in [Requests -> SUBSET {"applied", "rejected"}],
           landed' = landed, noted' = noted
    PROVE  AuthInv'
  <1> DEFINE q == [req[r] EXCEPT !.pc = pc]
  <1>1. req[r] \in Asked /\ req[r].task \in added
    BY RequestTyped DEF AuthInv
  <1>2. q \in Asked /\ q.task = req[r].task /\ q.base = req[r].base
    BY <1>1 DEF Asked
  <1>3. req' = [req EXCEPT ![r] = q]
    BY DEF Goto
  <1> HIDE DEF q
  <1>4. QED BY <1>1, <1>2, <1>3, RequestKeeps, Zenon

LEMMA AskKeeps ==
    ASSUME AuthInv, NEW r \in Requests, NEW t \in Tasks, NEW contract \in Wanted[r],
           Ask(r, t, contract)
    PROVE  AuthInv'
  <1> DEFINE q == [pc |-> "queued", task |-> t, contract |-> contract,
                   was |-> Get(t).status, base |-> Get(t)]
  <1>1. t \in added /\ req[r].pc = "new" /\ req' = [req EXCEPT ![r] = q]
    BY DEF Ask
  <1>2. Get(t) \in Record /\ contract \in Contracts
    BY <1>1, GetTyped, AuthorityAssumption DEF AuthInv
  <1>3. q \in Asked /\ q.task = t
    BY <1>2 DEF Asked, Record
  <1> HIDE DEF q
  <1>4. Kept /\ added \subseteq added' /\ outcome' = outcome /\ landed' = landed /\ noted' = noted
    BY StoreStill DEF Ask
  <1>5. outcome \in [Requests -> SUBSET {"applied", "rejected"}]
    BY DEF AuthInv, AuthTypeOK
  <1>6. QED BY <1>1, <1>3, <1>4, <1>5, RequestKeeps, Zenon

LEMMA PrepareKeeps ==
    ASSUME AuthInv, NEW r \in Requests, Prepare(r)
    PROVE  AuthInv'
  <1> DEFINE current == Get(req[r].task)
             q == [[req[r] EXCEPT !.pc = "prepared"] EXCEPT !.base = current]
  <1>1. req[r].pc = "queued" /\ UNCHANGED vars /\ noted' = noted
    BY DEF Prepare
  <1>2. Kept /\ added \subseteq added'
    BY <1>1, StoreStill
  <1>3. outcome \in [Requests -> SUBSET {"applied", "rejected"}]
    BY DEF AuthInv, AuthTypeOK
  <1>4. req[r] \in Asked /\ req[r].task \in added
    BY <1>1, RequestTyped DEF AuthInv
  <1>5. current \in Record
    BY <1>4, GetTyped DEF AuthInv
  <1>6. CASE Goto(r, "done") /\ UNCHANGED <<outcome, landed>>
    BY <1>1, <1>2, <1>3, <1>6, GotoKeeps
  <1>7. CASE Refuse(r)
    <2>1. Goto(r, "done") /\ landed' = landed
      BY <1>7 DEF Refuse
    <2>2. outcome' \in [Requests -> SUBSET {"applied", "rejected"}]
      BY <1>3, <1>7 DEF Refuse
    <2>3. QED BY <1>1, <1>2, <2>1, <2>2, GotoKeeps
  <1>8. CASE /\ Revision(current) = Revision(req[r].base)
             /\ req' = [req EXCEPT ![r].pc = "prepared", ![r].base = current]
             /\ UNCHANGED <<outcome, landed>>
    <2>1. current.seq = req[r].base.seq
      BY <1>8 DEF Revision
    <2>2. q \in Asked /\ q.task = req[r].task /\ q.base = current
      BY <1>4, <1>5, Zenon DEF Asked
    <2>3. req' = [req EXCEPT ![r] = q]
      BY <1>8, Zenon DEF AuthInv, AuthTypeOK
    <2> HIDE DEF q, current
    <2>4. QED BY <1>2, <1>3, <1>1, <1>4, <1>8, <2>1, <2>2, <2>3, RequestKeeps, Zenon
  <1>9. QED BY <1>6, <1>7, <1>8 DEF Prepare, Conflict

LEMMA StampTyped ==
    ASSUME NEW base \in Record, NEW status \in Open \cup Terminal, NEW contract \in Contracts
    PROVE  LET new == [status |-> status, seq |-> base.seq + 1, contract |-> contract,
                       meta |-> base.meta]
           IN  new \in Record /\ new.seq = base.seq + 1
  BY DEF Record

(* What the store writes is a record, based on the newest one.             *)
LEMMA MutatedTyped ==
    ASSUME AuthInv, NEW r \in Requests, req[r].pc = "prepared", Matches(r)
    PROVE  /\ Mutated(r) \in Record
           /\ Latest(req[r].task) \in Record
           /\ Mutated(r).seq = IF FieldsOnly(r) THEN Latest(req[r].task).seq
                               ELSE Latest(req[r].task).seq + 1
           /\ req[r].base.seq = Latest(req[r].task).seq
  <1> DEFINE found == Latest(req[r].task)
             base  == req[r].base
  <1>1. req[r] \in Asked /\ req[r].task \in added
    BY RequestTyped DEF AuthInv
  <1>2. found \in Record /\ base \in Record /\ req[r].contract \in Contracts
    BY <1>1, LatestTop DEF AuthInv, Asked
  <1>3. base.seq = found.seq
    BY DEF Matches, Revision
  <1>4. NewStatus(r, found) \in Open \cup Terminal
    BY <1>2, TaskStoreAssumption DEF NewStatus, Record
  <1>5. CASE FieldsOnly(r)
    <2>1. Mutated(r) = [found EXCEPT !.status = NewStatus(r, found)]
      BY <1>5 DEF Mutated
    <2> HIDE DEF found
    <2>2. QED BY <1>2, <1>3, <1>4, <1>5, <2>1, UpdatedTyped DEF found
  <1>6. CASE ~FieldsOnly(r)
    <2>1. Mutated(r) = [status |-> NewStatus(r, found), seq |-> base.seq + 1,
                        contract |-> req[r].contract, meta |-> base.meta]
      BY <1>6 DEF Mutated
    <2>2. PICK b \in Record, status \in Open \cup Terminal, contract \in Contracts :
             b = base /\ status = NewStatus(r, found) /\ contract = req[r].contract
      BY <1>2, <1>4
    <2>3. Mutated(r) = [status |-> status, seq |-> b.seq + 1, contract |-> contract,
                        meta |-> b.meta]
      BY <2>1, <2>2, Zenon
    <2>4. Mutated(r) \in Record /\ Mutated(r).seq = b.seq + 1
      BY <2>3, StampTyped, Zenon
    <2>5. QED BY <1>2, <1>3, <1>6, <2>2, <2>4
  <1>7. QED BY <1>5, <1>6

LEMMA ReplaceTyped ==
    ASSUME TypeOK, NEW t \in Tasks, NEW rec \in Record, Replace(t, rec)
    PROVE  TypeOK'
  <1>1. active' = [active EXCEPT ![t] = rec]
        /\ UNCHANGED <<archive, index, day, added, board, released, sought, missed, crashes>>
    BY DEF Replace, Save, readers
  <1>2. op' \in {NoOp} \cup [do: {"mark", "pop", "unmark"}, task: Tasks, rec: Record]
    BY DEF Replace
  <1>3. QED BY <1>1, <1>2 DEF TypeOK

(* The compare-and-swap that succeeds, on the board or off it.             *)
LEMMA SwapOrder ==
    ASSUME AuthInv, NEW r \in Requests, req[r].pc = "prepared", Found(r), Matches(r),
           Replace(req[r].task, Mutated(r))
    PROVE  /\ Kept /\ added' = added
           /\ req[r].task \in OnBoard' /\ active'[req[r].task] = Mutated(r)
  <1> DEFINE t   == req[r].task
             rec == Mutated(r)
  <1>1. req[r] \in Asked /\ t \in added
    BY RequestTyped DEF AuthInv
  <1>2. t \in Tasks /\ TypeOK /\ OrderInv
    BY <1>1 DEF Asked, AuthInv, OrderInv
  <1>3. rec \in Record /\ Latest(t) \in Record
        /\ rec.seq = IF FieldsOnly(r) THEN Latest(t).seq ELSE Latest(t).seq + 1
    BY MutatedTyped
  <1>4. Latest(t).seq \in Nat
    BY <1>3 DEF Record
  <1>5. Idle /\ Save(t, rec) /\ UNCHANGED <<archive, index, day, added>>
        /\ op' = IF t \in OnBoard THEN NoOp ELSE [do |-> "unmark", task |-> t, rec |-> rec]
    BY DEF Replace
  <1>6. Found(r) => t \in OnBoard \/ ~FieldsOnly(r)
    BY DEF Found
  <1>7. active' = [active EXCEPT ![t] = rec] /\ active \in [Tasks -> Record \cup {Absent}]
    BY <1>2, <1>5 DEF Save, TypeOK
  <1> HIDE DEF rec
  <1>8. TypeOK'
    BY <1>2, <1>3, ReplaceTyped DEF rec
  <1>9. Kept
    <2>1. CASE t \in OnBoard
      <3>1. Latest(t) = active[t] /\ op' = NoOp
        BY <1>5, <2>1 DEF Latest, OnBoard
      <3>2. active[t].seq <= rec.seq
        <4>1. CASE FieldsOnly(r)
          BY <1>3, <1>4, <3>1, <4>1
        <4>2. CASE ~FieldsOnly(r)
          BY <1>3, <1>4, <3>1, <4>2
        <4>3. QED BY <4>1, <4>2
      <3>3. QED BY <1>2, <1>3, <1>5, <1>8, <2>1, <3>1, <3>2, RewriteOrder
    <2>2. CASE t \notin OnBoard
      <3>1. op'.do = "unmark" /\ op'.task = t
        BY <1>5, <2>2
      <3>2. Latest(t).seq < rec.seq
        <4>1. rec.seq = Latest(t).seq + 1
          BY <1>3, <1>6, <2>2, Zenon
        <4>2. QED BY <1>4, <4>1
      <3>3. QED BY <1>1, <1>2, <1>3, <1>5, <1>8, <2>2, <3>1, <3>2, ReturnOrder
    <2>3. QED BY <2>1, <2>2
  <1>10. active'[t] = rec /\ t \in OnBoard'
    BY <1>2, <1>3, <1>7, AbsentAssumption DEF OnBoard
  <1>11. QED BY <1>5, <1>9, <1>10 DEF rec

(* A mutation lands where no other has.                                    *)
LEMMA LandKeeps ==
    ASSUME AuthInv, NEW r \in Requests, req[r].pc = "prepared", Found(r), Matches(r),
           Replace(req[r].task, Mutated(r)), ~FieldsOnly(r), Goto(r, "landed"),
           landed' = landed \cup {[request |-> r, task |-> req[r].task,
                                   seq |-> req[r].base.seq + 1]},
           UNCHANGED <<outcome, noted>>
    PROVE  AuthInv'
  <1> DEFINE t == req[r].task
             n == [request |-> r, task |-> t, seq |-> req[r].base.seq + 1]
             q == [req[r] EXCEPT !.pc = "landed"]
  <1>1. req[r] \in Asked /\ t \in added /\ t \in Tasks
    BY RequestTyped DEF AuthInv, Asked
  <1>2. Kept /\ added' = added /\ t \in OnBoard' /\ active'[t] = Mutated(r)
    BY SwapOrder
  <1>3. Mutated(r).seq = req[r].base.seq + 1 /\ req[r].base.seq = Latest(t).seq
    BY MutatedTyped
  <1>4. q \in Asked /\ q.pc = "landed" /\ q.task = t /\ q.base = req[r].base
    BY <1>1 DEF Asked
  <1>5. req' = [req EXCEPT ![r] = q]
    BY DEF Goto
  <1>6. req[r].base.seq \in Nat
    BY <1>1 DEF Asked, Record
  <1>7. n \in [request: Requests, task: Tasks, seq: Nat] /\ landed' = landed \cup {n}
        /\ n.request = r /\ n.task = t /\ n.seq = req[r].base.seq + 1
    <2>1. req[r].base.seq + 1 \in Nat
      BY <1>6, NextRevision, Zenon
    <2>2. landed' = landed \cup {n}
      OBVIOUS
    <2> HIDE DEF t
    <2>3. QED BY <1>1, <2>1, <2>2
  <1>a. PICK v \in Tasks : v = t
    BY <1>1
  <1>b. PICK k \in [request: Requests, task: Tasks, seq: Nat] : k = n
    BY <1>7, Zenon
  <1>c. landed' = landed \cup {k} /\ k.request = r /\ k.task = v
        /\ k.seq = req[r].base.seq + 1
    BY <1>7, <1>a, <1>b
  <1> HIDE DEF n, q
  <1>8. req'[r] = q /\ \A u \in Requests \ {r} : req'[u] = req[u]
    BY <1>5 DEF AuthInv, AuthTypeOK
  <1>9. OrderInv' /\ TypeOK'
    BY <1>2 DEF Kept, OrderInv
  <1>10. AuthTypeOK'
    BY <1>4, <1>5, <1>7, <1>9 DEF AuthInv, AuthTypeOK, Asked
  <1>11. \A u \in Requests : req'[u].pc # "new" => req'[u].task \in added'
    BY <1>1, <1>2, <1>4, <1>8 DEF AuthInv
  <1>12. ASSUME NEW m \in landed
         PROVE  /\ m.request \in Requests /\ m.task \in Tasks /\ m.seq \in Nat
                /\ Landed(m) /\ Landed(m)'
                /\ m.task = t => m.seq # n.seq
    <2>1. m.request \in Requests /\ m.task \in Tasks /\ m.seq \in Nat /\ Landed(m)
      BY DEF AuthInv, AuthTypeOK
    <2>2. Reached(m.task, m.seq)'
      BY <1>2, <2>1 DEF Kept, Landed
    <2>3. Landed(m)'
      <3>1. CASE m.request = r
        BY <1>4, <1>8, <2>1, <2>2, <3>1 DEF Landed
      <3>2. CASE m.request # r
        BY <1>8, <2>1, <2>2, <3>2 DEF Landed
      <3>3. QED BY <3>1, <3>2
    <2>4. ASSUME m.task = t PROVE m.seq # n.seq
      <3>1. Reached(t, m.seq)
        BY <2>1, <2>4 DEF Landed
      <3>2. m.seq <= Latest(t).seq
        BY <1>1, <2>1, <3>1, LatestTop DEF AuthInv
      <3>3. n.seq = Latest(t).seq + 1 /\ Latest(t).seq \in Nat
        BY <1>3, <1>6, <1>7
      <3>4. QED BY <2>1, <3>2, <3>3, NextRevision, Zenon
    <2>5. QED BY <2>1, <2>3, <2>4
  <1>13. Landed(k)'
    <2>1. Reached(v, k.seq)'
      <3>1. v \in OnBoard' /\ k.seq = active'[v].seq /\ k.seq \in Nat
        BY <1>2, <1>3, <1>6, <1>a, <1>c
      <3>2. QED BY <3>1, NextRevision, Zenon DEF Reached
    <2>2. QED BY <1>4, <1>8, <1>a, <1>c, <2>1 DEF Landed
  <1>14. NoLostMutation'
    <2>1. ASSUME NEW l \in landed', NEW m \in landed', l.task = m.task, l.seq = m.seq
          PROVE  l.request = m.request
      <3>1. CASE l \in landed /\ m \in landed
        BY <2>1, <3>1 DEF AuthInv, NoLostMutation
      <3>2. CASE l = k /\ m = k
        BY <3>2
      <3>3. CASE l = k /\ m \in landed
        BY <1>12, <1>a, <1>b, <1>c, <2>1, <3>3
      <3>4. CASE l \in landed /\ m = k
        BY <1>12, <1>a, <1>b, <1>c, <2>1, <3>4
      <3>5. QED BY <1>c, <2>1, <3>1, <3>2, <3>3, <3>4
    <2>2. QED BY <2>1 DEF NoLostMutation
  <1>15. \A m \in landed' : Landed(m)'
    BY <1>12, <1>13, <1>c
  <1>16. QED BY <1>9, <1>10, <1>11, <1>14, <1>15 DEF AuthInv

LEMMA SwapKeeps ==
    ASSUME AuthInv, NEW r \in Requests, Swap(r)
    PROVE  AuthInv'
  <1>1. req[r].pc = "prepared" /\ noted' = noted
    BY DEF Swap
  <1>2. outcome \in [Requests -> SUBSET {"applied", "rejected"}]
    BY DEF AuthInv, AuthTypeOK
  <1>3. CASE /\ Found(r) /\ Matches(r) /\ Replace(req[r].task, Mutated(r))
             /\ Goto(r, "landed") /\ outcome' = outcome
             /\ FieldsOnly(r) /\ landed' = landed
    <2>1. Kept /\ added \subseteq added'
      BY <1>1, <1>3, SwapOrder
    <2>2. QED BY <1>1, <1>2, <1>3, <2>1, GotoKeeps
  <1>4. CASE /\ Found(r) /\ Matches(r) /\ Replace(req[r].task, Mutated(r))
             /\ Goto(r, "landed") /\ outcome' = outcome /\ ~FieldsOnly(r)
             /\ landed' = landed \cup {[request |-> r, task |-> req[r].task,
                                        seq |-> req[r].base.seq + 1]}
    BY <1>1, <1>4, LandKeeps
  <1>5. CASE Conflict(r) /\ UNCHANGED vars
    <2>1. Goto(r, "done") /\ outcome' = outcome /\ landed' = landed
      BY <1>5 DEF Conflict
    <2>2. Kept /\ added \subseteq added'
      BY <1>5, StoreStill
    <2>3. QED BY <1>1, <1>2, <2>1, <2>2, GotoKeeps
  <1>6. QED BY <1>3, <1>4, <1>5 DEF Swap

LEMMA ReportKeeps ==
    ASSUME AuthInv, NEW r \in Requests, Report(r)
    PROVE  AuthInv'
  <1>1. req[r].pc = "landed" /\ Goto(r, "done") /\ UNCHANGED vars
        /\ landed' = landed /\ noted' = noted
    BY DEF Report
  <1>2. outcome' \in [Requests -> SUBSET {"applied", "rejected"}]
    BY DEF Report, AuthInv, AuthTypeOK
  <1>3. QED BY <1>1, <1>2, StoreStill, GotoKeeps

LEMMA RestartKeeps ==
    ASSUME AuthInv, NEW r \in Requests, Restart(r)
    PROVE  AuthInv'
  <1>1. req[r].pc \in {"prepared", "landed"} /\ landed' = landed /\ noted' = noted
    BY DEF Restart
  <1>2. Goto(r, "done") \/ Goto(r, "queued")
    BY DEF Restart
  <1>3. outcome' \in [Requests -> SUBSET {"applied", "rejected"}]
    BY DEF Restart, AuthInv, AuthTypeOK
  <1>4. UNCHANGED <<active, archive, index, day, added, board, released, sought, missed>>
    BY DEF Restart, files, readers
  <1>5. (op' = NoOp \/ op' = op) /\ crashes' \in Nat
    <2>1. op' = NoOp \/ op' = op
      BY DEF Restart
    <2>2. crashes \in Nat
      BY DEF AuthInv, OrderInv, TypeOK
    <2>3. crashes' = crashes \/ crashes' = crashes + 1
      BY DEF Restart
    <2>4. QED BY <2>1, <2>2, <2>3
  <1>6. TypeOK'
    BY <1>4, <1>5 DEF AuthInv, OrderInv, TypeOK
  <1>7. Kept
    BY <1>4, <1>5, <1>6, StillOrder DEF AuthInv
  <1>8. QED BY <1>1, <1>2, <1>3, <1>4, <1>7, GotoKeeps

LEMMA MergeKeeps ==
    ASSUME AuthInv, NEW t \in Tasks, NEW note \in Notes, Merge(t, note)
    PROVE  AuthInv'
  <1> DEFINE rec == [active[t] EXCEPT !.meta = @ \cup {note}]
  <1>1. OrderInv /\ TypeOK
    BY DEF AuthInv, OrderInv
  <1>2. Idle /\ t \in OnBoard /\ Save(t, rec) /\ op' = NoOp
        /\ UNCHANGED <<archive, index, day, added, readers, crashes>>
    BY DEF Merge, Patch, Idle
  <1>3. active[t] \in Record /\ active[t].seq \in Nat
    BY <1>1, <1>2, SeqTyped
  <1>4. rec \in Record /\ rec.seq = active[t].seq
    BY <1>3 DEF Record
  <1> HIDE DEF rec
  <1>5. TypeOK'
    BY <1>1, <1>2, <1>4 DEF TypeOK, Save, readers
  <1>6. Kept
    BY <1>1, <1>2, <1>3, <1>4, <1>5, RewriteOrder
  <1>7. UNCHANGED requests /\ noted' = noted \cup {[task |-> t, note |-> note]}
    BY DEF Merge
  <1>8. noted' \subseteq [task: Tasks, note: Notes]
    BY <1>7 DEF AuthInv, AuthTypeOK
  <1>9. QED BY <1>2, <1>6, <1>7, <1>8, StoreKeeps

(* The other writers keep the types of the store.                          *)
LEMMA OthersTyped == ASSUME TypeOK, Others PROVE TypeOK' /\ added \subseteq added'
  <1>1. NewTask \in Record
    BY TaskStoreAssumption DEF NewTask, Record
  <1>2. ASSUME NEW t \in Tasks, Add(t) PROVE TypeOK' /\ added \subseteq added'
    BY <1>1, <1>2 DEF Add, Save, TypeOK, readers
  <1>3. ASSUME NEW t \in Tasks, NEW status \in Open, Update(t, status)
        PROVE  TypeOK' /\ added \subseteq added'
    <2> DEFINE rec == [active[t] EXCEPT !.status = status]
    <2>1. active[t] \in Record
      BY <1>3, SeqTyped DEF Update
    <2>2. rec \in Record
      BY <2>1, UpdatedTyped
    <2>3. Save(t, rec) /\ UNCHANGED <<archive, index, op, day, added, readers, crashes>>
      BY <1>3 DEF Update
    <2> HIDE DEF rec
    <2>4. QED BY <2>2, <2>3 DEF TypeOK, Save, readers
  <1>4. ASSUME NEW t \in Tasks, NEW status \in Closings, Close(t, status)
        PROVE  TypeOK' /\ added \subseteq added'
    <2> DEFINE rec == [active[t] EXCEPT !.status = status]
               e   == [id |-> t, day |-> day, rec |-> rec]
    <2>1. active[t] \in Record /\ status \in Terminal
      BY <1>4, SeqTyped, TaskStoreAssumption DEF Close, Terminal
    <2>2. rec \in Record
      BY <2>1, UpdatedTyped
    <2>3. e \in [id: Tasks, day: Nat, rec: Record]
      BY <2>2 DEF TypeOK
    <2>4. archive' = Append(archive, e) /\ op' = [do |-> "mark", task |-> t, rec |-> rec]
          /\ UNCHANGED <<active, index, day, added, board, released, sought, missed, crashes>>
      BY <1>4 DEF Close, readers
    <2> HIDE DEF e
    <2>5. archive' \in Seq([id: Tasks, day: Nat, rec: Record])
      BY <2>3, <2>4 DEF TypeOK
    <2>6. op' \in [do: {"mark", "pop", "unmark"}, task: Tasks, rec: Record]
      BY <2>2, <2>4
    <2> HIDE DEF rec
    <2>7. QED BY <2>4, <2>5, <2>6 DEF TypeOK
  <1>5. CASE Mark
    <2>1. op \in [do: {"mark", "pop", "unmark"}, task: Tasks, rec: Record]
      BY <1>5 DEF Mark, TypeOK, NoOp
    <2>2. op' \in [do: {"mark", "pop", "unmark"}, task: Tasks, rec: Record]
      BY <1>5, <2>1 DEF Mark
    <2>3. index' \in [Tasks -> Nat]
      BY <1>5, <2>1 DEF Mark, TypeOK
    <2>4. UNCHANGED <<active, archive, day, added, board, released, sought, missed, crashes>>
      BY <1>5 DEF Mark, readers
    <2>5. QED BY <2>2, <2>3, <2>4 DEF TypeOK
  <1>6. CASE Pop
    BY <1>6 DEF Pop, Save, TypeOK, NoOp, readers
  <1>7. CASE Unmark
    BY <1>7 DEF Unmark, TypeOK, NoOp, readers
  <1>8. CASE NextDay
    BY <1>8 DEF NextDay, TypeOK, files, readers
  <1>9. CASE Crash
    BY <1>9 DEF Crash, TypeOK, files, readers
  <1>10. QED BY <1>2, <1>3, <1>4, <1>5, <1>6, <1>7, <1>8, <1>9 DEF Others

LEMMA OthersKeep == ASSUME AuthInv, Others PROVE AuthInv'
  <1>1. OrderInv /\ TypeOK
    BY DEF AuthInv, OrderInv
  <1>2. TypeOK' /\ added \subseteq added'
    BY <1>1, OthersTyped
  <1>3. Write \/ NextDay \/ Crash
    BY DEF Others, Write
  <1>4. Kept
    <2>1. CASE Write
      BY <1>1, <1>2, <2>1, WriteOrder
    <2>2. CASE NextDay
      BY <1>1, <1>2, <2>2, StillOrder DEF NextDay, files
    <2>3. CASE Crash
      BY <1>1, <1>2, <2>3, StillOrder DEF Crash, files
    <2>4. QED BY <1>3, <2>1, <2>2, <2>3
  <1>5. UNCHANGED requests /\ noted' \subseteq [task: Tasks, note: Notes]
    BY DEF Others, AuthInv, AuthTypeOK
  <1>6. QED BY <1>2, <1>4, <1>5, StoreKeeps

LEMMA AuthStep == AuthInv /\ [AuthNext]_authVars => AuthInv'
  <1> SUFFICES ASSUME AuthInv, [AuthNext]_authVars PROVE AuthInv'
    OBVIOUS
  <1>1. CASE UNCHANGED authVars
    <2>1. UNCHANGED vars /\ UNCHANGED requests /\ noted' = noted
      BY <1>1 DEF authVars
    <2>2. noted' \subseteq [task: Tasks, note: Notes]
      BY <2>1 DEF AuthInv, AuthTypeOK
    <2>3. QED BY <2>1, <2>2, StoreStill, StoreKeeps
  <1>2. QED BY <1>1, OthersKeep, MergeKeeps, AskKeeps, PrepareKeeps, SwapKeeps, ReportKeeps,
            RestartKeeps DEF AuthNext

LEMMA InitAuth == AuthInit => AuthInv
  <1> SUFFICES ASSUME AuthInit PROVE AuthInv
    OBVIOUS
  <1>1. OrderInv /\ TypeOK
    BY InitOrder DEF AuthInit, OrderInv
  <1>2. \A r \in Requests : req[r].pc = "new"
    BY DEF AuthInit, Request0
  <1>3. AuthTypeOK /\ NoLostMutation
    BY <1>1 DEF AuthInit, AuthTypeOK, NoLostMutation
  <1>4. QED BY <1>1, <1>2, <1>3 DEF AuthInv, AuthInit

LEMMA AuthInvariant == AuthSpec => []AuthInv
  BY InitAuth, AuthStep, PTL DEF AuthSpec

(* Requests, outcomes and mutations have their types.                      *)
THEOREM AuthorityTypes == AuthSpec => []AuthTypeOK
  <1>1. AuthInv => AuthTypeOK
    BY DEF AuthInv
  <1>2. QED BY <1>1, AuthInvariant, PTL

(* compare_and_update_contract never lets two mutations of a task land on  *)
(* one revision, for any number of requests, closings, reopenings and      *)
(* deaths in between.                                                      *)
THEOREM MutationsNotLost == AuthSpec => []NoLostMutation
  <1>1. AuthInv => NoLostMutation
    BY DEF AuthInv
  <1>2. QED BY <1>1, AuthInvariant, PTL

(* A request that is delivered again after a crash lands at most once: it  *)
(* still names the revision it was based on.                               *)
THEOREM LandsOnce == AuthSpec => []RequestLandsOnce
  <1>1. AuthInv => RequestLandsOnce
    <2> SUFFICES ASSUME AuthInv, NEW m \in landed, NEW n \in landed, m.request = n.request
                 PROVE  m = n
      BY DEF RequestLandsOnce
    <2>1. m \in [request: Requests, task: Tasks, seq: Nat]
          /\ n \in [request: Requests, task: Tasks, seq: Nat]
      BY DEF AuthInv, AuthTypeOK
    <2>2. m.task = n.task /\ m.seq = n.seq
      BY DEF AuthInv, Landed
    <2>3. QED BY <2>1, <2>2
  <1>2. QED BY <1>1, AuthInvariant, PTL

-----------------------------------------------------------------------------
(* The implementation of ContractHistory                                   *)

(* A request that is reported applied, or about to be, has landed; a       *)
(* change request never prepares a swap of fields only.                    *)
Recorded(r) ==
    LET has == \E m \in landed : m.request = r
    IN /\ "applied" \in outcome[r] => has
       /\ r \notin Replans /\ req[r].pc = "landed" => has
       /\ r \notin Replans /\ req[r].pc = "prepared" => ~FieldsOnly(r)

AllRecorded == \A r \in Requests : Recorded(r)

HistoryInv == AuthInv /\ AllRecorded

LEMMA StillRecorded ==
    ASSUME HistoryInv, NEW u \in Requests, req'[u] = req[u], outcome'[u] = outcome[u],
           landed \subseteq landed'
    PROVE  Recorded(u)'
  BY DEF HistoryInv, AllRecorded, Recorded, FieldsOnly, Unchanged

(* A request that goes on without a mutation and without a report.         *)
LEMMA GoneRecorded ==
    ASSUME HistoryInv, NEW r \in Requests, NEW pc \in {"queued", "done"}, Goto(r, pc),
           outcome' = outcome \/ outcome' = [outcome EXCEPT ![r] = @ \cup {"rejected"}],
           landed' = landed
    PROVE  \A u \in Requests : Recorded(u)'
  <1>1. /\ req'[r].pc = pc /\ \A u \in Requests \ {r} : req'[u] = req[u]
        /\ \A u \in Requests \ {r} : outcome'[u] = outcome[u]
    BY DEF HistoryInv, AuthInv, AuthTypeOK, Goto, Request0
  <1>2. "applied" \in outcome'[r] => "applied" \in outcome[r]
    BY DEF HistoryInv, AuthInv, AuthTypeOK
  <1>3. Recorded(r)'
    BY <1>1, <1>2 DEF HistoryInv, AllRecorded, Recorded
  <1>4. QED BY <1>1, <1>3, StillRecorded

LEMMA PrepareRecorded ==
    ASSUME HistoryInv, NEW r \in Requests, Prepare(r)
    PROVE  \A u \in Requests : Recorded(u)'
  <1> DEFINE current == Get(req[r].task)
  <1>1. CASE Goto(r, "done") /\ UNCHANGED <<outcome, landed>>
    BY <1>1, GoneRecorded
  <1>2. CASE Refuse(r)
    BY <1>2, GoneRecorded, Zenon DEF Refuse
  <1>3. CASE /\ r \in Replans \/ ~Unchanged(r, current)
             /\ req' = [req EXCEPT ![r].pc = "prepared", ![r].base = current]
             /\ UNCHANGED <<outcome, landed>>
    <2> HIDE DEF current
    <2>1. req[r] \in Asked /\ req \in [Requests -> {Request0} \cup Asked]
      BY RequestTyped DEF HistoryInv, AuthInv, AuthTypeOK, Prepare, Asked
    <2>2. /\ req'[r].base = current /\ req'[r].contract = req[r].contract
          /\ req'[r].pc = "prepared" /\ \A u \in Requests \ {r} : req'[u] = req[u]
      BY <1>3, <2>1 DEF Asked
    <2>3. r \notin Replans => ~FieldsOnly(r)'
      BY <1>3, <2>2 DEF FieldsOnly, Unchanged
    <2>4. Recorded(r)'
      BY <1>3, <2>2, <2>3 DEF HistoryInv, AllRecorded, Recorded
    <2>5. QED BY <1>3, <2>2, <2>4, StillRecorded, Zenon
  <1>4. QED BY <1>1, <1>2, <1>3 DEF Prepare, Conflict

LEMMA SwapRecorded ==
    ASSUME HistoryInv, NEW r \in Requests, Swap(r)
    PROVE  \A u \in Requests : Recorded(u)'
  <1>1. CASE Conflict(r)
    BY <1>1, GoneRecorded DEF Conflict
  <1>2. CASE ~Conflict(r)
    <2>1. Goto(r, "landed") /\ outcome' = outcome /\ landed \subseteq landed'
      BY <1>2 DEF Swap
    <2>2. req'[r].pc = "landed" /\ \A u \in Requests \ {r} : req'[u] = req[u]
      BY <2>1 DEF HistoryInv, AuthInv, AuthTypeOK, Goto, Request0
    <2>3. r \notin Replans => \E m \in landed' : m.request = r
      <3>1. r \notin Replans => ~FieldsOnly(r)
        BY DEF HistoryInv, AllRecorded, Recorded, Swap
      <3>2. PICK n : n = [request |-> r, task |-> req[r].task, seq |-> req[r].base.seq + 1]
        BY Zenon
      <3>3. ~FieldsOnly(r) => n \in landed'
        BY <1>2, <3>2 DEF Swap
      <3>4. QED BY <3>1, <3>2, <3>3
    <2>4. Recorded(r)'
      BY <2>1, <2>2, <2>3 DEF HistoryInv, AllRecorded, Recorded
    <2>5. QED BY <2>1, <2>2, <2>4, StillRecorded
  <1>3. QED BY <1>1, <1>2

LEMMA ReportRecorded ==
    ASSUME HistoryInv, NEW r \in Requests, Report(r)
    PROVE  \A u \in Requests : Recorded(u)'
  <1>1. req[r].pc = "landed" /\ Goto(r, "done") /\ landed' = landed
    BY DEF Report
  <1>2. CASE r \in Replans
    BY <1>1, <1>2, GoneRecorded DEF Report
  <1>3. CASE r \notin Replans
    <2>1. \E m \in landed : m.request = r
      BY <1>1, <1>3 DEF HistoryInv, AllRecorded, Recorded
    <2>2. /\ req'[r].pc = "done" /\ \A u \in Requests \ {r} : req'[u] = req[u]
          /\ \A u \in Requests \ {r} : outcome'[u] = outcome[u]
      BY <1>1, <1>3 DEF HistoryInv, AuthInv, AuthTypeOK, Goto, Request0, Report
    <2>3. Recorded(r)'
      BY <1>1, <2>1, <2>2 DEF Recorded
    <2>4. QED BY <1>1, <2>2, <2>3, StillRecorded
  <1>4. QED BY <1>2, <1>3

LEMMA RecordedStep == HistoryInv /\ [AuthNext]_authVars => AllRecorded'
  <1> SUFFICES ASSUME HistoryInv, [AuthNext]_authVars PROVE \A u \in Requests : Recorded(u)'
    BY DEF AllRecorded
  <1>1. ASSUME UNCHANGED requests PROVE \A u \in Requests : Recorded(u)'
    BY <1>1, StillRecorded DEF requests
  <1>2. CASE UNCHANGED authVars
    BY <1>1, <1>2 DEF authVars
  <1>3. CASE Others \/ \E t \in Tasks, note \in Notes : Merge(t, note)
    BY <1>1, <1>3 DEF Others, Merge
  <1>4. ASSUME NEW r \in Requests, NEW t \in Tasks, NEW contract \in Wanted[r],
               Ask(r, t, contract)
        PROVE  \A u \in Requests : Recorded(u)'
    <2>1. /\ req'[r].pc = "queued" /\ \A u \in Requests \ {r} : req'[u] = req[u]
          /\ outcome' = outcome /\ landed' = landed
      BY <1>4 DEF Ask, HistoryInv, AuthInv, AuthTypeOK
    <2>2. Recorded(r)'
      BY <2>1 DEF HistoryInv, AllRecorded, Recorded
    <2>3. QED BY <2>1, <2>2, StillRecorded
  <1>5. ASSUME NEW r \in Requests, Restart(r) PROVE \A u \in Requests : Recorded(u)'
    BY <1>5, GoneRecorded DEF Restart
  <1>6. QED BY <1>2, <1>3, <1>4, <1>5, PrepareRecorded, SwapRecorded, ReportRecorded
            DEF AuthNext

LEMMA HistoryInvariant == AuthSpec => []HistoryInv
  <1>1. AuthInit => AllRecorded
    BY DEF AuthInit, AllRecorded, Recorded, Request0
  <1>2. HistoryInv <=> AuthInv /\ AllRecorded
    BY DEF HistoryInv
  <1>3. QED BY <1>1, <1>2, InitAuth, AuthStep, RecordedStep, PTL DEF AuthSpec

(* A step of the store after which every task is at the revision it was    *)
(* at, wherever its record lies.                                           *)
LEMMA SameRevision ==
    ASSUME added' = added, \A t \in added : Latest(t)'.seq = Latest(t).seq
    PROVE  RevisionOf' = RevisionOf
  BY DEF RevisionOf

LEMMA SaveRevision ==
    ASSUME OrderInv, NEW t \in added, NEW rec \in Record, Save(t, rec),
           UNCHANGED <<archive, index, added>>, rec.seq = Latest(t).seq
    PROVE  RevisionOf' = RevisionOf
  <1>1. t \in Tasks
    BY DEF OrderInv, TypeOK
  <1>2. Latest(t)' = rec /\ \A u \in added \ {t} : Latest(u)' = Latest(u)
    BY <1>1, SaveLatest
  <1>3. QED BY <1>2, SameRevision

LEMMA OthersRevision == ASSUME AuthInv, Others PROVE RevisionOf' = RevisionOf
  <1>1. OrderInv /\ TypeOK /\ active \in [Tasks -> Record \cup {Absent}]
    BY DEF AuthInv, OrderInv, TypeOK
  <1>2. ASSUME NEW t \in Tasks, Add(t) PROVE RevisionOf' = RevisionOf
    <2>1. t \notin Known /\ t \notin added /\ added' = added \cup {t}
      BY <1>1, <1>2 DEF Add, OrderInv, Known
    <2>2. active' = [u \in Tasks |-> IF u \in {t} \ Known THEN NewTask ELSE active[u]]
      BY <1>1, <1>2, <2>1, Zenon DEF Add, Save
    <2>3. {t} \in SUBSET Tasks /\ UNCHANGED <<archive, index>>
      BY <1>2 DEF Add
    <2>4. (\A u \in added : Latest(u)' = Latest(u)) /\ Latest(t)' = NewTask
      BY <1>1, <2>1, <2>2, <2>3, AddLatest, Zenon
    <2>5. NewTask.seq = 0
      BY DEF NewTask
    <2>6. QED BY <2>1, <2>4, <2>5 DEF RevisionOf
  <1>3. ASSUME NEW t \in Tasks, NEW status \in Open, Update(t, status)
        PROVE  RevisionOf' = RevisionOf
    <2> DEFINE rec == [active[t] EXCEPT !.status = status]
    <2>1. t \in OnBoard /\ t \in added /\ active[t] \in Record
      BY <1>1, <1>3, SeqTyped DEF Update, OrderInv
    <2>2. rec \in Record /\ rec.seq = active[t].seq
      BY <2>1, UpdatedTyped
    <2>3. Save(t, rec) /\ UNCHANGED <<archive, index, added>> /\ Latest(t) = active[t]
      BY <1>3, <2>1 DEF Update, Latest, OnBoard
    <2> HIDE DEF rec
    <2>4. QED BY <1>1, <2>1, <2>2, <2>3, SaveRevision
  <1>4. ASSUME NEW t \in Tasks, NEW status \in Closings, Close(t, status)
        PROVE  RevisionOf' = RevisionOf
    <2>1. status \in Terminal /\ added' = added
      BY <1>4, TaskStoreAssumption DEF Terminal, Close
    <2>2. QED BY <1>1, <1>4, <2>1, CloseLatest, SameRevision
  <1>5. CASE Mark \/ Unmark
    <2>1. added' = added
      BY <1>5 DEF Mark, Unmark
    <2>2. QED BY <1>1, <1>5, <2>1, IndexLatest, SameRevision
  <1>6. CASE Pop
    <2>1. PICK t : t = op.task
      OBVIOUS
    <2>2. /\ t \in OnBoard /\ \A u \in added \ {t} : Latest(u)' = Latest(u)
          /\ \A i \in Archived(t) :
               (\A j \in Archived(t) : j <= i) => Latest(t)' = archive[i].rec
      BY <1>1, <1>6, <2>1, PopLatest
    <2>3. PICK i \in Archived(t) :
             (\A j \in Archived(t) : j <= i) /\ SeqAt(i) = active[t].seq
      BY <1>1, <1>6, <2>1 DEF OrderInv, Closing, Pop
    <2>4. Latest(t)'.seq = active[t].seq /\ Latest(t) = active[t]
      BY <2>2, <2>3 DEF SeqAt, Latest, OnBoard
    <2>5. added' = added
      BY <1>6 DEF Pop
    <2>6. QED BY <2>2, <2>4, <2>5, SameRevision
  <1>7. CASE NextDay \/ Crash
    <2>1. UNCHANGED <<active, archive, index, added>>
      BY <1>7 DEF NextDay, Crash, files
    <2>2. QED BY <1>1, <2>1, StillLatest, SameRevision
  <1>8. QED BY <1>2, <1>3, <1>4, <1>5, <1>6, <1>7 DEF Others

LEMMA MergeRevision ==
    ASSUME AuthInv, NEW t \in Tasks, NEW note \in Notes, Merge(t, note)
    PROVE  RevisionOf' = RevisionOf
  <1> DEFINE rec == [active[t] EXCEPT !.meta = @ \cup {note}]
  <1>1. OrderInv /\ TypeOK /\ t \in OnBoard /\ t \in added /\ active[t] \in Record
    BY SeqTyped DEF AuthInv, OrderInv, Merge, Patch
  <1>2. rec \in Record /\ rec.seq = active[t].seq
    BY <1>1 DEF Record
  <1>3. Save(t, rec) /\ UNCHANGED <<archive, index, added>> /\ Latest(t) = active[t]
    BY <1>1 DEF Merge, Patch, Latest, OnBoard
  <1> HIDE DEF rec
  <1>4. QED BY <1>1, <1>2, <1>3, SaveRevision

(* A request that has landed does not land again: its mutation is one      *)
(* revision after its base, so the store is past it.                       *)
LEMMA NotTwice ==
    ASSUME AuthInv, NEW r \in Requests, req[r].pc = "prepared", Matches(r)
    PROVE  \A m \in landed : m.request # r
  <1>1. req[r] \in Asked /\ req[r].task \in added
    BY RequestTyped DEF AuthInv
  <1>2. req[r].base.seq = Latest(req[r].task).seq /\ req[r].base.seq \in Nat
    BY <1>1 DEF Matches, Revision, Asked, Record
  <1>3. ASSUME NEW m \in landed, m.request = r PROVE FALSE
    <2>1. /\ m.seq \in Nat /\ m.task = req[r].task /\ m.seq = req[r].base.seq + 1
          /\ Reached(m.task, m.seq)
      BY <1>3 DEF AuthInv, AuthTypeOK, Landed
    <2>2. m.seq <= Latest(req[r].task).seq
      BY <1>1, <2>1, LatestTop DEF AuthInv
    <2>3. QED BY <1>2, <2>1, <2>2, NextRevision, Zenon
  <1>4. QED BY <1>3

LEMMA SwapHistory ==
    ASSUME AuthInv, NEW r \in Requests, Swap(r)
    PROVE  History!Next \/ UNCHANGED History!vars
  <1> DEFINE t == req[r].task
  <1>1. req[r].pc = "prepared"
    BY DEF Swap
  <1>2. CASE Conflict(r) /\ UNCHANGED vars
    <2>1. UNCHANGED <<active, archive, index, added, outcome, landed>>
      BY <1>2 DEF Conflict, vars, files
    <2>2. RevisionOf' = RevisionOf
      BY <2>1, StillLatest, SameRevision DEF AuthInv
    <2>3. QED BY <2>1, <2>2 DEF History!vars
  <1>3. CASE ~(Conflict(r) /\ UNCHANGED vars)
    <2>1. /\ Matches(r) /\ Replace(t, Mutated(r)) /\ outcome' = outcome
          /\ landed' = IF FieldsOnly(r) THEN landed
                       ELSE landed \cup {[request |-> r, task |-> t,
                                          seq |-> req[r].base.seq + 1]}
      BY <1>3 DEF Swap
    <2>2. OrderInv /\ t \in added /\ t \in Tasks
      BY <1>1, RequestTyped DEF AuthInv, Asked
    <2>3. /\ Mutated(r) \in Record /\ req[r].base.seq = Latest(t).seq
          /\ Mutated(r).seq = IF FieldsOnly(r) THEN Latest(t).seq ELSE Latest(t).seq + 1
      BY <1>1, <2>1, MutatedTyped
    <2>4. Save(t, Mutated(r)) /\ UNCHANGED <<archive, index, added>>
      BY <2>1 DEF Replace
    <2>5. PICK u \in added, rec \in Record : u = t /\ rec = Mutated(r)
      BY <2>2, <2>3
    <2> HIDE DEF t
    <2>6. CASE FieldsOnly(r)
      <3>1. RevisionOf' = RevisionOf
        BY <2>2, <2>3, <2>4, <2>5, <2>6, SaveRevision
      <3>2. QED BY <2>1, <2>6, <3>1 DEF History!vars
    <2>7. CASE ~FieldsOnly(r)
      <3>1. Latest(u)' = rec /\ \A v \in added \ {u} : Latest(v)' = Latest(v)
        BY <2>2, <2>4, <2>5, SaveLatest
      <3>2. rec.seq = Latest(u).seq + 1 /\ RevisionOf[u] = Latest(u).seq
        BY <2>2, <2>3, <2>5, <2>7 DEF RevisionOf
      <3>3. RevisionOf' = [RevisionOf EXCEPT ![u] = @ + 1]
        BY <2>2, <2>4, <2>5, <3>1, <3>2, Zenon DEF RevisionOf
      <3>4. landed' = landed \cup {[request |-> r, task |-> u, seq |-> RevisionOf[u] + 1]}
        BY <2>1, <2>3, <2>5, <2>7, <3>2
      <3>5. r \notin History!Landed
        BY <1>1, <2>1, NotTwice DEF History!Landed
      <3>6. History!Mutate(r, u)
        BY <2>1, <3>3, <3>4, <3>5 DEF History!Mutate
      <3>7. QED BY <2>2, <2>5, <3>6 DEF History!Next
    <2>8. QED BY <2>6, <2>7
  <1>4. QED BY <1>2, <1>3

LEMMA ReportHistory ==
    ASSUME HistoryInv, NEW r \in Requests, Report(r)
    PROVE  History!Next \/ UNCHANGED History!vars
  <1>1. req[r].pc = "landed" /\ landed' = landed /\ UNCHANGED <<active, archive, index, added>>
    BY DEF Report, vars, files
  <1>2. RevisionOf' = RevisionOf
    BY <1>1, StillLatest, SameRevision DEF HistoryInv, AuthInv
  <1>3. CASE r \in Replans
    BY <1>1, <1>2, <1>3 DEF Report, History!vars
  <1>4. CASE r \notin Replans
    <2>1. r \in History!Landed
      BY <1>1, <1>4 DEF HistoryInv, AllRecorded, Recorded, History!Landed
    <2>2. \A u \in Requests : "applied" \in outcome'[u] <=> u = r \/ "applied" \in outcome[u]
      BY <1>4 DEF Report, HistoryInv, AuthInv, AuthTypeOK
    <2>3. {u \in Requests : "applied" \in outcome'[u]}
            = {u \in Requests : "applied" \in outcome[u]} \cup {r}
      BY <2>2
    <2>4. History!Acknowledge(r)
      BY <1>1, <1>2, <2>1, <2>3 DEF History!Acknowledge
    <2>5. QED BY <2>4 DEF History!Next
  <1>5. QED BY <1>3, <1>4

(* The authority implements one history per task: every revision is made   *)
(* by exactly one request, on the revision before it and without gaps, and *)
(* what is reported applied is in it. This holds for any number of         *)
(* requests, closings, reopenings, merges and deaths in between.           *)
THEOREM HistoryRefinement == AuthSpec => ImplementsHistory
  <1>1. AuthInit => History!Init
    BY DEF AuthInit, Init, History!Init, RevisionOf
  <1>2. HistoryInv /\ [AuthNext]_authVars => [History!Next]_(History!vars)
    <2> SUFFICES ASSUME HistoryInv, [AuthNext]_authVars
                 PROVE  History!Next \/ UNCHANGED History!vars
      OBVIOUS
    <2>1. AuthInv /\ OrderInv
      BY DEF HistoryInv, AuthInv
    <2>2. ASSUME RevisionOf' = RevisionOf, UNCHANGED requests
          PROVE  UNCHANGED History!vars
      BY <2>2 DEF requests, History!vars
    <2>3. CASE Others
      BY <2>1, <2>2, <2>3, OthersRevision DEF Others
    <2>4. ASSUME NEW t \in Tasks, NEW note \in Notes, Merge(t, note)
          PROVE  UNCHANGED History!vars
      BY <2>1, <2>2, <2>4, MergeRevision DEF Merge
    <2>5. ASSUME UNCHANGED <<active, archive, index, added, landed>>,
                 \A u \in Requests : "applied" \in outcome'[u] <=> "applied" \in outcome[u]
          PROVE  UNCHANGED History!vars
      <3>1. RevisionOf' = RevisionOf
        BY <2>1, <2>5, StillLatest, SameRevision
      <3>2. QED BY <2>5, <3>1 DEF History!vars
    <2>6. ASSUME NEW r \in Requests, NEW t \in Tasks, NEW contract \in Wanted[r],
                 Ask(r, t, contract)
          PROVE  UNCHANGED History!vars
      BY <2>5, <2>6 DEF Ask, vars, files
    <2>7. ASSUME NEW r \in Requests, Prepare(r)
          PROVE  UNCHANGED History!vars
      <3>1. UNCHANGED <<active, archive, index, added, landed>>
        BY <2>7 DEF Prepare, Refuse, Conflict, vars, files
      <3>2. outcome' = outcome \/ outcome' = [outcome EXCEPT ![r] = @ \cup {"rejected"}]
        BY <2>7 DEF Prepare, Refuse, Conflict
      <3>3. \A u \in Requests : "applied" \in outcome'[u] <=> "applied" \in outcome[u]
        BY <2>1, <3>2 DEF AuthInv, AuthTypeOK
      <3>4. QED BY <2>5, <3>1, <3>3
    <2>8. ASSUME NEW r \in Requests, Restart(r)
          PROVE  UNCHANGED History!vars
      BY <2>5, <2>8 DEF Restart, files
    <2>9. CASE UNCHANGED authVars
      BY <2>5, <2>9 DEF authVars, vars, files, requests
    <2>10. QED BY <2>1, <2>3, <2>4, <2>6, <2>7, <2>8, <2>9, SwapHistory, ReportHistory
               DEF AuthNext
  <1>3. QED BY <1>1, <1>2, HistoryInvariant, PTL DEF AuthSpec, ImplementsHistory, History!Spec

-----------------------------------------------------------------------------
(* What the store promises, with the authority as one of its writers       *)

LEMMA SwapAdvances ==
    ASSUME AuthInv, NEW r \in Requests, Swap(r)
    PROVE  Advances
  <1>1. req[r].pc = "prepared" /\ OrderInv
    BY DEF Swap, AuthInv
  <1>2. PICK t : t = req[r].task
    OBVIOUS
  <1>3. CASE ~(Found(r) /\ Matches(r))
    <2>1. active' = active
      BY <1>3 DEF Swap, vars, files
    <2>2. QED BY <1>1, <2>1, NothingBack
  <1>4. CASE Found(r) /\ Matches(r)
    <2>1. /\ Mutated(r) \in Record /\ Latest(t) \in Record
          /\ Mutated(r).seq = IF FieldsOnly(r) THEN Latest(t).seq ELSE Latest(t).seq + 1
      BY <1>1, <1>2, <1>4, MutatedTyped
    <2>2. Save(t, Mutated(r)) /\ t \in added
      BY <1>1, <1>2, <1>4, RequestTyped, Zenon DEF Swap, Replace, AuthInv
    <2>3. active' = [active EXCEPT ![t] = Mutated(r)] /\ active \in [Tasks -> Record \cup {Absent}]
      BY <1>1, <2>2 DEF Save, OrderInv, TypeOK
    <2>4. CASE t \in OnBoard
      <3>1. \A u \in added \ OnBoard : active'[u] \in {active[u], Absent}
        BY <1>1, <2>3, <2>4 DEF OrderInv, TypeOK
      <3>2. QED BY <1>1, <3>1, NothingBack
    <2>5. CASE t \notin OnBoard
      <3>1. ~FieldsOnly(r)
        BY <1>2, <1>4, <2>5 DEF Found
      <3>2. ASSUME NEW i \in Archived(t) PROVE SeqAt(i) < Mutated(r).seq
        <4>1. SeqAt(i) \in Nat /\ Latest(t).seq \in Nat
          BY <1>1, <2>1, <2>2, SeqTyped, Zenon DEF OrderInv, TypeOK, Record
        <4>2. SeqAt(i) <= Latest(t).seq
          BY <1>1, <2>2, LatestTop, Zenon
        <4>3. QED BY <2>1, <3>1, <4>1, <4>2
      <3>3. \A u \in added \ {t} : u \notin OnBoard => active'[u] = Absent
        BY <1>1, <2>3 DEF OnBoard, OrderInv, TypeOK
      <3>4. active'[t] = Mutated(r)
        BY <1>1, <2>2, <2>3 DEF OrderInv, TypeOK
      <3>5. QED BY <3>2, <3>3, <3>4 DEF Advances
    <2>6. QED BY <2>4, <2>5
  <1>5. QED BY <1>3, <1>4

LEMMA AuthAdvances == AuthInv /\ [AuthNext]_authVars => Advances
  <1> SUFFICES ASSUME AuthInv, [AuthNext]_authVars PROVE Advances
    OBVIOUS
  <1>1. OrderInv /\ TypeOK
    BY Zenon DEF AuthInv, OrderInv
  <1>2. ASSUME active' = active PROVE Advances
    BY <1>1, <1>2, NothingBack
  <1>3. CASE Others
    <2>1. TypeOK'
      BY <1>1, <1>3, OthersTyped
    <2>2. CASE Write
      BY <1>1, <2>1, <2>2, WriteOrder
    <2>3. CASE NextDay \/ Crash
      BY <1>2, <2>3 DEF NextDay, Crash, files
    <2>4. QED BY <1>3, <2>2, <2>3 DEF Others, Write
  <1>4. ASSUME NEW t \in Tasks, NEW note \in Notes, Merge(t, note) PROVE Advances
    <2>1. \A u \in added \ OnBoard : active'[u] \in {active[u], Absent}
      BY <1>1, <1>4 DEF Merge, Patch, Save, OrderInv, TypeOK
    <2>2. QED BY <1>1, <2>1, NothingBack
  <1>5. ASSUME NEW r \in Requests, Prepare(r) \/ Report(r) \/ Restart(r)
                 \/ \E t \in Tasks, contract \in Wanted[r] : Ask(r, t, contract)
        PROVE  Advances
    BY <1>2, <1>5 DEF Prepare, Report, Restart, Ask, vars, files
  <1>6. CASE UNCHANGED authVars
    BY <1>2, <1>6 DEF authVars, vars, files
  <1>7. QED BY <1>3, <1>4, <1>5, <1>6, SwapAdvances, Zenon DEF AuthNext

(* A replan that reopens a closed task goes through the compare-and-swap,  *)
(* not through a reopening of its own, and still gives the task a revision *)
(* later than every archived one.                                          *)
THEOREM ReplanAdvances == AuthSpec => ReopenAdvances
  <1>1. Advances =>
          (\A t \in added : t \notin OnBoard /\ active'[t] # Absent =>
             \A i \in Archived(t) : archive[i].rec.seq < active'[t].seq)
    BY DEF Advances, SeqAt
  <1>2. QED BY <1>1, AuthAdvances, AuthInvariant, PTL DEF AuthSpec, ReopenAdvances

(* Requests that are cut off while they reopen a task do not lose it: it   *)
(* is on the board or in the index.                                        *)
THEOREM AuthorityKeepsTasks == AuthSpec => []NeverVanishes
  <1>1. AuthInv => NeverVanishes
    BY DEF AuthInv, OrderInv, NeverVanishes, Known, Indexed, TypeOK
  <1>2. QED BY <1>1, AuthInvariant, PTL

-----------------------------------------------------------------------------
(* The index, with the authority as one of the writers                     *)

LEMMA IndexStill ==
    ASSUME IndexLeadsToRecord, UNCHANGED <<archive, index>>
    PROVE  IndexLeadsToRecord'
  BY DEF IndexLeadsToRecord, Indexed, Archived

LEMMA OthersIndex ==
    ASSUME OrderInv, IndexLeadsToRecord, Others
    PROVE  IndexLeadsToRecord'
  <1>1. TypeOK /\ index \in [Tasks -> Nat]
    BY DEF OrderInv, TypeOK
  <1>2. ASSUME NEW t \in Tasks, NEW status \in Closings, Close(t, status)
        PROVE  IndexLeadsToRecord'
    <2> DEFINE rec == [active[t] EXCEPT !.status = status]
               e   == [id |-> t, day |-> day, rec |-> rec]
    <2>1. active[t] \in Record /\ status \in Terminal /\ index' = index
      BY <1>1, <1>2, TaskStoreAssumption DEF TypeOK, Close, OnBoard, Terminal
    <2>2. rec \in Record
      BY <2>1 DEF Record
    <2>3. e \in [id: Tasks, day: Nat, rec: Record] /\ archive' = Append(archive, e)
      BY <1>1, <1>2, <2>2 DEF TypeOK, Close
    <2> HIDE DEF e
    <2>4. \A u \in Tasks : /\ Archived(u) \subseteq Archived(u)'
                           /\ \A i \in Archived(u) : archive'[i] = archive[i]
      BY <1>1, <2>3, OneMoreRecord
    <2>5. QED BY <2>1, <2>4 DEF IndexLeadsToRecord, Indexed
  <1>3. CASE Mark
    <2>1. PICK t : t = op.task
      OBVIOUS
    <2>2. PICK i \in Archived(t) : archive[i].day = day
      BY <1>3, <2>1 DEF Mark, OrderInv, Closing
    <2>3. archive' = archive /\ index' = [index EXCEPT ![t] = day]
      BY <1>3, <2>1 DEF Mark
    <2>4. \A u \in Tasks : Archived(u)' = Archived(u)
      BY <2>3 DEF Archived
    <2>5. QED BY <1>1, <2>2, <2>3, <2>4 DEF IndexLeadsToRecord, Indexed, Archived
  <1>4. CASE Unmark
    <2>1. archive' = archive /\ \A u \in Tasks : index'[u] \in {index[u], 0}
      BY <1>1, <1>4 DEF Unmark
    <2>2. QED BY <1>1, <2>1 DEF IndexLeadsToRecord, Indexed, Archived
  <1>5. CASE ~Mark /\ ~Unmark /\ ~\E t \in Tasks, status \in Closings : Close(t, status)
    <2>1. UNCHANGED <<archive, index>>
      BY <1>5 DEF Others, Add, Update, Pop, NextDay, Crash, files
    <2>2. QED BY <2>1, IndexStill
  <1>6. QED BY <1>2, <1>3, <1>4, <1>5

(* What the other steps write of the store.                                *)
LEMMA RequestsWrite ==
    ASSUME NEW r \in Requests, Prepare(r) \/ Swap(r) \/ Report(r) \/ Restart(r)
                 \/ \E t \in Tasks, contract \in Wanted[r] : Ask(r, t, contract)
    PROVE  UNCHANGED <<archive, index, added, noted>>
  <1>1. CASE Swap(r)
    BY <1>1 DEF Swap, Replace, vars, files
  <1>2. CASE ~Swap(r)
    BY <1>2 DEF Prepare, Report, Restart, Ask, vars, files
  <1>3. QED BY <1>1, <1>2

LEMMA IndexStep == AuthInv /\ IndexLeadsToRecord /\ [AuthNext]_authVars => IndexLeadsToRecord'
  <1> SUFFICES ASSUME AuthInv, IndexLeadsToRecord, [AuthNext]_authVars
               PROVE  IndexLeadsToRecord'
    OBVIOUS
  <1>1. CASE Others
    BY <1>1, OthersIndex DEF AuthInv
  <1>2. ASSUME NEW t \in Tasks, NEW note \in Notes, Merge(t, note) PROVE IndexLeadsToRecord'
    BY <1>2, IndexStill DEF Merge, Patch
  <1>3. ASSUME NEW r \in Requests, Prepare(r) \/ Swap(r) \/ Report(r) \/ Restart(r)
                 \/ \E t \in Tasks, contract \in Wanted[r] : Ask(r, t, contract)
        PROVE  IndexLeadsToRecord'
    <2>1. UNCHANGED <<archive, index>>
      BY <1>3, RequestsWrite, Zenon
    <2>2. QED BY <2>1, IndexStill
  <1>4. CASE UNCHANGED authVars
    BY <1>4, IndexStill DEF authVars, vars, files
  <1>5. QED BY <1>1, <1>2, <1>3, <1>4, Zenon DEF AuthNext

(* With the compare-and-swap among the writers, an index entry still leads *)
(* to a record, whatever a closing or a reopening was cut off in.          *)
THEOREM AuthorityIndexSound == AuthSpec => []IndexLeadsToRecord
  <1>1. AuthInit => IndexLeadsToRecord
    BY DEF AuthInit, Init, IndexLeadsToRecord, Indexed
  <1>2. QED BY <1>1, IndexStep, AuthInvariant, PTL DEF AuthSpec

-----------------------------------------------------------------------------
(* How long evidence is safe                                               *)

(* What EvidenceFirst needs: evidence is of a task that was added, and the *)
(* record a closing has archived carries the evidence of the board.        *)
EvidenceInv ==
    /\ AuthInv /\ ClosedInv /\ EvidenceFirst
    /\ \A n \in noted : n.task \in added

(* No lookup finds another revision, or other evidence.                    *)
SameEvidence ==
    \A t \in added : Latest(t)'.seq = Latest(t).seq /\ Latest(t)'.meta = Latest(t).meta

LEMMA EvidenceStays ==
    ASSUME EvidenceInv, SameEvidence, noted' = noted
    PROVE  EvidenceFirst'
  BY DEF EvidenceInv, SameEvidence, EvidenceFirst

LEMMA SaveEvidence ==
    ASSUME OrderInv, NEW t \in added, NEW rec \in Record, Save(t, rec),
           UNCHANGED <<archive, index>>, rec.seq = Latest(t).seq, rec.meta = Latest(t).meta
    PROVE  SameEvidence
  <1>1. t \in Tasks
    BY DEF OrderInv, TypeOK
  <1>2. Latest(t)' = rec /\ \A u \in added \ {t} : Latest(u)' = Latest(u)
    BY <1>1, SaveLatest
  <1>3. QED BY <1>2 DEF SameEvidence

LEMMA StatusOnly ==
    ASSUME NEW rec \in Record, NEW status
    PROVE  LET new == [rec EXCEPT !.status = status]
           IN  new.seq = rec.seq /\ new.meta = rec.meta
  BY DEF Record

LEMMA OthersEvidence == ASSUME AuthInv, ClosedInv, Others PROVE SameEvidence
  <1>1. OrderInv /\ TypeOK /\ active \in [Tasks -> Record \cup {Absent}]
    BY DEF AuthInv, OrderInv, TypeOK
  <1>2. ASSUME NEW t \in Tasks, Add(t) PROVE SameEvidence
    <2>1. t \notin Known /\ {t} \in SUBSET Tasks /\ UNCHANGED <<archive, index>>
      BY <1>1, <1>2 DEF Add, OrderInv, Known
    <2>2. active' = [u \in Tasks |-> IF u \in {t} \ Known THEN NewTask ELSE active[u]]
      BY <1>1, <1>2, <2>1, Zenon DEF Add, Save
    <2>3. \A u \in added : Latest(u)' = Latest(u)
      BY <1>1, <2>1, <2>2, AddLatest, Zenon
    <2>4. QED BY <2>3 DEF SameEvidence
  <1>3. ASSUME NEW t \in Tasks, NEW status \in Open, Update(t, status) PROVE SameEvidence
    <2> DEFINE rec == [active[t] EXCEPT !.status = status]
    <2>1. t \in OnBoard /\ t \in added /\ active[t] \in Record
      BY <1>1, <1>3, SeqTyped DEF Update, OrderInv
    <2>2. rec \in Record /\ rec.seq = active[t].seq /\ rec.meta = active[t].meta
      BY <2>1, UpdatedTyped, StatusOnly
    <2>3. Save(t, rec) /\ UNCHANGED <<archive, index>> /\ Latest(t) = active[t]
      BY <1>3, <2>1 DEF Update, Latest, OnBoard
    <2> HIDE DEF rec
    <2>4. QED BY <1>1, <2>1, <2>2, <2>3, SaveEvidence
  <1>4. ASSUME NEW t \in Tasks, NEW status \in Closings, Close(t, status) PROVE SameEvidence
    <2>1. status \in Terminal
      BY TaskStoreAssumption DEF Terminal
    <2>2. QED BY <1>1, <1>4, <2>1, CloseLatest DEF SameEvidence
  <1>5. CASE Mark \/ Unmark
    BY <1>1, <1>5, IndexLatest DEF SameEvidence
  <1>6. CASE Pop
    <2>1. PICK t : t = op.task
      OBVIOUS
    <2>2. /\ t \in OnBoard /\ \A u \in added \ {t} : Latest(u)' = Latest(u)
          /\ \A i \in Archived(t) :
               (\A j \in Archived(t) : j <= i) => Latest(t)' = archive[i].rec
      BY <1>1, <1>6, <2>1, PopLatest
    <2>3. PICK i \in Archived(t), status \in Terminal :
             /\ \A j \in Archived(t) : j <= i
             /\ archive[i].rec = [active[t] EXCEPT !.status = status]
      BY <1>6, <2>1 DEF ClosedInv, Pop
    <2>4. Latest(t)' = [active[t] EXCEPT !.status = status] /\ Latest(t) = active[t]
      BY <2>2, <2>3 DEF Latest, OnBoard
    <2>5. active[t] \in Record
      BY <1>1, <2>2, SeqTyped
    <2>6. Latest(t)'.seq = Latest(t).seq /\ Latest(t)'.meta = Latest(t).meta
      BY <2>4, <2>5, StatusOnly
    <2>7. QED BY <2>2, <2>6 DEF SameEvidence
  <1>7. CASE NextDay \/ Crash
    <2>1. UNCHANGED <<active, archive, index>>
      BY <1>7 DEF NextDay, Crash, files
    <2>2. QED BY <1>1, <2>1, StillLatest DEF SameEvidence
  <1>8. QED BY <1>2, <1>3, <1>4, <1>5, <1>6, <1>7 DEF Others

(* Evidence is added to what is there.                                     *)
LEMMA MergeEvidence ==
    ASSUME EvidenceInv, NEW t \in Tasks, NEW note \in Notes, Merge(t, note)
    PROVE  EvidenceFirst' /\ \A n \in noted' : n.task \in added'
  <1> DEFINE rec == [active[t] EXCEPT !.meta = @ \cup {note}]
  <1>1. OrderInv /\ TypeOK /\ t \in OnBoard /\ t \in added /\ active[t] \in Record
    BY SeqTyped DEF EvidenceInv, AuthInv, OrderInv, Merge, Patch
  <1>2. rec \in Record /\ rec.seq = active[t].seq /\ rec.meta = active[t].meta \cup {note}
    BY <1>1 DEF Record
  <1>3. Save(t, rec) /\ UNCHANGED <<archive, index, added>> /\ Latest(t) = active[t]
    BY <1>1 DEF Merge, Patch, Latest, OnBoard
  <1> HIDE DEF rec
  <1>4. Latest(t)' = rec /\ \A u \in added \ {t} : Latest(u)' = Latest(u)
    BY <1>1, <1>2, <1>3, SaveLatest
  <1>5. PICK m : m = [task |-> t, note |-> note]
    OBVIOUS
  <1>6. noted' = noted \cup {m} /\ m.task = t /\ m.note = note
    BY <1>5 DEF Merge
  <1>7. ASSUME NEW n \in noted', Latest(n.task)'.seq <= 1
        PROVE  n.note \in Latest(n.task)'.meta
    <2>1. CASE n = m
      BY <1>2, <1>4, <1>6, <2>1
    <2>2. CASE n \in noted /\ n.task = t
      BY <1>2, <1>3, <1>4, <1>7, <2>2 DEF EvidenceInv, EvidenceFirst
    <2>3. CASE n \in noted /\ n.task # t
      BY <1>4, <1>7, <2>3 DEF EvidenceInv, EvidenceFirst
    <2>4. QED BY <1>6, <2>1, <2>2, <2>3
  <1>8. \A n \in noted' : n.task \in added'
    BY <1>1, <1>3, <1>6 DEF EvidenceInv
  <1>9. QED BY <1>7, <1>8, Zenon DEF EvidenceFirst

LEMMA AtMostFirst == ASSUME NEW k \in Nat, k + 1 <= 1 PROVE k = 0 /\ k <= 1
  OBVIOUS

LEMMA MutatedFields ==
    ASSUME NEW r, ~FieldsOnly(r)
    PROVE  Mutated(r).seq = req[r].base.seq + 1 /\ Mutated(r).meta = req[r].base.meta
  BY DEF Mutated

(* A stamp writes the evidence it was prepared with. The first one is      *)
(* applied only if that is still the evidence of the task.                 *)
LEMMA SwapEvidence ==
    ASSUME EvidenceInv, NEW r \in Requests, Swap(r)
    PROVE  EvidenceFirst'
  <1>1. req[r].pc = "prepared" /\ noted' = noted /\ AuthInv /\ OrderInv
    BY DEF Swap, EvidenceInv, AuthInv
  <1>2. PICK t : t = req[r].task
    OBVIOUS
  <1>3. CASE ~(Found(r) /\ Matches(r))
    <2>1. UNCHANGED <<active, archive, index>>
      BY <1>3 DEF Swap, vars, files
    <2>2. SameEvidence
      BY <1>1, <2>1, StillLatest DEF SameEvidence
    <2>3. QED BY <1>1, <2>2, EvidenceStays
  <1>4. CASE Found(r) /\ Matches(r)
    <2>1. Save(t, Mutated(r)) /\ UNCHANGED <<archive, index>>
      BY <1>2, <1>4 DEF Swap, Replace
    <2>2. t \in added /\ t \in Tasks /\ req[r].base \in Record
      BY <1>1, <1>2, RequestTyped DEF AuthInv, Asked
    <2>3. /\ Mutated(r) \in Record /\ Latest(t) \in Record /\ req[r].base.seq = Latest(t).seq
          /\ Mutated(r).seq = IF FieldsOnly(r) THEN Latest(t).seq ELSE Latest(t).seq + 1
      BY <1>1, <1>2, <1>4, MutatedTyped
    <2>4. CASE FieldsOnly(r)
      <3>1. Mutated(r) = [Latest(t) EXCEPT !.status = NewStatus(r, Latest(t))]
        BY <1>2, <2>4 DEF Mutated
      <3>2. Mutated(r).seq = Latest(t).seq /\ Mutated(r).meta = Latest(t).meta
        BY <2>3, <3>1, StatusOnly
      <3>3. SameEvidence
        BY <1>1, <2>1, <2>2, <2>3, <3>2, SaveEvidence
      <3>4. QED BY <1>1, <3>3, EvidenceStays
    <2>5. CASE ~FieldsOnly(r)
      <3>1. Latest(t)' = Mutated(r) /\ \A u \in added \ {t} : Latest(u)' = Latest(u)
        BY <1>1, <2>1, <2>2, <2>3, SaveLatest
      <3>2. Mutated(r).seq = Latest(t).seq + 1 /\ Mutated(r).meta = req[r].base.meta
            /\ Latest(t).seq \in Nat
        BY <2>3, <2>5, MutatedFields DEF Record
      <3>3. ASSUME Mutated(r).seq <= 1
            PROVE  Mutated(r).meta = Latest(t).meta /\ Latest(t).seq <= 1
        <4>1. Latest(t).seq = 0 /\ Latest(t).seq <= 1
          BY <3>2, <3>3, AtMostFirst
        <4>2. QED BY <1>2, <1>4, <2>3, <3>2, <4>1 DEF Matches
      <3>4. ASSUME NEW n \in noted, Latest(n.task)'.seq <= 1
            PROVE  n.note \in Latest(n.task)'.meta
        <4>1. n.task \in added /\ (Latest(n.task).seq <= 1 => n.note \in Latest(n.task).meta)
          BY DEF EvidenceInv, EvidenceFirst
        <4>2. CASE n.task = t
          <5>1. Mutated(r).seq <= 1 /\ Latest(t)' = Mutated(r)
            BY <3>1, <3>4, <4>2
          <5>2. Mutated(r).meta = Latest(t).meta /\ Latest(t).seq <= 1
            BY <3>3, <5>1, Zenon
          <5>3. QED BY <4>1, <4>2, <5>1, <5>2
        <4>3. CASE n.task # t
          BY <3>1, <3>4, <4>1, <4>3
        <4>4. QED BY <4>2, <4>3
      <3>5. QED BY <1>1, <3>4, Zenon DEF EvidenceFirst
    <2>6. QED BY <2>4, <2>5
  <1>5. QED BY <1>3, <1>4

LEMMA SwapClosed ==
    ASSUME ClosedInv, NEW r \in Requests, Swap(r)
    PROVE  ClosedInv'
  <1>1. archive' = archive
    BY DEF Swap, Replace, vars, files
  <1>2. op'.do \notin {"mark", "pop"}
    <2>1. NoOp.do = "nothing" /\ op = NoOp
      BY DEF NoOp, Swap, Idle
    <2>2. op' = op \/ op' = NoOp \/ op'.do = "unmark"
      <3>1. CASE UNCHANGED vars
        BY <3>1 DEF vars
      <3>2. CASE Replace(req[r].task, Mutated(r))
        BY <3>2 DEF Replace
      <3>3. QED BY <3>1, <3>2, Zenon DEF Swap
    <2>3. QED BY <2>1, <2>2
  <1>3. QED BY <1>1, <1>2, ClosedKept

(* The steps of a request that leave the files alone.                      *)
LEMMA FilesStill ==
    ASSUME EvidenceInv, UNCHANGED <<active, archive, index, noted>>, op' \in {op, NoOp}
    PROVE  EvidenceFirst' /\ ClosedInv'
  <1>1. SameEvidence
    BY StillLatest DEF EvidenceInv, AuthInv, SameEvidence
  <1>2. NoOp.do \notin {"mark", "pop"}
    BY DEF NoOp
  <1>3. ClosedInv'
    BY <1>2, ClosedKept DEF EvidenceInv
  <1>4. QED BY <1>1, <1>3, EvidenceStays

LEMMA EvidenceStep == EvidenceInv /\ [AuthNext]_authVars => EvidenceInv'
  <1> SUFFICES ASSUME EvidenceInv, [AuthNext]_authVars PROVE EvidenceInv'
    OBVIOUS
  <1>1. AuthInv /\ ClosedInv /\ TypeOK /\ AuthInv'
    BY AuthStep DEF EvidenceInv, AuthInv, OrderInv
  <1>2. ASSUME EvidenceFirst', ClosedInv', noted' = noted, added \subseteq added'
        PROVE  EvidenceInv'
    BY <1>1, <1>2 DEF EvidenceInv
  <1>3. CASE Others
    <2>1. SameEvidence /\ noted' = noted /\ added \subseteq added'
      BY <1>1, <1>3, OthersEvidence, OthersTyped DEF Others
    <2>2. CASE Write
      BY <1>1, <1>2, <2>1, <2>2, EvidenceStays, WriteClosed
    <2>3. CASE Crash
      BY <1>1, <1>2, <2>1, <2>3, EvidenceStays, CrashClosed
    <2>4. CASE NextDay
      <3>1. UNCHANGED <<active, archive, op>>
        BY <2>4 DEF NextDay, files
      <3>2. QED BY <1>1, <1>2, <2>1, <3>1, EvidenceStays, ClosedKept
    <2>5. QED BY <1>3, <2>2, <2>3, <2>4 DEF Others, Write
  <1>4. ASSUME NEW t \in Tasks, NEW note \in Notes, Merge(t, note) PROVE EvidenceInv'
    <2>1. archive' = archive /\ op' = NoOp /\ NoOp.do \notin {"mark", "pop"}
      BY <1>4 DEF Merge, Patch, Idle, NoOp
    <2>2. ClosedInv'
      BY <1>1, <2>1, ClosedKept
    <2>3. QED BY <1>1, <1>4, <2>2, MergeEvidence DEF EvidenceInv
  <1>5. ASSUME NEW r \in Requests, Swap(r) PROVE EvidenceInv'
    <2>1. noted' = noted /\ added \subseteq added'
      BY <1>5, RequestsWrite, Zenon
    <2>2. QED BY <1>1, <1>2, <1>5, <2>1, SwapEvidence, SwapClosed
  <1>6. ASSUME UNCHANGED <<active, archive, index, added, noted>>, op' \in {op, NoOp}
        PROVE  EvidenceInv'
    BY <1>2, <1>6, FilesStill
  <1>7. ASSUME NEW r \in Requests, Prepare(r) \/ Report(r) \/ Restart(r)
                 \/ \E t \in Tasks, contract \in Wanted[r] : Ask(r, t, contract)
        PROVE  EvidenceInv'
    <2>1. UNCHANGED <<active, archive, index, added, noted>> /\ op' \in {op, NoOp}
      BY <1>7 DEF Prepare, Report, Restart, Ask, vars, files
    <2>2. QED BY <1>6, <2>1
  <1>8. CASE UNCHANGED authVars
    BY <1>6, <1>8 DEF authVars, vars, files
  <1>9. QED BY <1>3, <1>4, <1>5, <1>7, <1>8, Zenon DEF AuthNext

(* Evidence merged into a task is not rolled back by the first stamp of    *)
(* its contract, for any race of requests, merges, closings, reopenings    *)
(* and deaths: before it the compare-and-swap compares the evidence too.   *)
THEOREM EvidenceOutlivesFirstStamp == AuthSpec => []EvidenceFirst
  <1>1. AuthInit => EvidenceInv
    <2>1. AuthInit => ClosedInv
      BY DEF AuthInit, Init, ClosedInv, Archived, NoOp
    <2>2. AuthInit => EvidenceFirst /\ \A n \in noted : n.task \in added
      BY DEF AuthInit, EvidenceFirst
    <2>3. QED BY <2>1, <2>2, InitAuth DEF EvidenceInv
  <1>2. EvidenceInv => EvidenceFirst
    BY DEF EvidenceInv
  <1>3. QED BY <1>1, <1>2, EvidenceStep, PTL DEF AuthSpec
=============================================================================
