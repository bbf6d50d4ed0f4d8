------------------------ MODULE EventDeliveryProofs ------------------------
(***************************************************************************)
(* At-least-once delivery for any events, crashes and lengths of the log:  *)
(* without rotation, with a startup catch-up that does not raise and with  *)
(* watchers that start between two lines, the log and its watcher          *)
(* implement EventQueue.                                                   *)
(***************************************************************************)
EXTENDS EventDelivery, TLAPS

Must == Wake \ Limited

Undisturbed == MaxRotations = 0 /\ "starting" \notin Failing /\ QuietStart

(* A watcher that started behind a torn line stands inside it: whatever    *)
(* ends that line, it will not decode.                                     *)
PositionInFile ==
    \/ pos <= 2 * Len(active)
    \/ pos = 2 * Len(active) + 1 /\ tail # <<>> /\ (held => Len(tail) >= 2)

(* What a running watcher has passed, and must not skip, is handled.       *)
Passed ==
    \A i \in DOMAIN active :
        2 * (i - 1) < pos /\ active[i] \in Must => active[i] \in handled

IInv ==
    /\ Undisturbed
    /\ TypeOK
    /\ rotations = 0
    /\ held => tail # <<>>
    /\ \E n \in 0..Len(active) : offset = 2 * n
    /\ CursorCoversHandled
    /\ up # "down" => PositionInFile
    /\ up = "running" => Passed

(* The bytes of one event make it, the bytes of several do not decode.     *)
LEMMA LineType ==
    ASSUME NEW bytes \in Seq(Events)
    PROVE  /\ Len(bytes) = 1 => Line(bytes) \in Events
           /\ Len(bytes) # 1 => Line(bytes) = NoEvent
  BY DEF Line

(* The empty log satisfies it.                                             *)
LEMMA InitInv == Undisturbed /\ Init => IInv
  <1> SUFFICES ASSUME Undisturbed, Init PROVE IInv OBVIOUS
  <1> USE DeliveryAssumption
  <1>1. TypeOK
    <2>1. <<>> \in Seq(Events) /\ <<>> \in Seq(Events \cup {NoEvent}) OBVIOUS
    <2> QED BY <2>1 DEF Init, TypeOK
  <1>2. offset = 2 * 0 /\ 0 \in 0..Len(active) BY DEF Init
  <1>3. CursorCoversHandled BY DEF Init, CursorCoversHandled, LineBytes
  <1> QED BY <1>1, <1>2, <1>3 DEF Init, IInv

(* A line added at the end of the file keeps the invariant when it does    *)
(* not complete a torn line into an event.                                 *)
LEMMA GrownInv ==
    ASSUME IInv, NEW line \in Events \cup {NoEvent},
           tail # <<>> => line = NoEvent \/ (held /\ Len(tail) = 1),
           active' = Append(active, line), tail' = <<>>, held' = FALSE,
           archived' = archived, rotations' = rotations,
           UNCHANGED <<offset, up, pos, handled>>, crashes' \in Nat
    PROVE  IInv'
  <1> USE DeliveryAssumption
  <1>1. TypeOK'
    <2>1. <<>> \in Seq(Events) OBVIOUS
    <2>2. active' \in Seq(Events \cup {NoEvent}) BY DEF IInv, TypeOK
    <2> QED BY <2>1, <2>2 DEF IInv, TypeOK
  <1>2. /\ Len(active') = Len(active) + 1 /\ Len(active) \in Nat
        /\ DOMAIN active = 1..Len(active) /\ DOMAIN active' = 1..(Len(active) + 1)
        /\ \A i \in DOMAIN active : active'[i] = active[i]
        /\ active'[Len(active) + 1] = line
    BY DEF IInv, TypeOK
  <1>3. PICK n \in 0..Len(active) : offset = 2 * n BY DEF IInv
  <1>4. n \in 0..Len(active') /\ offset' = 2 * n BY <1>2, <1>3
  <1>5. CursorCoversHandled'
    <2> SUFFICES ASSUME NEW i \in DOMAIN active', 2 * i <= offset, active'[i] \in Must
                 PROVE  active'[i] \in handled
      BY DEF CursorCoversHandled, LineBytes, Must
    <2>1. i \in DOMAIN active BY <1>2, <1>3
    <2> QED BY <2>1, <1>2 DEF IInv, CursorCoversHandled, LineBytes, Must
  <1>6. ASSUME up # "down" PROVE PositionInFile'
    BY <1>6, <1>2 DEF IInv, PositionInFile, TypeOK
  <1>7. ASSUME up = "running" PROVE Passed'
    <2> SUFFICES ASSUME NEW i \in DOMAIN active', 2 * (i - 1) < pos, active'[i] \in Must
                 PROVE  active'[i] \in handled
      BY DEF Passed
    <2>1. CASE i \in DOMAIN active BY <2>1, <1>2, <1>7 DEF IInv, Passed
    <2>2. CASE i = Len(active) + 1
      <3>1. pos > 2 * Len(active) BY <2>2, <1>2 DEF IInv, TypeOK
      <3>2. tail # <<>> /\ (held => Len(tail) >= 2)
        BY <3>1, <1>7, <1>2 DEF IInv, PositionInFile, TypeOK
      <3>3. Len(tail) \in Nat BY DEF IInv, TypeOK
      <3>4. \A k \in Nat : k >= 2 => k # 1 OBVIOUS
      <3>5. line = NoEvent BY <3>2, <3>3, <3>4, Zenon
      <3> QED BY <3>5, <2>2, <1>2 DEF Must
    <2> QED BY <2>1, <2>2, <1>2
  <1> QED BY <1>1, <1>4, <1>5, <1>6, <1>7 DEF IInv, Undisturbed

(* A new line, or its first half.                                          *)
LEMMA AppendLineInv ==
    ASSUME IInv, NEW e \in Events, AppendLine(e)
    PROVE  IInv' /\ (\/ UNCHANGED <<active, offset, handled>>
                     \/ \E line \in Events \cup {NoEvent} :
                           active' = Append(active, line) /\ UNCHANGED <<offset, handled>>)
  <1> USE DeliveryAssumption
  <1> DEFINE bytes == Append(tail, e)
  <1>1. bytes \in Seq(Events) /\ Len(bytes) = Len(tail) + 1 /\ Len(tail) \in Nat
    BY DEF IInv, TypeOK
  <1>2. /\ ~held /\ rotations' = rotations /\ archived' = archived
        /\ UNCHANGED <<offset, up, pos, handled, crashes>>
        /\ \/ e \in Chunked /\ active' = active /\ tail' = bytes /\ held' = TRUE
           \/ active' = Append(active, Line(bytes)) /\ tail' = <<>> /\ held' = FALSE
    BY DEF IInv, AppendLine, RotateIfNeeded, Undisturbed, TypeOK
  <1>3. CASE active' = active /\ tail' = bytes /\ held' = TRUE
    <2>1. TypeOK' BY <1>1, <1>2, <1>3 DEF IInv, TypeOK
    <2>2. bytes # <<>> BY <1>1
    <2>3. (up # "down" => PositionInFile)'
      <3> SUFFICES ASSUME up # "down" PROVE PositionInFile' BY <1>2
      <3>1. CASE pos <= 2 * Len(active) BY <3>1, <1>2, <1>3 DEF PositionInFile
      <3>2. CASE pos = 2 * Len(active) + 1 /\ tail # <<>>
        <4>1. Len(tail) >= 1 BY <3>2, <1>1 DEF IInv, TypeOK
        <4> QED BY <4>1, <3>2, <2>2, <1>1, <1>2, <1>3 DEF PositionInFile
      <3> QED BY <3>1, <3>2 DEF IInv, PositionInFile
    <2> QED BY <2>1, <2>2, <2>3, <1>2, <1>3
         DEF IInv, CursorCoversHandled, Passed, Undisturbed
  <1>4. CASE active' = Append(active, Line(bytes)) /\ tail' = <<>> /\ held' = FALSE
    <2>1. Line(bytes) \in Events \cup {NoEvent} BY <1>1, LineType
    <2>2. tail # <<>> => Line(bytes) = NoEvent
      <3> SUFFICES ASSUME tail # <<>> PROVE Line(bytes) = NoEvent OBVIOUS
      <3>1. Len(tail) # 0 BY DEF IInv, TypeOK
      <3>2. Len(bytes) # 1 BY <3>1, <1>1
      <3> HIDE DEF bytes
      <3> QED BY <3>2, <1>1, LineType
    <2>3. crashes' \in Nat BY <1>2 DEF IInv, TypeOK
    <2> HIDE DEF bytes
    <2>4. IInv' BY <2>1, <2>2, <2>3, <1>2, <1>4, GrownInv
    <2> QED BY <2>1, <2>4, <1>2, <1>4
  <1> QED BY <1>2, <1>3, <1>4

(* The rest of a long line.                                                *)
LEMMA AppendRestInv ==
    ASSUME IInv, AppendRest
    PROVE  IInv' /\ \E line \in Events \cup {NoEvent} :
                       active' = Append(active, line) /\ UNCHANGED <<offset, handled>>
  <1> USE DeliveryAssumption
  <1>1. tail \in Seq(Events) /\ held BY DEF IInv, TypeOK, AppendRest
  <1>2. Line(tail) \in Events \cup {NoEvent} BY <1>1, LineType
  <1>3. Line(tail) = NoEvent \/ (held /\ Len(tail) = 1) BY <1>1, LineType
  <1>4. crashes' \in Nat BY DEF IInv, TypeOK, AppendRest
  <1>5. IInv' BY <1>2, <1>3, <1>4, GrownInv DEF AppendRest
  <1> QED BY <1>2, <1>5 DEF AppendRest

(* A line that stays torn.                                                 *)
LEMMA AppenderDiesInv ==
    ASSUME IInv, AppenderDies
    PROVE  IInv' /\ UNCHANGED <<active, offset, handled>>
  <1>1. TypeOK BY DEF IInv
  <1>2. crashes' \in Nat BY <1>1 DEF TypeOK, AppenderDies
  <1>3. TypeOK' BY <1>1, <1>2, Zenon DEF TypeOK, AppenderDies
  <1>4. PositionInFile => PositionInFile' BY DEF AppenderDies, PositionInFile
  <1> QED BY <1>3, <1>4
       DEF IInv, AppenderDies, CursorCoversHandled, Passed, Undisturbed

(* A stopped watcher owes nothing but the cursor.                          *)
LEMMA StopInv ==
    ASSUME IInv, Stop
    PROVE  IInv' /\ UNCHANGED <<active, offset, handled>>
  <1>1. TypeOK' BY DEF IInv, TypeOK, Stop, Dies, file
  <1> QED BY <1>1 DEF IInv, Stop, Dies, file, CursorCoversHandled, Undisturbed

(* A watcher that starts stands at the end of the file.                    *)
LEMMA StartWatcherInv ==
    ASSUME IInv, StartWatcher
    PROVE  IInv' /\ UNCHANGED <<active, offset, handled>>
  <1>1. FileSize \in Nat /\ Len(active) \in Nat BY DEF IInv, TypeOK, FileSize, LineBytes
  <1>2. TypeOK' BY <1>1 DEF IInv, TypeOK, StartWatcher, file
  <1>3. PositionInFile'
    BY <1>1 DEF IInv, Undisturbed, StartWatcher, file, FileSize, LineBytes, PositionInFile
  <1> QED BY <1>2, <1>3
       DEF IInv, StartWatcher, file, CursorCoversHandled, Undisturbed

-----------------------------------------------------------------------------
(* The watcher                                                             *)

(* Which lines a read from inside the file returns, and where it ends.     *)
LEMMA ReadInFile ==
    ASSUME TypeOK, NEW o \in Nat,
           o <= 2 * Len(active) \/ (o = 2 * Len(active) + 1 /\ tail # <<>>)
    PROVE  /\ o <= 2 * Len(active) => NewOffset(o) = 2 * Len(active)
           /\ o > 2 * Len(active) => NewOffset(o) = o
           /\ LinesFrom(o) \subseteq DOMAIN active
           /\ \A i \in LinesFrom(o) : active[i] \in Events
           /\ \A i \in DOMAIN active :
                 2 * (i - 1) >= o /\ active[i] \in Must => i \in LinesFrom(o)
  <1> USE DeliveryAssumption
  <1>1. Len(active) \in Nat /\ DOMAIN active = 1..Len(active) BY DEF TypeOK
  <1>2. EffectiveOffset(o) = o BY <1>1 DEF EffectiveOffset, FileSize, LineBytes
  <1>3. \A i \in DOMAIN active : active[i] \in Events \cup {NoEvent} BY DEF TypeOK
  <1>4. NoEvent \notin Must BY DEF Must
  <1> QED BY <1>1, <1>2, <1>3, <1>4 DEF NewOffset, LinesFrom, LineBytes

(* What a step of the watcher does to the log: events of it are handled    *)
(* and the cursor stays or moves to the end.                               *)
Consumed ==
    /\ active' = active
    /\ handled \subseteq handled' /\ handled' \subseteq handled \cup Content(active)
    /\ offset' = offset \/ offset' = 2 * Len(active)

(* A step of the watcher that keeps the file keeps the invariant if the    *)
(* cursor moves only when every line of the file is taken care of.         *)
LEMMA ConsumedInv ==
    ASSUME IInv, UNCHANGED file, Consumed, handled' \subseteq Events,
           crashes' \in Nat, up' \in {"down", "starting", "running"}, pos' \in Nat,
           offset' # offset =>
              \A i \in DOMAIN active : active[i] \in Must => active[i] \in handled',
           (up # "down" => PositionInFile)', (up = "running" => Passed)'
    PROVE  IInv'
  <1>1. Len(active) \in Nat /\ DOMAIN active = 1..Len(active) BY DEF IInv, TypeOK
  <1>2. PICK n \in 0..Len(active) : offset = 2 * n BY DEF IInv
  <1>3. PICK m \in 0..Len(active) : offset' = 2 * m
    <2>1. CASE offset' = offset BY <2>1, <1>2
    <2>2. CASE offset' = 2 * Len(active) BY <2>2, <1>1
    <2> QED BY <2>1, <2>2 DEF Consumed
  <1>4. TypeOK' BY <1>1, <1>3 DEF IInv, TypeOK, file
  <1>5. CursorCoversHandled'
    <2>1. CASE offset' = offset
      BY <2>1 DEF IInv, CursorCoversHandled, Consumed, LineBytes
    <2>2. CASE offset' # offset
      BY <2>2 DEF CursorCoversHandled, Consumed, LineBytes, Must
    <2> QED BY <2>1, <2>2
  <1> QED BY <1>3, <1>4, <1>5 DEF IInv, file, Undisturbed

(* A poll, complete or cut short.                                          *)
LEMMA PollInv ==
    ASSUME IInv, Poll
    PROVE  IInv' /\ Consumed
  <1> USE DeliveryAssumption
  <1>1. /\ Len(active) \in Nat /\ DOMAIN active = 1..Len(active)
        /\ TypeOK /\ up = "running" /\ UNCHANGED file /\ PositionInFile /\ Passed
    BY DEF IInv, TypeOK, Poll
  <1>2. pos \in Nat /\ offset \in Nat /\ crashes \in Nat /\ handled \subseteq Events
    BY <1>1 DEF TypeOK
  <1> DEFINE batch == LinesFrom(pos)
  <1>3. /\ NewOffset(pos) = 2 * Len(active)
        /\ batch \subseteq DOMAIN active /\ \A i \in batch : active[i] \in Events
        /\ \A i \in DOMAIN active : 2 * (i - 1) >= pos /\ active[i] \in Must => i \in batch
    <2>1. pos <= 2 * Len(active)
      BY <1>1, <1>2, ReadInFile DEF Poll, PositionInFile
    <2> QED BY <2>1, <1>1, <1>2, ReadInFile
  <1>4. PICK woken \in Woken(batch) :
           \/ /\ handled' = handled \cup EventsAt(Reactions(batch, woken))
              /\ offset' = Persisted(batch, woken, NewOffset(pos))
              /\ UNCHANGED <<up, crashes>>
           \/ /\ \E k \in 0..Len(active) : \E done \in ReactionsUntil(batch, woken, k) :
                    handled' = handled \cup EventsAt(done)
              /\ Dies
              /\ UNCHANGED offset
    BY DEF Poll
  <1> HIDE DEF batch
  <1>5. woken \subseteq batch /\ \A i \in batch : active[i] \in Must => i \in woken
    BY <1>4 DEF Woken, Must
  <1>6. pos' = 2 * Len(active) /\ pos' \in Nat BY <1>3, <1>1 DEF Poll
  <1>7. PositionInFile' BY <1>6, <1>1 DEF PositionInFile, file
  <1>8. CASE /\ handled' = handled \cup EventsAt(Reactions(batch, woken))
             /\ offset' = Persisted(batch, woken, NewOffset(pos))
             /\ UNCHANGED <<up, crashes>>
    <2>1. Reactions(batch, woken) \subseteq batch BY DEF Reactions
    <2>2. /\ EventsAt(Reactions(batch, woken)) \subseteq Content(active)
          /\ EventsAt(Reactions(batch, woken)) \subseteq Events
      BY <2>1, <1>3 DEF EventsAt, Content
    <2>3. Consumed BY <2>2, <1>8, <1>1, <1>3 DEF Consumed, Persisted, Acknowledge, file
    <2>4. \A i \in DOMAIN active : active[i] \in Must => active[i] \in handled'
      <3> SUFFICES ASSUME NEW i \in DOMAIN active, active[i] \in Must
                   PROVE  active[i] \in handled'
        OBVIOUS
      <3>1. CASE 2 * (i - 1) < pos BY <3>1, <1>1, <1>8 DEF Passed
      <3>2. CASE 2 * (i - 1) >= pos
        <4>1. i \in batch /\ woken # {} BY <3>2, <1>3, <1>5
        <4> QED BY <4>1, <1>8 DEF Reactions, EventsAt
      <3> QED BY <3>1, <3>2, <1>1, <1>2
    <2>5. Passed' BY <2>4, <1>1 DEF Passed, file
    <2>6. handled' \subseteq Events BY <2>2, <1>2, <1>8
    <2> QED BY <2>3, <2>4, <2>5, <2>6, <1>1, <1>2, <1>6, <1>7, <1>8, ConsumedInv
  <1>9. CASE /\ \E k \in 0..Len(active) : \E done \in ReactionsUntil(batch, woken, k) :
                   handled' = handled \cup EventsAt(done)
             /\ Dies
             /\ UNCHANGED offset
    <2>1. PICK k \in 0..Len(active) : \E done \in ReactionsUntil(batch, woken, k) :
             handled' = handled \cup EventsAt(done)
      BY <1>9
    <2>2. PICK done \in ReactionsUntil(batch, woken, k) :
             handled' = handled \cup EventsAt(done)
      BY <2>1
    <2>3. done \subseteq batch BY <1>5 DEF ReactionsUntil, Reactions
    <2>4. EventsAt(done) \subseteq Content(active) /\ EventsAt(done) \subseteq Events
      BY <2>3, <1>3 DEF EventsAt, Content
    <2>5. Consumed BY <2>2, <2>4, <1>9, <1>1 DEF Consumed, file
    <2>6. crashes' \in Nat /\ up' = "down" BY <1>9, <1>2 DEF Dies
    <2>7. handled' \subseteq Events BY <2>2, <2>4, <1>2
    <2> QED BY <2>5, <2>6, <2>7, <1>1, <1>6, <1>7, <1>9, ConsumedInv
  <1> QED BY <1>4, <1>8, <1>9

(* A tick, at the start or later: what the cursor has not passed is        *)
(* handled, so that every line of the file is.                             *)
LEMMA CatchUpInv ==
    ASSUME IInv, up # "down", CatchUp
    PROVE  IInv' /\ Consumed
  <1> USE DeliveryAssumption
  <1>1. /\ Len(active) \in Nat /\ DOMAIN active = 1..Len(active)
        /\ TypeOK /\ UNCHANGED <<file, pos>> /\ PositionInFile
    BY DEF IInv, TypeOK, CatchUp
  <1>2. /\ pos \in Nat /\ offset \in Nat /\ crashes \in Nat /\ handled \subseteq Events
    BY <1>1 DEF TypeOK
  <1> DEFINE batch == LinesFrom(offset)
  <1>3. PICK n \in 0..Len(active) : offset = 2 * n BY DEF IInv
  <1>4. /\ NewOffset(offset) = 2 * Len(active)
        /\ batch \subseteq DOMAIN active /\ \A i \in batch : active[i] \in Events
        /\ \A i \in DOMAIN active : 2 * (i - 1) >= offset /\ active[i] \in Must => i \in batch
    <2>1. offset <= 2 * Len(active) BY <1>1, <1>3
    <2> QED BY <2>1, <1>1, <1>2, ReadInFile
  <1>5. PositionInFile' BY <1>1 DEF PositionInFile, file
  <1>6. \/ /\ handled' = handled \cup EventsAt(batch)
           /\ offset' = NewOffset(offset)
           /\ up' = "running"
           /\ UNCHANGED crashes
        \/ /\ \E k \in 0..Len(active) :
                 handled' = handled \cup EventsAt({i \in batch : i <= k})
           /\ Dies \/ (up = "running" /\ up' = "running" /\ UNCHANGED crashes)
           /\ UNCHANGED offset
    BY DEF CatchUp, IInv, Undisturbed
  <1> HIDE DEF batch
  <1>7. CASE /\ handled' = handled \cup EventsAt(batch)
             /\ offset' = NewOffset(offset)
             /\ up' = "running"
             /\ UNCHANGED crashes
    <2>1. EventsAt(batch) \subseteq Content(active) /\ EventsAt(batch) \subseteq Events
      BY <1>4 DEF EventsAt, Content
    <2>2. Consumed BY <2>1, <1>7, <1>1, <1>4 DEF Consumed, file
    <2>3. \A i \in DOMAIN active : active[i] \in Must => active[i] \in handled'
      <3> SUFFICES ASSUME NEW i \in DOMAIN active, active[i] \in Must
                   PROVE  active[i] \in handled'
        OBVIOUS
      <3>1. CASE i <= n
        BY <3>1, <1>1, <1>3, <1>7 DEF IInv, CursorCoversHandled, LineBytes, Must
      <3>2. CASE i > n
        <4>1. 2 * (i - 1) >= offset BY <3>2, <1>1, <1>3
        <4> QED BY <4>1, <1>4, <1>7 DEF EventsAt
      <3> QED BY <3>1, <3>2, <1>1
    <2>4. Passed' BY <2>3, <1>1 DEF Passed, file
    <2>5. handled' \subseteq Events BY <2>1, <1>2, <1>7
    <2> QED BY <2>2, <2>3, <2>4, <2>5, <1>1, <1>2, <1>5, <1>7, ConsumedInv
  <1>8. CASE /\ \E k \in 0..Len(active) :
                   handled' = handled \cup EventsAt({i \in batch : i <= k})
             /\ Dies \/ (up = "running" /\ up' = "running" /\ UNCHANGED crashes)
             /\ UNCHANGED offset
    <2>1. PICK k \in 0..Len(active) :
             handled' = handled \cup EventsAt({i \in batch : i <= k})
      BY <1>8
    <2> DEFINE done == {i \in batch : i <= k}
    <2>2. EventsAt(done) \subseteq Content(active) /\ EventsAt(done) \subseteq Events
      BY <1>4 DEF EventsAt, Content
    <2>3. Consumed BY <2>1, <2>2, <1>8, <1>1 DEF Consumed, file
    <2>4. crashes' \in Nat /\ up' \in {"down", "running"} BY <1>8, <1>2 DEF Dies
    <2>5. handled' \subseteq Events BY <2>1, <2>2, <1>2
    <2>6. up' = "running" => Passed'
      <3>1. up' = "running" => Passed BY <1>8 DEF Dies, IInv
      <3> QED BY <3>1, <2>1, <1>1 DEF Passed, file
    <2> QED BY <2>3, <2>4, <2>5, <2>6, <1>1, <1>2, <1>5, <1>8, ConsumedInv
  <1> QED BY <1>6, <1>7, <1>8

-----------------------------------------------------------------------------
(* Every step keeps the invariant and is a step of the queue               *)

(* The cursor counted in lines.                                            *)
LEMMA Half == \A n \in Nat : (2 * n) \div 2 = n
  OBVIOUS

(* Steps of the log and the watcher as steps of the queue.                 *)
LEMMA PublishStep ==
    ASSUME NEW line \in Events \cup {NoEvent},
           active' = Append(active, line), UNCHANGED <<offset, handled>>
    PROVE  Queue!Next
  BY DEF Queue!Next, Queue!Publish

LEMMA StutterStep ==
    ASSUME UNCHANGED <<active, offset, handled>>
    PROVE  UNCHANGED Queue!vars
  BY DEF Queue!vars

LEMMA ConsumeStep ==
    ASSUME IInv, IInv', Consumed
    PROVE  Queue!Next
  <1>1. PICK n \in 0..Len(active) : offset = 2 * n BY DEF IInv
  <1>2. PICK m \in 0..Len(active') : offset' = 2 * m BY DEF IInv
  <1>3. Len(active) \in Nat /\ DOMAIN active = 1..Len(active) /\ active' = active
    BY DEF IInv, TypeOK, Consumed
  <1>4. offset \div LineBytes = n /\ (offset \div LineBytes)' = m
    BY <1>1, <1>2, <1>3, Half DEF LineBytes
  <1>5. n <= m BY <1>1, <1>2, <1>3 DEF Consumed
  <1>6. \A i \in 1..m : active[i] \in Wake \ Limited => active[i] \in handled'
    BY <1>2, <1>3 DEF IInv, CursorCoversHandled, LineBytes
  <1>7. handled' \subseteq handled \cup {active[i] : i \in DOMAIN active}
    BY DEF Consumed, Content
  <1>8. Queue!Consume
    BY <1>2, <1>3, <1>4, <1>5, <1>6, <1>7 DEF Queue!Consume, Consumed
  <1> QED BY <1>8 DEF Queue!Next

(* One case per action.                                                    *)
LEMMA NextStep ==
    ASSUME IInv, [Next]_vars
    PROVE  IInv' /\ [Queue!Next]_(Queue!vars)
  <1>1. ASSUME NEW e \in Events, AppendLine(e) PROVE IInv' /\ [Queue!Next]_(Queue!vars)
    BY <1>1, AppendLineInv, PublishStep, StutterStep
  <1>2. CASE AppendRest BY <1>2, AppendRestInv, PublishStep
  <1>3. CASE AppenderDies BY <1>3, AppenderDiesInv, StutterStep
  <1>4. CASE StartWatcher BY <1>4, StartWatcherInv, StutterStep
  <1>5. CASE StartupCatchUp BY <1>5, CatchUpInv, ConsumeStep DEF StartupCatchUp
  <1>6. CASE Poll BY <1>6, PollInv, ConsumeStep
  <1>7. CASE Tick BY <1>7, CatchUpInv, ConsumeStep DEF Tick
  <1>8. CASE Stop BY <1>8, StopInv, StutterStep
  <1>9. CASE UNCHANGED vars
    <2>1. IInv'
      BY <1>9 DEF IInv, vars, file, TypeOK, CursorCoversHandled, PositionInFile, Passed,
                  Undisturbed
    <2> QED BY <2>1, <1>9, StutterStep DEF vars, file
  <1> QED BY <1>1, <1>2, <1>3, <1>4, <1>5, <1>6, <1>7, <1>8, <1>9 DEF Next

(* The invariant holds in every state.                                     *)
LEMMA Invariance == Undisturbed /\ Spec => []IInv
  <1>1. Undisturbed /\ Init => IInv BY InitInv
  <1>2. IInv /\ [Next]_vars => IInv' BY NextStep
  <1> QED BY <1>1, <1>2, PTL DEF Spec

(* What is read from any offset of any file decodes, and the new offset is *)
(* one.                                                                    *)
LEMMA ReadTyped ==
    ASSUME TypeOK, NEW o \in Nat
    PROVE  /\ NewOffset(o) \in Nat
           /\ LinesFrom(o) \subseteq DOMAIN active
           /\ \A lines \in SUBSET LinesFrom(o) : EventsAt(lines) \subseteq Events
  <1>1. Len(active) \in Nat /\ DOMAIN active = 1..Len(active)
        /\ \A i \in 1..Len(active) : active[i] \in Events \cup {NoEvent}
    BY DEF TypeOK
  <1>2. EffectiveOffset(o) \in Nat
    BY DEF EffectiveOffset
  <1>3. NewOffset(o) \in Nat
    BY <1>1, <1>2 DEF NewOffset, LineBytes
  <1>4. LinesFrom(o) \subseteq DOMAIN active /\ \A i \in LinesFrom(o) : active[i] # NoEvent
    BY <1>1 DEF LinesFrom
  <1>5. QED BY <1>1, <1>3, <1>4 DEF EventsAt

LEMMA AppendTyped ==
    ASSUME TypeOK, NEW e \in Events, AppendLine(e)
    PROVE  TypeOK'
  <1>1. PICK rotate \in BOOLEAN :
          LET kept  == IF rotate THEN <<>> ELSE active
              bytes == Append(IF rotate THEN <<>> ELSE tail, e)
          IN /\ rotations' = IF rotate THEN rotations + 1 ELSE rotations
             /\ archived' = IF rotate THEN archived \o active ELSE archived
             /\ IF e \in Chunked
                THEN active' = kept /\ tail' = bytes /\ held' = TRUE
                ELSE active' = Append(kept, Line(bytes)) /\ tail' = <<>> /\ held' = FALSE
    BY DEF AppendLine, RotateIfNeeded
  <1> DEFINE Lines == Seq(Events \cup {NoEvent})
             kept  == IF rotate THEN <<>> ELSE active
             bytes == Append(IF rotate THEN <<>> ELSE tail, e)
  <1>2. archived \in Lines /\ active \in Lines /\ <<>> \in Lines
        /\ tail \in Seq(Events) /\ <<>> \in Seq(Events) /\ rotations \in Nat
    BY DEF TypeOK
  <1>3. kept \in Lines /\ bytes \in Seq(Events)
    BY <1>2
  <1>4. Line(bytes) \in Events \cup {NoEvent}
    BY <1>3, LineType
  <1>5. Append(kept, Line(bytes)) \in Lines
    BY <1>3, <1>4
  <1>6. rotations' \in Nat /\ archived' \in Lines
    BY <1>1, <1>2
  <1> HIDE DEF kept, bytes
  <1>7. active' \in Lines /\ tail' \in Seq(Events) /\ held' \in BOOLEAN
    <2>1. CASE e \in Chunked
      BY <1>1, <1>3, <2>1 DEF kept, bytes
    <2>2. CASE e \notin Chunked
      BY <1>1, <1>2, <1>5, <2>2 DEF kept, bytes
    <2>3. QED BY <2>1, <2>2
  <1>8. UNCHANGED <<offset, up, pos, handled, crashes>>
    BY DEF AppendLine
  <1>9. QED BY <1>6, <1>7, <1>8 DEF TypeOK

LEMMA PollTyped ==
    ASSUME TypeOK, Poll
    PROVE  TypeOK'
  <1> DEFINE batch == LinesFrom(pos)
  <1>1. pos \in Nat /\ offset \in Nat /\ crashes \in Nat /\ handled \subseteq Events
    BY DEF TypeOK
  <1>2. NewOffset(pos) \in Nat
        /\ \A lines \in SUBSET batch : EventsAt(lines) \subseteq Events
    BY <1>1, ReadTyped
  <1> HIDE DEF batch
  <1>3. pos' = NewOffset(pos) /\ UNCHANGED file /\ up = "running"
    BY DEF Poll
  <1>4. PICK woken \in Woken(batch) :
          \/ /\ handled' = handled \cup EventsAt(Reactions(batch, woken))
             /\ offset' = Persisted(batch, woken, NewOffset(pos))
             /\ UNCHANGED <<up, crashes>>
          \/ /\ \E k \in 0..Len(active) : \E done \in ReactionsUntil(batch, woken, k) :
                   handled' = handled \cup EventsAt(done)
             /\ Dies
             /\ UNCHANGED offset
    BY DEF Poll, batch
  <1>5. woken \subseteq batch
    BY DEF Woken
  <1>6. handled' \subseteq Events
    <2>1. CASE handled' = handled \cup EventsAt(Reactions(batch, woken))
      BY <1>1, <1>2, <2>1 DEF Reactions
    <2>2. ASSUME NEW k \in 0..Len(active), NEW done \in ReactionsUntil(batch, woken, k),
                 handled' = handled \cup EventsAt(done)
          PROVE  handled' \subseteq Events
      <3>1. done \subseteq batch
        BY <1>5 DEF ReactionsUntil, Reactions
      <3>2. QED BY <1>1, <1>2, <2>2, <3>1
    <2>3. QED BY <1>4, <2>1, <2>2
  <1>7. offset' \in Nat
    BY <1>1, <1>2, <1>4 DEF Persisted, Acknowledge
  <1>8. crashes' \in Nat /\ up' \in {"down", "starting", "running"}
    BY <1>1, <1>3, <1>4 DEF Dies
  <1>9. QED BY <1>2, <1>3, <1>6, <1>7, <1>8 DEF TypeOK, file

LEMMA CatchUpTyped ==
    ASSUME TypeOK, CatchUp
    PROVE  TypeOK'
  <1> DEFINE batch == LinesFrom(offset)
  <1>1. offset \in Nat /\ crashes \in Nat /\ handled \subseteq Events
    BY DEF TypeOK
  <1>2. NewOffset(offset) \in Nat
        /\ \A lines \in SUBSET batch : EventsAt(lines) \subseteq Events
    BY <1>1, ReadTyped
  <1>3. UNCHANGED <<file, pos>> /\ offset' \in Nat
    BY <1>1, <1>2 DEF CatchUp
  <1>4. crashes' \in Nat /\ up' \in {"down", "starting", "running"}
    BY <1>1 DEF CatchUp, Dies
  <1>5. handled' \subseteq Events
    <2>1. \E lines \in SUBSET batch : handled' = handled \cup EventsAt(lines)
      BY DEF CatchUp
    <2>2. QED BY <1>1, <1>2, <2>1
  <1>6. QED BY <1>3, <1>4, <1>5 DEF TypeOK, file

(* The log holds lines and the runtime reacts to events that decode only,  *)
(* with any rotation, failure or start behind a torn line.                 *)
THEOREM DeliveryTypes == Spec => []TypeOK
  <1>1. Init => TypeOK
    <2> SUFFICES ASSUME Init PROVE TypeOK OBVIOUS
    <2>1. <<>> \in Seq(Events) /\ <<>> \in Seq(Events \cup {NoEvent}) OBVIOUS
    <2>2. held \in BOOLEAN BY Zenon DEF Init
    <2> QED BY <2>1, <2>2, DeliveryAssumption DEF Init, TypeOK
  <1>2. ASSUME TypeOK, [Next]_vars PROVE TypeOK'
    <2>1. ASSUME NEW e \in Events, AppendLine(e) PROVE TypeOK'
      BY <1>2, <2>1, AppendTyped
    <2>2. CASE AppendRest
      <3>1. Line(tail) \in Events \cup {NoEvent} /\ active \in Seq(Events \cup {NoEvent})
        BY <1>2, LineType DEF TypeOK
      <3>2. active' \in Seq(Events \cup {NoEvent})
        BY <2>2, <3>1 DEF AppendRest
      <3>3. tail' \in Seq(Events)
        BY <2>2 DEF AppendRest
      <3>4. held' \in BOOLEAN
        BY <2>2, Zenon DEF AppendRest
      <3>5. QED BY <1>2, <2>2, <3>2, <3>3, <3>4 DEF AppendRest, TypeOK
    <2>3. CASE AppenderDies
      <3>1. crashes' \in Nat
        BY <1>2, <2>3 DEF AppenderDies, TypeOK
      <3>2. held' \in BOOLEAN
        BY <2>3, Zenon DEF AppenderDies
      <3>3. QED BY <1>2, <2>3, <3>1, <3>2, Zenon DEF AppenderDies, TypeOK
    <2>4. CASE StartWatcher
      <3>1. FileSize \in Nat
        BY <1>2 DEF TypeOK, FileSize, LineBytes
      <3>2. QED BY <1>2, <2>4, <3>1 DEF StartWatcher, TypeOK, file
    <2>5. CASE Poll
      BY <1>2, <2>5, PollTyped
    <2>6. CASE StartupCatchUp \/ Tick
      BY <1>2, <2>6, CatchUpTyped DEF StartupCatchUp, Tick
    <2>7. CASE Stop
      BY <1>2, <2>7 DEF Stop, Dies, TypeOK, file
    <2>8. CASE UNCHANGED vars
      BY <1>2, <2>8 DEF TypeOK, vars, file
    <2>9. QED BY <1>2, <2>1, <2>2, <2>3, <2>4, <2>5, <2>6, <2>7, <2>8 DEF Next
  <1>3. QED BY <1>1, <1>2, PTL DEF Spec

(* Whatever process dies wherever, the durable cursor never passes a wake  *)
(* event that was not reacted to.                                          *)
THEOREM CursorSound == Undisturbed /\ Spec => []CursorCoversHandled
  <1>1. IInv => CursorCoversHandled BY DEF IInv
  <1> QED BY <1>1, Invariance, PTL

(* The log, the cursor and the watcher implement the at-least-once queue.  *)
THEOREM DeliveryRefinement == Undisturbed /\ Spec => ImplementsQueue
  <1>1. Init => Queue!Init BY Half DEF Init, Queue!Init, LineBytes
  <1>2. IInv /\ [Next]_vars => [Queue!Next]_(Queue!vars) BY NextStep
  <1> QED BY <1>1, <1>2, Invariance, PTL DEF Spec, ImplementsQueue, Queue!Spec
=============================================================================
