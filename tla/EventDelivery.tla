--------------------------- MODULE EventDelivery ---------------------------
(***************************************************************************)
(* How an event reaches the runtime: EventLog.append with its rotation,    *)
(* read_from_offset, the EventWatcher loop of "zf start", the idle tick    *)
(* and the durable cursor in session.yaml.                                 *)
(*                                                                         *)
(* A line of the file is LineBytes long and becomes visible in one write,  *)
(* or in two when its event is in Chunked (larger than the I/O buffer).    *)
(* The watcher is single threaded, so a poll or a tick is one step, cut    *)
(* short at any event by the death of the process.                         *)
(***************************************************************************)
EXTENDS Naturals, Sequences, FiniteSets

CONSTANTS
    Events,        \* the events that may be appended
    Wake,          \* events in the wake patterns and wake_worthy
    Limited,       \* wake events under a rate limit
    Chunked,       \* events whose line reaches the file in two writes
    NoEvent,       \* the content of a line that does not decode
    Failing,       \* the catch-ups that may raise: at startup, in a running loop
    QuietStart,    \* whether a watcher starts between two lines only
    MaxRotations, MaxCrashes

ASSUME DeliveryAssumption ==
    /\ Limited \subseteq Wake /\ Wake \subseteq Events /\ Chunked \subseteq Events
    /\ NoEvent \notin Events
    /\ Failing \subseteq {"starting", "running"} /\ QuietStart \in BOOLEAN
    /\ MaxRotations \in Nat /\ MaxCrashes \in Nat

VARIABLES
    archived,  \* lines of the archive files, oldest first
    active,    \* complete lines of events.jsonl
    tail,      \* the events whose bytes follow the last newline
    held,      \* whether an appender holds the lock in the middle of a line
    offset,    \* session.yaml latest_event_offset
    up,        \* the watcher process: "down", "starting" or "running"
    pos,       \* EventWatcher._file_pos
    handled,   \* the events the runtime has reacted to
    rotations, crashes

file == <<archived, active, tail, held, rotations>>
vars == <<file, offset, up, pos, handled, crashes>>

LineBytes == 2

Content(s) == {s[i] : i \in DOMAIN s}

TypeOK ==
    /\ archived \in Seq(Events \cup {NoEvent}) /\ active \in Seq(Events \cup {NoEvent})
    /\ tail \in Seq(Events) /\ held \in BOOLEAN
    /\ offset \in Nat /\ pos \in Nat
    /\ up \in {"down", "starting", "running"}
    /\ handled \subseteq Events
    /\ rotations \in Nat /\ crashes \in Nat

Init ==
    /\ archived = <<>> /\ active = <<>> /\ tail = <<>> /\ held = FALSE
    /\ offset = 0 /\ pos = 0 /\ up = "down"
    /\ handled = {} /\ rotations = 0 /\ crashes = 0

-----------------------------------------------------------------------------
(* Appenders: any process that emits, under the lock of the log            *)

FileSize == LineBytes * Len(active) + (IF tail = <<>> THEN 0 ELSE 1)

Appended == Content(archived) \cup Content(active) \cup Content(tail)

(* The line the bytes after the last newline become: two half lines in one *)
(* do not decode.                                                          *)
Line(bytes) == IF Len(bytes) = 1 THEN bytes[1] ELSE NoEvent

(* On the first append of a day, or at the size limit, the file moves to   *)
(* the archive whole, with whatever nobody has read yet.                   *)
RotateIfNeeded(rotate) ==
    /\ rotate => rotations < MaxRotations /\ FileSize > 0
    /\ rotations' = IF rotate THEN rotations + 1 ELSE rotations
    /\ archived' = IF rotate THEN archived \o active ELSE archived

AppendLine(e) ==
    /\ ~held /\ e \notin Appended
    /\ \E rotate \in BOOLEAN :
         LET kept  == IF rotate THEN <<>> ELSE active
             bytes == Append(IF rotate THEN <<>> ELSE tail, e)
         IN /\ RotateIfNeeded(rotate)
            /\ IF e \in Chunked
               THEN active' = kept /\ tail' = bytes /\ held' = TRUE
               ELSE active' = Append(kept, Line(bytes)) /\ tail' = <<>> /\ held' = FALSE
    /\ UNCHANGED <<offset, up, pos, handled, crashes>>

(* The second write of a long line.                                        *)
AppendRest ==
    /\ held
    /\ active' = Append(active, Line(tail))
    /\ tail' = <<>>
    /\ held' = FALSE
    /\ UNCHANGED <<archived, rotations, offset, up, pos, handled, crashes>>

(* The appender dies in the middle of a line and the lock is released.     *)
AppenderDies ==
    /\ held /\ crashes < MaxCrashes
    /\ held' = FALSE
    /\ crashes' = crashes + 1
    /\ UNCHANGED <<archived, active, tail, rotations, offset, up, pos, handled>>

-----------------------------------------------------------------------------
(* read_from_offset                                                        *)

(* A cursor past the end is taken for one of the file before a rotation.   *)
EffectiveOffset(o) == IF o <= FileSize THEN o ELSE 0

(* Only what ends in a newline is consumed.                                *)
NewOffset(o) ==
    IF LineBytes * Len(active) > EffectiveOffset(o) THEN LineBytes * Len(active)
    ELSE EffectiveOffset(o)

(* Mutant of LinesFrom: a line that does not decode is passed on.          *)
LinesFromRaw(o) == {i \in 1..Len(active) : LineBytes * (i - 1) >= EffectiveOffset(o)}

(* The lines read from an offset that decode. Reading from inside a line   *)
(* loses that line: its rest does not decode.                              *)
LinesFrom(o) ==
    {i \in 1..Len(active) : LineBytes * (i - 1) >= EffectiveOffset(o) /\ active[i] # NoEvent}

EventsAt(lines) == {active[i] : i \in lines}

-----------------------------------------------------------------------------
(* The watcher process                                                     *)

(* The process dies now, which is bounded.                                 *)
Dies == crashes < MaxCrashes /\ crashes' = crashes + 1 /\ up' = "down"

(* The lines of a batch that wake the runtime: the rate limiter decides    *)
(* for every limited event, the other wake events do.                      *)
Woken(batch) ==
    {w \in SUBSET {i \in batch : active[i] \in Wake} :
        \A i \in batch : active[i] \in Wake \ Limited => i \in w}

(* What a whole batch leads to: every wake event is pushed as it is read,  *)
(* then the rest in one run_once; nothing when no event of it wakes.       *)
Reactions(batch, woken) == IF woken = {} THEN {} ELSE batch

(* What it has led to when the process dies at the k-th line, either while *)
(* pushing the wake events or in the run_once for the rest.                *)
ReactionsUntil(batch, woken, k) ==
    {{i \in woken : i <= k}} \cup
    {woken \cup {i \in r : i <= k} : r \in {Reactions(batch, woken)}}

(* acknowledge_consumed_offset never goes back.                            *)
Acknowledge(new) == IF new > offset THEN new ELSE offset

(* Mutant of Persisted: the boundary of the batch before.                  *)
PersistedPrevious(batch, woken, new) == IF woken = {} THEN offset ELSE pos

(* The cursor after a batch: untouched if no event of it woke the runtime, *)
(* acknowledged if all did, while run_once with the rest of the batch      *)
(* writes the boundary as it is.                                           *)
Persisted(batch, woken, new) ==
    IF woken = {} THEN offset
    ELSE IF batch \subseteq woken THEN Acknowledge(new) ELSE new

(* poll_once: on_event for every event, then on_batch_consumed.            *)
Poll ==
    /\ up = "running"
    /\ NewOffset(pos) # pos
    /\ pos' = NewOffset(pos)
    /\ LET batch == LinesFrom(pos)
       IN \E woken \in Woken(batch) :
            \/ /\ handled' = handled \cup EventsAt(Reactions(batch, woken))
               /\ offset' = Persisted(batch, woken, NewOffset(pos))
               /\ UNCHANGED <<up, crashes>>
            \/ /\ \E k \in 0..Len(active) : \E done \in ReactionsUntil(batch, woken, k) :
                     handled' = handled \cup EventsAt(done)
               /\ Dies
               /\ UNCHANGED offset
    /\ UNCHANGED file

(* run_once without events: everything from the durable cursor on, then    *)
(* the new cursor. The exception of a handler is reported and swallowed.   *)
CatchUp ==
    LET batch == LinesFrom(offset)
    IN /\ \/ /\ handled' = handled \cup EventsAt(batch)
             /\ offset' = NewOffset(offset)
             /\ up' = "running"
             /\ UNCHANGED crashes
          \/ /\ \E k \in 0..Len(active) :
                   handled' = handled \cup EventsAt({i \in batch : i <= k})
             /\ \/ up \in Failing /\ up' = "running" /\ UNCHANGED crashes
                \/ Dies
             /\ UNCHANGED offset
       /\ UNCHANGED <<file, pos>>

Tick == up = "running" /\ CatchUp

(* zf stop, or a kill between two polls.                                   *)
Stop ==
    /\ up # "down"
    /\ Dies
    /\ UNCHANGED <<file, offset, pos, handled>>

(* Mutant of StartWatcher: no catch-up before the loop.                    *)
StartWatcherAtEnd ==
    /\ up = "down"
    /\ up' = "running"
    /\ pos' = FileSize
    /\ UNCHANGED <<file, offset, handled, crashes>>

(* zf start: the watcher starts at the end of the file, then one tick      *)
(* catches up with what was written while no watcher ran.                  *)
StartWatcher ==
    /\ up = "down"
    /\ QuietStart => ~held
    /\ up' = "starting"
    /\ pos' = FileSize
    /\ UNCHANGED <<file, offset, handled, crashes>>

(* Mutant of StartupCatchUp: it waits for the end of a torn line.          *)
StartupCatchUpWaits ==
    up = "starting" /\ IF tail = <<>> THEN CatchUp ELSE UNCHANGED vars

StartupCatchUp == up = "starting" /\ CatchUp

Next ==
    \/ \E e \in Events : AppendLine(e)
    \/ AppendRest \/ AppenderDies
    \/ StartWatcher \/ StartupCatchUp \/ Poll \/ Tick \/ Stop

Spec == Init /\ [][Next]_vars

(* zf start loops over polls and ticks, whoever runs zf starts it again    *)
(* after a death and an appender that lives finishes its line.             *)
Fairness ==
    /\ WF_vars(StartWatcher) /\ WF_vars(StartupCatchUp)
    /\ WF_vars(Poll) /\ WF_vars(Tick) /\ WF_vars(AppendRest)

FairSpec == Spec /\ Fairness

-----------------------------------------------------------------------------
(* Properties                                                              *)

(* What the watcher promises: a queue that delivers at least once.         *)
Queue == INSTANCE EventQueue WITH
            Items <- Events \cup {NoEvent}, Must <- Wake \ Limited,
            log <- active, acked <- offset \div LineBytes, done <- handled

(* Without rotation and with a startup catch-up that does not raise, the   *)
(* log, the cursor and the watcher together are that queue, whichever      *)
(* poll, tick or append a process dies in.                                 *)
ImplementsQueue == Queue!Spec

(* The cursor never passes a wake event that was not reacted to, whatever  *)
(* the process dies in the middle of: _process_watched_batch acknowledges  *)
(* a boundary only when nothing that must wake the runtime is lost by it.  *)
CursorCoversHandled ==
    \A i \in DOMAIN active :
        LineBytes * i <= offset /\ active[i] \in Wake \ Limited => active[i] \in handled

(* Every wake event in the log is reacted to, sooner or later, although    *)
(* the watcher may be down when it is written, die while it handles it or  *)
(* fail in a tick (the startup catch-up of _run_startup_orchestrator_      *)
(* catchup reads what was written while no watcher ran).                   *)
Delivered ==
    \A e \in Wake \ Limited :
        e \in Content(archived) \cup Content(active) ~> e \in handled
=============================================================================
