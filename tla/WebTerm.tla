------------------------------ MODULE WebTerm ------------------------------
(***************************************************************************)
(* webterm_demo: one terminal connection, from the upgrade to its end.     *)
(*                                                                         *)
(* The task of handle_socket bridges a WebSocket and a PTY and records     *)
(* both directions; a reader thread and a control thread stand between the *)
(* task and the child process, with one unbounded channel each.  A piece   *)
(* of input or output is a number: the first one is 1, and so on.          *)
(***************************************************************************)
EXTENDS Integers, Sequences, FiniteSets

CONSTANTS
  MaxOut,     \* bound: pieces written by the child
  MaxIn,      \* bound: messages sent by the browser
  TtyRoom,    \* input the terminal holds before a write to it blocks
  MaxMs       \* bound: the clock of now_ms

VARIABLES
  pc,         \* where handle_socket stands
  piece,      \* the event it has in hand: {} or {[direction, id]}
  row,        \* terminal_sessions: "none", "open" or "ended"
  events,     \* session_events, in the order of their ids
  child,      \* the process: "none", "runs", "exited" or "killed"
  written,    \* pieces the child has written to the PTY
  tty,        \* pieces of input that the child has not read yet
  fed,        \* the ids of all input written to the terminal
  taken,      \* pieces the reader thread has read
  output,     \* its channel
  eof,        \* it has ended and dropped its sender
  control,    \* the channel of the control thread
  threadOn,   \* the control thread runs
  sent,       \* messages sent by the browser
  inbox,      \* those the task has not read
  peer,       \* the browser is connected
  shown,      \* pieces that reached the screen
  ms,         \* the wall clock in milliseconds
  failed      \* history: events whose INSERT failed

task == <<pc, piece>>
db == <<row, events>>
proc == <<child, written>>
term == <<tty, fed>>
reader == <<taken, output, eof>>
ctl == <<control, threadOn>>
user == <<sent, inbox, peer, shown>>
vars == <<task, db, proc, term, reader, ctl, user, ms, failed>>

Event(d, i) == [direction |-> d, id |-> i]
Msg(t, i) == [type |-> t, id |-> i]

(* What the control thread is sent; a shutdown and a resize bear no data. *)
PtyControl == [type : {"input", "resize", "shutdown"}, id : 0..MaxIn]

TypeOK ==
  /\ pc \in {"new", "spawned", "loop", "recording", "sending", "ending", "closed"}
  /\ row \in {"none", "open", "ended"}
  /\ child \in {"none", "runs", "exited", "killed"}
  /\ written \in 0..MaxOut /\ taken \in 0..written /\ shown \in 0..taken
  /\ tty \in 0..TtyRoom /\ sent \in 0..MaxIn /\ ms \in 0..MaxMs
  /\ {eof, threadOn, peer} \subseteq BOOLEAN
  /\ control \in Seq(PtyControl)

Init ==
  /\ pc = "new" /\ piece = {} /\ row = "none" /\ events = <<>>
  /\ child = "none" /\ written = 0 /\ tty = 0 /\ fed = <<>>
  /\ taken = 0 /\ output = <<>> /\ eof = FALSE
  /\ control = <<>> /\ threadOn = FALSE
  /\ sent = 0 /\ inbox = <<>> /\ peer = TRUE /\ shown = 0
  /\ ms = 0 /\ failed = {}

(* write_input, resize and shutdown: an error of the send, when the thread *)
(* is gone, is ignored.                                                    *)
Command(type, i) == control' = Append(control, Msg(type, i))

-----------------------------------------------------------------------------
(* PtyBridge::spawn: the child and the two threads; or openpty fails. *)
Spawned ==
  /\ pc = "new"
  /\ pc' = "spawned" /\ child' = "runs" /\ threadOn' = TRUE
  /\ UNCHANGED <<piece, db, written, term, reader, control, user, ms, failed>>

SpawnFails ==
  /\ pc = "new"
  /\ pc' = "closed"
  /\ UNCHANGED <<piece, db, proc, term, reader, ctl, user, ms, failed>>

(* start_session. *)
SessionStarted ==
  /\ pc = "spawned"
  /\ pc' = "loop" /\ row' = "open"
  /\ UNCHANGED <<piece, events, proc, term, reader, ctl, user, ms, failed>>

(* No audit row, no session: the child is shut down at once. *)
AuditUnavailable ==
  /\ pc = "spawned"
  /\ pc' = "closed"
  /\ Command("shutdown", 0)
  /\ UNCHANGED <<piece, db, proc, term, reader, threadOn, user, ms, failed>>

-----------------------------------------------------------------------------
(* select!, downstream: next_output yields a piece ... *)
TakeOutput ==
  /\ pc = "loop"
  /\ output # <<>>
  /\ piece' = {Event("output", Head(output))} /\ output' = Tail(output)
  /\ pc' = "recording"
  /\ UNCHANGED <<db, proc, term, taken, eof, ctl, user, ms, failed>>

(* Mutant of OutputEnds: the loop leaves when the child has exited. *)
OutputEndsAtExit ==
  /\ pc = "loop"
  /\ child # "runs"
  /\ pc' = "ending"
  /\ UNCHANGED <<piece, db, proc, term, reader, ctl, user, ms, failed>>

(* ... or None, when the channel is empty and its sender dropped. *)
OutputEnds ==
  /\ pc = "loop"
  /\ output = <<>> /\ eof
  /\ pc' = "ending"
  /\ UNCHANGED <<piece, db, proc, term, reader, ctl, user, ms, failed>>

(* select!, upstream: an input is to be recorded first.                    *)
TakeInput ==
  /\ pc = "loop"
  /\ inbox # <<>> /\ Head(inbox).type = "input"
  /\ piece' = {Event("input", Head(inbox).id)} /\ inbox' = Tail(inbox)
  /\ pc' = "recording"
  /\ UNCHANGED <<db, proc, term, reader, ctl, sent, peer, shown, ms, failed>>

(* A resize goes to the control thread and is not recorded; a message that *)
(* does not parse is answered, and the connection kept.                    *)
TakeOther ==
  /\ pc = "loop"
  /\ inbox # <<>> /\ Head(inbox).type \in {"resize", "bad"}
  /\ IF Head(inbox).type = "resize"
     THEN Command("resize", 0) ELSE UNCHANGED control
  /\ inbox' = Tail(inbox)
  /\ UNCHANGED <<task, db, proc, term, reader, threadOn, sent, peer, shown, ms, failed>>

(* Close, an error, or the end of the stream. *)
BrowserLeft ==
  /\ pc = "loop"
  /\ inbox = <<>> /\ ~peer
  /\ pc' = "ending"
  /\ UNCHANGED <<piece, db, proc, term, reader, ctl, user, ms, failed>>

(* After the record, whether it succeeded or not: output goes to the       *)
(* browser, input to the control thread.                                   *)
Pass(e) ==
  IF e.direction = "output"
  THEN pc' = "sending" /\ UNCHANGED <<piece, control>>
  ELSE /\ pc' = "loop" /\ piece' = {}
       /\ Command("input", e.id)

(* Mutant of RecordOk: it is not awaited, and does not happen. *)
RecordOkNot ==
  /\ pc = "recording"
  /\ \E e \in piece : Pass(e)
  /\ UNCHANGED <<db, proc, term, reader, threadOn, user, ms, failed>>

(* record_event with now_ms(). *)
RecordOk ==
  /\ pc = "recording"
  /\ \E e \in piece : Pass(e) /\ events' = Append(events, [event |-> e, at_ms |-> ms])
  /\ UNCHANGED <<row, proc, term, reader, threadOn, user, ms, failed>>

(* The INSERT fails: that is logged, and the loop goes on as before. *)
RecordFails ==
  /\ pc = "recording"
  /\ \E e \in piece : Pass(e) /\ failed' = failed \cup {e}
  /\ UNCHANGED <<db, proc, term, reader, threadOn, user, ms>>

(* sender.send: the screen shows the piece, or the browser is gone. *)
SendOutput ==
  /\ pc = "sending"
  /\ peer
  /\ shown' = shown + 1
  /\ pc' = "loop" /\ piece' = {}
  /\ UNCHANGED <<db, proc, term, reader, ctl, sent, inbox, peer, ms, failed>>

SendFails ==
  /\ pc = "sending"
  /\ ~peer
  /\ pc' = "ending" /\ piece' = {}
  /\ UNCHANGED <<db, proc, term, reader, ctl, user, ms, failed>>

(* Mutant of Ends: without end_session. *)
EndsOpen ==
  /\ pc = "ending"
  /\ Command("shutdown", 0)
  /\ pc' = "closed"
  /\ UNCHANGED <<piece, db, proc, term, reader, threadOn, user, ms, failed>>

(* Shutdown, then end_session, whose failure is only logged.  The return   *)
(* of handle_socket drops the bridge: the control channel gets no more.    *)
Ends ==
  /\ pc = "ending"
  /\ Command("shutdown", 0)
  /\ \/ row' = "ended" /\ UNCHANGED failed
     \/ failed' = failed \cup {Event("end", 0)} /\ UNCHANGED row
  /\ pc' = "closed"
  /\ UNCHANGED <<piece, events, proc, term, reader, threadOn, user, ms>>

-----------------------------------------------------------------------------
(* The reader thread reads what the child wrote and sends it on; it ends   *)
(* when the receiver is gone, or at EOF.                                   *)
ReaderReads ==
  /\ ~eof
  /\ taken < written
  /\ taken' = taken + 1
  /\ output' = IF pc = "closed" THEN output ELSE Append(output, taken')
  /\ eof' = (pc = "closed")
  /\ UNCHANGED <<task, db, proc, term, ctl, user, ms, failed>>

ReaderEnds ==
  /\ ~eof
  /\ child \in {"exited", "killed"} /\ taken = written
  /\ eof' = TRUE
  /\ UNCHANGED <<task, db, proc, term, taken, output, ctl, user, ms, failed>>

(* The control thread: one command after the other.  Writing blocks while  *)
(* the terminal is full.                                                   *)
ControlInput ==
  /\ threadOn
  /\ control # <<>> /\ Head(control).type = "input"
  /\ child = "runs" => tty < TtyRoom
  /\ tty' = IF child = "runs" THEN tty + 1 ELSE tty
  /\ fed' = IF child = "runs" THEN Append(fed, Head(control).id) ELSE fed
  /\ control' = Tail(control)
  /\ UNCHANGED <<task, db, proc, reader, threadOn, user, ms, failed>>

ControlResize ==
  /\ threadOn
  /\ control # <<>> /\ Head(control).type = "resize"
  /\ control' = Tail(control)
  /\ UNCHANGED <<task, db, proc, term, reader, threadOn, user, ms, failed>>

(* The terminal is gone: the thread kills, waits and ends. *)
ControlWriteFails ==
  /\ threadOn
  /\ control # <<>> /\ Head(control).type = "input"
  /\ child # "runs"
  /\ control' = Tail(control)
  /\ threadOn' = FALSE
  /\ UNCHANGED <<task, db, proc, term, reader, user, ms, failed>>

(* Mutant of ControlEnds: an end without Shutdown does not kill. *)
ControlEndsOnly ==
  /\ threadOn
  /\ control # <<>> /\ Head(control).type = "shutdown"
  /\ threadOn' = FALSE
  /\ UNCHANGED <<task, db, proc, term, reader, control, user, ms, failed>>

(* Shutdown, or a channel that is empty and closed: kill and wait. *)
ControlEnds ==
  /\ threadOn
  /\ \/ control # <<>> /\ Head(control).type = "shutdown"
     \/ control = <<>> /\ pc = "closed"
  /\ child' = IF child = "runs" THEN "killed" ELSE child
  /\ threadOn' = FALSE
  /\ UNCHANGED <<task, db, written, term, reader, control, user, ms, failed>>

-----------------------------------------------------------------------------
(* The child writes, reads and may exit. *)
ChildWrites ==
  /\ child = "runs"
  /\ written < MaxOut
  /\ written' = written + 1
  /\ UNCHANGED <<task, db, child, term, reader, ctl, user, ms, failed>>

ChildReads ==
  /\ child = "runs"
  /\ tty > 0
  /\ tty' = tty - 1
  /\ UNCHANGED <<task, db, proc, fed, reader, ctl, user, ms, failed>>

ChildExits ==
  /\ child = "runs"
  /\ child' = "exited"
  /\ UNCHANGED <<task, db, written, term, reader, ctl, user, ms, failed>>

Send(t) ==
  /\ peer
  /\ sent < MaxIn
  /\ sent' = sent + 1
  /\ inbox' = Append(inbox, Msg(t, sent'))
  /\ UNCHANGED <<task, db, proc, term, reader, ctl, peer, shown, ms, failed>>

Leave ==
  /\ peer
  /\ peer' = FALSE
  /\ UNCHANGED <<task, db, proc, term, reader, ctl, sent, inbox, shown, ms, failed>>

Tick ==
  /\ ms < MaxMs
  /\ ms' = ms + 1
  /\ UNCHANGED <<task, db, proc, term, reader, ctl, user, failed>>

(* The connection is over. *)
Over == pc = "closed" /\ ~threadOn /\ UNCHANGED vars

handle_socket ==
  \/ Spawned \/ SpawnFails \/ SessionStarted \/ AuditUnavailable
  \/ TakeOutput \/ OutputEnds \/ TakeInput \/ TakeOther \/ BrowserLeft
  \/ RecordOk \/ RecordFails \/ SendOutput \/ SendFails \/ Ends

reader_thread == ReaderReads \/ ReaderEnds
control_thread ==
  ControlInput \/ ControlWriteFails \/ ControlResize \/ ControlEnds

Next ==
  \/ handle_socket \/ reader_thread \/ control_thread
  \/ ChildWrites \/ ChildReads \/ ChildExits
  \/ \E t \in {"input", "resize", "bad"} : Send(t)
  \/ Leave \/ Tick \/ Over

Spec == Init /\ [][Next]_vars

(* The task and the threads run; select! has both of its branches polled   *)
(* and picks at random, so that neither is passed over for ever.  Nothing  *)
(* makes the browser leave or the child exit; the child reads its input.   *)
Fairness ==
  /\ WF_vars(handle_socket) /\ SF_vars(OutputEnds) /\ SF_vars(BrowserLeft)
  /\ WF_vars(reader_thread) /\ WF_vars(control_thread) /\ WF_vars(ChildReads)

FairSpec == Spec /\ Fairness

-----------------------------------------------------------------------------
RecordedEvents == {events[k].event : k \in DOMAIN events}

(* "What appeared on the screen is in the recording": the comment on the   *)
(* downstream branch of the loop.                                          *)
ShownIsRecorded ==
  \A i \in 1..shown : Event("output", i) \in RecordedEvents

(* What the screen showed and what the child was given is in the           *)
(* recording, each piece once, except where its own INSERT failed.         *)
AuditTrail ==
  /\ \A i \in 1..shown : Event("output", i) \in RecordedEvents \cup failed
  /\ \A k \in DOMAIN fed : Event("input", fed[k]) \in RecordedEvents \cup failed
  /\ \A j, k \in DOMAIN events : j # k => events[j].event # events[k].event

(* How many of the rows es stand before es[i], or are es[i], when they are *)
(* sorted by at_ms and rows of one millisecond stay as they were.          *)
place(es, i) ==
  Cardinality({j \in DOMAIN es :
    \/ es[j].at_ms < es[i].at_ms
    \/ es[j].at_ms = es[i].at_ms /\ j <= i})

(* The stable sort by at_ms. *)
sort_events(es) ==
  [k \in DOMAIN es |-> es[CHOOSE i \in DOMAIN es : place(es, i) = k]]

replay == sort_events(events)

(* The replay shows the two directions in the order in which they happened *)
(* to the terminal: what the child was given comes in the order in which   *)
(* it was given, the screen in the order in which it was drawn, and an     *)
(* output drawn before a key was read comes before that key.               *)
ReplayInOrder == replay = events

(* Nothing is cut off: when the child has exited by itself and the browser *)
(* stayed, everything it wrote is on the screen before the session ends.   *)
NothingCutOff ==
  pc \in {"ending", "closed"} /\ peer /\ row # "none" => shown = written

(* A session whose browser left, or whose child exited, is closed in the   *)
(* audit table unless the UPDATE itself failed.                            *)
SessionEnds ==
  (row = "open" /\ (~peer \/ child = "exited"))
    ~> (row = "ended" \/ Event("end", 0) \in failed)

(* "They live and die together": after the connection, however it ended,   *)
(* the child is gone -- provided that it goes on reading its input, since  *)
(* the control thread finishes its writes before it sees the shutdown.     *)
ChildDies == pc = "closed" ~> child # "runs"

(* The recording holds what the screen and the child got, it replays in    *)
(* that order, and a child that ends by itself is heard to its end.        *)
RecordFaithful == AuditTrail /\ ReplayInOrder /\ NothingCutOff

(* However a session ends, its row is closed and its child is gone. *)
SessionOver == SessionEnds /\ ChildDies
=============================================================================
