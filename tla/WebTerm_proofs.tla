--------------------------- MODULE WebTerm_proofs ---------------------------
(***************************************************************************)
(* Proofs about WebTerm, for any number of pieces and messages.            *)
(***************************************************************************)
EXTENDS WebTerm, SequenceTheorems, FiniteSetTheorems, TLAPS

EventT == [direction : {"output", "input"}, id : Nat]
MsgT == [type : {"input", "resize", "bad"}, id : Nat]
RowT == [event : EventT, at_ms : Nat]
CtlT == [type : {"input", "resize", "shutdown"}, id : Nat]

Types ==
  /\ pc \in {"new", "spawned", "loop", "recording", "sending", "ending", "closed"}
  /\ child \in {"none", "runs", "exited", "killed"}
  /\ row \in {"none", "open", "ended"}
  /\ {shown, taken, written, sent, ms} \subseteq Nat
  /\ eof \in BOOLEAN
  /\ output \in Seq(Nat) /\ fed \in Seq(Nat)
  /\ inbox \in Seq(MsgT) /\ control \in Seq(CtlT)
  /\ events \in Seq(RowT)

(* What is recorded, or known to have failed. *)
Accounted == RecordedEvents \cup failed

(* The first n pieces of output, the input in f and the input commands in  *)
(* q are in A.                                                             *)
ShownIn(n, A) == \A i \in 1..n : Event("output", i) \in A
FedIn(f, A) == \A k \in DOMAIN f : Event("input", f[k]) \in A
CommandsIn(q, A) ==
  \A k \in DOMAIN q : q[k].type = "input" => Event("input", q[k].id) \in A

(* What was shown, and what is on its way to the child, is accounted for. *)
Trail ==
  /\ ShownIn(shown, Accounted) /\ FedIn(fed, Accounted)
  /\ CommandsIn(control, Accounted)

(* Outputs that the task holds: one more than the screen shows, or none. *)
held == IF \E e \in piece : e.direction = "output" THEN 1 ELSE 0

(* q numbers what comes after the first b of n pieces. *)
Numbered(q, b, n) ==
  /\ q \in Seq(Nat) /\ n - b = Len(q)
  /\ \A i \in 1..Len(q) : q[i] = b + i

(* q holds the last of n messages. *)
Mailbox(q, n) ==
  /\ q \in Seq(MsgT) /\ Len(q) <= n
  /\ \A i \in 1..Len(q) : q[i].id = n - Len(q) + i

(* Neither queue loses, repeats or overtakes anything. *)
Queues ==
  /\ pc \notin {"ending", "closed"} => Numbered(output, shown + held, taken)
  /\ Mailbox(inbox, sent)

(* The event in hand is the next of its direction. *)
Hand ==
  /\ pc \notin {"recording", "sending"} => piece = {}
  /\ pc = "recording" => \E e \in EventT :
       /\ piece = {e}
       /\ e.direction = "output" => e.id = shown + 1
       /\ e.direction = "input" => e.id = sent - Len(inbox)
  /\ pc = "sending" =>
       /\ piece = {Event("output", shown + 1)}
       /\ Event("output", shown + 1) \in Accounted

(* Nothing recorded is ahead of what has been taken, nor the event in hand. *)
Behind(e) ==
  /\ e.direction = "output" => e.id <= shown + (IF pc = "sending" THEN 1 ELSE 0)
  /\ e.direction = "input" => e.id <= sent - Len(inbox)
  /\ pc = "recording" => e \notin piece

Record ==
  /\ pc \notin {"ending", "closed"} =>
       \A k \in DOMAIN events : Behind(events[k].event)
  /\ \A j, k \in DOMAIN events : j # k => events[j].event # events[k].event

(* The reader ends after the last piece of a child that is gone. *)
End ==
  /\ pc \in {"new", "spawned"} => row = "none"
  /\ pc = "new" => child = "none"
  /\ pc \in {"loop", "recording", "sending", "ending"} => row = "open"
  /\ eof /\ pc # "closed" => taken = written /\ child \in {"exited", "killed"}
  /\ pc \in {"ending", "closed"} /\ peer /\ row # "none" =>
       shown = written /\ child \in {"exited", "killed"}

TermInv == Types /\ Trail /\ Queues /\ Hand /\ Record /\ End

-----------------------------------------------------------------------------
LEMMA NumberedTail ==
  ASSUME NEW b \in Nat, NEW n \in Nat, NEW q, Numbered(q, b, n), q # <<>>
  PROVE  Head(q) = b + 1 /\ Numbered(Tail(q), b + 1, n)
<1> DEFINE t == Tail(q)  m == Len(q)
<1>1. /\ q \in Seq(Nat) /\ m \in Nat /\ n - b = m /\ m > 0
      /\ \A i \in 1..m : q[i] = b + i
  BY EmptySeq, LenProperties DEF Numbered
<1>2. /\ Head(q) = q[1] /\ t \in Seq(Nat) /\ Len(t) = m - 1
      /\ \A i \in 1..(m - 1) : t[i] = q[i + 1]
  BY <1>1, HeadTailProperties
<1> HIDE DEF t, m
<1>3. ASSUME NEW i \in 1..(m - 1) PROVE t[i] = b + 1 + i
  <2>1. i + 1 \in 1..m /\ i \in Nat BY <1>1
  <2> QED BY <1>1, <1>2, <2>1
<1>4. Head(q) = b + 1
  <2>1. 1 \in 1..m BY <1>1
  <2> QED BY <1>1, <1>2, <2>1
<1>5. n - (b + 1) = m - 1
  BY <1>1
<1> QED BY <1>2, <1>3, <1>4, <1>5 DEF Numbered, t

LEMMA NumberedAppend ==
  ASSUME NEW b \in Nat, NEW n \in Nat, NEW q, Numbered(q, b, n)
  PROVE  Numbered(Append(q, n + 1), b, n + 1)
<1> DEFINE t == Append(q, n + 1)  m == Len(q)
<1>1. /\ q \in Seq(Nat) /\ m \in Nat /\ n - b = m
      /\ \A i \in 1..m : q[i] = b + i
  BY LenProperties DEF Numbered
<1>2. /\ t \in Seq(Nat) /\ Len(t) = m + 1 /\ t[m + 1] = n + 1
      /\ \A i \in 1..m : t[i] = q[i]
  BY <1>1, AppendProperties
<1> HIDE DEF t, m
<1>3. ASSUME NEW i \in 1..(m + 1) PROVE t[i] = b + i
  <2>1. i \in 1..m \/ i = m + 1 BY <1>1
  <2>2. b + (m + 1) = n + 1 BY <1>1
  <2> QED BY <1>1, <1>2, <2>1, <2>2
<1>4. (n + 1) - b = m + 1
  BY <1>1
<1> QED BY <1>2, <1>3, <1>4 DEF Numbered, t

LEMMA MailboxTail ==
  ASSUME NEW n \in Nat, NEW q, Mailbox(q, n), q # <<>>
  PROVE  /\ Mailbox(Tail(q), n) /\ Head(q) \in MsgT
         /\ Head(q).id = n - Len(Tail(q)) /\ n - Len(Tail(q)) = n - Len(q) + 1
         /\ n - Len(q) \in Nat
<1> DEFINE t == Tail(q)  m == Len(q)
<1>1. /\ q \in Seq(MsgT) /\ m \in Nat /\ m <= n /\ m > 0
      /\ \A i \in 1..m : q[i].id = n - m + i
  BY EmptySeq, LenProperties DEF Mailbox
<1>2. /\ Head(q) = q[1] /\ t \in Seq(MsgT) /\ Len(t) = m - 1 /\ Head(q) \in MsgT
      /\ \A i \in 1..(m - 1) : t[i] = q[i + 1]
  BY <1>1, HeadTailProperties
<1> HIDE DEF t, m
<1>3. ASSUME NEW i \in 1..(m - 1) PROVE t[i].id = n - (m - 1) + i
  <2>1. i + 1 \in 1..m /\ i \in Nat BY <1>1
  <2>2. t[i].id = n - m + (i + 1) BY <1>1, <1>2, <2>1
  <2> QED BY <1>1, <2>1, <2>2
<1>4. Head(q).id = n - (m - 1)
  <2>1. 1 \in 1..m BY <1>1
  <2>2. q[1].id = n - m + 1 BY <1>1, <2>1
  <2> QED BY <1>1, <1>2, <2>2
<1>5. n - (m - 1) = n - m + 1 /\ n - m \in Nat /\ m - 1 <= n
  BY <1>1
<1> QED BY <1>2, <1>3, <1>4, <1>5 DEF Mailbox, t, m

LEMMA MailboxAppend ==
  ASSUME NEW n \in Nat, NEW q, Mailbox(q, n), NEW x \in MsgT, x.id = n + 1
  PROVE  /\ Mailbox(Append(q, x), n + 1)
         /\ (n + 1) - Len(Append(q, x)) = n - Len(q)
<1> DEFINE t == Append(q, x)  m == Len(q)
<1>1. /\ q \in Seq(MsgT) /\ m \in Nat /\ m <= n
      /\ \A i \in 1..m : q[i].id = n - m + i
  BY LenProperties DEF Mailbox
<1>2. /\ t \in Seq(MsgT) /\ Len(t) = m + 1 /\ t[m + 1] = x
      /\ \A i \in 1..m : t[i] = q[i]
  BY <1>1, AppendProperties
<1> HIDE DEF t, m
<1>3. (n + 1) - (m + 1) = n - m /\ m + 1 <= n + 1
  BY <1>1
<1>4. ASSUME NEW i \in 1..(m + 1) PROVE t[i].id = n - m + i
  <2>1. i \in 1..m \/ i = m + 1 BY <1>1
  <2>2. n - m + (m + 1) = n + 1 BY <1>1
  <2> QED BY <1>1, <1>2, <2>1, <2>2
<1> QED BY <1>2, <1>3, <1>4 DEF Mailbox, t, m

(* A new row of the recording. *)
LEMMA RowAppended ==
  ASSUME NEW S, NEW s \in Seq(S), NEW x \in S
  PROVE  /\ Append(s, x) \in Seq(S) /\ DOMAIN s \subseteq DOMAIN Append(s, x)
         /\ \A k \in DOMAIN s : Append(s, x)[k] = s[k]
         /\ \A k \in DOMAIN Append(s, x) \ DOMAIN s : Append(s, x)[k] = x
         /\ \E k \in DOMAIN Append(s, x) : Append(s, x)[k] = x
         /\ \A j, k \in DOMAIN Append(s, x) \ DOMAIN s : j = k
<1> DEFINE t == Append(s, x)  m == Len(s)
<1>1. /\ m \in Nat /\ DOMAIN s = 1..m /\ t \in Seq(S) /\ DOMAIN t = 1..(m + 1)
      /\ t[m + 1] = x /\ \A i \in 1..m : t[i] = s[i]
  BY AppendProperties, LenProperties
<1> HIDE DEF t, m
<1>2. \A k \in DOMAIN t \ DOMAIN s : k = m + 1
  BY <1>1
<1>3. m + 1 \in DOMAIN t
  BY <1>1
<1>4. DOMAIN s \subseteq DOMAIN t
  BY <1>1
<1> QED BY <1>1, <1>2, <1>3, <1>4 DEF t

LEMMA QueueTail ==
  ASSUME NEW S, NEW q \in Seq(S), q # <<>>
  PROVE  /\ Tail(q) \in Seq(S) /\ Head(q) \in S
         /\ \E k \in DOMAIN q : Head(q) = q[k]
         /\ \A i \in DOMAIN Tail(q) : \E k \in DOMAIN q : Tail(q)[i] = q[k]
<1> DEFINE t == Tail(q)  m == Len(q)
<1>1. /\ m \in Nat /\ m > 0 /\ DOMAIN q = 1..m /\ DOMAIN t = 1..(m - 1)
      /\ Head(q) = q[1] /\ t \in Seq(S) /\ Head(q) \in S
      /\ \A i \in 1..(m - 1) : t[i] = q[i + 1]
  BY HeadTailProperties, EmptySeq, LenProperties
<1> HIDE DEF t, m
<1>2. 1 \in DOMAIN q BY <1>1
<1>3. ASSUME NEW i \in DOMAIN t PROVE \E k \in DOMAIN q : t[i] = q[k]
  <2>1. i + 1 \in DOMAIN q /\ i \in 1..(m - 1) BY <1>1
  <2> QED BY <1>1, <2>1
<1> QED BY <1>1, <1>2, <1>3 DEF t

-----------------------------------------------------------------------------
(* What each part of the invariant does not depend on. *)
LEMMA TrailGrows ==
  ASSUME Trail, Accounted \subseteq Accounted', UNCHANGED <<shown, fed, control>>
  PROVE  Trail'
BY DEF Trail, ShownIn, FedIn, CommandsIn

LEMMA SameTrail ==
  ASSUME Trail, UNCHANGED <<shown, fed, control, events, failed>>
  PROVE  Trail' /\ Accounted' = Accounted
<1>1. Accounted' = Accounted BY DEF Accounted, RecordedEvents
<1> QED BY <1>1, TrailGrows

LEMMA SameRecord ==
  ASSUME Record, UNCHANGED <<pc, piece, events, shown>>,
         sent' - Len(inbox') = sent - Len(inbox)
  PROVE  Record'
BY DEF Record, Behind

LEMMA SameHand ==
  ASSUME Hand, UNCHANGED <<pc, piece, events, failed, shown>>,
         sent' - Len(inbox') = sent - Len(inbox)
  PROVE  Hand'
<1>1. Accounted' = Accounted BY DEF Accounted, RecordedEvents
<1> QED BY <1>1 DEF Hand

LEMMA SameQueues ==
  ASSUME Queues, UNCHANGED <<pc, piece, shown, taken, output, sent, inbox>>
  PROVE  Queues'
BY DEF Queues, held

LEMMA SameEnd ==
  ASSUME End, UNCHANGED <<pc, row, eof, taken, written, shown>>,
         peer' => peer, child' = child \/ (child = "runs" /\ child' \in {"exited", "killed"})
  PROVE  End'
BY DEF End

LEMMA RowType ==
  ASSUME NEW s \in Seq(RowT), NEW k \in DOMAIN s
  PROVE  s[k].event \in EventT /\ s[k].event.id \in Nat
<1>1. s[k] \in RowT
  BY ElementOfSeq
<1>2. s[k].event \in EventT BY <1>1 DEF RowT
<1> QED BY <1>2 DEF EventT

LEMMA EventType ==
  ASSUME Types, NEW k \in DOMAIN events
  PROVE  events[k].event \in EventT /\ events[k].event.id \in Nat
BY RowType DEF Types

(* A command joins the queue of the control thread. *)
LEMMA CommandJoins ==
  ASSUME Types, Trail, UNCHANGED <<shown, fed>>,
         NEW t \in {"input", "resize", "shutdown"}, NEW i \in Nat, Command(t, i),
         Accounted \subseteq Accounted', t = "input" => Event("input", i) \in Accounted'
  PROVE  control' \in Seq(CtlT) /\ Trail'
<1> DEFINE x == Msg(t, i)
<1>1. control \in Seq(CtlT) /\ control' = Append(control, x)
  BY DEF Types, Command
<1>2. x \in CtlT /\ x.type = t /\ x.id = i
  BY DEF Msg, CtlT
<1> HIDE DEF x
<1>3. /\ control' \in Seq(CtlT)
      /\ \A k \in DOMAIN control : control'[k] = control[k]
      /\ \A k \in DOMAIN control' \ DOMAIN control : control'[k] = x
  BY <1>1, <1>2, RowAppended
<1>4. CommandsIn(control', Accounted')
  <2> SUFFICES ASSUME NEW k \in DOMAIN control', control'[k].type = "input"
               PROVE  Event("input", control'[k].id) \in Accounted'
    BY DEF CommandsIn
  <2>1. CASE k \in DOMAIN control BY <1>3, <2>1 DEF Trail, CommandsIn
  <2>2. CASE k \notin DOMAIN control BY <1>2, <1>3, <2>2
  <2> QED BY <2>1, <2>2
<1>5. ShownIn(shown, Accounted') /\ FedIn(fed, Accounted')
  BY DEF Trail, ShownIn, FedIn
<1> QED BY <1>3, <1>4, <1>5 DEF Trail

LEMMA TermInit == ASSUME Init PROVE TermInv
<1>1. Types
  <2>1. \A S : <<>> \in Seq(S) OBVIOUS
  <2>2. output = <<>> /\ fed = <<>> /\ inbox = <<>> /\ control = <<>> /\ events = <<>>
    BY DEF Init
  <2>3. /\ pc = "new" /\ child = "none" /\ row = "none" /\ eof = FALSE
        /\ shown = 0 /\ taken = 0 /\ written = 0 /\ sent = 0 /\ ms = 0
    BY DEF Init
  <2>4. /\ output \in Seq(Nat) /\ fed \in Seq(Nat) /\ inbox \in Seq(MsgT)
        /\ control \in Seq(CtlT) /\ events \in Seq(RowT)
    BY <2>1, <2>2
  <2>5. {shown, taken, written, sent, ms} \subseteq Nat
    BY <2>3
  <2> QED BY <2>3, <2>4, <2>5 DEF Types
<1>2. Trail BY DEF Init, Trail, ShownIn, FedIn, CommandsIn
<1>3. Queues
  <2>1. output = <<>> /\ inbox = <<>> /\ shown = 0 /\ held = 0 /\ taken = 0 /\ sent = 0
    BY DEF Init, held
  <2> QED BY <2>1 DEF Queues, Numbered, Mailbox
<1>4. Hand BY DEF Init, Hand
<1>5. Record BY DEF Init, Record
<1>6. End BY DEF Init, End
<1> QED BY <1>1, <1>2, <1>3, <1>4, <1>5, <1>6 DEF TermInv

(* The session begins, or does not. *)
LEMMA StartStep ==
  ASSUME TermInv, Spawned \/ SpawnFails \/ SessionStarted \/ AuditUnavailable
  PROVE  TermInv'
<1>1. /\ pc \in {"new", "spawned"} /\ pc' \in {"spawned", "loop", "closed"}
      /\ UNCHANGED <<piece, events, written, fed, taken, output, eof, sent, inbox,
                     peer, shown, ms, failed>>
  BY DEF Spawned, SpawnFails, SessionStarted, AuditUnavailable, db, proc, term,
         reader, ctl, user
<1>2. control' \in Seq(CtlT) /\ Trail'
  <2>1. CASE AuditUnavailable
    <3>1. Accounted' = Accounted BY <1>1 DEF Accounted, RecordedEvents
    <3>2. Command("shutdown", 0) BY <2>1 DEF AuditUnavailable
    <3> QED BY <1>1, <3>1, <3>2, CommandJoins DEF TermInv
  <2>2. CASE Spawned \/ SpawnFails \/ SessionStarted
    <3>1. control' = control
      BY <2>2 DEF Spawned, SpawnFails, SessionStarted, ctl
    <3> QED BY <1>1, <3>1, SameTrail DEF TermInv, Types
  <2> QED BY <2>1, <2>2
<1>3. /\ Types' /\ End'
  BY <1>1, <1>2 DEF TermInv, Types, End, Spawned, SpawnFails, SessionStarted,
                    AuditUnavailable, db, proc
<1>4. Queues' /\ Hand'
  BY <1>1 DEF TermInv, Queues, Hand, held
<1>5. Record'
  BY <1>1 DEF TermInv, Record, Behind
<1> QED BY <1>2, <1>3, <1>4, <1>5 DEF TermInv

(* The task takes the next piece of output in hand. *)
LEMMA TakeOutputStep == ASSUME TermInv, TakeOutput PROVE TermInv'
<1> DEFINE x == Event("output", Head(output))
<1>1. /\ pc = "loop" /\ pc' = "recording" /\ output # <<>>
      /\ piece' = {x} /\ output' = Tail(output)
      /\ UNCHANGED <<row, events, child, written, fed, taken, eof, control, sent,
                     inbox, peer, shown, ms, failed>>
  BY DEF TakeOutput, db, proc, term, ctl, user
<1>2. piece = {} /\ held = 0 /\ shown \in Nat /\ taken \in Nat
  BY <1>1 DEF TermInv, Hand, held, Types
<1>3. Numbered(output, shown, taken)
  BY <1>1, <1>2 DEF TermInv, Queues
<1>4. Head(output) = shown + 1 /\ Numbered(Tail(output), shown + 1, taken)
  BY <1>1, <1>2, <1>3, NumberedTail
<1>5. x \in EventT /\ x.direction = "output" /\ x.id = shown + 1
  BY <1>2, <1>4 DEF EventT, Event
<1> HIDE DEF x
<1>6. held' = 1
  BY <1>1, <1>5 DEF held
<1>7. Queues'
  BY <1>1, <1>4, <1>6 DEF TermInv, Queues
<1>8. Hand'
  BY <1>1, <1>5 DEF Hand
<1>9. Types'
  BY <1>1, <1>4 DEF TermInv, Types, Numbered
<1>10. Record'
  <2> SUFFICES ASSUME NEW k \in DOMAIN events PROVE Behind(events[k].event)'
    BY <1>1 DEF TermInv, Record
  <2>1. Behind(events[k].event) BY <1>1 DEF TermInv, Record
  <2>2. events[k].event.direction = "output" => events[k].event.id <= shown
    BY <1>1, <1>2, <2>1 DEF Behind
  <2>3. events[k].event # x
    BY <1>2, <1>5, <2>2
  <2> QED BY <1>1, <2>1, <2>2, <2>3 DEF Behind
<1>11. Trail'
  BY <1>1, SameTrail DEF TermInv
<1>12. End'
  BY <1>1 DEF TermInv, End
<1> QED BY <1>7, <1>8, <1>9, <1>10, <1>11, <1>12 DEF TermInv

(* The task takes the next input in hand. *)
LEMMA TakeInputStep == ASSUME TermInv, TakeInput PROVE TermInv'
<1> DEFINE x == Event("input", Head(inbox).id)
<1>1. /\ pc = "loop" /\ pc' = "recording" /\ inbox # <<>>
      /\ piece' = {x} /\ inbox' = Tail(inbox)
      /\ UNCHANGED <<row, events, child, written, fed, taken, output, eof, control,
                     sent, peer, shown, ms, failed>>
  BY DEF TakeInput, db, proc, term, reader, ctl
<1>2. piece = {} /\ held = 0 /\ sent \in Nat
  BY <1>1 DEF TermInv, Hand, held, Types
<1> DEFINE g == sent - Len(inbox)  h == sent' - Len(inbox')
<1>3. /\ Mailbox(inbox', sent') /\ Head(inbox) \in MsgT /\ Head(inbox).id = h
      /\ h = g + 1 /\ g \in Nat
  BY <1>1, <1>2, MailboxTail DEF TermInv, Queues
<1>4. x \in EventT /\ x.direction = "input" /\ x.id = h
  BY <1>3 DEF EventT, Event, MsgT
<1> HIDE DEF x
<1>5. held' = 0
  BY <1>1, <1>4 DEF held
<1>6. Queues'
  BY <1>1, <1>2, <1>3, <1>5 DEF TermInv, Queues
<1>7. Hand'
  BY <1>1, <1>4 DEF Hand
<1>8. Types'
  BY <1>1, <1>3 DEF TermInv, Types, Mailbox
<1>9. Record'
  <2> SUFFICES ASSUME NEW k \in DOMAIN events PROVE Behind(events[k].event)'
    BY <1>1 DEF TermInv, Record
  <2> DEFINE e == events[k].event
  <2>1. Behind(e) /\ e.id \in Nat
    BY <1>1, EventType DEF TermInv, Record
  <2>2. e.direction = "input" => e.id <= g
    BY <2>1 DEF Behind
  <2>3. e.direction = "input" => e.id <= h /\ e.id # h
    BY <1>3, <2>1, <2>2
  <2>4. e # x
    BY <1>4, <2>3
  <2>5. e.direction = "output" => e.id <= shown + 0
    BY <1>1, <2>1 DEF Behind
  <2> QED BY <1>1, <2>3, <2>4, <2>5 DEF Behind
<1>10. Trail'
  BY <1>1, SameTrail DEF TermInv
<1>11. End'
  BY <1>1 DEF TermInv, End
<1> QED BY <1>6, <1>7, <1>8, <1>9, <1>10, <1>11 DEF TermInv

(* A resize or a message that does not parse is never in hand. *)
LEMMA TakeOtherStep == ASSUME TermInv, TakeOther PROVE TermInv'
<1>1. /\ pc = "loop" /\ inbox # <<>> /\ inbox' = Tail(inbox)
      /\ UNCHANGED <<pc, piece, row, events, child, written, fed, taken, output, eof,
                     sent, peer, shown, ms, failed>>
      /\ Command("resize", 0) \/ control' = control
  BY DEF TakeOther, task, db, proc, term, reader
<1>2. sent \in Nat /\ Accounted' = Accounted /\ piece = {}
  BY <1>1 DEF TermInv, Types, Accounted, RecordedEvents, Hand
<1> DEFINE g == sent - Len(inbox)  h == sent' - Len(inbox')
<1>3. Mailbox(inbox', sent') /\ h = g + 1 /\ g \in Nat
  BY <1>1, <1>2, MailboxTail DEF TermInv, Queues
<1>4. control' \in Seq(CtlT) /\ Trail'
  <2>1. CASE Command("resize", 0) BY <1>1, <1>2, <2>1, CommandJoins DEF TermInv
  <2>2. CASE control' = control BY <1>1, <2>2, SameTrail DEF TermInv, Types
  <2> QED BY <1>1, <2>1, <2>2
<1>5. Queues' /\ Hand'
  BY <1>1, <1>3 DEF TermInv, Queues, Hand, held
<1>6. Types' /\ End'
  BY <1>1, <1>3, <1>4 DEF TermInv, Types, Mailbox, End
<1>7. Record'
  <2> SUFFICES ASSUME NEW k \in DOMAIN events PROVE Behind(events[k].event)'
    BY <1>1 DEF TermInv, Record
  <2> DEFINE e == events[k].event
  <2>1. Behind(e) /\ e.id \in Nat
    BY <1>1, EventType DEF TermInv, Record
  <2>2. e.direction = "input" => e.id <= g
    BY <2>1 DEF Behind
  <2>3. e.direction = "input" => e.id <= h
    BY <1>3, <2>1, <2>2
  <2> QED BY <1>1, <2>1, <2>3 DEF Behind
<1> QED BY <1>4, <1>5, <1>6, <1>7 DEF TermInv

(* The loop is left: from here on nothing is taken, recorded or shown. *)
LEMMA EndingStep ==
  ASSUME TermInv, OutputEnds \/ BrowserLeft \/ SendFails \/ Ends
  PROVE  TermInv'
<1>1. /\ pc' \in {"ending", "closed"} /\ piece' = {}
      /\ UNCHANGED <<events, child, written, fed, taken, output, eof, sent, inbox,
                     peer, shown, ms>>
      /\ row' = row \/ (pc = "ending" /\ row' = "ended")
      /\ failed \subseteq failed'
  BY DEF OutputEnds, BrowserLeft, SendFails, Ends, db, proc, term, reader, ctl, user,
         TermInv, Hand
<1>2. Accounted \subseteq Accounted'
  BY <1>1 DEF Accounted, RecordedEvents
<1>3. control' \in Seq(CtlT) /\ Trail'
  <2>1. CASE Ends
    BY <1>1, <1>2, <2>1, CommandJoins DEF Ends, TermInv
  <2>2. CASE OutputEnds \/ BrowserLeft \/ SendFails
    <3>1. control' = control BY <2>2 DEF OutputEnds, BrowserLeft, SendFails, ctl
    <3> QED BY <1>1, <1>2, <3>1, TrailGrows DEF TermInv, Types
  <2> QED BY <2>1, <2>2
<1>4. Types' /\ Hand' /\ Queues' /\ Record'
  BY <1>1, <1>3 DEF TermInv, Types, Hand, Queues, Record
<1>5. End'
  <2>1. CASE OutputEnds
    <3>1. output = <<>> /\ eof /\ pc = "loop" /\ shown \in Nat /\ taken \in Nat
      BY <2>1 DEF OutputEnds, TermInv, Types
    <3>2. held = 0 /\ Numbered(output, shown + held, taken)
      BY <3>1 DEF TermInv, Hand, held, Queues
    <3>3. taken = shown
      BY <3>1, <3>2 DEF Numbered
    <3> QED BY <1>1, <3>1, <3>3 DEF TermInv, End
  <2>2. CASE BrowserLeft \/ SendFails
    BY <1>1, <2>2 DEF BrowserLeft, SendFails, TermInv, End
  <2>3. CASE Ends
    BY <1>1, <2>3 DEF Ends, TermInv, End
  <2> QED BY <2>1, <2>2, <2>3
<1> QED BY <1>3, <1>4, <1>5 DEF TermInv

(* The event in hand is recorded, or its INSERT fails; then it goes on its *)
(* way.                                                                    *)
LEMMA RecordStep == ASSUME TermInv, RecordOk \/ RecordFails PROVE TermInv'
<1>1. PICK e \in EventT :
        /\ piece = {e}
        /\ e.direction = "output" => e.id = shown + 1
        /\ e.direction = "input" => e.id = sent - Len(inbox)
  BY DEF RecordOk, RecordFails, TermInv, Hand
<1>2. /\ pc = "recording" /\ Pass(e)
      /\ UNCHANGED <<row, child, written, fed, taken, output, eof, sent, inbox, peer,
                     shown, ms>>
      /\ \/ events' = Append(events, [event |-> e, at_ms |-> ms]) /\ failed' = failed
         \/ failed' = failed \cup {e} /\ events' = events
  <2>1. CASE RecordOk
    <3>1. PICK f \in piece : Pass(f) /\ events' = Append(events, [event |-> f, at_ms |-> ms])
      BY <2>1 DEF RecordOk
    <3>2. f = e BY <1>1
    <3> QED BY <2>1, <3>1, <3>2 DEF RecordOk, proc, term, reader, user
  <2>2. CASE RecordFails
    <3>1. PICK f \in piece : Pass(f) /\ failed' = failed \cup {f}
      BY <2>2 DEF RecordFails
    <3>2. f = e BY <1>1
    <3> QED BY <2>2, <3>1, <3>2 DEF RecordFails, db, proc, term, reader, user
  <2> QED BY <2>1, <2>2
<1> DEFINE r == [event |-> e, at_ms |-> ms]
<1>3. r \in RowT /\ r.event = e /\ events \in Seq(RowT) /\ events' \in Seq(RowT)
      /\ {shown, taken, sent} \subseteq Nat /\ e.id \in Nat
  <2>1. /\ r \in RowT /\ r.event = e /\ {shown, taken, sent} \subseteq Nat
        /\ e.id \in Nat /\ events \in Seq(RowT)
    BY DEF RowT, TermInv, Types, EventT
  <2> HIDE DEF r
  <2>2. events' = Append(events, r) \/ events' = events BY <1>2 DEF r
  <2> QED BY <2>1, <2>2, AppendProperties
<1>4. \A k \in DOMAIN events : k \in DOMAIN events' /\ events'[k] = events[k]
  <2> HIDE DEF r
  <2>1. CASE events' = events BY <2>1
  <2>2. CASE events' = Append(events, r) BY <1>3, <2>2, RowAppended
  <2> QED BY <1>2, <2>1, <2>2 DEF r
<1>5. \A k \in DOMAIN events' \ DOMAIN events : events'[k] = r
  <2> HIDE DEF r
  <2>1. events' = Append(events, r) \/ events' = events BY <1>2 DEF r
  <2> QED BY <1>3, <2>1, RowAppended
<1>6. \A j, k \in DOMAIN events' \ DOMAIN events : j = k
  <2> HIDE DEF r
  <2>1. events' = Append(events, r) \/ events' = events BY <1>2 DEF r
  <2> QED BY <1>3, <2>1, RowAppended
<1>7. e \in Accounted' /\ Accounted \subseteq Accounted'
  <2>1. failed \subseteq failed' BY <1>2
  <2>2. RecordedEvents \subseteq RecordedEvents'
    BY <1>4 DEF RecordedEvents
  <2>3. CASE e \in failed' BY <2>1, <2>2, <2>3 DEF Accounted
  <2>4. CASE e \notin failed'
    <3> HIDE DEF r
    <3>1. events' = Append(events, r) BY <1>2, <2>4 DEF r
    <3>2. PICK k \in DOMAIN events' : events'[k] = r BY <1>3, <3>1, RowAppended
    <3>3. e \in RecordedEvents' BY <1>3, <3>2 DEF RecordedEvents
    <3> QED BY <2>1, <2>2, <3>3 DEF Accounted
  <2> QED BY <2>3, <2>4
<1> HIDE DEF r
<1>8. \A k \in DOMAIN events : events[k].event # e /\ Behind(events[k].event)
  BY <1>1, <1>2 DEF TermInv, Record, Behind
<1>9. \A j, k \in DOMAIN events' : j # k => events'[j].event # events'[k].event
  <2> SUFFICES ASSUME NEW j \in DOMAIN events', NEW k \in DOMAIN events', j # k
               PROVE  events'[j].event # events'[k].event
    OBVIOUS
  <2>1. CASE j \in DOMAIN events /\ k \in DOMAIN events
    BY <1>4, <2>1 DEF TermInv, Record
  <2>2. CASE j \in DOMAIN events /\ k \notin DOMAIN events
    BY <1>3, <1>4, <1>5, <1>8, <2>2
  <2>3. CASE j \notin DOMAIN events /\ k \in DOMAIN events
    BY <1>3, <1>4, <1>5, <1>8, <2>3
  <2>4. CASE j \notin DOMAIN events /\ k \notin DOMAIN events
    BY <1>6, <2>4
  <2> QED BY <2>1, <2>2, <2>3, <2>4
<1>10. End'
  BY <1>2 DEF TermInv, End, Pass
<1>11. CASE e.direction = "output"
  <2>1. pc' = "sending" /\ piece' = piece /\ control' = control
    BY <1>2, <1>11 DEF Pass
  <2>2. e = Event("output", shown + 1)
    BY <1>1, <1>11 DEF EventT, Event
  <2>3. Trail' BY <1>2, <1>7, <2>1, TrailGrows DEF TermInv
  <2>4. Queues' /\ Hand'
    BY <1>1, <1>2, <1>7, <2>1, <2>2 DEF TermInv, Queues, Hand, held
  <2>5. Types' BY <1>2, <1>3, <2>1 DEF TermInv, Types
  <2>6. ASSUME NEW k \in DOMAIN events' PROVE Behind(events[k].event)'
    <3> DEFINE f == events'[k].event
    <3>1. f = e \/ Behind(f)
      BY <1>3, <1>4, <1>5, <1>8
    <3>2. f.direction = "output" => f.id <= shown + 1
      <4>1. f \in EventT /\ f.id \in Nat
        BY <1>3, RowType
      <4> QED BY <1>1, <1>2, <1>3, <3>1, <4>1 DEF Behind
    <3>3. f.direction = "input" => f.id <= sent - Len(inbox)
      BY <1>11, <3>1 DEF Behind
    <3> QED BY <1>2, <2>1, <3>2, <3>3 DEF Behind
  <2>7. Record' BY <1>9, <2>6 DEF Record
  <2> QED BY <1>10, <2>3, <2>4, <2>5, <2>7 DEF TermInv
<1>12. CASE e.direction = "input"
  <2>1. pc' = "loop" /\ piece' = {} /\ Command("input", e.id)
    BY <1>2, <1>12 DEF Pass
  <2>2. e = Event("input", e.id)
    BY <1>12 DEF EventT, Event
  <2>3. control' \in Seq(CtlT) /\ Trail'
    BY <1>2, <1>3, <1>7, <2>1, <2>2, CommandJoins DEF TermInv
  <2>4. Queues' /\ Hand'
    BY <1>1, <1>2, <1>12, <2>1 DEF TermInv, Queues, Hand, held
  <2>5. Types' BY <1>2, <1>3, <2>1, <2>3 DEF TermInv, Types
  <2>6. ASSUME NEW k \in DOMAIN events' PROVE Behind(events[k].event)'
    <3> DEFINE f == events'[k].event
    <3>1. f = e \/ Behind(f)
      BY <1>3, <1>4, <1>5, <1>8
    <3>2. f.direction = "output" => f.id <= shown + 0
      BY <1>2, <1>12, <3>1 DEF Behind
    <3>3. f.direction = "input" => f.id <= sent - Len(inbox)
      <4>1. e.id <= sent - Len(inbox) BY <1>1, <1>3, <1>12
      <4> QED BY <3>1, <4>1 DEF Behind
    <3> QED BY <1>2, <2>1, <3>2, <3>3 DEF Behind
  <2>7. Record' BY <1>9, <2>6 DEF Record
  <2> QED BY <1>10, <2>3, <2>4, <2>5, <2>7 DEF TermInv
<1> QED BY <1>11, <1>12 DEF EventT

(* The screen shows the piece in hand, which is recorded. *)
LEMMA SendOutputStep == ASSUME TermInv, SendOutput PROVE TermInv'
<1>1. /\ pc = "sending" /\ pc' = "loop" /\ piece' = {} /\ shown' = shown + 1
      /\ UNCHANGED <<row, events, child, written, fed, taken, output, eof, control,
                     sent, inbox, peer, ms, failed>>
  BY DEF SendOutput, db, proc, term, reader, ctl
<1>2. /\ piece = {Event("output", shown + 1)} /\ shown \in Nat
      /\ Event("output", shown + 1) \in Accounted /\ Accounted' = Accounted
  BY <1>1 DEF TermInv, Hand, Types, Accounted, RecordedEvents
<1>3. held = 1 /\ held' = 0
  BY <1>1, <1>2 DEF held, Event
<1>4. shown' + 0 = shown + 1 /\ shown' \in Nat
  BY <1>1, <1>2
<1>5. Queues'
  BY <1>1, <1>3, <1>4 DEF TermInv, Queues
<1>6. Trail'
  <2>1. \A i \in 1..shown' : i \in 1..shown \/ i = shown + 1
    BY <1>1, <1>2
  <2> QED BY <1>1, <1>2, <2>1 DEF TermInv, Trail, ShownIn
<1>7. Record'
  <2> SUFFICES ASSUME NEW k \in DOMAIN events PROVE Behind(events[k].event)'
    BY <1>1 DEF TermInv, Record
  <2>1. Behind(events[k].event) BY <1>1 DEF TermInv, Record
  <2> QED BY <1>1, <1>4, <2>1 DEF Behind
<1>8. Types' /\ Hand' /\ End'
  BY <1>1, <1>4 DEF TermInv, Types, Hand, End
<1> QED BY <1>5, <1>6, <1>7, <1>8 DEF TermInv

(* The reader thread reads on, to the last piece. *)
LEMMA ReaderStep == ASSUME TermInv, reader_thread PROVE TermInv'
<1>1. /\ UNCHANGED <<pc, piece, row, events, child, written, fed, control, sent, inbox,
                     peer, shown, ms, failed>>
      /\ taken \in Nat /\ written \in Nat /\ shown \in Nat /\ output \in Seq(Nat)
  BY DEF reader_thread, ReaderReads, ReaderEnds, task, db, proc, term, ctl, user,
         TermInv, Types
<1>2. Trail' /\ Hand' /\ Record'
  BY <1>1, SameTrail, SameHand, SameRecord DEF TermInv
<1>3. CASE ReaderEnds
  <2>1. /\ taken' = taken /\ output' = output /\ eof'
        /\ child \in {"exited", "killed"} /\ taken = written
    BY <1>3 DEF ReaderEnds
  <2>2. eof' \in BOOLEAN BY <1>3 DEF ReaderEnds
  <2>3. Types' BY <1>1, <2>1, <2>2 DEF TermInv, Types
  <2>4. Queues' BY <1>1, <2>1, SameQueues DEF TermInv
  <2>5. End' BY <1>1, <2>1 DEF TermInv, End
  <2> QED BY <1>2, <2>3, <2>4, <2>5 DEF TermInv
<1>4. CASE ReaderReads
  <2>1. /\ taken' = taken + 1 /\ ~eof /\ eof' = (pc = "closed")
        /\ output' = IF pc = "closed" THEN output ELSE Append(output, taken + 1)
    BY <1>4 DEF ReaderReads
  <2>2. taken' \in Nat /\ eof' \in BOOLEAN /\ output' \in Seq(Nat)
    <3>1. Append(output, taken + 1) \in Seq(Nat)
      BY <1>1, AppendProperties
    <3> QED BY <1>1, <2>1, <3>1
  <2>3. Types' BY <1>1, <2>2 DEF TermInv, Types
  <2>4. Queues'
    <3>1. CASE pc \in {"ending", "closed"}
      BY <1>1, <3>1 DEF TermInv, Queues
    <3>2. CASE pc \notin {"ending", "closed"}
      <4>1. Numbered(output, shown + held, taken) /\ shown + held \in Nat
        BY <1>1, <3>2 DEF TermInv, Queues, held
      <4>2. Numbered(output', shown + held, taken')
        BY <1>1, <2>1, <3>2, <4>1, NumberedAppend
      <4>3. held' = held /\ shown' = shown
        BY <1>1 DEF held
      <4> QED BY <1>1, <4>2, <4>3 DEF TermInv, Queues
    <3> QED BY <3>1, <3>2
  <2>5. End' BY <1>1, <2>1 DEF TermInv, End
  <2> QED BY <1>2, <2>3, <2>4, <2>5 DEF TermInv
<1> QED BY <1>3, <1>4 DEF reader_thread

(* The control thread serves a command, or ends the child and itself. *)
LEMMA ControlStep == ASSUME TermInv, control_thread PROVE TermInv'
<1>1. /\ UNCHANGED <<pc, piece, row, events, written, taken, output, eof, sent, inbox,
                     peer, shown, ms, failed>>
      /\ child' = child \/ (child = "runs" /\ child' = "killed")
      /\ \/ control # <<>> /\ control' = Tail(control)
         \/ control' = control
  BY DEF control_thread, ControlInput, ControlWriteFails, ControlResize, ControlEnds,
         task, db, proc, term, reader, user
<1>2. \/ fed' = fed
      \/ /\ control # <<>> /\ Head(control).type = "input"
         /\ fed' = Append(fed, Head(control).id)
  BY DEF control_thread, ControlInput, ControlWriteFails, ControlResize, ControlEnds,
         term
<1>3. /\ Hand' /\ Record' /\ Queues' /\ End' /\ Accounted' = Accounted
      /\ control \in Seq(CtlT) /\ fed \in Seq(Nat)
      /\ FedIn(fed, Accounted) /\ CommandsIn(control, Accounted)
      /\ ShownIn(shown, Accounted)
  BY <1>1, SameHand, SameRecord, SameQueues, SameEnd
     DEF TermInv, Accounted, RecordedEvents, Trail, Types
<1>4. control' \in Seq(CtlT) /\ CommandsIn(control', Accounted)
  <2>1. CASE control' = control BY <1>3, <2>1
  <2>2. CASE control # <<>> /\ control' = Tail(control)
    BY <1>3, <2>2, QueueTail DEF CommandsIn
  <2> QED BY <1>1, <2>1, <2>2
<1>5. fed' \in Seq(Nat) /\ FedIn(fed', Accounted)
  <2>1. CASE fed' = fed BY <1>3, <2>1
  <2>2. CASE fed' # fed
    <3> DEFINE i == Head(control).id
    <3>1. control # <<>> /\ Head(control).type = "input" /\ fed' = Append(fed, i)
      BY <1>2, <2>2
    <3>2. Head(control) \in CtlT /\ \E k \in DOMAIN control : Head(control) = control[k]
      BY <1>3, <3>1, QueueTail
    <3>3. i \in Nat /\ Event("input", i) \in Accounted
      BY <1>3, <3>1, <3>2 DEF CommandsIn, CtlT
    <3> HIDE DEF i
    <3>4. /\ fed' \in Seq(Nat) /\ \A k \in DOMAIN fed : fed'[k] = fed[k]
          /\ \A k \in DOMAIN fed' \ DOMAIN fed : fed'[k] = i
      BY <1>3, <3>1, <3>3, RowAppended
    <3>5. ASSUME NEW k \in DOMAIN fed' PROVE Event("input", fed'[k]) \in Accounted
      <4>1. CASE k \in DOMAIN fed BY <1>3, <3>4, <4>1 DEF FedIn
      <4>2. CASE k \notin DOMAIN fed BY <3>3, <3>4, <4>2
      <4> QED BY <4>1, <4>2
    <3> QED BY <3>4, <3>5 DEF FedIn
  <2> QED BY <2>1, <2>2
<1>6. Trail'
  BY <1>1, <1>3, <1>4, <1>5 DEF Trail
<1>7. Types'
  BY <1>1, <1>4, <1>5 DEF TermInv, Types
<1> QED BY <1>3, <1>6, <1>7 DEF TermInv

(* The child, the browser and the clock. *)
LEMMA OutsideStep ==
  ASSUME TermInv,
         \/ ChildWrites \/ ChildReads \/ ChildExits \/ Leave \/ Tick
         \/ UNCHANGED vars
  PROVE  TermInv'
<1>1. UNCHANGED <<pc, piece, row, events, fed, control, taken, output, eof, sent, inbox,
                  shown, failed>>
  BY DEF ChildWrites, ChildReads, ChildExits, Leave, Tick, vars, task, db, proc, term,
         reader, ctl, user
<1>2. /\ written' = written \/ (written' = written + 1 /\ child = "runs")
      /\ child' = child \/ (child = "runs" /\ child' = "exited")
      /\ peer' => peer
      /\ ms' = ms \/ ms' = ms + 1
  BY DEF ChildWrites, ChildReads, ChildExits, Leave, Tick, vars, proc, user
<1>3. Trail' /\ Hand' /\ Record' /\ Queues'
  BY <1>1, SameTrail, SameHand, SameRecord, SameQueues DEF TermInv
<1>4. Types'
  <2>1. written' \in Nat /\ ms' \in Nat /\ {shown, taken, sent} \subseteq Nat
    BY <1>2 DEF TermInv, Types
  <2>2. child' \in {"none", "runs", "exited", "killed"}
    BY <1>2 DEF TermInv, Types
  <2> QED BY <1>1, <2>1, <2>2 DEF TermInv, Types
<1>5. End'
  BY <1>1, <1>2 DEF TermInv, End
<1> QED BY <1>3, <1>4, <1>5 DEF TermInv

LEMMA SendStep ==
  ASSUME TermInv, NEW t \in {"input", "resize", "bad"}, Send(t)
  PROVE  TermInv'
<1> DEFINE x == Msg(t, sent + 1)
<1>1. /\ sent' = sent + 1 /\ inbox' = Append(inbox, x)
      /\ UNCHANGED <<pc, piece, row, events, child, written, fed, control, taken,
                     output, eof, peer, shown, ms, failed>>
  BY DEF Send, task, db, proc, term, reader, ctl
<1>2. sent \in Nat /\ x \in MsgT /\ x.id = sent + 1
  BY DEF TermInv, Types, Msg, MsgT
<1> HIDE DEF x
<1>3. Mailbox(inbox', sent') /\ sent' - Len(inbox') = sent - Len(inbox)
  BY <1>1, <1>2, MailboxAppend DEF TermInv, Queues
<1>4. Trail' /\ Hand' /\ Record'
  BY <1>1, <1>3, SameTrail, SameHand, SameRecord DEF TermInv
<1>5. Queues'
  BY <1>1, <1>3 DEF TermInv, Queues, held
<1>6. Types' /\ End'
  <2>1. sent' \in Nat BY <1>1, <1>2
  <2> QED BY <1>1, <1>3, <2>1 DEF TermInv, Types, Mailbox, End
<1> QED BY <1>4, <1>5, <1>6 DEF TermInv

(* The terminal, its task, its threads and its two ends. *)
THEOREM TermInvariant == Spec => []TermInv
<1>1. TermInv /\ Next => TermInv'
  BY StartStep, TakeOutputStep, TakeInputStep, TakeOtherStep, EndingStep, RecordStep,
     SendOutputStep, ReaderStep, ControlStep, OutsideStep, SendStep
     DEF Next, handle_socket, Over
<1>2. TermInv /\ UNCHANGED vars => TermInv'
  BY OutsideStep
<1> QED BY <1>1, <1>2, TermInit, PTL DEF Spec

-----------------------------------------------------------------------------
(* The rows of the recording bear the times at which they were made.       *)
Dated ==
  /\ \A j, k \in DOMAIN events : j <= k => events[j].at_ms <= events[k].at_ms
  /\ \A k \in DOMAIN events : events[k].at_ms <= ms

LEMMA RowTimes ==
  ASSUME NEW es \in Seq(RowT)
  PROVE  \A j \in DOMAIN es : es[j].at_ms \in Nat
<1>1. \A j \in DOMAIN es : es[j] \in RowT
  BY ElementOfSeq, LenProperties
<1> QED BY <1>1 DEF RowT

(* Rows that are in the order of their times have the places they had. *)
LEMMA SortedPlaces ==
  ASSUME NEW es \in Seq(RowT), NEW i \in DOMAIN es,
         \A j, k \in DOMAIN es : j <= k => es[j].at_ms <= es[k].at_ms
  PROVE  place(es, i) = i
<1> DEFINE before == {j \in DOMAIN es :
                        \/ es[j].at_ms < es[i].at_ms
                        \/ es[j].at_ms = es[i].at_ms /\ j <= i}
<1>1. DOMAIN es = 1..Len(es) /\ Len(es) \in Nat /\ i \in 1..Len(es)
  BY LenProperties
<1>2. \A j \in DOMAIN es : es[j].at_ms \in Nat
  BY RowTimes
<1>3. ASSUME NEW j \in DOMAIN es PROVE j \in before <=> j \in 1..i
  <2>1. j \in 1..Len(es) BY <1>1
  <2>2. CASE j <= i
    <3>1. es[j].at_ms <= es[i].at_ms BY <2>2
    <3> QED BY <1>1, <1>2, <2>1, <2>2, <3>1
  <2>3. CASE ~(j <= i)
    <3>1. i <= j BY <1>1, <2>1, <2>3
    <3>2. es[i].at_ms <= es[j].at_ms BY <3>1
    <3> QED BY <1>1, <1>2, <2>1, <2>3, <3>2
  <2> QED BY <2>2, <2>3
<1>4. before = 1..i
  BY <1>1, <1>3
<1>5. Cardinality(1..i) = i
  <2>1. Cardinality(1..i) = IF 1 > i THEN 0 ELSE i - 1 + 1
    BY <1>1, FS_Interval
  <2> QED BY <1>1, <2>1
<1> QED BY <1>4, <1>5 DEF place

LEMMA SortedStays ==
  ASSUME NEW es \in Seq(RowT),
         \A j, k \in DOMAIN es : j <= k => es[j].at_ms <= es[k].at_ms
  PROVE  sort_events(es) = es
<1>1. \A i \in DOMAIN es : place(es, i) = i
  BY SortedPlaces
<1>2. \A k \in DOMAIN es : (CHOOSE i \in DOMAIN es : place(es, i) = k) = k
  BY <1>1
<1>3. es = [k \in DOMAIN es |-> es[k]]
  OBVIOUS
<1> QED BY <1>2, <1>3 DEF sort_events

(* A row is written with the time of its writing, and the clock goes on. *)
LEMMA DatedStep == ASSUME TermInv, Dated, [Next]_vars PROVE Dated'
<1>1. ms \in Nat /\ events \in Seq(RowT)
  BY DEF TermInv, Types
<1>2. \A k \in DOMAIN events : events[k].at_ms \in Nat
  BY <1>1, RowTimes
<1>3. CASE RecordOk
  <2>1. PICK e \in EventT : piece = {e}
    BY <1>3 DEF RecordOk, TermInv, Hand
  <2> DEFINE r == [event |-> e, at_ms |-> ms]
  <2>2. events' = Append(events, r) /\ ms' = ms
    BY <1>3, <2>1 DEF RecordOk
  <2>3. r \in RowT /\ r.at_ms = ms
    BY <1>1 DEF RowT
  <2> HIDE DEF r
  <2>4. /\ \A k \in DOMAIN events : events'[k] = events[k]
        /\ DOMAIN events = 1..Len(events) /\ DOMAIN events' = 1..(Len(events) + 1)
        /\ events'[Len(events) + 1] = r /\ Len(events) \in Nat
    BY <1>1, <2>2, <2>3, AppendProperties, LenProperties
  <2>5. \A k \in DOMAIN events' :
          \/ k \in DOMAIN events /\ events'[k] = events[k]
          \/ k = Len(events) + 1 /\ events'[k].at_ms = ms
    BY <2>3, <2>4
  <2>6. ASSUME NEW j \in DOMAIN events', NEW k \in DOMAIN events', j <= k
        PROVE  events'[j].at_ms <= events'[k].at_ms
    <3>1. CASE k \in DOMAIN events
      <4>1. j \in DOMAIN events BY <2>4, <2>6, <3>1
      <4> QED BY <2>4, <2>6, <3>1, <4>1 DEF Dated
    <3>2. CASE k \notin DOMAIN events
      <4>1. events'[k].at_ms = ms BY <2>5, <3>2
      <4> QED BY <1>1, <2>5, <4>1 DEF Dated
    <3> QED BY <3>1, <3>2
  <2>7. ASSUME NEW k \in DOMAIN events' PROVE events'[k].at_ms <= ms'
    BY <1>1, <2>2, <2>5 DEF Dated
  <2> QED BY <2>6, <2>7 DEF Dated
<1>4. CASE events' = events /\ ms' \in {ms, ms + 1}
  <2>1. ASSUME NEW k \in DOMAIN events PROVE events[k].at_ms <= ms'
    BY <1>1, <1>2, <1>4 DEF Dated
  <2> QED BY <1>4, <2>1 DEF Dated
<1>5. RecordOk \/ (events' = events /\ ms' \in {ms, ms + 1})
  BY DEF Next, handle_socket, Spawned, SpawnFails, SessionStarted, AuditUnavailable,
         TakeOutput, OutputEnds, TakeInput, TakeOther, BrowserLeft, RecordFails,
         SendOutput, SendFails, Ends, reader_thread, ReaderReads, ReaderEnds,
         control_thread, ControlInput, ControlWriteFails, ControlResize, ControlEnds,
         ChildWrites, ChildReads, ChildExits, Send, Leave, Tick, Over, db, vars
<1> QED BY <1>3, <1>4, <1>5

(* The replay of a recording is the recording: its rows come in the order  *)
(* in which they were made, those of one millisecond too.                  *)
THEOREM ReplayedInOrder == Spec => []ReplayInOrder
<1>1. Init => Dated
  BY DEF Init, Dated
<1>2. TermInv /\ Dated /\ [Next]_vars => Dated'
  BY DatedStep
<1>3. Spec => []Dated
  BY <1>1, <1>2, TermInvariant, PTL DEF Spec
<1>4. TermInv /\ Dated => ReplayInOrder
  BY SortedStays DEF TermInv, Types, Dated, ReplayInOrder, replay
<1> QED BY <1>3, <1>4, TermInvariant, PTL

(* What the screen showed and the child was given is recorded or known to  *)
(* have failed, no piece twice, the replay keeps the order, and a child    *)
(* that ends by itself is heard to its end (RecordFaithful).               *)
THEOREM NothingUnrecorded == Spec => []RecordFaithful
<1>1. TermInv => AuditTrail
  BY DEF TermInv, Trail, Record, AuditTrail, Accounted, ShownIn, FedIn
<1>2. TermInv => NothingCutOff
  BY DEF TermInv, End, NothingCutOff
<1> QED BY <1>1, <1>2, TermInvariant, ReplayedInOrder, PTL DEF RecordFaithful
=============================================================================
