---------------------------- MODULE MonitorFeed ----------------------------
(***************************************************************************)
(* monitor_demo: a collector takes a snapshot every interval, writes it to *)
(* `latest`, which /metrics and /alerts read, and broadcasts it to the     *)
(* streams of the pages.  A stream subscribes first and reads `latest`     *)
(* afterwards, to have something to draw at once.                          *)
(*                                                                         *)
(* A snapshot is what the machine showed, and when; its metrics and alerts *)
(* are functions of that.  Values are whole numbers.                       *)
(***************************************************************************)
EXTENDS Integers, Sequences, SequencesExt

CONSTANTS
  Page,      \* connections to /stream
  Reading,   \* what the machine may show: [cpu, mem_total, mem_used, disks, load]
  CHANNEL_CAPACITY,
  MaxFrames  \* bound: snapshots taken

FeedAssumption ==
  /\ CHANNEL_CAPACITY \in Nat \ {0} /\ MaxFrames \in Nat
  /\ \A r \in Reading : Len(r.disks) \in Nat /\ DOMAIN r.disks = 1..Len(r.disks)

VARIABLES
  frame,     \* {} or {the snapshot that the collector is publishing}
  step,      \* how far it is with that
  latest,
  sent,      \* all that was broadcast; the ring holds the last ones
  pc,        \* pc[p]: where stream_handler stands
  next,      \* next[p]: frames its receiver has passed
  initial,   \* initial[p]: the time of its first frame
  shown,     \* shown[p]: the time of what the page shows, -1 for nothing
  told,      \* history: times drawn, or covered by an event "lagged"
  table      \* monitor.metric_samples, in the order of ids

collector == <<frame, step, latest, sent>>
pages == <<pc, next, initial, shown, told>>
vars == <<collector, pages, table>>

-----------------------------------------------------------------------------
percent(part, whole) == IF whole <= 0 THEN 0 ELSE (part * 100) \div whole

Sample(name, label, value, ts) ==
  [name |-> name, label |-> label, value |-> value, ts |-> ts]

(* A sample of the whole machine. *)
no_label == ""

(* Collector::collect: all samples of a batch have one time. *)
machine_samples(r, ts) ==
  << Sample("cpu_usage_percent", no_label, r.cpu, ts),
     Sample("memory_total_bytes", no_label, r.mem_total, ts),
     Sample("memory_used_bytes", no_label, r.mem_used, ts),
     Sample("memory_used_percent", no_label, percent(r.mem_used, r.mem_total), ts) >>

disk_samples(d, ts) ==
  << Sample("disk_total_bytes", d.mount, d.total, ts),
     Sample("disk_available_bytes", d.mount, d.avail, ts),
     Sample("disk_used_percent", d.mount, percent(d.total - d.avail, d.total), ts) >>

load_samples(r, ts) ==
  << Sample("load_average", "1", r.load, ts),
     Sample("load_average", "5", r.load, ts),
     Sample("load_average", "15", r.load, ts) >>

collect(r, ts) ==
  machine_samples(r, ts)
  \o FlattenSeq([i \in DOMAIN r.disks |-> disk_samples(r.disks[i], ts)])
  \o load_samples(r, ts)

Rule(metric, op, threshold, severity) ==
  [metric |-> metric, op |-> op, threshold |-> threshold, severity |-> severity]

default_rules ==
  << Rule("cpu_usage_percent", "Gt", 90, "critical"),
     Rule("memory_used_percent", "Gt", 90, "critical"),
     Rule("disk_used_percent", "Ge", 85, "warning") >>

matches(op, value, threshold) ==
  \/ op = "Gt" /\ value > threshold
  \/ op = "Lt" /\ value < threshold
  \/ op = "Ge" /\ value >= threshold
  \/ op = "Le" /\ value <= threshold

Alert(rule, m) ==
  [rule |-> rule, label |-> m.label, metric_value |-> m.value,
   fired_at |-> m.ts, severity |-> rule.severity]

breaks(rule, m) ==
  m.name = rule.metric /\ matches(rule.op, m.value, rule.threshold)

(* Rule by rule, sample by sample. *)
evaluate(rules, ms) ==
  FlattenSeq([i \in DOMAIN rules |->
    FlattenSeq([j \in DOMAIN ms |->
      IF breaks(rules[i], ms[j]) THEN <<Alert(rules[i], ms[j])>> ELSE <<>>])])

Line(kind, m) ==
  [kind |-> kind, name |-> m.name, label |-> m.label, value |-> m.value]

seen(ms, i) == \E j \in 1..(i - 1) : ms[j].name = ms[i].name

(* HELP and TYPE before the first sample of a name, then the sample. *)
render_prometheus(ms) ==
  FlattenSeq([i \in DOMAIN ms |->
    IF seen(ms, i)
    THEN <<Line("sample", ms[i])>>
    ELSE <<Line("HELP", ms[i]), Line("TYPE", ms[i]), Line("sample", ms[i])>>])

-----------------------------------------------------------------------------
Empty == [ts |-> 0, reading |-> {}]
metrics(s) ==
  IF s.reading = {} THEN <<>> ELSE collect(CHOOSE r \in s.reading : TRUE, s.ts)
alerts(s) == evaluate(default_rules, metrics(s))

TypeOK ==
  /\ latest.ts \in 0..MaxFrames
  /\ Len(sent) \in (latest.ts - 1)..latest.ts
  /\ pc \in [Page -> {"off", "subscribed", "opening", "live", "closed"}]
  /\ shown \in [Page -> -1..MaxFrames]

(* The table is created, empty. *)
migrate == table = <<>>

Init ==
  /\ frame = {} /\ step = 0 /\ latest = Empty /\ sent = <<>>
  /\ pc = [p \in Page |-> "off"]
  /\ next = [p \in Page |-> 0] /\ initial = [p \in Page |-> 0]
  /\ shown = [p \in Page |-> -1] /\ told = [p \in Page |-> {}]
  /\ migrate

(* A tick of spawn_collector.  The interval makes up for missed ticks at   *)
(* once, so that nothing is said of the time between two of them.          *)
Collect(r) ==
  /\ frame = {}
  /\ Len(sent) < MaxFrames
  /\ frame' = {[ts |-> latest.ts + 1, reading |-> {r}]}
  /\ step' = 1
  /\ UNCHANGED <<latest, sent, pages, table>>

(* Mutant of publishing: the streams are served first. *)
publishing_swapped == <<"send", "latest">>

(* The order in which the collector gives a snapshot away. *)
publishing == <<"latest", "send">>

snapshot == CHOOSE s \in frame : TRUE

Publish ==
  /\ frame # {}
  /\ latest' = IF publishing[step] = "latest" THEN snapshot ELSE latest
  /\ sent' = IF publishing[step] = "send" THEN Append(sent, snapshot) ELSE sent
  /\ frame' = IF step = 2 THEN {} ELSE frame
  /\ step' = IF step = 2 THEN 0 ELSE 2
  /\ UNCHANGED <<pages, table>>

-----------------------------------------------------------------------------
(* stream_handler: first the subscription, then the read of `latest`. *)
Subscribe(p) ==
  /\ pc[p] = "off"
  /\ pc' = [pc EXCEPT ![p] = "subscribed"]
  /\ next' = [next EXCEPT ![p] = Len(sent)]
  /\ UNCHANGED <<collector, initial, shown, told, table>>

ReadLatest(p) ==
  /\ pc[p] = "subscribed"
  /\ pc' = [pc EXCEPT ![p] = "opening"]
  /\ initial' = [initial EXCEPT ![p] = latest.ts]
  /\ UNCHANGED <<collector, next, shown, told, table>>

Draw(p, ts) ==
  /\ shown' = [shown EXCEPT ![p] = ts]
  /\ told' = [told EXCEPT ![p] = @ \cup {ts}]

(* The initial frame, then those of the receiver. *)
InitialFrame(p) ==
  /\ pc[p] = "opening"
  /\ Draw(p, initial[p])
  /\ pc' = [pc EXCEPT ![p] = "live"]
  /\ UNCHANGED <<collector, next, initial, table>>

LiveFrame(p) ==
  /\ pc[p] = "live"
  /\ next[p] < Len(sent)
  /\ Len(sent) - next[p] <= CHANNEL_CAPACITY
  /\ Draw(p, sent[next[p] + 1].ts)
  /\ next' = [next EXCEPT ![p] = @ + 1]
  /\ UNCHANGED <<collector, pc, initial, table>>

(* Mutant of Lagged: the lost frames are passed over in silence. *)
LaggedSilently(p) ==
  /\ pc[p] = "live"
  /\ Len(sent) - next[p] > CHANNEL_CAPACITY
  /\ next' = [next EXCEPT ![p] = Len(sent) - CHANNEL_CAPACITY]
  /\ UNCHANGED <<collector, pc, initial, shown, told, table>>

(* Mutant of Lagged: the stream ends. *)
LaggedEnds(p) ==
  /\ pc[p] = "live"
  /\ Len(sent) - next[p] > CHANNEL_CAPACITY
  /\ pc' = [pc EXCEPT ![p] = "ended"]
  /\ UNCHANGED <<collector, next, initial, shown, told, table>>

(* The receiver has been overtaken: it goes on from the oldest frame in    *)
(* the ring, and the page gets an event "lagged".                          *)
Lagged(p) ==
  /\ pc[p] = "live"
  /\ Len(sent) - next[p] > CHANNEL_CAPACITY
  /\ next' = [next EXCEPT ![p] = Len(sent) - CHANNEL_CAPACITY]
  /\ told' = [told EXCEPT ![p] =
       @ \cup {sent[i].ts : i \in (next[p] + 1)..(Len(sent) - CHANNEL_CAPACITY)}]
  /\ UNCHANGED <<collector, pc, initial, shown, table>>

Leave(p) ==
  /\ pc[p] \notin {"off", "closed"}
  /\ pc' = [pc EXCEPT ![p] = "closed"]
  /\ UNCHANGED <<collector, next, initial, shown, told, table>>

stream_handler(p) ==
  Subscribe(p) \/ ReadLatest(p) \/ InitialFrame(p) \/ LiveFrame(p) \/ Lagged(p)

-----------------------------------------------------------------------------
(* Mutant of save_samples: every INSERT is a transaction of its own. *)
save_samples_one_by_one(batch) ==
  \E n \in 0..Len(batch) : table' = table \o SubSeq(batch, 1, n)

(* One transaction for the batch: all of it, or an error and nothing.      *)
save_samples(batch) == table' = table \o batch \/ UNCHANGED table

(* Someone stores the newest batch, each at most once. *)
Save ==
  /\ latest.reading # {}
  /\ \A i \in DOMAIN table : table[i].ts < latest.ts
  /\ save_samples(metrics(latest))
  /\ UNCHANGED <<collector, pages>>

(* WHERE name = .. AND ts_ms BETWEEN .. AND .., over samples in the order   *)
(* of their ids.                                                           *)
where(ms, name, from, to) ==
  FlattenSeq([i \in DOMAIN ms |->
    IF ms[i].name = name /\ ms[i].ts >= from /\ ms[i].ts <= to
    THEN <<ms[i]>> ELSE <<>>])

(* ORDER BY ts_ms, id; batches are stored in the order of their times. *)
query_range(name, from, to) == where(table, name, from, to)

-----------------------------------------------------------------------------
Over == Len(sent) = MaxFrames /\ frame = {} /\ UNCHANGED vars

Next ==
  \/ \E r \in Reading : Collect(r)
  \/ Publish
  \/ \E p \in Page : stream_handler(p) \/ Leave(p)
  \/ Save \/ Over

Spec == Init /\ [][Next]_vars

(* The collector publishes what it took; a stream is polled as long as its *)
(* page is there.                                                          *)
Fairness ==
  /\ WF_vars(Publish)
  /\ \A p \in Page :
       WF_vars(ReadLatest(p) \/ InitialFrame(p) \/ LiveFrame(p) \/ Lagged(p))

FairSpec == Spec /\ Fairness

-----------------------------------------------------------------------------
(* A page that has caught up with its receiver has drawn every snapshot    *)
(* since its first, or was told that it missed some: none falls between    *)
(* the subscription and the read of `latest`.                              *)
NothingMissed ==
  \A p \in Page :
    pc[p] = "live" => (initial[p]..next[p]) \subseteq told[p] \cup {0}

(* What is pulled is never older than what was pushed: /alerts knows every *)
(* alert that some page shows.                                             *)
PullNotBehind == \A p \in Page : shown[p] <= latest.ts

(* A page, however slow, ends up with the newest snapshot, after any       *)
(* number of lags, unless it leaves.                                       *)
PageCatchesUp ==
  \A p \in Page :
    pc[p] = "subscribed" ~> (pc[p] = "closed" \/ shown[p] = latest.ts)

(* What the three rules are there for. *)
Alarming(i, m) ==
  \/ i = 1 /\ m.name = "cpu_usage_percent" /\ m.value > 90
  \/ i = 2 /\ m.name = "memory_used_percent" /\ m.value > 90
  \/ i = 3 /\ m.name = "disk_used_percent" /\ m.value >= 85

(* The alerts are, one to one, the samples that are alarming, each with    *)
(* its own label: two full disks give two alerts.                          *)
EveryBreachAlerts ==
  LET as == alerts(latest)
      ms == metrics(latest)
      hits == {x \in (1..3) \X (DOMAIN ms) : Alarming(x[1], ms[x[2]])} IN
  \E of \in Bijection(DOMAIN as, hits) :
    \A k \in DOMAIN as : as[k] = Alert(default_rules[of[k][1]], ms[of[k][2]])

(* Each name has one HELP and one TYPE, before its samples, although the   *)
(* samples of several disks come mixed.                                    *)
HeadersOnce ==
  LET ls == render_prometheus(metrics(latest)) IN
  \A i \in DOMAIN ls : ls[i].kind = "sample" =>
    \A k \in {"HELP", "TYPE"} :
      LET at == {j \in DOMAIN ls : ls[j].kind = k /\ ls[j].name = ls[i].name} IN
      \E j \in at : at = {j} /\ j < i

(* Of a batch of which anything is stored a query finds every sample of a  *)
(* name, in their order.                                                   *)
BatchesWhole ==
  \A i \in DOMAIN sent :
    \A name \in {"cpu_usage_percent", "disk_used_percent", "load_average"} :
      LET ts == sent[i].ts IN
      (\E j \in DOMAIN table : table[j].ts = ts)
        => query_range(name, ts, ts) = where(metrics(sent[i]), name, 0, MaxFrames)

(* "At most the initial frame is repeated": what a page shows does not go  *)
(* back to an older snapshot.                                              *)
NeverGoesBack == [][\A p \in Page : shown'[p] >= shown[p]]_vars

(* What is pushed, pulled, alerted on, exported and queried is one and the *)
(* same series of snapshots, each whole.                                   *)
FeedAgrees ==
  /\ NothingMissed /\ PullNotBehind
  /\ EveryBreachAlerts /\ HeadersOnce /\ BatchesWhole
=============================================================================
