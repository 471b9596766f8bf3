------------------------------ MODULE TodoCrud ------------------------------
(* The todo services over three databases (examples/todo_api on SQLite,     *)
(* todo_api_pg on PostgreSQL, mysql_demo), one `dialect` per behaviour.     *)
(* Instances start at once and migrate, then each handles one request at a  *)
(* time; every SQL statement is one step.  SQLite has no RETURNING in this  *)
(* code: it inserts and reads back, and a PATCH reads, merges, writes and   *)
(* reads back; PostgreSQL does each in one statement.                       *)
EXTENDS Integers, FiniteSetsExt

CONSTANTS Instance, Title, MaxId   \* MaxId bounds the inserts

VARIABLES dialect, exists,
          advisory,    \* holder of pg_advisory_xact_lock
          failed,      \* instances whose migration reported a duplicate key
          rows,        \* todos: id -> [title, done]
          next_id,
          pc, id, patch, current,   \* per instance: the request in progress
          \* what the requests asked for
          meant,       \* id -> the last value that a request gave each field
          creator,     \* id -> instance whose INSERT made the row
          raced        \* ids written over a row that had changed since the read

vars == <<dialect, exists, advisory, failed, rows, next_id, pc, id, patch,
          current, meant, creator, raced>>

None == "none"
TodoAssumption == None \notin Instance /\ MaxId \in Nat

Id == 1 .. MaxId
Row == [title : Title, done : BOOLEAN]
Option(S) == {{}} \union {{v} : v \in S}
Patch ==
  [title : Option(Title), done : Option(BOOLEAN)] \ {[title |-> {}, done |-> {}]}

Init ==
  /\ dialect \in {"sqlite", "postgres", "mysql"}
  /\ exists = FALSE /\ advisory = None /\ failed = {}
  /\ rows = <<>> /\ next_id = 1
  /\ pc = [i \in Instance |-> "begin"] /\ id = [i \in Instance |-> 0]
  /\ patch = [i \in Instance |-> None] /\ current = [i \in Instance |-> None]
  /\ meant = <<>> /\ creator = <<>> /\ raced = {}

table == <<rows, next_id, meant, creator, raced>>
request == <<id, patch, current>>

(* migrate: in PostgreSQL the existence check of CREATE TABLE IF NOT EXISTS *)
(* and the creation are two steps, under a transaction's advisory lock.     *)
LockMigration_none(i) ==   \* mutant: no pg_advisory_xact_lock
  /\ dialect = "postgres" /\ pc[i] = "begin"
  /\ pc' = [pc EXCEPT ![i] = "check"]
  /\ UNCHANGED <<dialect, exists, advisory, failed, table, request>>

LockMigration(i) ==
  /\ dialect = "postgres" /\ pc[i] = "begin" /\ advisory = None
  /\ advisory' = i
  /\ pc' = [pc EXCEPT ![i] = "check"]
  /\ UNCHANGED <<dialect, exists, failed, table, request>>

CheckTable(i) ==
  /\ pc[i] = "check"
  /\ IF exists THEN /\ pc' = [pc EXCEPT ![i] = "ready"] /\ advisory' = None
               ELSE /\ pc' = [pc EXCEPT ![i] = "missing"] /\ UNCHANGED advisory
  /\ UNCHANGED <<dialect, exists, failed, table, request>>

CreateTable(i) ==
  /\ pc[i] = "missing"
  /\ failed' = IF exists THEN failed \union {i} ELSE failed
  /\ exists' = TRUE /\ advisory' = None
  /\ pc' = [pc EXCEPT ![i] = "ready"]
  /\ UNCHANGED <<dialect, table, request>>

MigrateAtOnce(i, d) ==
  /\ dialect = d /\ pc[i] = "begin"
  /\ exists' = TRUE /\ pc' = [pc EXCEPT ![i] = "ready"]
  /\ UNCHANGED <<dialect, advisory, failed, table, request>>

(* In SQLite and MySQL the statement is atomic. *)
migrate_sqlite(i) == MigrateAtOnce(i, "sqlite")
migrate_mysql(i) == MigrateAtOnce(i, "mysql")

migrated == <<dialect, exists, advisory, failed>>

With(f, k, v) == [j \in DOMAIN f \union {k} |-> IF j = k THEN v ELSE f[j]]

(* AUTOINCREMENT, BIGSERIAL, AUTO_INCREMENT: an id is never given twice. *)
NewId_reused == Max(DOMAIN rows \union {0}) + 1   \* mutant: a plain rowid
NewId == next_id

create(i, t) ==
  /\ pc[i] = "ready" /\ next_id <= MaxId
  /\ LET new == [title |-> t, done |-> FALSE]
     IN /\ rows' = With(rows, NewId, new)
        /\ meant' = With(meant, NewId, new)
        /\ creator' = With(creator, NewId, i)
  /\ next_id' = next_id + 1
  /\ IF dialect = "sqlite"
       THEN /\ id' = [id EXCEPT ![i] = NewId]
            /\ pc' = [pc EXCEPT ![i] = "get_created"]

       ELSE UNCHANGED <<pc, id>>
  /\ UNCHANGED <<migrated, patch, current, raced>>

(* The answer is sent. *)
Done(i) ==
  /\ pc' = [pc EXCEPT ![i] = "ready"] /\ id' = [id EXCEPT ![i] = 0]
  /\ patch' = [patch EXCEPT ![i] = None]
  /\ current' = [current EXCEPT ![i] = None]

(* What get(last_insert_rowid) finds: perhaps nothing, a 404. *)
Answer(i) == {k \in DOMAIN rows : pc[i] = "get_created" /\ k = id[i]}

(* get: 404 when the row has gone meanwhile, although it was created. *)
GetCreated(i) ==
  /\ pc[i] = "get_created"
  /\ Done(i)
  /\ UNCHANGED <<migrated, table>>

(* COALESCE($1, title), or input.title else current.title. *)
OrElse(option, v) == CHOOSE w \in option \union {v} : option # {} => w \in option
Merge(p, r) ==
  [title |-> OrElse(p.title, r.title), done |-> OrElse(p.done, r.done)]

(* UPDATE ... SET title = COALESCE(...), done = COALESCE(...) RETURNING. *)
update_replaces(i, k, p) ==   \* mutant: what was not sent is reset
  /\ dialect = "postgres" /\ pc[i] = "ready" /\ k \in DOMAIN rows
  /\ rows' = [rows EXCEPT ![k] = Merge(p, [@ EXCEPT !.done = FALSE])]
  /\ meant' = [meant EXCEPT ![k] = Merge(p, @)]
  /\ UNCHANGED <<migrated, request, pc, next_id, creator, raced>>

update(i, k, p) ==
  /\ dialect = "postgres" /\ pc[i] = "ready" /\ k \in DOMAIN rows
  /\ rows' = [rows EXCEPT ![k] = Merge(p, @)]
  /\ meant' = [meant EXCEPT ![k] = Merge(p, @)]
  /\ UNCHANGED <<migrated, request, pc, next_id, creator, raced>>

(* mysql_demo's set_done. *)
set_done(i, k, d) ==
  /\ dialect = "mysql" /\ pc[i] = "ready" /\ k \in DOMAIN rows
  /\ rows' = [rows EXCEPT ![k].done = d]
  /\ meant' = [meant EXCEPT ![k].done = d]
  /\ UNCHANGED <<migrated, request, pc, next_id, creator, raced>>

(* SQLite's update: get, UPDATE of both columns, get. *)
GetCurrent(i, k, p) ==
  /\ dialect = "sqlite" /\ pc[i] = "ready" /\ k \in DOMAIN rows
  /\ current' = [current EXCEPT ![i] = rows[k]]
  /\ id' = [id EXCEPT ![i] = k] /\ patch' = [patch EXCEPT ![i] = p]
  /\ pc' = [pc EXCEPT ![i] = "write"]
  /\ UNCHANGED <<migrated, table>>

WriteMerged(i) ==
  /\ pc[i] = "write"
  /\ IF id[i] \in DOMAIN rows
       THEN /\ rows' = [rows EXCEPT ![id[i]] = Merge(patch[i], current[i])]
            /\ meant' = [meant EXCEPT ![id[i]] = Merge(patch[i], @)]
            /\ raced' = IF rows[id[i]] = current[i]
                            THEN raced ELSE raced \union {id[i]}
       ELSE UNCHANGED <<rows, meant, raced>>
  /\ Done(i)
  /\ UNCHANGED <<migrated, next_id, creator>>

(* DELETE ... WHERE id: one statement, whatever was read before. *)
Delete(i, k, d) ==
  /\ dialect = d
  /\ pc[i] = "ready" /\ k \in DOMAIN rows
  /\ rows' = [j \in DOMAIN rows \ {k} |-> rows[j]]
  /\ meant' = [j \in DOMAIN rows \ {k} |-> meant[j]]
  /\ creator' = [j \in DOMAIN rows \ {k} |-> creator[j]]
  /\ raced' = raced \ {k}
  /\ UNCHANGED <<migrated, request, pc, next_id>>

delete(i, k) == Delete(i, k, "postgres")
delete_todo(i, k) == Delete(i, k, "mysql")
delete_sqlite(i, k) == Delete(i, k, "sqlite")

Next == \E i \in Instance :
  \/ LockMigration(i) \/ CheckTable(i) \/ CreateTable(i)
  \/ migrate_sqlite(i) \/ migrate_mysql(i)
  \/ GetCreated(i) \/ WriteMerged(i)
  \/ \E t \in Title : create(i, t)
  \/ \E k \in Id : \/ delete(i, k) \/ delete_todo(i, k) \/ delete_sqlite(i, k)
                   \/ \E p \in Patch : update(i, k, p) \/ GetCurrent(i, k, p)
                   \/ \E d \in BOOLEAN : set_done(i, k, d)

Spec == Init /\ [][Next]_vars

(* What a request set in a field stays until another request sets that      *)
(* field: always with one-statement updates, and in SQLite unless the row   *)
(* changed between the read and the write of a PATCH.                       *)
FieldsStick ==
  \A k \in DOMAIN rows : rows[k] = meant[k] \/ (dialect = "sqlite" /\ k \in raced)

(* The answer to a create is the row that this very request created, also   *)
(* when it is read back by id after others deleted and created.             *)
AnswersOwnRow == \A i \in Instance : \A k \in Answer(i) : creator[k] = i

(* Instances that start together on an empty database all come up.          *)
AllStart == failed = {}

(* Instances on one database start together, and their requests do not get *)
(* in each other's way.                                                    *)
CrudSound == FieldsStick /\ AnswersOwnRow /\ AllStart
=============================================================================
