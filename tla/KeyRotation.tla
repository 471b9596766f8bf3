---------------------------- MODULE KeyRotation ----------------------------
(***************************************************************************)
(* db_crypto/src/store.rs: the table dbcrypto.contacts while its key is    *)
(* rotated from v1 to v2 under running instances.                          *)
(*                                                                         *)
(* Every instance has its own ring, read when it starts.  The operator     *)
(* deploys four stages, one instance at a time and each stage everywhere   *)
(* before the next: v1; both keys, v1 active (`with_active_version`); both *)
(* keys, v2 active (`from_env`); v2 alone, once no phone_enc without the   *)
(* prefix v2 is left, the rule of the comment on rotate_all.               *)
(***************************************************************************)
EXTENDS FieldCrypto

CONSTANTS
  Instance,   \* processes of the application
  Row,        \* rows the table may get
  Phone,      \* numbers as they may be typed: [of, format]
  MaxCrashes  \* bound: jobs interrupted

ASSUME CrashesAssumption == MaxCrashes \in Nat

VARIABLES
  contacts,   \* contacts[r]: {} or {[phone_enc, phone_idx, id_card_enc]}
  stage,      \* stage[i]: which configuration i runs with
  job,        \* job[i]: what is left of the SELECT of i's rotate_all, as
              \* pairs <<r, row>>; and whether i is in one
  crashes,
  garbled     \* history: rows whose stored values were damaged

vars == <<contacts, stage, job, crashes, garbled>>

Person == {phone.of : phone \in Phone}
Card == [card : Person]
Enc(P) == [version : 1..2, sealed : P] \cup {Garbled}
Contact == [phone_enc : Enc(Phone), phone_idx : Person, id_card_enc : Enc(Card)]

Stages == 1..4
Ring(s) ==
  [keys |-> CASE s = 1 -> {1} [] s = 4 -> {2} [] OTHER -> {1, 2},
   active |-> IF s <= 2 THEN 1 ELSE 2]

Idle == [on |-> FALSE, rest |-> {}]

TypeOK ==
  /\ contacts \in [Row -> SUBSET Contact]
  /\ stage \in [Instance -> Stages]
  /\ job \in [Instance -> [on : BOOLEAN, rest : SUBSET (Row \X Contact)]]
  /\ crashes \in 0..MaxCrashes
  /\ garbled \subseteq Row

Init ==
  /\ contacts = [r \in Row |-> {}]
  /\ stage = [i \in Instance |-> 1]
  /\ job = [i \in Instance |-> Idle]
  /\ crashes = 0
  /\ garbled = {}

-----------------------------------------------------------------------------
(* insert_contact: both fields under the active key, one INSERT.  The id   *)
(* is the database's.                                                      *)
insert_contact(i, r, phone) ==
  LET ring == Ring(stage[i]) IN
  /\ contacts[r] = {}
  /\ contacts' = [contacts EXCEPT ![r] =
       {[phone_enc |-> encrypt_field(ring, phone),
         phone_idx |-> blind_index(phone),
         id_card_enc |-> encrypt_field(ring, [card |-> phone.of])]}]
  /\ UNCHANGED <<stage, job, crashes, garbled>>

Matches(row, phone) == row.phone_idx = blind_index(phone)

(* find_by_phone: the rows with the index of the number; the whole query   *)
(* fails when one of them cannot be decrypted.                             *)
Hits(phone) == {r \in Row : \E row \in contacts[r] : Matches(row, phone)}

Opens(ring, row) ==
  /\ decrypt_field(ring, row.phone_enc) # {}
  /\ decrypt_field(ring, row.id_card_enc) # {}

find_by_phone_ok(i, phone) ==
  \A r \in Hits(phone) : \A row \in contacts[r] : Opens(Ring(stage[i]), row)

-----------------------------------------------------------------------------
(* rotate_all: one SELECT of the whole table ... *)
LoadRows(i) ==
  /\ ~job[i].on
  /\ job' = [job EXCEPT ![i] =
       [on |-> TRUE,
        rest |-> {x \in Row \X UNION {contacts[r] : r \in Row} :
                    x[2] \in contacts[x[1]]}]]
  /\ UNCHANGED <<contacts, stage, crashes, garbled>>

Unchanged(row, phone, card) ==
  phone = row.phone_enc /\ card = row.id_card_enc

(* Mutant of Rewritten: the UPDATE forgets the second column. *)
RewrittenPhoneOnly(row, phone, card) == [row EXCEPT !.phone_enc = phone]

(* Mutant of Rewritten: the number is normalised while it is re-encrypted. *)
RewrittenNormal(row, phone, card) ==
  [row EXCEPT !.phone_enc = [phone EXCEPT !.sealed.format = "plain"],
              !.id_card_enc = card]

(* The UPDATE sets both fields and leaves the blind index. *)
Rewritten(row, phone, card) ==
  [row EXCEPT !.phone_enc = phone, !.id_card_enc = card]

(* ... then row by row: nothing when both fields are already of the active *)
(* version, otherwise one UPDATE computed from the row as it was selected. *)
RotateRow(i, x) ==
  /\ x \in job[i].rest
  /\ \E phone \in rotate_field(Ring(stage[i]), x[2].phone_enc),
        card \in rotate_field(Ring(stage[i]), x[2].id_card_enc) :
       IF Unchanged(x[2], phone, card)
       THEN UNCHANGED contacts
       ELSE contacts' = [contacts EXCEPT ![x[1]] =
              {Rewritten(row, phone, card) : row \in @}]
  /\ job' = [job EXCEPT ![i].rest = @ \ {x}]
  /\ UNCHANGED <<stage, crashes, garbled>>

(* A field that cannot be opened ends the whole job, and so does a failing *)
(* UPDATE; the rows done so far stay done.                                 *)
RotateRowFails(i) ==
  /\ \E x \in job[i].rest :
       \/ rotate_field(Ring(stage[i]), x[2].phone_enc) = {}
       \/ rotate_field(Ring(stage[i]), x[2].id_card_enc) = {}
  /\ job' = [job EXCEPT ![i] = Idle]
  /\ UNCHANGED <<contacts, stage, crashes, garbled>>

RotateReturns(i) ==
  /\ job[i].on /\ job[i].rest = {}
  /\ job' = [job EXCEPT ![i] = Idle]
  /\ UNCHANGED <<contacts, stage, crashes, garbled>>

(* The job's process dies, or its database fails. *)
Interrupted(i) ==
  /\ job[i].on
  /\ crashes < MaxCrashes
  /\ job' = [job EXCEPT ![i] = Idle]
  /\ crashes' = crashes + 1
  /\ UNCHANGED <<contacts, stage, garbled>>

-----------------------------------------------------------------------------
(* No row left whose phone_enc is NOT LIKE 'v2:%'. *)
NoOldPrefix ==
  \A r \in Row : \A row \in contacts[r] : row.phone_enc.version = 2

(* The operator restarts i with the next stage. *)
Redeploy(i) ==
  /\ stage[i] < 4
  /\ \A j \in Instance : stage[j] \in {stage[i], stage[i] + 1}
  /\ stage[i] = 3 => NoOldPrefix
  /\ stage' = [stage EXCEPT ![i] = @ + 1]
  /\ job' = [job EXCEPT ![i] = Idle]
  /\ UNCHANGED <<contacts, crashes, garbled>>

(* A stored ciphertext is damaged in the database. *)
Damage(r) ==
  /\ contacts[r] # {}
  /\ r \notin garbled
  /\ contacts' = [contacts EXCEPT ![r] =
       {[row EXCEPT !.id_card_enc = Garbled] : row \in @}]
  /\ garbled' = garbled \cup {r}
  /\ UNCHANGED <<stage, job, crashes>>

rotate_all(i) ==
  LoadRows(i) \/ (\E x \in job[i].rest : RotateRow(i, x))
    \/ RotateRowFails(i) \/ RotateReturns(i)

Next ==
  \/ \E i \in Instance :
       \/ \E r \in Row, phone \in Phone : insert_contact(i, r, phone)
       \/ rotate_all(i) \/ Interrupted(i) \/ Redeploy(i)
  \/ \E r \in Row : Damage(r)

Spec == Init /\ [][Next]_vars

(* Jobs are polled on, and the operator starts rotate_all again as long as *)
(* the table holds the old prefix: "interrupted, it can be run again".     *)
Fairness ==
  \A i \in Instance :
    /\ WF_vars(stage[i] = 3 /\ ~NoOldPrefix /\ LoadRows(i))
    /\ WF_vars(stage[i] = 3 /\ \E x \in job[i].rest : RotateRow(i, x))
    /\ WF_vars(stage[i] = 3 /\ (RotateRowFails(i) \/ RotateReturns(i)))

FairSpec == Spec /\ Fairness

-----------------------------------------------------------------------------
(* No key is retired too early: during the whole rotation, with jobs of    *)
(* old and new instances under way at once, a search fails on an instance  *)
(* only because one of its rows was damaged.                               *)
FindSucceeds ==
  \A i \in Instance, phone \in Phone :
    find_by_phone_ok(i, phone) \/ Hits(phone) \cap garbled # {}

(* However it is written, a number finds all the rows of its owner and no  *)
(* other, whichever key sealed them, and rotation from an old SELECT does  *)
(* not mix up the fields of a row.                                         *)
RowsWhole ==
  \A r \in Row : \A row \in contacts[r] :
    /\ \A phone \in Phone :
         r \in Hits(phone) <=> row.phone_enc.sealed.of = phone.of
    /\ r \notin garbled => row.id_card_enc.sealed.card = row.phone_enc.sealed.of

(* When every instance has v2 active, rerunning the job after every        *)
(* interruption does away with the old prefix, unless a row is damaged:    *)
(* one such row stops every run.                                           *)
RotationCompletes ==
  (\A i \in Instance : stage[i] >= 3) ~> (NoOldPrefix \/ garbled # {})

(* In every phase of a rotation a number finds exactly its owner's rows,   *)
(* and a row has the fields of one person.                                 *)
RowsFound == FindSucceeds /\ RowsWhole

(* What all instances can read of a field. *)
CommonRing == [keys |-> {v \in 1..2 : \A i \in Instance : v \in Ring(stage[i]).keys}]
ReadByAll(c) == decrypt_field(CommonRing, c)

ReadPhones ==
  [r \in Row |-> UNION {ReadByAll(row.phone_enc) : row \in contacts[r]}]
ReadCards ==
  [r \in Row |-> UNION {ReadByAll(row.id_card_enc) : row \in contacts[r]}]

Plain == INSTANCE PlainContacts WITH phones <- ReadPhones, cards <- ReadCards

(* A rotation cannot be seen from outside: searches find what they ought   *)
(* to, and what the instances read, each with its own keys, is a table     *)
(* that nobody encrypts, deploys or rotates.                               *)
RotationInvisible == []RowsFound /\ Plain!Spec
=============================================================================
