---------------------------- MODULE Jobs_proofs ----------------------------
(***************************************************************************)
(* Proofs about jobs that are interrupted and taken up again: the rotation *)
(* of keys (KeyRotation), for any instances, rows and numbers, and the     *)
(* consumers of a queue (MqRabbit, as the instance Queue), for any         *)
(* channels, messages and bounds.                                          *)
(***************************************************************************)
EXTENDS MCJobs, SequenceTheorems, FiniteSetTheorems, TLAPS

-----------------------------------------------------------------------------
(* KeyRotation.                                                            *)

(* The operator's rule: each stage everywhere before the next. *)
StagesClose == \A i, j \in Instance : stage[i] <= stage[j] + 1

(* A row that an instance may hold: sealed and indexed for one person,     *)
(* both fields under one key unless the card is damaged.                   *)
Sound(row) ==
  /\ row \in Contact
  /\ row.phone_enc # Garbled
  /\ row.phone_idx = row.phone_enc.sealed.of
  /\ row.id_card_enc # Garbled =>
       /\ row.id_card_enc.version = row.phone_enc.version
       /\ row.id_card_enc.sealed.card = row.phone_enc.sealed.of

TableInv ==
  \A r \in Row : \A row \in contacts[r] :
    /\ contacts[r] = {row}
    /\ Sound(row)
    /\ row.id_card_enc = Garbled => r \in garbled

(* What a job selected is of the same person as what the table holds now. *)
JobInv ==
  \A i \in Instance : \A x \in job[i].rest :
    /\ Sound(x[2])
    /\ \E row \in contacts[x[1]] :
         row.phone_enc.sealed = x[2].phone_enc.sealed

(* The table is readable by the instances at either end of the rotation. *)
VersionInv ==
  \A i \in Instance, r \in Row : \A row \in contacts[r] :
    row.phone_enc.version \in Ring(stage[i]).keys

RotationInv == TypeOK /\ StagesClose /\ TableInv /\ JobInv /\ VersionInv

LEMMA Rings ==
  ASSUME NEW s \in Stages
  PROVE /\ Ring(s).active \in Ring(s).keys
        /\ Ring(s).active \in 1..2 /\ Ring(s).keys \subseteq 1..2
        /\ \A t \in Stages : (s <= t + 1 /\ t <= s + 1) =>
             Ring(s).active \in Ring(t).keys
BY DEF Stages, Ring

(* What is sealed under the active key of an instance can be opened by     *)
(* every instance.                                                         *)
LEMMA ActiveReadable ==
  ASSUME RotationInv, NEW i \in Instance, NEW j \in Instance
  PROVE Ring(stage[i]).active \in Ring(stage[j]).keys
BY Rings DEF RotationInv, TypeOK, StagesClose, Stages, Ring

LEMMA RotationStart == ASSUME Init PROVE RotationInv
<1>1. TypeOK BY CrashesAssumption DEF Init, TypeOK, Idle, Stages
<1>2. StagesClose BY DEF Init, StagesClose
<1>3. TableInv BY DEF Init, TableInv
<1>4. JobInv BY DEF Init, JobInv, Idle
<1>5. VersionInv BY DEF Init, VersionInv
<1> QED BY <1>1, <1>2, <1>3, <1>4, <1>5 DEF RotationInv

LEMMA InsertStep ==
  ASSUME RotationInv, NEW i \in Instance, NEW r \in Row, NEW phone \in Phone,
         insert_contact(i, r, phone)
  PROVE RotationInv'
<1> DEFINE ring == Ring(stage[i])
           row == [phone_enc |-> encrypt_field(ring, phone),
                   phone_idx |-> blind_index(phone),
                   id_card_enc |-> encrypt_field(ring, [card |-> phone.of])]
<1>0. /\ contacts[r] = {} /\ contacts' = [contacts EXCEPT ![r] = {row}]
      /\ UNCHANGED <<stage, job, crashes, garbled>>
  BY DEF insert_contact
<1>1. ring.active \in 1..2 /\ \A j \in Instance : ring.active \in Ring(stage[j]).keys
  BY Rings, ActiveReadable DEF RotationInv, TypeOK
<1>2. /\ row.phone_enc = [version |-> ring.active, sealed |-> phone]
      /\ row.phone_idx = phone.of
      /\ row.id_card_enc = [version |-> ring.active, sealed |-> [card |-> phone.of]]
      /\ row = [phone_enc |-> row.phone_enc, phone_idx |-> row.phone_idx,
                id_card_enc |-> row.id_card_enc]
  BY DEF encrypt_field, blind_index, normalize
<1> HIDE DEF ring, row
<1>3. Sound(row) /\ row.id_card_enc # Garbled
  <2>1. row.phone_enc \in Enc(Phone) /\ row.phone_enc # Garbled
    BY <1>1, <1>2 DEF Enc, Garbled
  <2>2. phone.of \in Person BY DEF Person
  <2>3. row.id_card_enc \in Enc(Card) /\ row.id_card_enc # Garbled
    BY <1>1, <1>2, <2>2 DEF Enc, Garbled, Card
  <2>4. row \in Contact BY <1>2, <2>1, <2>2, <2>3 DEF Contact
  <2> QED BY <1>2, <2>1, <2>3, <2>4 DEF Sound
<1>4. /\ contacts'[r] = {row}
      /\ \A q \in Row \ {r} : contacts'[q] = contacts[q]
      /\ contacts' \in [Row -> SUBSET Contact]
  BY <1>0, <1>3 DEF RotationInv, TypeOK, Sound
<1>5. TypeOK' /\ StagesClose'
  BY <1>0, <1>4 DEF RotationInv, TypeOK, StagesClose
<1>6. TableInv' BY <1>0, <1>3, <1>4 DEF RotationInv, TableInv
<1>7. JobInv'
  <2> SUFFICES ASSUME NEW k \in Instance, NEW x \in job[k].rest
      PROVE /\ Sound(x[2])
            /\ \E w \in contacts'[x[1]] : w.phone_enc.sealed = x[2].phone_enc.sealed
    BY <1>0 DEF JobInv
  <2>1. x[1] # r
    BY <1>0 DEF RotationInv, JobInv
  <2> QED BY <1>4, <2>1 DEF RotationInv, JobInv, TypeOK
<1>8. VersionInv' BY <1>0, <1>1, <1>2, <1>4 DEF RotationInv, VersionInv
<1> QED BY <1>5, <1>6, <1>7, <1>8 DEF RotationInv

LEMMA LoadStep ==
  ASSUME RotationInv, NEW i \in Instance, LoadRows(i) PROVE RotationInv'
<1> DEFINE rows == {x \in Row \X UNION {contacts[r] : r \in Row} :
                      x[2] \in contacts[x[1]]}
<1>0. /\ job' = [job EXCEPT ![i] = [on |-> TRUE, rest |-> rows]]
      /\ UNCHANGED <<contacts, stage, crashes, garbled>>
  BY DEF LoadRows
<1>1. rows \subseteq Row \X Contact BY DEF RotationInv, TypeOK
<1>2. \A x \in rows : x[1] \in Row /\ x[2] \in contacts[x[1]] OBVIOUS
<1> HIDE DEF rows
<1>3. TypeOK' BY <1>0, <1>1 DEF RotationInv, TypeOK
<1>4. StagesClose' /\ TableInv' /\ VersionInv'
  BY <1>0 DEF RotationInv, StagesClose, TableInv, VersionInv
<1>5. JobInv'
  <2> SUFFICES ASSUME NEW k \in Instance, NEW x \in job'[k].rest
      PROVE /\ Sound(x[2])
            /\ \E w \in contacts[x[1]] : w.phone_enc.sealed = x[2].phone_enc.sealed
    BY <1>0 DEF JobInv
  <2>1. CASE k = i
    <3>1. x \in rows BY <1>0, <2>1 DEF RotationInv, TypeOK
    <3> QED BY <1>2, <3>1 DEF RotationInv, TableInv
  <2>2. CASE k # i
    BY <1>0, <2>2 DEF RotationInv, JobInv, TypeOK
  <2> QED BY <2>1, <2>2
<1> QED BY <1>3, <1>4, <1>5 DEF RotationInv

(* What rotate_field makes of a field of a sound row. *)
LEMMA RotatedField ==
  ASSUME NEW s \in Stages, NEW P, NEW c \in Enc(P), NEW d \in rotate_field(Ring(s), c)
  PROVE /\ c # Garbled
        /\ d = [version |-> Ring(s).active, sealed |-> c.sealed]
<1>1. CASE c.version = Ring(s).active
  <2>1. c # Garbled BY <1>1, Rings DEF Garbled
  <2>2. c \in [version : 1..2, sealed : P] BY <2>1 DEF Enc
  <2>3. c = [version |-> c.version, sealed |-> c.sealed] BY <2>2
  <2>4. d = c BY <1>1 DEF rotate_field
  <2> QED BY <1>1, <2>1, <2>3, <2>4
<1>2. CASE c.version # Ring(s).active
  BY <1>2 DEF rotate_field, decrypt_field, encrypt_field
<1> QED BY <1>1, <1>2

LEMMA RotateStep ==
  ASSUME RotationInv, NEW i \in Instance, NEW x \in job[i].rest, RotateRow(i, x)
  PROVE RotationInv'
<1> DEFINE v == Ring(stage[i]).active
<1>0. /\ job' = [job EXCEPT ![i].rest = @ \ {x}]
      /\ UNCHANGED <<stage, crashes, garbled>>
  BY DEF RotateRow
<1>1. PICK phone \in rotate_field(Ring(stage[i]), x[2].phone_enc),
           card \in rotate_field(Ring(stage[i]), x[2].id_card_enc) :
        IF Unchanged(x[2], phone, card)
        THEN UNCHANGED contacts
        ELSE contacts' = [contacts EXCEPT ![x[1]] =
               {Rewritten(row, phone, card) : row \in @}]
  BY DEF RotateRow
<1>2. x \in Row \X Contact /\ stage[i] \in Stages
  BY DEF RotationInv, TypeOK
<1>3. Sound(x[2]) BY DEF RotationInv, JobInv
<1>4. PICK old \in contacts[x[1]] : old.phone_enc.sealed = x[2].phone_enc.sealed
  BY DEF RotationInv, JobInv
<1>5. contacts[x[1]] = {old} /\ Sound(old) BY <1>2, <1>4 DEF RotationInv, TableInv
<1>6. /\ phone = [version |-> v, sealed |-> x[2].phone_enc.sealed]
      /\ card = [version |-> v, sealed |-> x[2].id_card_enc.sealed]
      /\ x[2].id_card_enc # Garbled
  BY <1>1, <1>2, RotatedField DEF Contact
<1>7. v \in 1..2 /\ \A j \in Instance : v \in Ring(stage[j]).keys
  BY <1>2, Rings, ActiveReadable
<1> HIDE DEF v
<1>8. TypeOK' /\ JobInv' /\ TableInv' /\ VersionInv'
  <2>1. \A k \in Instance : job'[k].rest \subseteq job[k].rest /\ job'[k].on = job[k].on
    BY <1>0 DEF RotationInv, TypeOK
  <2>2. job' \in [Instance -> [on : BOOLEAN, rest : SUBSET (Row \X Contact)]]
    BY <1>0 DEF RotationInv, TypeOK
  <2>3. CASE UNCHANGED contacts
    <3>1. TypeOK' /\ TableInv' /\ VersionInv'
      BY <1>0, <2>2, <2>3 DEF RotationInv, TypeOK, TableInv, VersionInv
    <3>2. JobInv' BY <2>1, <2>3 DEF RotationInv, JobInv
    <3> QED BY <3>1, <3>2
  <2>4. CASE contacts' = [contacts EXCEPT ![x[1]] =
                            {Rewritten(row, phone, card) : row \in @}]
    <3> DEFINE new == Rewritten(old, phone, card)
    <3>1. /\ contacts'[x[1]] = {new}
          /\ \A q \in Row \ {x[1]} : contacts'[q] = contacts[q]
          /\ contacts' = [contacts EXCEPT ![x[1]] = {new}]
      BY <1>2, <1>5, <2>4 DEF RotationInv, TypeOK
    <3>2. old \in Contact /\ x[2] \in Contact BY <1>3, <1>5 DEF Sound
    <3>3. new = [phone_enc |-> phone, phone_idx |-> old.phone_idx,
                 id_card_enc |-> card]
      <4>1. old = [phone_enc |-> old.phone_enc, phone_idx |-> old.phone_idx,
                   id_card_enc |-> old.id_card_enc]
        BY <3>2 DEF Contact
      <4>2. new = [old EXCEPT !.phone_enc = phone, !.id_card_enc = card]
        BY DEF Rewritten
      <4> QED BY <4>1, <4>2
    <3>4. phone \in Enc(Phone) /\ phone # Garbled
      <4>1. x[2].phone_enc \in [version : 1..2, sealed : Phone]
        BY <1>3, <3>2 DEF Contact, Enc, Sound
      <4> QED BY <1>6, <1>7, <4>1 DEF Enc, Garbled
    <3>5. card \in Enc(Card) /\ card # Garbled
      <4>1. x[2].id_card_enc \in [version : 1..2, sealed : Card]
        BY <1>6, <3>2 DEF Contact, Enc
      <4> QED BY <1>6, <1>7, <4>1 DEF Enc, Garbled
    <3>6. card.sealed.card = phone.sealed.of /\ old.phone_idx = phone.sealed.of
      BY <1>3, <1>4, <1>5, <1>6 DEF Sound
    <3>7. card.version = phone.version BY <1>6
    <3> HIDE DEF new
    <3>8. new \in Contact BY <3>2, <3>3, <3>4, <3>5 DEF Contact
    <3>9. Sound(new) /\ new.id_card_enc # Garbled
      BY <3>3, <3>4, <3>5, <3>6, <3>7, <3>8 DEF Sound
    <3>10. TypeOK'
      BY <1>0, <2>2, <3>1, <3>8 DEF RotationInv, TypeOK
    <3>11. TableInv' BY <1>0, <1>2, <3>1, <3>9 DEF RotationInv, TableInv
    <3>12. VersionInv'
      BY <1>0, <1>2, <1>6, <1>7, <3>1, <3>3 DEF RotationInv, VersionInv
    <3>13. new.phone_enc.sealed = old.phone_enc.sealed
      BY <1>4, <1>6, <3>3
    <3>14. JobInv'
      <4> SUFFICES ASSUME NEW k \in Instance, NEW y \in job[k].rest
          PROVE /\ Sound(y[2])
                /\ \E w \in contacts'[y[1]] : w.phone_enc.sealed = y[2].phone_enc.sealed
        BY <2>1 DEF JobInv
      <4>1. Sound(y[2]) /\ y[1] \in Row
        BY DEF RotationInv, JobInv, TypeOK
      <4>2. PICK w \in contacts[y[1]] : w.phone_enc.sealed = y[2].phone_enc.sealed
        BY DEF RotationInv, JobInv
      <4>3. CASE y[1] = x[1] BY <1>5, <3>1, <3>13, <4>1, <4>2, <4>3
      <4>4. CASE y[1] # x[1] BY <3>1, <4>1, <4>2, <4>4
      <4> QED BY <4>3, <4>4
    <3> QED BY <3>10, <3>11, <3>12, <3>14
  <2> QED BY <1>1, <2>3, <2>4
<1> QED BY <1>0, <1>8 DEF RotationInv, StagesClose

(* A job that ends drops what it had selected. *)
LEMMA JobEnds ==
  ASSUME RotationInv, NEW i \in Instance,
         job' = [job EXCEPT ![i] = Idle],
         UNCHANGED <<contacts, stage, garbled>>, crashes' \in 0..MaxCrashes
  PROVE RotationInv'
<1>1. TypeOK' BY DEF RotationInv, TypeOK, Idle
<1>2. JobInv'
  <2>1. \A k \in Instance : job'[k].rest \subseteq job[k].rest
    BY DEF RotationInv, TypeOK, Idle
  <2> QED BY <2>1 DEF RotationInv, JobInv
<1> QED BY <1>1, <1>2 DEF RotationInv, StagesClose, TableInv, VersionInv

LEMMA RedeployStep ==
  ASSUME RotationInv, NEW i \in Instance, Redeploy(i) PROVE RotationInv'
<1>0. /\ stage[i] < 4 /\ \A j \in Instance : stage[j] \in {stage[i], stage[i] + 1}
      /\ stage' = [stage EXCEPT ![i] = @ + 1] /\ job' = [job EXCEPT ![i] = Idle]
      /\ UNCHANGED <<contacts, crashes, garbled>>
  BY DEF Redeploy
<1>1. \A j \in Instance : stage[j] \in 1..4 BY DEF RotationInv, TypeOK, Stages
<1>2. stage[i] = 3 => NoOldPrefix BY DEF Redeploy
<1>3. TypeOK' BY <1>0, <1>1 DEF RotationInv, TypeOK, Stages, Idle
<1>4. StagesClose' BY <1>0, <1>1 DEF RotationInv, StagesClose, TypeOK
<1>5. JobInv'
  <2>1. \A k \in Instance : job'[k].rest \subseteq job[k].rest
    BY <1>0 DEF RotationInv, TypeOK, Idle
  <2> QED BY <1>0, <2>1 DEF RotationInv, JobInv
<1>6. VersionInv'
  <2> SUFFICES ASSUME NEW k \in Instance, NEW r \in Row, NEW row \in contacts[r]
      PROVE row.phone_enc.version \in Ring(stage'[k]).keys
    BY <1>0 DEF VersionInv
  <2>1. row.phone_enc.version \in Ring(stage[k]).keys
    BY DEF RotationInv, VersionInv
  <2>2. CASE k # i
    BY <1>0, <2>1, <2>2 DEF RotationInv, TypeOK
  <2>3. CASE k = i /\ stage[i] = 3
    <3>1. row.phone_enc.version = 2 BY <1>2, <2>3 DEF NoOldPrefix
    <3>2. stage'[k] = 4 BY <1>0, <1>1, <2>3 DEF RotationInv, TypeOK
    <3> QED BY <3>1, <3>2 DEF Ring
  <2>4. CASE k = i /\ stage[i] \in 1..2
    <3>1. stage'[k] \in 2..3 /\ stage[k] \in 1..2
      BY <1>0, <2>4 DEF RotationInv, TypeOK
    <3> QED BY <2>1, <3>1 DEF Ring
  <2> QED BY <1>0, <1>1, <2>2, <2>3, <2>4
<1> QED BY <1>0, <1>3, <1>4, <1>5, <1>6 DEF RotationInv, TableInv

LEMMA DamageStep ==
  ASSUME RotationInv, NEW r \in Row, Damage(r) PROVE RotationInv'
<1>0. /\ contacts[r] # {} /\ garbled' = garbled \cup {r}
      /\ contacts' = [contacts EXCEPT ![r] =
           {[row EXCEPT !.id_card_enc = Garbled] : row \in @}]
      /\ UNCHANGED <<stage, job, crashes>>
  BY DEF Damage
<1>1. PICK old \in contacts[r] : contacts[r] = {old} /\ Sound(old)
  BY <1>0 DEF RotationInv, TableInv
<1> DEFINE new == [old EXCEPT !.id_card_enc = Garbled]
<1>2. /\ contacts'[r] = {new} /\ contacts' = [contacts EXCEPT ![r] = {new}]
      /\ \A q \in Row \ {r} : contacts'[q] = contacts[q]
  BY <1>0, <1>1 DEF RotationInv, TypeOK
<1>3. /\ new.phone_enc = old.phone_enc /\ new.phone_idx = old.phone_idx
      /\ new.id_card_enc = Garbled /\ new \in Contact
  BY <1>1 DEF Sound, Contact, Enc
<1> HIDE DEF new
<1>4. Sound(new) BY <1>1, <1>3 DEF Sound
<1>5. TypeOK' BY <1>0, <1>2, <1>3 DEF RotationInv, TypeOK
<1>6. TableInv' BY <1>0, <1>2, <1>4 DEF RotationInv, TableInv
<1>7. JobInv' 
  <2> SUFFICES ASSUME NEW k \in Instance, NEW y \in job[k].rest
      PROVE /\ Sound(y[2])
            /\ \E w \in contacts'[y[1]] : w.phone_enc.sealed = y[2].phone_enc.sealed
    BY <1>0 DEF JobInv
  <2>1. Sound(y[2]) /\ y[1] \in Row
    BY DEF RotationInv, JobInv, TypeOK
  <2>2. PICK w \in contacts[y[1]] : w.phone_enc.sealed = y[2].phone_enc.sealed
    BY DEF RotationInv, JobInv
  <2>3. CASE y[1] = r BY <1>1, <1>2, <1>3, <2>1, <2>2, <2>3
  <2>4. CASE y[1] # r BY <1>2, <2>1, <2>2, <2>4
  <2> QED BY <2>3, <2>4
<1>8. VersionInv' BY <1>0, <1>2, <1>3 DEF RotationInv, VersionInv
<1>9. StagesClose' BY <1>0 DEF RotationInv, StagesClose
<1> QED BY <1>5, <1>6, <1>7, <1>8, <1>9 DEF RotationInv

(* The table and the jobs agree in every phase of the rotation. *)
THEOREM RotationInvariant == Spec => []RotationInv
<1>1. Init => RotationInv BY RotationStart
<1>2. RotationInv /\ [Next]_vars => RotationInv'
  <2> SUFFICES ASSUME RotationInv, [Next]_vars PROVE RotationInv' OBVIOUS
  <2>1. CASE \E i \in Instance, r \in Row, phone \in Phone : insert_contact(i, r, phone)
    BY <2>1, InsertStep
  <2>2. CASE \E i \in Instance : LoadRows(i) BY <2>2, LoadStep
  <2>3. CASE \E i \in Instance : \E x \in job[i].rest : RotateRow(i, x)
    BY <2>3, RotateStep
  <2>4. CASE \E i \in Instance : RotateRowFails(i) \/ RotateReturns(i) \/ Interrupted(i)
    BY <2>4, JobEnds, CrashesAssumption
    DEF RotationInv, TypeOK, RotateRowFails, RotateReturns, Interrupted
  <2>5. CASE \E i \in Instance : Redeploy(i) BY <2>5, RedeployStep
  <2>6. CASE \E r \in Row : Damage(r) BY <2>6, DamageStep
  <2>7. CASE UNCHANGED vars
    BY <2>7 DEF vars, RotationInv, TypeOK, StagesClose, TableInv, JobInv, VersionInv
  <2> QED BY <2>1, <2>2, <2>3, <2>4, <2>5, <2>6, <2>7 DEF Next, rotate_all
<1> QED BY <1>1, <1>2, PTL DEF Spec

LEMMA RotationSafe == ASSUME RotationInv PROVE RowsFound
<1>1. FindSucceeds
  <2> SUFFICES ASSUME NEW i \in Instance, NEW phone \in Phone,
                      Hits(phone) \cap garbled = {},
                      NEW r \in Hits(phone), NEW row \in contacts[r]
      PROVE Opens(Ring(stage[i]), row)
    BY DEF FindSucceeds, find_by_phone_ok
  <2>1. r \in Row /\ r \notin garbled BY DEF Hits
  <2>2. Sound(row) /\ row.id_card_enc # Garbled /\ row.phone_enc # Garbled
    BY <2>1 DEF RotationInv, TableInv, Sound
  <2>3. /\ row.phone_enc.version \in Ring(stage[i]).keys
        /\ row.id_card_enc.version \in Ring(stage[i]).keys
    BY <2>1, <2>2 DEF RotationInv, VersionInv, Sound
  <2> QED BY <2>2, <2>3 DEF Opens, decrypt_field
<1>2. RowsWhole
  <2> SUFFICES ASSUME NEW r \in Row, NEW row \in contacts[r]
      PROVE /\ \A phone \in Phone :
                 r \in Hits(phone) <=> row.phone_enc.sealed.of = phone.of
            /\ r \notin garbled => row.id_card_enc.sealed.card = row.phone_enc.sealed.of
    BY DEF RowsWhole
  <2>1. contacts[r] = {row} /\ Sound(row) /\ (r \notin garbled => row.id_card_enc # Garbled)
    BY DEF RotationInv, TableInv
  <2>2. \A phone \in Phone : r \in Hits(phone) <=> row.phone_idx = phone.of
    BY <2>1 DEF Hits, Matches, blind_index, normalize
  <2> QED BY <2>1, <2>2 DEF Sound
<1> QED BY <1>1, <1>2 DEF RowsFound

(* What the instances read of a row is what was sealed in it.              *)
Reads ==
  \A r \in Row :
    /\ contacts[r] = {} => ReadPhones[r] = {} /\ ReadCards[r] = {}
    /\ \A row \in contacts[r] :
         /\ ReadPhones[r] = {row.phone_enc.sealed}
         /\ ReadCards[r] = IF row.id_card_enc = Garbled THEN {}
                           ELSE {Plain!CardOf(row.phone_enc.sealed)}

LEMMA RotationReads == RotationInv => Reads
<1> SUFFICES ASSUME RotationInv, NEW r \in Row
    PROVE /\ contacts[r] = {} => ReadPhones[r] = {} /\ ReadCards[r] = {}
          /\ \A row \in contacts[r] :
               /\ ReadPhones[r] = {row.phone_enc.sealed}
               /\ ReadCards[r] = IF row.id_card_enc = Garbled THEN {}
                                 ELSE {Plain!CardOf(row.phone_enc.sealed)}
  BY DEF Reads
<1>1. /\ ReadPhones[r] = UNION {ReadByAll(row.phone_enc) : row \in contacts[r]}
      /\ ReadCards[r] = UNION {ReadByAll(row.id_card_enc) : row \in contacts[r]}
  BY DEF ReadPhones, ReadCards
<1>2. ASSUME NEW row \in contacts[r]
      PROVE  /\ ReadPhones[r] = {row.phone_enc.sealed}
             /\ ReadCards[r] = IF row.id_card_enc = Garbled THEN {}
                               ELSE {Plain!CardOf(row.phone_enc.sealed)}
  <2>1. contacts[r] = {row} /\ Sound(row)
    BY DEF RotationInv, TableInv
  <2>2. ReadPhones[r] = ReadByAll(row.phone_enc) /\ ReadCards[r] = ReadByAll(row.id_card_enc)
    BY <1>1, <2>1
  <2>3. row.phone_enc \in Enc(Phone) /\ row.id_card_enc \in Enc(Card)
    BY <2>1 DEF Sound, Contact
  <2>4. row.phone_enc.version \in CommonRing.keys
    <3>1. row.phone_enc.version \in 1..2
      BY <2>1, <2>3 DEF Sound, Enc
    <3> QED BY <3>1 DEF RotationInv, VersionInv, CommonRing
  <2>5. ReadByAll(row.phone_enc) = {row.phone_enc.sealed}
    BY <2>1, <2>4 DEF Sound, ReadByAll, decrypt_field
  <2>6. CASE row.id_card_enc = Garbled
    BY <2>2, <2>5, <2>6 DEF ReadByAll, decrypt_field
  <2>7. CASE row.id_card_enc # Garbled
    <3>1. ReadByAll(row.id_card_enc) = {row.id_card_enc.sealed}
      BY <2>1, <2>4, <2>7 DEF Sound, ReadByAll, decrypt_field
    <3>2. row.id_card_enc.sealed \in Card
      BY <2>3, <2>7 DEF Enc
    <3>3. row.id_card_enc.sealed = Plain!CardOf(row.phone_enc.sealed)
      BY <2>1, <2>7, <3>2 DEF Sound, Card, Plain!CardOf
    <3> QED BY <2>2, <2>5, <2>7, <3>1, <3>3
  <2> QED BY <2>6, <2>7
<1> QED BY <1>1, <1>2

(* A row that a job writes keeps its number, and its card can be read. *)
LEMMA RotateWrites ==
  ASSUME RotationInv, NEW i \in Instance, NEW x \in job[i].rest, RotateRow(i, x)
  PROVE  \/ UNCHANGED contacts
         \/ /\ x[1] \in Row
            /\ \A q \in Row \ {x[1]} : contacts'[q] = contacts[q]
            /\ \E old \in contacts[x[1]], new \in contacts'[x[1]] :
                 /\ new.phone_enc.sealed = old.phone_enc.sealed
                 /\ new.id_card_enc # Garbled
<1>1. PICK phone \in rotate_field(Ring(stage[i]), x[2].phone_enc),
           card \in rotate_field(Ring(stage[i]), x[2].id_card_enc) :
        IF Unchanged(x[2], phone, card)
        THEN UNCHANGED contacts
        ELSE contacts' = [contacts EXCEPT ![x[1]] =
               {Rewritten(row, phone, card) : row \in @}]
  BY DEF RotateRow
<1>2. x \in Row \X Contact /\ stage[i] \in Stages
  BY DEF RotationInv, TypeOK
<1>3. PICK old \in contacts[x[1]] : old.phone_enc.sealed = x[2].phone_enc.sealed
  BY DEF RotationInv, JobInv
<1>4. /\ phone = [version |-> Ring(stage[i]).active, sealed |-> x[2].phone_enc.sealed]
      /\ card = [version |-> Ring(stage[i]).active, sealed |-> x[2].id_card_enc.sealed]
  BY <1>1, <1>2, RotatedField DEF Contact
<1>5. card # Garbled
  BY <1>2, <1>4, Rings DEF Garbled
<1>6. ASSUME contacts' = [contacts EXCEPT ![x[1]] =
               {Rewritten(row, phone, card) : row \in @}]
      PROVE  /\ \A q \in Row \ {x[1]} : contacts'[q] = contacts[q]
             /\ Rewritten(old, phone, card) \in contacts'[x[1]]
  BY <1>2, <1>3, <1>6 DEF RotationInv, TypeOK
<1>7. /\ Rewritten(old, phone, card).phone_enc = phone
      /\ Rewritten(old, phone, card).id_card_enc = card
  <2>1. old \in Contact BY <1>2, <1>3 DEF RotationInv, TypeOK
  <2> QED BY <2>1 DEF Rewritten, Contact
<1> QED BY <1>1, <1>2, <1>3, <1>4, <1>5, <1>6, <1>7

LEMMA PlainStep ==
  ASSUME RotationInv, Reads, Reads', [Next]_vars
  PROVE  [Plain!Next]_(Plain!vars)
<1>0. /\ ReadPhones = [r \in Row |-> ReadPhones[r]] /\ ReadCards = [r \in Row |-> ReadCards[r]]
      /\ ReadPhones' = [r \in Row |-> ReadPhones'[r]]
      /\ ReadCards' = [r \in Row |-> ReadCards'[r]]
  BY DEF ReadPhones, ReadCards
<1>1. ASSUME NEW q \in Row, contacts'[q] = contacts[q]
      PROVE  ReadPhones'[q] = ReadPhones[q] /\ ReadCards'[q] = ReadCards[q]
  <2>1. CASE contacts[q] = {} BY <1>1, <2>1 DEF Reads
  <2>2. CASE contacts[q] # {}
    <3>1. PICK row \in contacts[q] : TRUE BY <2>2
    <3> QED BY <1>1, <3>1 DEF Reads
  <2> QED BY <2>1, <2>2
<1>2. ASSUME UNCHANGED contacts PROVE UNCHANGED Plain!vars
  BY <1>0, <1>1, <1>2 DEF Plain!vars
<1>3. ASSUME NEW r \in Row, NEW u, NEW v, ReadPhones'[r] = u, ReadCards'[r] = v,
             \A q \in Row \ {r} : contacts'[q] = contacts[q]
      PROVE  /\ ReadPhones' = [ReadPhones EXCEPT ![r] = u]
             /\ ReadCards' = [ReadCards EXCEPT ![r] = v]
  BY <1>0, <1>1, <1>3
<1>4. ASSUME NEW i \in Instance, NEW r \in Row, NEW phone \in Phone,
             insert_contact(i, r, phone)
      PROVE  Plain!Insert(r, phone)
  <2> DEFINE row == [phone_enc |-> encrypt_field(Ring(stage[i]), phone),
                     phone_idx |-> blind_index(phone),
                     id_card_enc |-> encrypt_field(Ring(stage[i]), [card |-> phone.of])]
  <2>1. contacts[r] = {} /\ contacts' = [contacts EXCEPT ![r] = {row}]
    BY <1>4 DEF insert_contact
  <2>2. row.phone_enc.sealed = phone /\ row.id_card_enc # Garbled
    BY Rings DEF encrypt_field, Garbled, RotationInv, TypeOK
  <2> HIDE DEF row
  <2>3. row \in contacts'[r] /\ \A q \in Row \ {r} : contacts'[q] = contacts[q]
    BY <2>1 DEF RotationInv, TypeOK
  <2>4. ReadPhones'[r] = {phone} /\ ReadCards'[r] = {Plain!CardOf(phone)}
    BY <2>2, <2>3 DEF Reads
  <2>5. ReadPhones[r] = {}
    BY <2>1 DEF Reads
  <2> QED BY <1>3, <2>3, <2>4, <2>5 DEF Plain!Insert
<1>5. ASSUME NEW i \in Instance, NEW x \in job[i].rest, RotateRow(i, x)
      PROVE  [Plain!Next]_(Plain!vars)
  <2>1. CASE UNCHANGED contacts BY <1>2, <2>1
  <2>2. CASE ~UNCHANGED contacts
    <3>1. x[1] \in Row /\ \A q \in Row \ {x[1]} : contacts'[q] = contacts[q]
      BY <1>5, <2>2, RotateWrites
    <3>2. PICK old \in contacts[x[1]], new \in contacts'[x[1]] :
            new.phone_enc.sealed = old.phone_enc.sealed /\ new.id_card_enc # Garbled
      BY <1>5, <2>2, RotateWrites
    <3>3. PICK phone : /\ ReadPhones[x[1]] = {phone} /\ ReadPhones'[x[1]] = {phone}
                       /\ ReadCards'[x[1]] = {Plain!CardOf(phone)}
      <4>1. ReadPhones[x[1]] = {old.phone_enc.sealed}
        BY <3>1 DEF Reads
      <4>2. /\ ReadPhones'[x[1]] = {new.phone_enc.sealed}
            /\ ReadCards'[x[1]] = {Plain!CardOf(new.phone_enc.sealed)}
        BY <3>1, <3>2 DEF Reads
      <4> QED BY <3>2, <4>1, <4>2
    <3>4. Plain!Restore(x[1])
      <4>1. {Plain!CardOf(p) : p \in ReadPhones[x[1]]} = {Plain!CardOf(phone)}
        BY <3>3
      <4>2. ReadPhones' = [ReadPhones EXCEPT ![x[1]] = {phone}]
            /\ ReadCards' = [ReadCards EXCEPT ![x[1]] = {Plain!CardOf(phone)}]
        BY <1>3, <3>1, <3>3
      <4>3. UNCHANGED ReadPhones
        BY <1>0, <3>3, <4>2
      <4>4. ReadCards' = [ReadCards EXCEPT ![x[1]] =
                            {Plain!CardOf(p) : p \in ReadPhones[x[1]]}]
        BY <4>1, <4>2
      <4> QED BY <4>3, <4>4 DEF Plain!Restore
    <3> QED BY <3>1, <3>4 DEF Plain!Next
  <2> QED BY <2>1, <2>2
<1>6. ASSUME NEW r \in Row, Damage(r) PROVE Plain!Lose(r)
  <2>1. PICK old \in contacts[r] : TRUE BY <1>6 DEF Damage
  <2>2. \A q \in Row \ {r} : contacts'[q] = contacts[q]
    BY <1>6 DEF Damage, RotationInv, TypeOK
  <2>3. PICK new \in contacts'[r] :
          new.phone_enc.sealed = old.phone_enc.sealed /\ new.id_card_enc = Garbled
    <3>1. [old EXCEPT !.id_card_enc = Garbled] \in contacts'[r]
      BY <1>6, <2>1 DEF Damage, RotationInv, TypeOK
    <3>2. /\ [old EXCEPT !.id_card_enc = Garbled].phone_enc.sealed = old.phone_enc.sealed
          /\ [old EXCEPT !.id_card_enc = Garbled].id_card_enc = Garbled
      BY <2>1 DEF RotationInv, TypeOK, Contact
    <3> QED BY <3>1, <3>2
  <2>4. ReadPhones'[r] = ReadPhones[r] /\ ReadCards'[r] = {}
    <3>1. ReadPhones[r] = {old.phone_enc.sealed}
      BY <2>1 DEF Reads
    <3>2. ReadPhones'[r] = {new.phone_enc.sealed} /\ ReadCards'[r] = {}
      BY <2>3 DEF Reads
    <3> QED BY <2>3, <3>1, <3>2
  <2>5. /\ ReadPhones' = [ReadPhones EXCEPT ![r] = ReadPhones[r]]
        /\ ReadCards' = [ReadCards EXCEPT ![r] = {}]
    BY <1>3, <2>2, <2>4
  <2> QED BY <1>0, <2>5 DEF Plain!Lose
<1>7. ASSUME NEW i \in Instance,
             \/ LoadRows(i) \/ RotateRowFails(i) \/ RotateReturns(i)
             \/ Interrupted(i) \/ Redeploy(i)
      PROVE  UNCHANGED contacts
  BY <1>7 DEF LoadRows, RotateRowFails, RotateReturns, Interrupted, Redeploy
<1>8. UNCHANGED vars => UNCHANGED contacts
  BY DEF vars
<1> QED BY <1>2, <1>4, <1>5, <1>6, <1>7, <1>8 DEF Next, rotate_all, Plain!Next

(* What the instances of db_crypto read, in every phase of a rotation and  *)
(* whatever jobs are interrupted, is a table without encryption.           *)
THEOREM RotationImplementsPlain == Spec => Plain!Spec
<1>1. Init => Plain!Init
  BY DEF Init, Plain!Init, ReadPhones, ReadCards
<1>2. RotationInv /\ Reads /\ Reads' /\ [Next]_vars => [Plain!Next]_(Plain!vars)
  BY PlainStep
<1> QED BY <1>1, <1>2, RotationInvariant, RotationReads, PTL DEF Spec, Plain!Spec

(* Moreover no key is retired too early, a number finds exactly the rows   *)
(* of its owner, and no row has the fields of two people.                  *)
THEOREM RotationKeepsRowsFound == Spec => RotationInvisible
<1>1. RotationInv => RowsFound BY RotationSafe
<1> QED BY <1>1, RotationInvariant, RotationImplementsPlain, PTL DEF RotationInvisible

-----------------------------------------------------------------------------
(* MqRabbit.                                                               *)

Places == wire \cup queue \cup removed

(* A message is in one place: on its way, ready, with one channel, or      *)
(* forgotten after its acknowledgement, which bad ones never get.          *)
PlaceInv ==
  /\ published > 0 => declared
  /\ Places \subseteq 1..published
  /\ wire \cap queue = {} /\ wire \cap removed = {} /\ queue \cap removed = {}
  /\ \A c \in Consumer :
       /\ unacked[c] \subseteq (1..published) \ Places
       /\ acks[c] \subseteq unacked[c] \ Bad
       /\ \A d \in Consumer \ {c} : unacked[c] \cap unacked[d] = {}
  /\ removed \cap Bad = {}

KeptInv ==
  \A m \in 1..published :
    m \notin gone => m \in Places \/ \E c \in Consumer : m \in unacked[c]

Inj(s) == \A i, j \in DOMAIN s : s[i] = s[j] => i = j

(* The vector of a call holds acknowledged jobs, each once; what is in its *)
(* stream is not acknowledged, but for the one that it is waiting for.     *)
CallOK(c) ==
  /\ Inj(jobs[c])
  /\ pc[c] \in {"receiving", "acking"} =>
       /\ Inj(inbox[c])
       /\ Queue!Elements(jobs[c]) \subseteq acks[c] \cup removed
  /\ pc[c] = "receiving" =>
       Queue!Elements(inbox[c]) \subseteq unacked[c] \ acks[c]
  /\ pc[c] = "acking" =>
       /\ inbox[c] # <<>>
       /\ Head(inbox[c]) \in (acks[c] \cup removed) \ Queue!Elements(jobs[c])
       /\ Queue!Elements(Tail(inbox[c])) \subseteq unacked[c] \ acks[c]

CallInv == \A c \in Consumer : CallOK(c)

Acked(m) == m \in removed \/ \E c \in Consumer : m \in acks[c]
Hands(m) == {c \in Consumer : Queue!InHandsOf(c, m)}

(* As long as nothing fails: an acknowledged job was returned once, or is   *)
(* in the hands of one call; no other job was returned or is in anyone's.   *)
MessageOK(m) ==
  /\ Acked(m) => \/ handed[m] = 1 /\ Hands(m) = {}
                 \/ handed[m] = 0 /\ \E c \in Consumer : Hands(m) = {c}
  /\ ~Acked(m) => handed[m] = 0 /\ Hands(m) = {}

HandedInv == ~failed => \A m \in 1..MaxPublished : MessageOK(m)

QueueInv ==
  Queue!TypeOK /\ PlaceInv /\ KeptInv /\ CallInv /\ HandedInv

(* A set of numbers has a least one: what the broker delivers next is one  *)
(* of the ready messages.                                                  *)
LEMMA LeastExists ==
  ASSUME NEW S \in SUBSET Nat, S # {} PROVE \E x \in S : \A y \in S : x <= y
<1> DEFINE T == {0..k : k \in S}
<1>1. T \subseteq FiniteSubsetsOf(Nat)
  <2> SUFFICES ASSUME NEW k \in S PROVE 0..k \in FiniteSubsetsOf(Nat)
    OBVIOUS
  <2>1. IsFiniteSet(0..k) BY FS_Interval
  <2> QED BY <2>1 DEF FiniteSubsetsOf
<1>2. \E I \in T : \A J \in T : <<J, I>> \notin StrictSubsetOrdering(Nat)
  <2> HIDE DEF T
  <2>1. T # {} BY DEF T
  <2> QED BY <1>1, <2>1, FS_StrictSubsetOrderingWellFounded, WFMin, Zenon
<1>3. PICK x \in S : \A y \in S : <<0..y, 0..x>> \notin StrictSubsetOrdering(Nat)
  BY <1>2
<1>4. ASSUME NEW y \in S, y < x PROVE FALSE
  <2>1. /\ 0..y \subseteq 0..x /\ 0..y # 0..x
        /\ 0..y \in SUBSET Nat /\ 0..x \in SUBSET Nat
    BY <1>4
  <2> QED BY <1>3, <2>1 DEF StrictSubsetOrdering
<1> QED BY <1>4

LEMMA MinIsMember ==
  ASSUME NEW S \in SUBSET Nat, S # {} PROVE Queue!Min(S) \in S
BY LeastExists DEF Queue!Min

LEMMA QueueCardinality ==
  ASSUME NEW S PROVE Queue!Cardinality(S) = Cardinality(S)
BY DEF Queue!Cardinality, Cardinality

LEMMA ElementsOfEmpty == Queue!Elements(<<>>) = {} /\ Inj(<<>>)
BY DEF Queue!Elements, Inj

LEMMA ElementsOfAppend ==
  ASSUME NEW M, NEW s \in Seq(M), NEW m \in M
  PROVE /\ Append(s, m) \in Seq(M) /\ Len(Append(s, m)) = Len(s) + 1
        /\ Queue!Elements(Append(s, m)) = Queue!Elements(s) \cup {m}
        /\ Inj(s) /\ m \notin Queue!Elements(s) => Inj(Append(s, m))
<1> DEFINE t == Append(s, m)
<1>1. /\ t \in Seq(M) /\ Len(t) = Len(s) + 1
      /\ \A i \in 1..Len(s) : t[i] = s[i]
      /\ t[Len(s) + 1] = m
  BY AppendProperties
<1> HIDE DEF t
<1>2. DOMAIN t = DOMAIN s \cup {Len(s) + 1} /\ DOMAIN s = 1..Len(s) BY <1>1
<1>3. Queue!Elements(t) = Queue!Elements(s) \cup {m}
  BY <1>1, <1>2 DEF Queue!Elements
<1>4. ASSUME Inj(s), m \notin Queue!Elements(s) PROVE Inj(t)
  BY <1>1, <1>2, <1>4 DEF Inj, Queue!Elements
<1> QED BY <1>1, <1>3, <1>4 DEF t

LEMMA ElementsOfTail ==
  ASSUME NEW M, NEW s \in Seq(M), s # <<>>
  PROVE /\ Tail(s) \in Seq(M) /\ Head(s) \in M
        /\ Queue!Elements(s) = {Head(s)} \cup Queue!Elements(Tail(s))
        /\ Inj(s) => Inj(Tail(s)) /\ Head(s) \notin Queue!Elements(Tail(s))
<1> DEFINE t == Tail(s)
<1>1. /\ t \in Seq(M) /\ Len(t) = Len(s) - 1 /\ Len(s) \in Nat \ {0}
      /\ \A i \in 1..Len(t) : t[i] = s[i + 1]
  BY HeadTailProperties
<1>2. Head(s) = s[1] /\ Head(s) \in M BY HeadTailProperties
<1> HIDE DEF t
<1>3. DOMAIN t = 1..Len(t) /\ DOMAIN s = 1..Len(s) BY <1>1
<1>4. \A k \in DOMAIN s : k = 1 \/ (k - 1 \in DOMAIN t /\ s[k] = t[k - 1])
  BY <1>1, <1>3
<1>5. \A k \in DOMAIN t : k + 1 \in DOMAIN s /\ t[k] = s[k + 1] /\ k + 1 # 1
  BY <1>1, <1>3
<1>6. Queue!Elements(s) = {Head(s)} \cup Queue!Elements(t)
  BY <1>1, <1>2, <1>3, <1>4, <1>5 DEF Queue!Elements
<1>7. ASSUME Inj(s) PROVE Inj(t) /\ Head(s) \notin Queue!Elements(t)
  BY <1>1, <1>2, <1>3, <1>5, <1>7 DEF Inj, Queue!Elements
<1> QED BY <1>1, <1>2, <1>6, <1>7 DEF t

LEMMA QueueStart == ASSUME Queue!MqAssumption, Queue!Init PROVE QueueInv
<1>1. Queue!TypeOK
  <2>1. /\ inbox \in [Consumer -> Seq(Queue!Msg)]
        /\ jobs \in [Consumer -> Seq(Queue!Msg)]
    BY DEF Queue!Init
  <2>2. /\ published \in 0..MaxPublished
        /\ calls \in [Consumer -> 0..MaxCalls]
    BY DEF Queue!Init, Queue!MqAssumption
  <2> QED BY <2>1, <2>2 DEF Queue!Init, Queue!TypeOK
<1>2. PlaceInv BY DEF Queue!Init, PlaceInv, Places
<1>3. KeptInv BY DEF Queue!Init, KeptInv
<1>4. CallInv BY ElementsOfEmpty DEF Queue!Init, CallInv, CallOK
<1>5. HandedInv
  BY DEF Queue!Init, HandedInv, MessageOK, Acked, Hands, Queue!InHandsOf, Queue!InCall, Queue!Msg
<1> QED BY <1>1, <1>2, <1>3, <1>4, <1>5 DEF QueueInv

(* Nobody's hands change. *)
LEMMA SameHands ==
  ASSUME HandedInv, UNCHANGED <<pc, jobs, handed, acks, removed, failed>>,
         \A c \in Consumer : pc[c] = "acking" => Head(inbox'[c]) = Head(inbox[c])
  PROVE HandedInv'
<1>1. \A m : Hands(m)' = Hands(m) BY DEF Hands, Queue!InHandsOf, Queue!InCall
<1>2. \A m : Acked(m)' <=> Acked(m) BY DEF Acked
<1> QED BY <1>1, <1>2 DEF HandedInv, MessageOK

(* A call that a step does not touch. *)
LEMMA OtherCall ==
  ASSUME NEW d \in Consumer, CallOK(d),
         pc'[d] = pc[d], jobs'[d] = jobs[d], inbox'[d] = inbox[d],
         acks'[d] = acks[d], unacked'[d] = unacked[d], removed \subseteq removed'
  PROVE CallOK(d)'
BY DEF CallOK

(* A connection breaks under a call or its timer fires: it starts anew. *)
LEMMA EndedCall ==
  ASSUME NEW d \in Consumer, pc'[d] \in {"closed", "returned"}, jobs'[d] = <<>>
  PROVE CallOK(d)'
BY ElementsOfEmpty DEF CallOK

(* The steps of the publisher and of what it has written. *)
LEMMA PublisherStep ==
  ASSUME Queue!MqAssumption, QueueInv,
         \/ Queue!declare_queue \/ Queue!publish
         \/ Queue!FrameArrives \/ Queue!FramesLost
  PROVE QueueInv'
<1>0. /\ UNCHANGED <<unacked, inbox, acks, removed, pc, jobs, handed, calls, failed>>
      /\ declared => declared'
  BY DEF Queue!declare_queue, Queue!publish, Queue!FrameArrives,
         Queue!FramesLost, Queue!broker
<1>1. CallInv' BY <1>0 DEF QueueInv, CallInv, CallOK
<1>2. HandedInv' BY <1>0, SameHands DEF QueueInv
<1> SUFFICES Queue!TypeOK' /\ PlaceInv' /\ KeptInv'
  BY <1>1, <1>2 DEF QueueInv
<1> USE DEF QueueInv
<1>3. CASE Queue!declare_queue
  <2>1. declared' = TRUE /\ UNCHANGED <<published, wire, queue, gone>>
    BY <1>3 DEF Queue!declare_queue, Queue!broker
  <2>2. Queue!TypeOK' BY <1>0, <2>1 DEF Queue!TypeOK
  <2>3. PlaceInv' /\ KeptInv' BY <1>0, <2>1 DEF PlaceInv, KeptInv, Places
  <2> QED BY <2>2, <2>3
<1>4. CASE Queue!publish
  <2>1. /\ published' = published + 1 /\ wire' = wire \cup {published + 1}
        /\ published < MaxPublished /\ (published > 0 \/ declared)
        /\ UNCHANGED <<declared, queue, gone>>
    BY <1>4 DEF Queue!publish, Queue!broker
  <2>2. published \in Nat BY DEF Queue!TypeOK, Queue!MqAssumption
  <2>3. Queue!TypeOK'
    BY <1>0, <2>1, <2>2 DEF Queue!TypeOK, Queue!Msg, Queue!MqAssumption
  <2>4. \A m \in 1..published : m # published + 1 /\ m \in 1..published'
    BY <2>1, <2>2
  <2>5. published + 1 \in 1..published' /\ published + 1 \notin 1..published
    BY <2>1, <2>2
  <2>6. PlaceInv'
    BY <1>0, <2>1, <2>2, <2>4, <2>5 DEF PlaceInv, Places
  <2>7. 1..published' = (1..published) \cup {published + 1}
    BY <2>1, <2>2
  <2>8. KeptInv' BY <1>0, <2>1, <2>7 DEF KeptInv, Places
  <2> QED BY <2>3, <2>6, <2>8
<1>5. CASE Queue!FrameArrives
  <2> DEFINE m == Queue!Min(wire)
  <2>1. /\ wire # {} /\ wire' = wire \ {m}
        /\ queue' = IF declared THEN queue \cup {m} ELSE queue
        /\ UNCHANGED <<declared, published, gone>>
    BY <1>5 DEF Queue!FrameArrives
  <2>2. published \in Nat /\ wire \subseteq Nat
    BY DEF Queue!TypeOK, Queue!MqAssumption, Queue!Msg
  <2>3. m \in wire BY <2>1, <2>2, MinIsMember
  <2> HIDE DEF m
  <2>4. queue' = queue \cup {m}
    BY <2>1, <2>2, <2>3 DEF PlaceInv, Places
  <2>5. Queue!TypeOK' BY <1>0, <2>1, <2>3, <2>4 DEF Queue!TypeOK
  <2>6. Places' = Places BY <1>0, <2>1, <2>3, <2>4 DEF Places
  <2>7. PlaceInv' BY <1>0, <2>1, <2>3, <2>4, <2>6 DEF PlaceInv
  <2>8. KeptInv' BY <1>0, <2>1, <2>6 DEF KeptInv
  <2> QED BY <2>5, <2>7, <2>8
<1>6. CASE Queue!FramesLost
  <2>1. /\ wire' = {} /\ gone' = gone \cup wire
        /\ UNCHANGED <<declared, published, queue>>
    BY <1>6 DEF Queue!FramesLost, Queue!broker
  <2>2. Queue!TypeOK' BY <1>0, <2>1 DEF Queue!TypeOK
  <2>3. Places' \subseteq Places /\ Places \subseteq Places' \cup gone'
    BY <1>0, <2>1 DEF Places
  <2>4. PlaceInv' BY <1>0, <2>1, <2>3 DEF PlaceInv
  <2>5. KeptInv' BY <1>0, <2>1, <2>3 DEF KeptInv
  <2> QED BY <2>2, <2>4, <2>5
<1> QED BY <1>3, <1>4, <1>5, <1>6

LEMMA SubscribeStep ==
  ASSUME Queue!MqAssumption, QueueInv, NEW c \in Consumer,
         Queue!Subscribe(c) \/ Queue!SubscribeFails(c)
  PROVE QueueInv'
<1> USE DEF QueueInv
<1>0. /\ UNCHANGED <<declared, published, wire, queue, unacked, removed, acks, handed, gone>>
      /\ pc[c] \in {"closed", "returned"}
      /\ calls[c] < MaxCalls /\ calls' = [calls EXCEPT ![c] = @ + 1]
  BY DEF Queue!Subscribe, Queue!SubscribeFails, Queue!broker
<1>1. PlaceInv' /\ KeptInv' BY <1>0 DEF PlaceInv, KeptInv, Places
<1>2. calls' \in [Consumer -> 0..MaxCalls]
  <2>1. calls[c] + 1 \in 0..MaxCalls
    BY <1>0 DEF Queue!TypeOK, Queue!MqAssumption
  <2> QED BY <1>0, <2>1 DEF Queue!TypeOK
<1>3. CASE Queue!Subscribe(c)
  <2>1. /\ pc' = [pc EXCEPT ![c] = "receiving"]
        /\ jobs' = [jobs EXCEPT ![c] = <<>>] /\ inbox' = [inbox EXCEPT ![c] = <<>>]
        /\ UNCHANGED failed
    BY <1>3 DEF Queue!Subscribe
  <2>2. Queue!TypeOK' BY <1>0, <1>2, <2>1 DEF Queue!TypeOK
  <2>3. CallInv'
    <3> SUFFICES ASSUME NEW d \in Consumer PROVE CallOK(d)'
      BY DEF CallInv
    <3>1. CASE d = c
      BY <2>1, <3>1, ElementsOfEmpty DEF Queue!TypeOK, CallOK
    <3>2. CASE d # c
      <4>1. jobs'[d] = jobs[d] /\ inbox'[d] = inbox[d] /\ pc'[d] = pc[d]
        BY <2>1, <3>2 DEF Queue!TypeOK
      <4> QED BY <1>0, <4>1, OtherCall DEF CallInv
    <3> QED BY <3>1, <3>2
  <2>4. HandedInv'
    <3>1. \A m, d : d \in Consumer => (Queue!InHandsOf(d, m)' <=> Queue!InHandsOf(d, m))
      <4> SUFFICES ASSUME NEW m, NEW d \in Consumer
          PROVE Queue!InHandsOf(d, m)' <=> Queue!InHandsOf(d, m)
        OBVIOUS
      <4>1. CASE d = c
        BY <1>0, <2>1, <4>1, ElementsOfEmpty
        DEF Queue!TypeOK, Queue!InHandsOf, Queue!InCall
      <4>2. CASE d # c
        BY <2>1, <4>2 DEF Queue!TypeOK, Queue!InHandsOf, Queue!InCall
      <4> QED BY <4>1, <4>2
    <3>2. \A m : Hands(m)' = Hands(m) BY <3>1 DEF Hands
    <3>3. \A m : Acked(m)' <=> Acked(m) BY <1>0 DEF Acked
    <3> QED BY <1>0, <2>1, <3>2, <3>3 DEF HandedInv, MessageOK
  <2> QED BY <1>1, <2>2, <2>3, <2>4
<1>4. CASE Queue!SubscribeFails(c)
  <2>1. /\ pc' = [pc EXCEPT ![c] = "closed"] /\ failed' = TRUE
        /\ UNCHANGED <<inbox, jobs>>
    BY <1>4 DEF Queue!SubscribeFails
  <2>2. Queue!TypeOK' BY <1>0, <1>2, <2>1 DEF Queue!TypeOK
  <2>3. \A d \in Consumer : pc'[d] = pc[d] \/ pc'[d] = "closed"
    BY <2>1 DEF Queue!TypeOK
  <2>4. CallInv' BY <1>0, <2>1, <2>3 DEF CallInv, CallOK
  <2>5. HandedInv' BY <2>1 DEF HandedInv
  <2> QED BY <1>1, <2>2, <2>4, <2>5
<1> QED BY <1>3, <1>4

LEMMA DeliverStep ==
  ASSUME Queue!MqAssumption, QueueInv, NEW c \in Consumer, Queue!Deliver(c)
  PROVE QueueInv'
<1> USE DEF QueueInv
<1> DEFINE m == Queue!Min(queue)
<1>0. /\ queue # {} /\ queue' = queue \ {m}
      /\ unacked' = [unacked EXCEPT ![c] = @ \cup {m}]
      /\ inbox' = [inbox EXCEPT ![c] = Append(@, m)]
      /\ UNCHANGED <<declared, published, wire, acks, removed, pc, jobs, handed,
                     calls, failed, gone>>
  BY DEF Queue!Deliver
<1>1. m \in queue /\ m \in Queue!Msg
  <2>1. queue \subseteq Nat BY DEF Queue!TypeOK, Queue!MqAssumption, Queue!Msg
  <2> QED BY <1>0, <2>1, MinIsMember DEF Queue!TypeOK
<1> HIDE DEF m
<1>2. /\ unacked'[c] = unacked[c] \cup {m}
      /\ inbox'[c] = Append(inbox[c], m)
      /\ \A d \in Consumer \ {c} : unacked'[d] = unacked[d] /\ inbox'[d] = inbox[d]
  BY <1>0 DEF Queue!TypeOK
<1>3. Queue!TypeOK'
  <2>1. Append(inbox[c], m) \in Seq(Queue!Msg)
    BY <1>1, ElementsOfAppend DEF Queue!TypeOK
  <2> QED BY <1>0, <1>1, <2>1 DEF Queue!TypeOK
<1>4. PlaceInv'
  <2>1. Places' = Places \ {m} BY <1>0, <1>1 DEF Places, PlaceInv
  <2>2. m \in Places BY <1>1 DEF Places
  <2> QED BY <1>0, <1>1, <1>2, <2>1, <2>2 DEF PlaceInv
<1>5. KeptInv'
  <2>1. Places \subseteq Places' \cup {m} BY <1>0 DEF Places
  <2> QED BY <1>0, <1>2, <2>1 DEF KeptInv
<1>6. CallInv'
  <2> SUFFICES ASSUME NEW d \in Consumer PROVE CallOK(d)'
    BY DEF CallInv
  <2>1. CallOK(d) BY DEF CallInv
  <2>2. CASE d # c BY <1>0, <1>2, <2>1, <2>2, OtherCall
  <2>3. CASE d = c
    <3>1. m \notin unacked[c] /\ m \notin acks[c] /\ m \notin removed
      BY <1>1 DEF PlaceInv, Places
    <3>2. /\ Queue!Elements(inbox'[c]) = Queue!Elements(inbox[c]) \cup {m}
          /\ Inj(inbox[c]) /\ m \notin Queue!Elements(inbox[c]) => Inj(inbox'[c])
      BY <1>1, <1>2, ElementsOfAppend DEF Queue!TypeOK
    <3>3. CASE pc[c] = "receiving"
      <4>1. CallOK(c) BY <2>1, <2>3
      <4>2. m \notin Queue!Elements(inbox[c]) BY <3>1, <3>3, <4>1 DEF CallOK
      <4> QED BY <1>0, <1>2, <2>3, <3>1, <3>2, <3>3, <4>1, <4>2 DEF CallOK
    <3>4. CASE pc[c] = "acking"
      <4>1. /\ CallOK(c) /\ inbox[c] # <<>> /\ inbox[c] \in Seq(Queue!Msg)
            /\ unacked[c] \cap removed = {}
        BY <2>1, <2>3, <3>4 DEF CallOK, Queue!TypeOK, PlaceInv, Places
      <4>2. /\ Head(inbox'[c]) = Head(inbox[c])
            /\ Tail(inbox'[c]) = Append(Tail(inbox[c]), m)
        BY <1>1, <1>2, <4>1, HeadTailAppend
      <4>3. inbox'[c] # <<>>
        BY <1>1, <1>2, <4>1, ElementsOfAppend, EmptySeq
      <4>4. /\ Queue!Elements(inbox[c]) =
                 {Head(inbox[c])} \cup Queue!Elements(Tail(inbox[c]))
            /\ Tail(inbox[c]) \in Seq(Queue!Msg)
        BY <4>1, ElementsOfTail
      <4>5. Queue!Elements(Tail(inbox'[c])) = Queue!Elements(Tail(inbox[c])) \cup {m}
        <5> DEFINE rest == Tail(inbox[c])
        <5>1. rest \in Seq(Queue!Msg) BY <4>4
        <5> HIDE DEF rest
        <5>2. Queue!Elements(Append(rest, m)) = Queue!Elements(rest) \cup {m}
          BY <1>1, <5>1, ElementsOfAppend
        <5> QED BY <4>2, <5>2 DEF rest
      <4>6. m \notin Queue!Elements(inbox[c])
        BY <3>1, <3>4, <4>1, <4>4 DEF CallOK
      <4> QED BY <1>0, <1>2, <2>3, <3>1, <3>2, <3>4, <4>1, <4>2, <4>3, <4>5, <4>6
            DEF CallOK
    <3>5. CASE pc[c] \notin {"receiving", "acking"}
      BY <1>0, <2>1, <2>3, <3>5 DEF CallOK
    <3> QED BY <3>3, <3>4, <3>5
  <2> QED BY <2>2, <2>3
<1>7. HandedInv'
  <2>1. ASSUME NEW d \in Consumer, pc[d] = "acking"
        PROVE Head(inbox'[d]) = Head(inbox[d])
    <3>1. CASE d # c BY <1>2, <3>1
    <3>2. CASE d = c
      <4>1. inbox[c] # <<>> /\ inbox[c] \in Seq(Queue!Msg)
        BY <2>1, <3>2 DEF CallInv, CallOK, Queue!TypeOK
      <4> QED BY <1>1, <1>2, <3>2, <4>1, HeadTailAppend
    <3> QED BY <3>1, <3>2
  <2> QED BY <1>0, <2>1, SameHands
<1> QED BY <1>3, <1>4, <1>5, <1>6, <1>7

(* Calls end with an error: of one channel, or of all. *)
LEMMA ErrorStep ==
  ASSUME QueueInv, NEW c \in Consumer, Queue!ReturnErr(c),
         UNCHANGED <<declared, published, wire, queue, unacked, inbox, acks,
                     removed, handed, calls, gone>>
  PROVE QueueInv'
<1> USE DEF QueueInv
<1>0. /\ pc' = [pc EXCEPT ![c] = "returned"]
      /\ jobs' = [jobs EXCEPT ![c] = <<>>] /\ failed' = TRUE
  BY DEF Queue!ReturnErr
<1>1. Queue!TypeOK' BY <1>0 DEF Queue!TypeOK
<1>2. PlaceInv' /\ KeptInv' BY <1>0 DEF PlaceInv, KeptInv, Places
<1>3. ASSUME NEW d \in Consumer PROVE CallOK(d)'
  <2>1. CASE d = c BY <1>0, <2>1, EndedCall DEF Queue!TypeOK
  <2>2. CASE d # c BY <1>0, <2>2, OtherCall DEF Queue!TypeOK, CallInv
  <2> QED BY <2>1, <2>2
<1>4. HandedInv' BY <1>0 DEF HandedInv
<1> QED BY <1>1, <1>2, <1>3, <1>4 DEF CallInv

LEMMA CloseStep ==
  ASSUME QueueInv, NEW c \in Consumer, Queue!ChannelCloses(c)
  PROVE QueueInv'
<1> USE DEF QueueInv
<1>0. /\ queue' = queue \cup unacked[c]
      /\ unacked' = [unacked EXCEPT ![c] = {}] /\ acks' = [acks EXCEPT ![c] = {}]
      /\ inbox' = [inbox EXCEPT ![c] = <<>>] /\ pc' = [pc EXCEPT ![c] = "closed"]
      /\ jobs' = [jobs EXCEPT ![c] = <<>>] /\ failed' = TRUE
      /\ UNCHANGED <<declared, published, wire, removed, handed, calls, gone>>
  BY DEF Queue!ChannelCloses
<1>1. Queue!TypeOK' BY <1>0 DEF Queue!TypeOK
<1>2. /\ unacked'[c] = {} /\ acks'[c] = {}
      /\ \A d \in Consumer \ {c} : unacked'[d] = unacked[d] /\ acks'[d] = acks[d]
  BY <1>0 DEF Queue!TypeOK
<1>3. Places' = Places \cup unacked[c] BY <1>0 DEF Places
<1>4. PlaceInv'
  <2>1. \A d \in Consumer \ {c} : unacked[d] \cap unacked[c] = {}
    BY DEF PlaceInv
  <2>2. unacked[c] \cap Places = {} /\ unacked[c] \subseteq 1..published
    BY DEF PlaceInv
  <2> QED BY <1>0, <1>2, <1>3, <2>1, <2>2 DEF PlaceInv, Places
<1>5. KeptInv' BY <1>0, <1>2, <1>3 DEF KeptInv
<1>6. ASSUME NEW d \in Consumer PROVE CallOK(d)'
  <2>1. CASE d = c BY <1>0, <2>1, EndedCall DEF Queue!TypeOK
  <2>2. CASE d # c BY <1>0, <2>2, OtherCall DEF Queue!TypeOK, CallInv
  <2> QED BY <2>1, <2>2
<1>7. HandedInv' BY <1>0 DEF HandedInv
<1> QED BY <1>1, <1>4, <1>5, <1>6, <1>7 DEF CallInv

LEMMA RestartStep == ASSUME QueueInv, Queue!BrokerRestarts PROVE QueueInv'
<1> USE DEF QueueInv
<1> DEFINE back == UNION {unacked[c] : c \in Consumer}
<1>0. /\ queue' = queue \cup back
      /\ unacked' = [c \in Consumer |-> {}] /\ acks' = [c \in Consumer |-> {}]
      /\ inbox' = [c \in Consumer |-> <<>>]
      /\ pc' = [c \in Consumer |-> "closed"] /\ jobs' = [c \in Consumer |-> <<>>]
      /\ failed' = TRUE /\ wire' = {} /\ gone' = gone \cup wire
      /\ declared' = declared /\ UNCHANGED <<published, removed, handed, calls>>
  BY DEF Queue!BrokerRestarts, Queue!durable, Queue!delivery_mode, Queue!TypeOK
<1>1. back \subseteq (1..published) \ Places /\ back \subseteq Queue!Msg
  BY DEF PlaceInv, Queue!TypeOK
<1>2. \A c \in Consumer : unacked[c] \subseteq back OBVIOUS
<1> HIDE DEF back
<1>3. Queue!TypeOK' BY <1>0, <1>1 DEF Queue!TypeOK
<1>4. PlaceInv' BY <1>0, <1>1 DEF PlaceInv, Places
<1>5. KeptInv'
  <2>1. Places \subseteq Places' \cup gone' /\ back \subseteq Places' /\ gone \subseteq gone'
    BY <1>0 DEF Places
  <2> QED BY <1>0, <1>2, <2>1 DEF KeptInv
<1>6. CallInv' BY <1>0, EndedCall DEF CallInv
<1>7. HandedInv' BY <1>0 DEF HandedInv
<1> QED BY <1>3, <1>4, <1>5, <1>6, <1>7

(* A good delivery is acknowledged: it comes into the hands of c, who is    *)
(* the first to have it.                                                   *)
LEMMA ReceiveStep ==
  ASSUME QueueInv, NEW c \in Consumer, Queue!Receive(c) PROVE QueueInv'
<1> USE DEF QueueInv
<1> DEFINE h == Head(inbox[c])
<1>1. CASE h \in Bad
  BY <1>1, ErrorStep DEF Queue!Receive, Queue!broker
<1>2. CASE h \notin Bad
  <2>0. /\ pc[c] = "receiving" /\ inbox[c] # <<>>
        /\ acks' = [acks EXCEPT ![c] = @ \cup {h}]
        /\ pc' = [pc EXCEPT ![c] = "acking"]
        /\ UNCHANGED <<declared, published, wire, queue, unacked, removed, inbox,
                       jobs, handed, calls, failed, gone>>
    BY <1>2 DEF Queue!Receive, Queue!broker
  <2> HIDE DEF h
  <2>1. /\ inbox[c] \in Seq(Queue!Msg) /\ h \in Queue!Msg
        /\ Queue!Elements(inbox[c]) = {h} \cup Queue!Elements(Tail(inbox[c]))
        /\ Inj(inbox[c]) => h \notin Queue!Elements(Tail(inbox[c]))
    BY <2>0, ElementsOfTail DEF Queue!TypeOK, h
  <2>2. CallOK(c) BY DEF CallInv
  <2>3. h \in unacked[c] \ acks[c] BY <2>0, <2>1, <2>2 DEF CallOK
  <2>4. Queue!TypeOK' BY <2>0, <2>1 DEF Queue!TypeOK
  <2>5. /\ acks'[c] = acks[c] \cup {h} /\ pc'[c] = "acking"
        /\ \A d \in Consumer \ {c} : acks'[d] = acks[d] /\ pc'[d] = pc[d]
    BY <2>0 DEF Queue!TypeOK
  <2>6. PlaceInv' /\ KeptInv'
    BY <1>2, <2>0, <2>3, <2>5 DEF PlaceInv, KeptInv, Places
  <2>7. ~Acked(h)
    BY <2>3 DEF Acked, PlaceInv, Places
  <2>8. CallInv'
    <3> SUFFICES ASSUME NEW d \in Consumer PROVE CallOK(d)'
      BY DEF CallInv
    <3>1. CASE d # c BY <2>0, <2>5, <3>1, OtherCall DEF CallInv
    <3>2. CASE d = c
      <4>1. h \notin Queue!Elements(jobs[c])
        BY <2>0, <2>2, <2>3, <2>7 DEF CallOK, Acked
      <4>2. h = Head(inbox[c]) BY DEF h
      <4> QED BY <2>0, <2>1, <2>2, <2>3, <2>5, <3>2, <4>1, <4>2 DEF CallOK
    <3> QED BY <3>1, <3>2
  <2>9. \A m : Acked(m)' <=> Acked(m) \/ m = h
    BY <2>0, <2>5 DEF Acked
  <2>10. \A m : Hands(m)' = IF m = h THEN Hands(m) \cup {c} ELSE Hands(m)
    <3> SUFFICES ASSUME NEW m, NEW d \in Consumer
        PROVE Queue!InHandsOf(d, m)' <=> Queue!InHandsOf(d, m) \/ (m = h /\ d = c)
      BY DEF Hands
    <3>1. CASE d # c
      BY <2>0, <2>5, <3>1 DEF Queue!InHandsOf, Queue!InCall
    <3>2. CASE d = c
      BY <2>0, <2>5, <3>2 DEF Queue!InHandsOf, Queue!InCall, h
    <3> QED BY <3>1, <3>2
  <2>11. HandedInv'
    BY <2>0, <2>7, <2>9, <2>10 DEF HandedInv, MessageOK
  <2> QED BY <2>4, <2>6, <2>8, <2>11
<1> QED BY <1>1, <1>2

LEMMA BrokerReadsAckStep ==
  ASSUME QueueInv, NEW c \in Consumer, Queue!BrokerReadsAck(c) PROVE QueueInv'
<1> USE DEF QueueInv
<1>1. PICK m \in acks[c] :
        /\ acks' = [acks EXCEPT ![c] = @ \ {m}]
        /\ unacked' = [unacked EXCEPT ![c] = @ \ {m}]
        /\ removed' = removed \cup {m}
  BY DEF Queue!BrokerReadsAck
<1>2. UNCHANGED <<declared, published, wire, queue, inbox, pc, jobs, handed, calls,
                  failed, gone>>
  BY DEF Queue!BrokerReadsAck
<1>3. /\ acks'[c] = acks[c] \ {m} /\ unacked'[c] = unacked[c] \ {m}
      /\ \A d \in Consumer \ {c} : acks'[d] = acks[d] /\ unacked'[d] = unacked[d]
  BY <1>1 DEF Queue!TypeOK
<1>4. m \in unacked[c] /\ m \notin Bad /\ m \notin Places /\ m \in 1..published
  BY <1>1 DEF PlaceInv
<1>5. Queue!TypeOK'
  <2>1. m \in Queue!Msg BY <1>1 DEF Queue!TypeOK
  <2> QED BY <1>1, <1>2, <2>1 DEF Queue!TypeOK
<1>6. Places' = Places \cup {m} BY <1>1, <1>2 DEF Places
<1>7. PlaceInv'
  <2>1. wire \cap {m} = {} /\ queue \cap {m} = {} BY <1>4 DEF Places
  <2>2. \A d \in Consumer \ {c} : m \notin unacked[d] BY <1>4 DEF PlaceInv
  <2> QED BY <1>1, <1>2, <1>3, <1>4, <1>6, <2>1, <2>2 DEF PlaceInv
<1>8. KeptInv' BY <1>2, <1>3, <1>6 DEF KeptInv
<1>9. CallInv'
  <2> SUFFICES ASSUME NEW d \in Consumer PROVE CallOK(d)'
    BY DEF CallInv
  <2>1. CASE d # c BY <1>1, <1>2, <1>3, <2>1, OtherCall DEF CallInv
  <2>2. CASE d = c
    <3>1. acks'[c] \cup removed' = acks[c] \cup removed BY <1>1, <1>3
    <3>2. unacked'[c] \ acks'[c] = unacked[c] \ acks[c] BY <1>1, <1>3
    <3> QED BY <1>2, <2>2, <3>1, <3>2 DEF CallInv, CallOK
  <2> QED BY <2>1, <2>2
<1>10. HandedInv'
  <2>1. \A x : Acked(x)' <=> Acked(x) BY <1>1, <1>3 DEF Acked
  <2>2. \A x : Hands(x)' = Hands(x)
    BY <1>2 DEF Hands, Queue!InHandsOf, Queue!InCall
  <2> QED BY <1>2, <2>1, <2>2 DEF HandedInv, MessageOK
<1> QED BY <1>5, <1>7, <1>8, <1>9, <1>10

(* The job is pushed; the last one ends the call, and all its jobs pass    *)
(* from its hands to the caller.                                           *)
LEMMA AckSentStep ==
  ASSUME QueueInv, NEW c \in Consumer, Queue!AckSent(c) PROVE QueueInv'
<1> USE DEF QueueInv
<1> DEFINE h == Head(inbox[c])
           got == Append(jobs[c], h)
<1>0. /\ pc[c] = "acking" /\ inbox' = [inbox EXCEPT ![c] = Tail(@)]
      /\ jobs' = [jobs EXCEPT ![c] = got]
      /\ UNCHANGED <<declared, published, wire, queue, unacked, removed, acks, calls,
                     failed, gone>>
      /\ \/ /\ pc' = [pc EXCEPT ![c] = "returned"]
            /\ handed' = [m \in Queue!Msg |->
                 handed[m] + IF m \in Queue!Elements(got) THEN 1 ELSE 0]
         \/ pc' = [pc EXCEPT ![c] = "receiving"] /\ handed' = handed
  BY DEF Queue!AckSent, Queue!broker
<1>1. CallOK(c) /\ inbox[c] # <<>> BY <1>0 DEF CallInv, CallOK
<1>2. /\ h \in Queue!Msg /\ Tail(inbox[c]) \in Seq(Queue!Msg)
      /\ Inj(inbox[c]) => Inj(Tail(inbox[c]))
  BY <1>1, ElementsOfTail DEF Queue!TypeOK
<1>3. h \in (acks[c] \cup removed) \ Queue!Elements(jobs[c])
  BY <1>0, <1>1 DEF CallOK
<1>4. /\ got \in Seq(Queue!Msg)
      /\ Queue!Elements(got) = Queue!Elements(jobs[c]) \cup {h}
      /\ Inj(got)
  BY <1>1, <1>2, <1>3, ElementsOfAppend DEF Queue!TypeOK, CallOK
<1> HIDE DEF got
<1>5. \A m \in Queue!Elements(got) : Queue!InHandsOf(c, m)
  BY <1>0, <1>4 DEF Queue!InHandsOf, Queue!InCall
<1> HIDE DEF h
<1>6. Queue!TypeOK'
  <2>1. handed' \in [Queue!Msg -> Nat]
    <3>1. \A m \in Queue!Msg :
            handed[m] + (IF m \in Queue!Elements(got) THEN 1 ELSE 0) \in Nat
      BY DEF Queue!TypeOK
    <3>2. handed \in [Queue!Msg -> Nat] BY DEF Queue!TypeOK
    <3> QED BY <1>0, <3>1, <3>2
  <2> QED BY <1>0, <1>2, <1>4, <2>1 DEF Queue!TypeOK
<1>7. /\ inbox'[c] = Tail(inbox[c]) /\ jobs'[c] = got
      /\ pc'[c] \in {"returned", "receiving"}
      /\ \A d \in Consumer \ {c} :
           pc'[d] = pc[d] /\ jobs'[d] = jobs[d] /\ inbox'[d] = inbox[d]
  BY <1>0 DEF Queue!TypeOK
<1>8. PlaceInv' /\ KeptInv' BY <1>0 DEF PlaceInv, KeptInv, Places
<1>9. CallInv'
  <2> SUFFICES ASSUME NEW d \in Consumer PROVE CallOK(d)'
    BY DEF CallInv
  <2>1. CASE d # c BY <1>0, <1>7, <2>1, OtherCall DEF CallInv
  <2>2. CASE d = c
    BY <1>0, <1>1, <1>2, <1>3, <1>4, <1>7, <2>2 DEF CallOK
  <2> QED BY <2>1, <2>2
<1>10. \A m : Acked(m)' <=> Acked(m) BY <1>0 DEF Acked
<1>11. \A m \in Queue!Elements(got) : Acked(m) /\ c \in Hands(m)
  BY <1>0, <1>1, <1>3, <1>4, <1>5 DEF Acked, Hands, CallOK
<1>12. \A m : c \in Hands(m) => m \in Queue!Elements(got)
  BY <1>0, <1>4 DEF Hands, Queue!InHandsOf, h
<1>13. \A m, d : d \in Consumer \ {c} => (d \in Hands(m)' <=> d \in Hands(m))
  BY <1>7 DEF Hands, Queue!InHandsOf, Queue!InCall
<1>14. CASE pc' = [pc EXCEPT ![c] = "receiving"] /\ handed' = handed
  <2>1. pc'[c] = "receiving" BY <1>14 DEF Queue!TypeOK
  <2>2. \A m : c \in Hands(m)' <=> m \in Queue!Elements(got)
    BY <1>7, <2>1 DEF Hands, Queue!InHandsOf, Queue!InCall
  <2>3. \A m : Hands(m)' = Hands(m)
    <3> SUFFICES ASSUME NEW m PROVE \A d : d \in Hands(m)' <=> d \in Hands(m)
      OBVIOUS
    <3>1. Hands(m) \subseteq Consumer /\ Hands(m)' \subseteq Consumer BY DEF Hands
    <3> QED BY <1>11, <1>12, <1>13, <2>2, <3>1
  <2>4. HandedInv' BY <1>0, <1>10, <1>14, <2>3 DEF HandedInv, MessageOK
  <2> QED BY <1>6, <1>8, <1>9, <2>4
<1>15. CASE /\ pc' = [pc EXCEPT ![c] = "returned"]
            /\ handed' = [m \in Queue!Msg |->
                 handed[m] + IF m \in Queue!Elements(got) THEN 1 ELSE 0]
  <2>1. pc'[c] = "returned" BY <1>15 DEF Queue!TypeOK
  <2>2. \A m : c \notin Hands(m)'
    BY <2>1 DEF Hands, Queue!InHandsOf, Queue!InCall
  <2>3. \A m : Hands(m)' = Hands(m) \ {c}
    <3> SUFFICES ASSUME NEW m PROVE \A d : d \in Hands(m)' <=> d \in Hands(m) \ {c}
      OBVIOUS
    <3>1. Hands(m) \subseteq Consumer /\ Hands(m)' \subseteq Consumer BY DEF Hands
    <3> QED BY <1>13, <2>2, <3>1
  <2>4. HandedInv'
    <3> SUFFICES ASSUME ~failed, NEW m \in 1..MaxPublished PROVE MessageOK(m)'
      BY <1>0 DEF HandedInv
    <3>1. MessageOK(m) BY DEF HandedInv
    <3>2. handed[m] \in Nat /\ m \in Queue!Msg BY DEF Queue!TypeOK, Queue!Msg
    <3>3. CASE m \in Queue!Elements(got)
      <4>1. Acked(m) /\ Hands(m) = {c} /\ handed[m] = 0
        BY <1>11, <3>1, <3>3 DEF MessageOK
      <4>2. handed'[m] = 1 BY <1>15, <3>2, <3>3, <4>1
      <4>3. Hands(m)' = {} BY <2>3, <4>1
      <4> QED BY <1>10, <4>1, <4>2, <4>3 DEF MessageOK
    <3>4. CASE m \notin Queue!Elements(got)
      <4>1. handed'[m] = handed[m] BY <1>15, <3>2, <3>4
      <4>2. Hands(m)' = Hands(m)
        <5>1. c \notin Hands(m) BY <1>12, <3>4
        <5> QED BY <2>3, <5>1
      <4> QED BY <1>10, <3>1, <4>1, <4>2 DEF MessageOK
    <3> QED BY <3>3, <3>4
  <2> QED BY <1>6, <1>8, <1>9, <2>4
<1> QED BY <1>0, <1>14, <1>15

(* Where a message is and who has it, in every state. *)
THEOREM QueueInvariant ==
  ASSUME Queue!MqAssumption PROVE Queue!Spec => []QueueInv
<1>1. Queue!Init => QueueInv BY QueueStart
<1>2. QueueInv /\ [Queue!Next]_(Queue!vars) => QueueInv'
  <2> SUFFICES ASSUME QueueInv, [Queue!Next]_(Queue!vars) PROVE QueueInv'
    OBVIOUS
  <2>1. CASE Queue!declare_queue \/ Queue!publish \/ Queue!FrameArrives \/ Queue!FramesLost
    BY <2>1, PublisherStep
  <2>2. CASE Queue!BrokerRestarts BY <2>2, RestartStep
  <2>3. ASSUME NEW c \in Consumer,
               \/ Queue!Subscribe(c) \/ Queue!SubscribeFails(c) \/ Queue!Deliver(c)
               \/ Queue!Receive(c) \/ Queue!AckSent(c) \/ Queue!BrokerReadsAck(c)
        PROVE QueueInv'
    BY <2>3, SubscribeStep, DeliverStep, ReceiveStep, AckSentStep, BrokerReadsAckStep
  <2>4. ASSUME NEW c \in Consumer, Queue!Timeout(c) PROVE QueueInv'
    BY <2>4, ErrorStep DEF Queue!Timeout, Queue!broker
  <2>5. ASSUME NEW c \in Consumer, Queue!ChannelCloses(c) PROVE QueueInv'
    BY <2>5, CloseStep
  <2>6. CASE UNCHANGED Queue!vars
    <3>1. UNCHANGED <<declared, published, wire, queue, unacked, inbox, acks, removed,
                      pc, jobs, handed, calls, failed, gone>>
      BY <2>6 DEF Queue!vars, Queue!broker
    <3>2. Queue!TypeOK' /\ PlaceInv' /\ KeptInv'
      BY <3>1 DEF QueueInv, Queue!TypeOK, PlaceInv, KeptInv, Places
    <3>3. CallInv' BY <3>1, OtherCall DEF QueueInv, CallInv
    <3>4. HandedInv' BY <3>1, SameHands DEF QueueInv
    <3> QED BY <3>2, <3>3, <3>4 DEF QueueInv
  <2> QED BY <2>1, <2>2, <2>3, <2>4, <2>5, <2>6 DEF Queue!Next, Queue!NothingLeft
<1> QED BY <1>1, <1>2, PTL DEF Queue!Spec

LEMMA QueueSafe == ASSUME QueueInv PROVE JobsKept
<1>1. Queue!NothingVanishes
  BY DEF QueueInv, KeptInv, Places, Queue!NothingVanishes
<1>2. removed \cap Bad = {} BY DEF QueueInv, PlaceInv
<1>3. Queue!NoJobTwice BY DEF QueueInv, CallInv, CallOK, Inj, Queue!NoJobTwice
<1>4. Queue!AckedReachesCaller
  <2> SUFFICES ASSUME ~failed, NEW m \in removed
      PROVE handed[m] + Queue!Cardinality(Hands(m)) = 1
    BY DEF Queue!AckedReachesCaller, Hands
  <2>1. m \in 1..MaxPublished BY DEF QueueInv, Queue!TypeOK, Queue!Msg
  <2>2. MessageOK(m) /\ Acked(m) BY <2>1 DEF QueueInv, HandedInv, Acked
  <2>3. CASE handed[m] = 1 /\ Hands(m) = {}
    BY <2>3, QueueCardinality, FS_EmptySet
  <2>4. CASE handed[m] = 0 /\ \E c \in Consumer : Hands(m) = {c}
    BY <2>4, QueueCardinality, FS_Singleton
  <2> QED BY <2>2, <2>3, <2>4 DEF MessageOK
<1> QED BY <1>1, <1>2, <1>3, <1>4 DEF JobsKept, Queue!JobsKept, Queue!BadStaysInQueue

(* In whatever order connections break, consumers come and go and the      *)
(* broker restarts: no message vanishes but from the wire, a bad one is    *)
(* never acknowledged, no call returns a job twice, and, as long as        *)
(* nothing fails, an acknowledged job reaches exactly one caller.          *)
THEOREM JobsAreKept == ASSUME Queue!MqAssumption PROVE Queue!Spec => []JobsKept
BY QueueInvariant, QueueSafe, PTL
=============================================================================
