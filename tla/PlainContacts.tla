--------------------------- MODULE PlainContacts ----------------------------
(***************************************************************************)
(* What db_crypto promises of its table: it behaves as one without any     *)
(* encryption.  A row keeps the number it was inserted with; its card is   *)
(* the one it was inserted with, or cannot be read after it was damaged.   *)
(***************************************************************************)
CONSTANTS Row, Phone

VARIABLES
  phones,   \* phones[r]: {}, or {the number in r}
  cards     \* cards[r]: {}, or {the card in r}

vars == <<phones, cards>>

Init ==
  /\ phones = [r \in Row |-> {}]
  /\ cards = [r \in Row |-> {}]

CardOf(phone) == [card |-> phone.of]

Insert(r, phone) ==
  /\ phones[r] = {}
  /\ phones' = [phones EXCEPT ![r] = {phone}]
  /\ cards' = [cards EXCEPT ![r] = {CardOf(phone)}]

Lose(r) ==
  /\ cards' = [cards EXCEPT ![r] = {}]
  /\ UNCHANGED phones

(* The card is written again from a copy made before the damage. *)
Restore(r) ==
  /\ cards' = [cards EXCEPT ![r] = {CardOf(phone) : phone \in phones[r]}]
  /\ UNCHANGED phones

Next ==
  \E r \in Row :
    (\E phone \in Phone : Insert(r, phone)) \/ Lose(r) \/ Restore(r)

Spec == Init /\ [][Next]_vars
=============================================================================
