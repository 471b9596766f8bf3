---------------------------- MODULE FieldCrypto ----------------------------
(***************************************************************************)
(* db_crypto/src/crypto.rs without its ciphers.  A stored value            *)
(* "v{n}:nonce:ct" is the version of its key and the plaintext sealed in   *)
(* it; a value that GCM refuses, or that does not parse, is Garbled.       *)
(* A ring is [keys, active].  A result is {} for an error, {p} for Ok(p).  *)
(***************************************************************************)
EXTENDS Integers

Garbled == [version |-> 0, sealed |-> "nothing"]

(* KeyRing::new refuses a ring without the key of its active version. *)
RingOK(ring) == ring.active \in ring.keys

encrypt_field(ring, p) == [version |-> ring.active, sealed |-> p]

(* The key is chosen by the prefix: Malformed, UnknownVersion and Decrypt. *)
decrypt_field(ring, c) ==
  IF c # Garbled /\ c.version \in ring.keys THEN {c.sealed} ELSE {}

(* Mutant of rotate_field: a value is never re-encrypted. *)
rotate_nothing(ring, c) == {c}

(* A value of the active version is returned as it is. *)
rotate_field(ring, c) ==
  IF c.version = ring.active
  THEN {c}
  ELSE {encrypt_field(ring, p) : p \in decrypt_field(ring, c)}

(* A phone number is who it belongs to and how it is written: `normalize`  *)
(* drops the blanks and hyphens, which is all that the format stands for.  *)
normalize(phone) == phone.of

(* Mutant of blind_index: the input is not normalised. *)
blind_index_raw(phone) == phone

(* Equal for equal normalised inputs, under a key outside the ring. *)
blind_index(phone) == normalize(phone)
=============================================================================
