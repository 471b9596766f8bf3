---------------------------- MODULE LicenseFile ----------------------------
(***************************************************************************)
(* license_demo, offline part: the vendor signs licences, the files travel *)
(* (they are copied to other machines, their text is edited, a signature   *)
(* is cut off), and a client verifies one against its own machine and      *)
(* clock, and unlocks what the licence lists.  A signature is the message  *)
(* that was signed.  Time is in units of the licence's expiry.             *)
(***************************************************************************)
EXTENDS Integers, Sequences, SequencesExt, FiniteSets

CONSTANTS
  Character,    \* what the features of a machine are written in
  Machine,      \* machines: sequences of features, each a sequence
  Feature,      \* what a licence may unlock
  MaxTime,      \* bound of the clock, and last expiry
  MaxIssued, MaxFiles, MaxVerified   \* bounds

(* A host name or a serial number has no byte 0. *)
LicenceAssumption ==
  Machine \subseteq Seq(Seq(Character)) /\ "0" \notin Character

VARIABLES
  clock,
  issued,    \* what the vendor has signed
  files,     \* the licence files around
  verified   \* what clients concluded: [file, on, at, verdict]

lvars == <<clock, issued, files, verified>>

(* Mutant of fingerprint_from: the features run together. *)
fingerprint_joined(parts) == FlattenSeq(parts)

(* Every feature of the machine is followed by a separator. *)
fingerprint_from(parts) ==
  FlattenSeq([i \in DOMAIN parts |-> Append(parts[i], "0")])

(* The bytes that are signed: all the fields, in the order of their        *)
(* declaration.                                                            *)
canonical_json(l) == <<l.features, l.machine_fingerprint, l.expires_at>>

(* A signature that is no base64 of 64 bytes. *)
NoSignature == <<>>

License ==
  [features : SUBSET Feature,
   machine_fingerprint : {fingerprint_from(m) : m \in Machine},
   expires_at : 0..MaxTime]

Init ==
  /\ clock = 0 /\ issued = {} /\ files = {} /\ verified = {}

NewFile(l, s) ==
  /\ Cardinality(files) < MaxFiles
  /\ files' = files \union {[license |-> l, signature |-> s]}

(* issue on the vendor's machine. *)
issue(l) ==
  /\ l \notin issued
  /\ issued' = issued \union {l}
  /\ NewFile(l, canonical_json(l))
  /\ UNCHANGED <<clock, verified>>

(* Somebody edits the text of a file, or damages its signature. *)
Edited(f, l) ==
  NewFile(l, f.signature) /\ UNCHANGED <<clock, issued, verified>>

Damaged(f) ==
  NewFile(f.license, NoSignature) /\ UNCHANGED <<clock, issued, verified>>

Authentic(f) == f.signature = canonical_json(f.license)

has_feature(l, x) == x \in l.features

(* verify: the signature, then the date, then the machine. *)
verify(f, now, m) ==
  IF f.signature = NoSignature THEN "Malformed"
  ELSE IF ~Authentic(f) THEN "BadSignature"
  ELSE IF now > f.license.expires_at THEN "Expired"
  ELSE IF f.license.machine_fingerprint = fingerprint_from(m) THEN "Ok"
  ELSE "MachineMismatch"

(* A client starts on machine m with the file f, any copy of it. *)
Starts(f, m) ==
  /\ Cardinality(verified) < MaxVerified
  /\ verified' = verified \union
       {[file |-> f, on |-> m, at |-> clock, verdict |-> verify(f, clock, m)]}
  /\ UNCHANGED <<clock, issued, files>>

Passes ==
  /\ clock < MaxTime
  /\ clock' = clock + 1
  /\ UNCHANGED <<issued, files, verified>>

Next ==
  \/ \E l \in License : Cardinality(issued) < MaxIssued /\ issue(l)
  \/ \E f \in files : Damaged(f) \/ \E l \in License : Edited(f, l)
  \/ \E f \in files, m \in Machine : Starts(f, m)
  \/ Passes

Spec == Init /\ [][Next]_lvars

-----------------------------------------------------------------------------
Runs == {v \in verified : v.verdict = "Ok"}

(* One signature runs on one machine only, wherever its file is copied. *)
OneMachine ==
  \A v, w \in Runs : v.file.signature = w.file.signature => v.on = w.on

(* What runs was sold for this machine and date, and what it unlocks was   *)
(* sold with it.                                                           *)
OnlySold ==
  \A v \in Runs : \E l \in issued :
    /\ l.machine_fingerprint = fingerprint_from(v.on)
    /\ v.at <= l.expires_at
    /\ \A x \in Feature : has_feature(v.file.license, x) => has_feature(l, x)

(* A customer is told to renew, or to bind the licence again, only on the  *)
(* word of a licence that the vendor issued: the reason the signature      *)
(* comes first.                                                            *)
AdviceIsFounded ==
  \A v \in verified :
    v.verdict \in {"Expired", "MachineMismatch"} => v.file.license \in issued

(* What a client concludes from a copied, edited, damaged or expired file  *)
(* is founded on what the vendor signed.                                   *)
VerdictFounded == OneMachine /\ OnlySold /\ AdviceIsFounded
=============================================================================
