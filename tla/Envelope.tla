------------------------------ MODULE Envelope ------------------------------
(* api_crypto: request and response envelopes.  A client seals its request  *)
(* with an AES key of its own and a time stamp of its own clock; the server *)
(* opens it, masks the profile and seals the answer with the client's key.  *)
(* The network keeps every envelope and may deliver it late or again; a     *)
(* key is the number of the request it was made for, a nonce the number of  *)
(* the encryption that drew it (random, hence new).                         *)
EXTENDS Integers, Sequences, Functions, FiniteSets

CONSTANTS Drift,            \* how far a client's clock may be off
          REPLAY_WINDOW_MS,
          Length,           \* lengths of a phone number that occur
          MaxRequests, MaxAnswers, MaxTime   \* bounds

EnvelopeAssumption ==
  /\ Drift \subseteq Int /\ REPLAY_WINDOW_MS \in Nat
  /\ Length \subseteq Nat \ {0}     \* an empty field has nothing to hide
  /\ MaxRequests \in Nat /\ MaxAnswers \in Nat /\ MaxTime \in Nat

VARIABLES now,
          drawn,      \* nonces drawn so far
          used,       \* key -> the nonces it has encrypted with, in order
          sent,       \* request envelopes: [key, nonce, ts, whole, phone]
          born,       \* key -> true time of its sealing
          accepted,   \* openings: [key, at]
          answers     \* response envelopes: [key, nonce, shown, of]

vars == <<now, drawn, used, sent, born, accepted, answers>>

Init ==
  /\ now = 0 /\ drawn = 0 /\ used = <<>> /\ born = <<>>
  /\ sent = {} /\ accepted = {} /\ answers = {}

generate_nonce == drawn + 1

(* client_seal_request, with a clock that is off by `off`. *)
client_seal_request(off, phone) ==
  /\ Len(used) < MaxRequests
  /\ drawn' = generate_nonce
  /\ used' = Append(used, <<generate_nonce>>)
  /\ born' = Append(born, now)
  /\ sent' = sent \union {[key |-> Len(used) + 1, nonce |-> generate_nonce,
                           ts |-> now + off, whole |-> TRUE, phone |-> phone]}
  /\ UNCHANGED <<now, accepted, answers>>

(* A bit is flipped on the way: the authentication tag no longer fits. *)
Damage(e) ==
  /\ e.whole
  /\ sent' = (sent \ {e}) \union {[e EXCEPT !.whole = FALSE]}
  /\ UNCHANGED <<now, drawn, used, born, accepted, answers>>

Abs(n) == IF n < 0 THEN -n ELSE n

(* open_request: Malformed and Decrypt are one case, Expired the other. *)
open_request_future(e) ==  \* mutant: a stamp from the future never expires
  e.whole /\ now - e.ts <= REPLAY_WINDOW_MS
open_request(e) ==
  e.whole /\ Abs(now - e.ts) <= REPLAY_WINDOW_MS

(* mask_middle: how many characters of a string of n stay readable. *)
mask_middle_short(n, head, tail) ==   \* mutant
  IF n < head + tail THEN 0 ELSE head + tail
mask_middle(n, head, tail) == IF n <= head + tail THEN 0 ELSE head + tail

mask_profile(phone) == mask_middle(phone, 3, 4)

(* seal_response under the key of the request. *)
seal_response_same(e) ==  \* mutant: answers with the nonce of the request
  /\ UNCHANGED drawn
  /\ used' = [used EXCEPT ![e.key] = Append(@, e.nonce)]
  /\ answers' = answers \union {[key |-> e.key, nonce |-> e.nonce,
                                 shown |-> mask_profile(e.phone), of |-> e.phone]}
seal_response(e) ==
  /\ drawn' = generate_nonce
  /\ used' = [used EXCEPT ![e.key] = Append(@, generate_nonce)]
  /\ answers' = answers \union {[key |-> e.key, nonce |-> generate_nonce,
                                 shown |-> mask_profile(e.phone), of |-> e.phone]}

(* Every delivery of an envelope, the first, a late or a repeated one; one  *)
(* that does not open is answered by bad_envelope and changes nothing.      *)
secure_profile(e) ==
  /\ Cardinality(answers) < MaxAnswers
  /\ open_request(e)
  /\ accepted' = accepted \union {[key |-> e.key, at |-> now]}
  /\ seal_response(e)
  /\ UNCHANGED <<now, born, sent>>

Tick ==
  /\ now < MaxTime
  /\ now' = now + 1
  /\ UNCHANGED <<drawn, used, sent, born, accepted, answers>>

Next ==
  \/ \E off \in Drift, phone \in Length : client_seal_request(off, phone)
  \/ \E e \in sent : Damage(e) \/ secure_profile(e)
  \/ Tick

Spec == Init /\ [][Next]_vars

(* No key ever encrypts twice under one nonce, in whichever direction and   *)
(* however often a request is delivered ("nonce must be new").              *)
NonceOnce == \A k \in DOMAIN used : IsInjective(used[k])

(* The window bounds the life of an envelope whatever the client's clock:   *)
(* two deliveries that are both accepted are at most two windows apart.     *)
ReplayDies ==
  \A a, b \in accepted : a.key = b.key => Abs(a.at - b.at) <= 2 * REPLAY_WINDOW_MS

(* An answer never shows the whole of a field, at any length. *)
NeverAllShown == \A a \in answers : a.shown < a.of

(* Envelopes may be delivered late, damaged and again: nonces stay fresh,  *)
(* the window holds, and answers stay masked.                              *)
EnvelopeSafe == NonceOnce /\ ReplayDies /\ NeverAllShown
=============================================================================
