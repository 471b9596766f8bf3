----------------------------- MODULE CertOrder -----------------------------
(* cert_demo: a certificate that is renewed by an ACME order.  Every day    *)
(* (the scheduler around this crate) needs_renewal reads the certificate's  *)
(* last day; when it is due, order_certificate runs: account, order, one    *)
(* HTTP-01 challenge per domain, the wait for the CA, the CSR, the download.*)
(* The CA looks the token up at serve_challenge whenever it likes once it   *)
(* has been told that the challenge is ready; a restart of the process      *)
(* empties the ChallengeStore, which is in memory.  Time is in days.        *)
EXTENDS Integers

CONSTANTS Domain,                   \* the names of the certificate
          SELF_SIGNED_VALID_DAYS,   \* life of a new certificate
          RENEW_THRESHOLD_DAYS,
          MaxDays                   \* bound: last day of a behaviour

(* A new certificate is not already due: 90 days against 30. *)
CertAssumption ==
  /\ SELF_SIGNED_VALID_DAYS \in Nat /\ RENEW_THRESHOLD_DAYS \in Nat
  /\ RENEW_THRESHOLD_DAYS < SELF_SIGNED_VALID_DAYS
  /\ MaxDays \in Nat

VARIABLES now, not_after,
          pc,         \* where order_certificate is; "idle" between two orders
          todo,       \* domains whose authorization has not been looked at
          order,      \* number of orders begun: names their tokens
          inner,      \* ChallengeStore: the tokens it can answer
          authz,      \* the CA's view of the authorizations of the order
          checked,    \* today's check has been made
          failed      \* orders that failed since the last certificate

vars == <<now, not_after, pc, todo, order, inner, authz, checked, failed>>

Token(d) == <<order, d>>

TypeOK ==
  /\ now \in 0 .. MaxDays /\ not_after \in Nat /\ failed \in Nat /\ order \in Nat
  /\ pc \in {"idle", "account", "authorizations", "set_ready", "poll_ready", "finalize", "download"}
  /\ todo \subseteq Domain /\ inner \subseteq (1 .. order) \X Domain
  /\ authz \in [Domain -> {"none", "pending", "ready", "valid", "invalid"}]
  /\ checked \in BOOLEAN

(* The first certificate of the site. *)
Init ==
  /\ now = 0 /\ not_after = SELF_SIGNED_VALID_DAYS
  /\ pc = "idle" /\ todo = {} /\ order = 0 /\ inner = {}
  /\ authz = [d \in Domain |-> "none"]
  /\ checked = FALSE /\ failed = 0

needs_renewal_late(at) == at > not_after - RENEW_THRESHOLD_DAYS  \* mutant
needs_renewal(at) == at >= not_after - RENEW_THRESHOLD_DAYS

DailyCheck ==
  /\ pc = "idle" /\ ~checked
  /\ checked' = TRUE
  /\ IF needs_renewal(now)
       THEN /\ pc' = "account" /\ order' = order + 1
            /\ authz' = [d \in Domain |-> "none"]
       ELSE UNCHANGED <<pc, order, authz>>
  /\ UNCHANGED <<now, not_after, todo, inner, failed>>

(* An error anywhere ends the order: `?` and context(...). *)
Fails ==
  /\ pc # "idle"
  /\ pc' = "idle" /\ failed' = failed + 1 /\ todo' = {}
  /\ UNCHANGED <<now, not_after, order, inner, authz, checked>>

(* A new account and its order; the CA may know some names already. *)
NewOrder ==
  /\ pc = "account"
  /\ pc' = "authorizations" /\ todo' = Domain
  /\ authz' \in [Domain -> {"pending", "valid"}]
  /\ UNCHANGED <<now, not_after, order, inner, checked, failed>>

SkipValid(d) ==
  /\ pc = "authorizations" /\ d \in todo /\ authz[d] = "valid"
  /\ todo' = todo \ {d}
  /\ UNCHANGED <<now, not_after, pc, order, inner, authz, checked, failed>>

InsertLast(d) ==  \* mutant: the CA is told before the answer is stored
  /\ pc = "authorizations" /\ d \in todo /\ authz[d] = "pending"
  /\ authz' = [authz EXCEPT ![d] = "ready"]
  /\ pc' = "set_ready"
  /\ UNCHANGED <<now, not_after, todo, order, inner, checked, failed>>

(* challenge_store.insert, and then set_ready. *)
Insert(d) ==
  /\ pc = "authorizations" /\ d \in todo /\ authz[d] = "pending"
  /\ inner' = inner \union {Token(d)}
  /\ pc' = "set_ready"
  /\ UNCHANGED <<now, not_after, todo, order, authz, checked, failed>>

(* The one name whose answer was just stored. *)
SetReady(d) ==
  /\ pc = "set_ready" /\ d \in todo /\ Token(d) \in inner
  /\ authz' = [authz EXCEPT ![d] = "ready"]
  /\ todo' = todo \ {d} /\ pc' = "authorizations"
  /\ UNCHANGED <<now, not_after, order, inner, checked, failed>>

AllAnswered ==
  /\ pc = "authorizations" /\ todo = {}
  /\ pc' = "poll_ready"
  /\ UNCHANGED <<now, not_after, todo, order, inner, authz, checked, failed>>

(* The CA asks serve_challenge: 200 with the key authorization, or 404; it  *)
(* may also fail to reach the host.                                         *)
serve_challenge(d) == Token(d) \in inner

Probe(d) ==
  /\ authz[d] = "ready"
  /\ authz' = [authz EXCEPT ![d] = IF serve_challenge(d) THEN "valid" ELSE "invalid"]
  /\ UNCHANGED <<now, not_after, pc, todo, order, inner, checked, failed>>

Unreachable(d) ==
  /\ authz[d] = "ready"
  /\ authz' = [authz EXCEPT ![d] = "invalid"]
  /\ UNCHANGED <<now, not_after, pc, todo, order, inner, checked, failed>>

(* poll_ready returns when all is valid; an invalid name or its time-out is *)
(* a failure (Fails).                                                       *)
PollReady ==
  /\ pc = "poll_ready" /\ \A d \in Domain : authz[d] = "valid"
  /\ pc' = "finalize"
  /\ UNCHANGED <<now, not_after, todo, order, inner, authz, checked, failed>>

Finalize ==
  /\ pc = "finalize" /\ pc' = "download"
  /\ UNCHANGED <<now, not_after, todo, order, inner, authz, checked, failed>>

Download ==
  /\ pc = "download"
  /\ pc' = "idle" /\ failed' = 0
  /\ not_after' = now + SELF_SIGNED_VALID_DAYS
  /\ UNCHANGED <<now, todo, order, inner, authz, checked>>

(* The process restarts: its tokens, and a running order, are gone. *)
Restart ==
  /\ inner' = {} /\ pc' = "idle" /\ todo' = {}
  /\ failed' = IF pc = "idle" THEN failed ELSE failed + 1
  /\ UNCHANGED <<now, not_after, order, authz, checked>>

Midnight ==
  /\ pc = "idle" /\ checked /\ now < MaxDays
  /\ now' = now + 1 /\ checked' = FALSE
  /\ UNCHANGED <<not_after, pc, todo, order, inner, authz, failed>>

order_certificate ==
  \/ NewOrder \/ AllAnswered \/ PollReady \/ Finalize \/ Download \/ Fails
  \/ \E d \in Domain : SkipValid(d) \/ Insert(d) \/ SetReady(d)

Next ==
  \/ order_certificate
  \/ DailyCheck \/ Restart \/ Midnight
  \/ \E d \in Domain : Probe(d) \/ Unreachable(d)

Spec == Init /\ [][Next]_vars

(* As long as no more orders failed in a row than there are days in the     *)
(* renewal window, the site has a certificate that is still good: the       *)
(* margin that needs_renewal promises, counted against the daily check.     *)
InTime == failed <= RENEW_THRESHOLD_DAYS => now <= not_after

(* Whenever the CA has been told that a challenge of the running order is   *)
(* ready, its answer is there to be served.                                 *)
ReadyIsServed ==
  pc # "idle" => \A d \in Domain : authz[d] = "ready" => serve_challenge(d)

(* The daily check and the orders it starts keep the certificate good, and *)
(* the responder keeps what the CA was told.                               *)
RenewalSafe == InTime /\ ReadyIsServed
============================================================================
