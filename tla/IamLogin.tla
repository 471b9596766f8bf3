------------------------------ MODULE IamLogin ------------------------------
(***************************************************************************)
(* iam_demo: the login of one account in two requests.  With 2FA enabled   *)
(* the password yields a half token of short life, which /auth/login/totp  *)
(* exchanges, with a code of the authenticator, for a full one.  Enabling  *)
(* 2FA or replacing its secret interleaves with logins under way.          *)
(*                                                                         *)
(* The clock counts thirds of a TOTP step; the phone's clock is off by a   *)
(* constant.  A token is what its claims say; signatures hold.             *)
(***************************************************************************)
EXTENDS Integers

CONSTANTS
  Login,            \* logins under way
  Secret,           \* TOTP secrets
  STEP_SECS,        \* the step
  Drifts,           \* how far the phone's clock may be off
  MFA_PENDING_TTL,  \* life of a half token
  LEEWAY,           \* what jsonwebtoken grants on top of `exp`
  MaxTime           \* bound: the clock

(* The tolerance of one step is meant for clocks that are no further off. *)
LoginAssumption ==
  /\ STEP_SECS \in Nat \ {0} /\ Drifts \subseteq -STEP_SECS..STEP_SECS
  /\ MFA_PENDING_TTL \in Nat /\ LEEWAY \in Nat /\ MaxTime \in Nat

VARIABLES
  now,
  drift,      \* of the phone
  account,    \* [totp_enabled, secret], as in iam.accounts
  login,      \* login[l]: where l stands
  enabledAt   \* history: the time at which 2FA was enabled

vars == <<now, drift, account, login, enabledAt>>

None == "none"
Fresh == [at |-> "new", began |-> 0, saw |-> FALSE, exp |-> 0,
          code |-> [secret |-> None, step |-> 0], verified |-> FALSE]

(* An hour: beyond the bound of the clock. *)
TOKEN_TTL_SECS == MaxTime

Steps == -1..(MaxTime + STEP_SECS)
TypeOK ==
  /\ now \in 0..MaxTime /\ drift \in Drifts
  /\ account \in [totp_enabled : BOOLEAN, secret : Secret \cup {None}]
  /\ login \in [Login ->
       [at : {"new", "password", "half", "asked", "full", "refused"},
        began : 0..MaxTime, saw : BOOLEAN, exp : Nat,
        code : [secret : Secret \cup {None}, step : Steps], verified : BOOLEAN]]
  /\ enabledAt \in 0..(MaxTime + 1)

Init ==
  /\ now = 0
  /\ drift \in Drifts
  /\ account = [totp_enabled |-> FALSE, secret |-> None]
  /\ login = [l \in Login |-> Fresh]
  /\ enabledAt = MaxTime + 1

-----------------------------------------------------------------------------
(* generate_secret, enable_totp: the secret and the flag in one UPDATE. *)
enable_totp(s) ==
  /\ account' = [totp_enabled |-> TRUE, secret |-> s]
  /\ enabledAt' = IF account.totp_enabled THEN enabledAt ELSE now
  /\ UNCHANGED <<now, drift, login>>

(* login: the account is read; the password is right. *)
PasswordVerified(l) ==
  /\ login[l].at = "new"
  /\ login' = [login EXCEPT ![l] =
       [@ EXCEPT !.at = "password", !.began = now, !.saw = account.totp_enabled]]
  /\ UNCHANGED <<now, drift, account, enabledAt>>

(* Mutant of FirstToken: every password gets a full token. *)
FirstTokenFull(l) ==
  /\ login[l].at = "password"
  /\ login' = [login EXCEPT ![l].at = "full", ![l].exp = now + TOKEN_TTL_SECS]
  /\ UNCHANGED <<now, drift, account, enabledAt>>

(* The answer: a half token or a full one, by what was read. *)
FirstToken(l) ==
  /\ login[l].at = "password"
  /\ login' = [login EXCEPT
       ![l].at = IF login[l].saw THEN "half" ELSE "full",
       ![l].exp = now + (IF login[l].saw THEN MFA_PENDING_TTL ELSE TOKEN_TTL_SECS)]
  /\ UNCHANGED <<now, drift, account, enabledAt>>

step(t) == t \div STEP_SECS

(* current_code: what the user reads on the phone, and sends.  A refused   *)
(* code leaves the half token as it was, so that the user may try again.   *)
SendCode(l, s) ==
  /\ login[l].at \in {"half", "refused"}
  /\ login' = [login EXCEPT ![l].at = "asked",
       ![l].code = [secret |-> s, step |-> step(now + drift)]]
  /\ UNCHANGED <<now, drift, account, enabledAt>>

decode_token_ok(l) == now <= login[l].exp + LEEWAY

(* The claim of the token that login l has in its hands. *)
mfa_pending(l) == login[l].at \in {"half", "asked", "refused"}

(* The extractor that protects every business route: it takes any token    *)
(* that has not expired and is not a half one.                             *)
AuthUser(l) ==
  login[l].at \notin {"new", "password"} /\ decode_token_ok(l) /\ ~mfa_pending(l)

(* Mutant of verify_code: SKEW = 0. *)
verify_code_exact(secret, code) ==
  code.secret = secret /\ code.step = step(now)

(* TOTP::check with SKEW = 1: the step before and the step after will do. *)
verify_code(secret, code) ==
  code.secret = secret /\ code.step \in (step(now) - 1)..(step(now) + 1)

(* login_totp: the account is read again, and the code is checked with the *)
(* secret it has now.                                                      *)
Accepts(l) ==
  /\ decode_token_ok(l)
  /\ account.totp_enabled
  /\ verify_code(account.secret, login[l].code)

SecondToken(l) ==
  /\ login[l].at = "asked"
  /\ Accepts(l)
  /\ login' = [login EXCEPT ![l].at = "full", ![l].verified = TRUE,
                             ![l].exp = now + TOKEN_TTL_SECS]
  /\ UNCHANGED <<now, drift, account, enabledAt>>

SecondRefused(l) ==
  /\ login[l].at = "asked"
  /\ ~Accepts(l)
  /\ login' = [login EXCEPT ![l].at = "refused"]
  /\ UNCHANGED <<now, drift, account, enabledAt>>

(* The user gives the half token up and starts from the password. *)
Again(l) ==
  /\ login[l].at = "refused"
  /\ login' = [login EXCEPT ![l] = Fresh]
  /\ UNCHANGED <<now, drift, account, enabledAt>>

Tick ==
  /\ now < MaxTime
  /\ now' = now + 1
  /\ UNCHANGED <<drift, account, login, enabledAt>>

Next ==
  \/ \E s \in Secret : enable_totp(s)
  \/ \E l \in Login :
       \/ PasswordVerified(l) \/ FirstToken(l)
       \/ \E s \in Secret : SendCode(l, s)
       \/ SecondToken(l) \/ SecondRefused(l) \/ Again(l)
  \/ Tick

Behaviour == Init /\ [][Next]_vars

-----------------------------------------------------------------------------
(* A token that business routes admit, of a login that began after 2FA had *)
(* been enabled, is one for which a code was verified, whatever is         *)
(* enabled, replaced or expires between its requests.  (A login under way  *)
(* while 2FA is being enabled may still get one with the password alone.)  *)
TwoStepsTaken ==
  \A l \in Login :
    AuthUser(l) /\ login[l].began > enabledAt => login[l].verified

(* A user whose phone is at most one step off and who sends the code of    *)
(* the present secret at once is refused only with an expired half token   *)
(* or because the secret was replaced on the way.                          *)
PromptCodeAccepted ==
  \A l \in Login :
    (/\ login[l].at = "asked"
     /\ login[l].code.step = step(now + drift)
     /\ login[l].code.secret = account.secret) => (Accepts(l) <=> decode_token_ok(l))

(* The two steps of a login can neither be cut to one nor refuse a user    *)
(* who does what the page asks.                                            *)
LoginSound == TwoStepsTaken /\ PromptCodeAccepted
=============================================================================
