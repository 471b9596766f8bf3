------------------------------ MODULE MCIssued ------------------------------
(***************************************************************************)
(* Model-checking instance of what is issued, sealed and rendered:         *)
(* activations of a licence (Activation), offline licences, the tokens of  *)
(* a two-step login, encrypted envelopes, certificates and the files of    *)
(* the app store. They share no state, so that one run checks them side by *)
(* side: `part` says which one moves.                                      *)
(***************************************************************************)
EXTENDS Activation, TLC

CONSTANTS Character, Features, Feature, LicenceTime, MaxIssued, MaxFiles, MaxVerified,
          Login, Secret,
          STEP_SECS, Drifts, MFA_PENDING_TTL, JwtLeeway, LoginTime, Drift,
          REPLAY_WINDOW_MS, Length, MaxRequests, MaxAnswers, EnvelopeTime,
          Domain, SELF_SIGNED_VALID_DAYS, RENEW_THRESHOLD_DAYS, MaxDays,
          Name, MaxInstalled

VARIABLES part,
          clock, issued, files, verified, p_now, drift, account, login,
          enabledAt, e_now, e_drawn, used, sent, born, accepted, answers,
          c_now, not_after, pc, todo, order, inner, authz, checked, failed,
          installed

Licence == INSTANCE LicenseFile WITH
  Machine <- Features, MaxTime <- LicenceTime

Phone == INSTANCE IamLogin WITH
  now <- p_now, LEEWAY <- JwtLeeway, MaxTime <- LoginTime

Mail == INSTANCE Envelope WITH
  now <- e_now, drawn <- e_drawn, MaxTime <- EnvelopeTime

Cert == INSTANCE CertOrder WITH
  now <- c_now

Apps == INSTANCE AppStore

licenceVars ==
  <<clock, issued, files, verified>>
loginVars ==
  <<p_now, drift, account, login, enabledAt>>
envelopeVars ==
  <<e_now, e_drawn, used, sent, born, accepted, answers>>
certVars ==
  <<c_now, not_after, pc, todo, order, inner, authz, checked,
                failed>>
appsVars ==
  <<installed>>
all == <<part, vars, licenceVars, loginVars, envelopeVars, certVars, appsVars>>

ASSUME MCAssumption ==
  /\ ActivationAssumption
  /\ Licence!LicenceAssumption
  /\ Phone!LoginAssumption
  /\ Mail!EnvelopeAssumption
  /\ Cert!CertAssumption

(* Machines whose features would look alike if they were run together.     *)
MCFeatures == {<<<<"a", "b">>, <<"c">>>>, <<<<"a">>, <<"b", "c">>>>}

(* Phones a step behind, right, a little and a step ahead; clients whose    *)
(* clock is a window behind, right and beyond the window.                   *)
MCDrifts == {-3, 0, 2, 3}
MCDrift == {-1, 0, 2}

MCInit ==
  /\ part \in {"server", "licence", "login", "envelope", "cert", "apps"}
  /\ Init
  /\ Licence!Init
  /\ Phone!Init
  /\ part # "login" => drift = 0
  /\ Mail!Init
  /\ Cert!Init
  /\ Apps!AInit

MCNext ==
  /\ UNCHANGED part
  /\ \/ part = "server" /\ Next /\ UNCHANGED <<licenceVars, loginVars,
                                               envelopeVars, certVars,
                                               appsVars>>
     \/ part = "licence" /\ Licence!Next /\ UNCHANGED <<vars, loginVars,
                                                        envelopeVars, certVars,
                                                        appsVars>>
     \/ part = "login" /\ Phone!Next /\ UNCHANGED <<vars, licenceVars,
                                                    envelopeVars, certVars,
                                                    appsVars>>
     \/ part = "envelope" /\ Mail!Next /\ UNCHANGED <<vars, licenceVars,
                                                      loginVars, certVars,
                                                      appsVars>>
     \/ part = "cert" /\ Cert!Next /\ UNCHANGED <<vars, licenceVars, loginVars,
                                                  envelopeVars, appsVars>>
     \/ part = "apps" /\ Apps!ANext /\ UNCHANGED <<vars, licenceVars,
                                                   loginVars, envelopeVars,
                                                   certVars>>

MCSpec ==
  /\ MCInit /\ [][MCNext]_all

Symmetry == Permutations(Machine)

VerdictFounded == Licence!VerdictFounded
LoginSound == Phone!LoginSound
EnvelopeSafe == Mail!EnvelopeSafe
RenewalSafe == Cert!RenewalSafe
RenderedAsTyped == Apps!RenderedAsTyped
=============================================================================
