----------------------------- MODULE MCAccounts -----------------------------
(***************************************************************************)
(* Model-checking instance of who may do what: the requests of a SaaS      *)
(* tenant (TodoSaas), its users, tokens and plans (SaasTenants), and the   *)
(* grants of IAM. They share no state, so that one run checks them side by *)
(* side: `part` says which one moves.                                      *)
(***************************************************************************)
EXTENDS TodoSaas, TLC

CONSTANTS u1, u2, acme, globex, User, Tenant, Home, TOKEN_TTL_SECS, LEEWAY,
          LoginTime, TokenTime, MaxTodos, MaxTokens, MaxEvents, Account,
          Owner, a1, a2, Resource, Action, Specs, SubRole, MaxRevoked, MaxList

VARIABLES part,
          now, role, t_plan, t_todos, next_id, logins, tokens, events,
          admin_until, deletions, seen, applied, accounts, grants, req,
          revoked

Tenants == INSTANCE SaasTenants WITH
  plan <- t_plan, todos <- t_todos, MaxTime <- TokenTime

Iam == INSTANCE IamGrants WITH
  Spec <- Specs, Role <- SubRole

tenantsVars ==
  <<now, role, t_plan, t_todos, next_id, logins, tokens, events,
    admin_until, deletions, seen, applied>>
iamVars ==
  <<accounts, grants, req, revoked>>
all == <<part, vars, tenantsVars, iamVars>>

ASSUME MCAssumption ==
  /\ Iam!GrantsAssumption
  /\ Tenants!TenantsAssumption

MCHome == u1 :> acme @@ u2 :> globex

MCSpecs == {[resource_id |-> "x", action |-> "read"],
            [resource_id |-> "*", action |-> "read"],
            [resource_id |-> "y", action |-> "*"]}

MCInit ==
  /\ part \in {"saas", "tenants", "iam"}
  /\ Init
  /\ Tenants!Init
  /\ Iam!Init

MCNext ==
  /\ UNCHANGED part
  /\ \/ part = "saas" /\ Next /\ UNCHANGED <<tenantsVars, iamVars>>
     \/ part = "tenants" /\ Tenants!Next /\ UNCHANGED <<vars, iamVars>>
     \/ part = "iam" /\ Iam!Next /\ UNCHANGED <<vars, tenantsVars>>

MCSpec ==
  /\ MCInit /\ [][MCNext]_all

Symmetry == Permutations(Handler)
  \cup {u1 :> u2 @@ u2 :> u1 @@ acme :> globex @@ globex :> acme
         @@ a1 :> a2 @@ a2 :> a1}

AccountsHold == Tenants!AccountsHold
Delegation == Iam!Delegation
=============================================================================
