----------------------------- MODULE IamGrants -----------------------------
(***************************************************************************)
(* iam_demo: the accounts of one organisation and what each may do.        *)
(*                                                                         *)
(* A sub-account gets only grants that its parent could exercise.  store.rs *)
(* reads the parent's grants and inserts the new ones in separate          *)
(* statements, the first outside the transaction of the second, so that    *)
(* requests interleave between check and insert.  authz.rs cuts the grants *)
(* of an account down to its parent's once more when they are used.        *)
(***************************************************************************)
EXTENDS Integers, FiniteSets

CONSTANTS
  Account,    \* ids of accounts
  Owner,      \* the account of create_org_owner
  Resource,   \* resource ids
  Action,     \* actions
  Spec,       \* GrantSpecs that requests may name
  Role,       \* roles that a request may ask for
  Handler,    \* requests under way at one time
  MaxRevoked, \* bound: grants taken back by hand
  MaxList     \* bound: grants asked for at once

GrantsAssumption == Owner \in Account /\ MaxRevoked \in Nat

VARIABLES
  accounts,   \* iam.accounts: {} or {[parent, role]}; Owner is its own parent
  grants,     \* iam.grants: the specs of each account
  req,        \* req[h]: {} or {the request between its check and its insert}
  revoked     \* history: grants taken back by hand

vars == <<accounts, grants, req, revoked>>

Star == "*"
AnySpec == [resource_id : Resource \cup {Star}, action : Action \cup {Star}]
Request == [resource_id : Resource, action : Action]
Asked == {s \in SUBSET Spec : Cardinality(s) <= MaxList}

TypeOK ==
  /\ accounts \in [Account -> SUBSET [parent : Account, role : Role \cup {"owner"}]]
  /\ grants \in [Account -> SUBSET Spec]
  /\ req \in [Handler -> SUBSET
       [op : {"create", "grant"}, on : Account, role : Role \cup {"owner"},
        specs : Asked]]
  /\ revoked \in 0..MaxRevoked

(* The tables are created, empty. *)
migrate ==
  /\ accounts = [a \in Account |-> {}]
  /\ grants = [a \in Account |-> {}]

Init == migrate /\ req = [h \in Handler |-> {}] /\ revoked = 0

-----------------------------------------------------------------------------
(* A resource or an action is matched by itself and by the star.           *)
grant_matches(g, r) ==
  /\ g.resource_id \in {Star, r.resource_id}
  /\ g.action \in {Star, r.action}

(* Default deny: some grant must match. *)
can(gs, r) == \E g \in gs : grant_matches(g, r)

(* Mutant of parent_covers: the star is looked for on the wrong side. *)
parent_covers_reversed(parent, c) ==
  \E p \in parent :
    /\ c.resource_id \in {Star, p.resource_id}
    /\ c.action \in {Star, p.action}

(* A star in the child's grant needs a star in the parent's. *)
parent_covers(parent, c) ==
  \E p \in parent :
    /\ p.resource_id \in {Star, c.resource_id}
    /\ p.action \in {Star, c.action}

(* Mutant of effective_grants: the child's own table is trusted. *)
effective_grants_declared(child, parent) == child

effective_grants(child, parent) == {c \in child : parent_covers(parent, c)}

can_effective(child, parent, r) == can(effective_grants(child, parent), r)

-----------------------------------------------------------------------------
Exists(a) == accounts[a] # {}
Parent(a) == (CHOOSE x \in accounts[a] : TRUE).parent
RoleOf(a) == (CHOOSE x \in accounts[a] : TRUE).role

(* The owner, and whoever has its role or no parent, is unlimited. *)
authority_unlimited(a) == RoleOf(a) = "owner" \/ a = Owner

(* Mutant of authority_covers: the question is asked the wrong way round. *)
authority_covers_any(a, spec) ==
  authority_unlimited(a) \/ \E g \in grants[a] : grant_matches(spec, g)

(* Authority::covers puts the spec as if it were a request. *)
authority_covers(a, spec) == authority_unlimited(a) \/ can(grants[a], spec)

(* The owner has no parent and no grants, its role implies them. *)
create_org_owner ==
  /\ ~Exists(Owner)
  /\ accounts' = [accounts EXCEPT ![Owner] = {[parent |-> Owner, role |-> "owner"]}]
  /\ UNCHANGED <<grants, req, revoked>>

(* create_account and add_grant: the parent of a new account is the one of *)
(* the token; a grant may be asked for any account, whoever asks.          *)
Receive(h, r) == req[h] = {} /\ req' = [req EXCEPT ![h] = {r}]

(* create_sub_account up to its transaction.  A refused request changes    *)
(* nothing and is left out.                                                *)
CreateChecked(h, p, role, specs) ==
  /\ Exists(p)
  /\ \A s \in specs : authority_covers(p, s)
  /\ Receive(h, [op |-> "create", on |-> p, role |-> role, specs |-> specs])
  /\ UNCHANGED <<accounts, grants, revoked>>

(* Its transaction: the account and all of its grants. *)
CreateInserted(h, a) ==
  /\ \E r \in req[h] :
       /\ r.op = "create"
       /\ a # Owner /\ ~Exists(a)
       /\ accounts' = [accounts EXCEPT ![a] = {[parent |-> r.on, role |-> r.role]}]
       /\ grants' = [grants EXCEPT ![a] = r.specs]
  /\ req' = [req EXCEPT ![h] = {}]
  /\ UNCHANGED revoked

(* grant: the ceiling is the authority of the account's parent. *)
GrantChecked(h, a, s) ==
  /\ Exists(a)
  /\ a = Owner \/ authority_covers(Parent(a), s)
  /\ Receive(h, [op |-> "grant", on |-> a, role |-> RoleOf(a), specs |-> {s}])
  /\ UNCHANGED <<accounts, grants, revoked>>

GrantInserted(h) ==
  /\ \E r \in req[h] :
       /\ r.op = "grant"
       /\ grants' = [grants EXCEPT ![r.on] = @ \cup r.specs]
  /\ req' = [req EXCEPT ![h] = {}]
  /\ UNCHANGED <<accounts, revoked>>

(* The connection breaks, or the email is taken: the transaction is rolled *)
(* back as a whole.                                                        *)
RequestFails(h) ==
  /\ req[h] # {}
  /\ req' = [req EXCEPT ![h] = {}]
  /\ UNCHANGED <<accounts, grants, revoked>>

(* Somebody takes a grant back in the database; no route does.             *)
Revoke(a) ==
  /\ revoked < MaxRevoked
  /\ \E g \in grants[a] : grants' = [grants EXCEPT ![a] = @ \ {g}]
  /\ revoked' = revoked + 1
  /\ UNCHANGED <<accounts, req>>

Next ==
  \/ create_org_owner
  \/ \E h \in Handler :
       \/ \E p \in Account, role \in Role, specs \in Asked :
            CreateChecked(h, p, role, specs)
       \/ \E a \in Account : CreateInserted(h, a)
       \/ \E a \in Account, s \in Spec : GrantChecked(h, a, s)
       \/ GrantInserted(h) \/ RequestFails(h)
  \/ \E a \in Account : Revoke(a)

Behaviour == Init /\ [][Next]_vars

-----------------------------------------------------------------------------
Ceiling(a) == IF authority_unlimited(Parent(a)) THEN Request
              ELSE {r \in Request : can(grants[Parent(a)], r)}

(* Nothing a sub-account declares goes beyond its parent, although the     *)
(* check and the insert are apart and grants are added in between: it      *)
(* rests on the fact that nothing in the code ever takes a grant back.     *)
SubWithinParent ==
  revoked = 0 =>
    \A a \in Account : Exists(a) /\ a # Owner =>
      \A r \in Request : can(grants[a], r) => r \in Ceiling(a)

(* Even when the parent has lost grants that its child still declares, or  *)
(* the child got them from a request checked before the loss, the child's  *)
(* effective grants stay within the parent's.                              *)
EffectiveWithinParent ==
  \A a \in Account : Exists(a) =>
    \A r \in Request :
      can_effective(grants[a], grants[Parent(a)], r) => can(grants[Parent(a)], r)

(* As long as nothing was taken back, cutting to the parent costs a        *)
(* sub-account of a limited parent nothing: both gates agree, stars        *)
(* included.                                                               *)
GatesAgree ==
  revoked = 0 =>
    \A a \in Account : Exists(a) =>
      authority_unlimited(Parent(a))
        \/ effective_grants(grants[a], grants[Parent(a)]) = grants[a]

(* Delegation never adds authority, in what is declared, in what is in     *)
(* effect, and at both gates alike.                                        *)
Delegation == SubWithinParent /\ EffectiveWithinParent /\ GatesAgree
=============================================================================
