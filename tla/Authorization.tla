----------------------------- MODULE Authorization -----------------------------
(***************************************************************************)
(* What an authenticated request may do: the grants of its principal, the  *)
(* bounds its credentials carry, the evidence its authentication left, and *)
(* the guards that decide from them (context.py, guards.py and the         *)
(* merging operations of authentication.py).                               *)
(*                                                                         *)
(* A snapshot has a set of values of each kind of grant; scopes stand for  *)
(* capabilities and resources too, which the code narrows alike.  A bound  *)
(* that is absent admits every value, an empty one admits none.            *)
(***************************************************************************)
EXTENDS Integers, FiniteSets, Sequences, TLC

CONSTANTS
  Unbounded,   \* the bound of a credential that carries none
  Never,       \* the expiry of evidence and keys that do not expire
  Anonymous    \* the principal of a request without accepted credentials

VARIABLE now   \* the time every clock of the process reads

Kinds == {"scope", "role", "tenant"}

NoGrants == [scope |-> {}, role |-> {}, tenant |-> {}, tenantRole |-> {}]
NoBounds == [kind \in Kinds |-> Unbounded]

Within(value, bound) == bound = Unbounded \/ value \in bound

\* The roles a tenant grants are bounded by its tenants and by its roles.
TenantRolesWithin(pairs, bounds) ==
  {pair \in pairs : \A b \in bounds : Within(pair[1], b.tenant) /\ Within(pair[2], b.role)}

ResolveAuthorization(snapshot, bounds) ==
  LET Narrowed(kind) == {v \in snapshot[kind] : \A b \in bounds : Within(v, b[kind])}
  IN [scope |-> Narrowed("scope"), role |-> Narrowed("role"), tenant |-> Narrowed("tenant"),
      tenantRole |-> TenantRolesWithin(snapshot.tenantRole, bounds)]

\* Without a resolver of the application, the credentials' own grants unite.
MergeAuthorization(outcomes) ==
  [kind \in DOMAIN NoGrants |-> UNION {o.grants[kind] : o \in outcomes}]

-------------------------------------------------------------------------------
(* Evidence: what was proved, when, and until when it counts.               *)

AnyEvidence(evidence) == evidence
Live(evidence) == {e \in evidence : e.expires = Never \/ e.expires > now}

Methods(evidence) == UNION {e.methods : e \in evidence}
Traits(evidence)  == UNION {e.traits : e \in evidence}

Covers(evidence, need) ==
  need.methods \subseteq Methods(evidence) /\ need.traits \subseteq Traits(evidence)

\* Freshness is asked of the evidence that has something to do with the
\* requirement, or of all of it when the requirement names nothing.  (A
\* purpose is a trait.)
Relevant(evidence, need) ==
  LET Related == {e \in evidence : e.methods \cap need.methods # {} \/ e.traits \cap need.traits # {}}
  IN IF Related = {} THEN evidence ELSE Related

Current(evidence, need) ==
  {e \in Relevant(evidence, need) : e.at <= now /\ now - e.at <= need.maxAge}

Assured(evidence, need) ==
  LET live    == Live(evidence)
      current == Current(live, need)
  IN /\ Covers(live, need)
     /\ need.maxAge # Unbounded => current # {} /\ Covers(current, need)

-------------------------------------------------------------------------------
(* Guards.  A composite's children are leaves (composites nest in the code: *)
(* one level is enough to combine every leaf with every operator).          *)

GrantDecision(principal, granted) ==
  IF principal = Anonymous THEN "unauthorized" ELSE IF granted THEN "allowed" ELSE "forbidden"

LeafDecision(guard, principal, context, tenant) ==
  GrantDecision(principal,
    CASE guard.kind = "authenticated" -> TRUE
      [] guard.kind = "assurance"     -> Assured(context.evidence, guard.need)
      [] guard.kind = "grant"         -> guard.value \in context.authorization[guard.of]
      [] guard.kind = "tenant_role"   -> \E role \in guard.roles : <<tenant, role>> \in context.authorization.tenantRole
      [] guard.kind = "tenant"        -> tenant \in context.authorization.tenant)

CompositeGranted(guard, granted) ==
  CASE guard.operator = "all_of"   -> granted = Len(guard.children)
    [] guard.operator = "one_of"   -> granted = 1
    [] guard.operator = "any_of"   -> granted >= 1
    [] guard.operator = "at_least" -> granted >= guard.count

CompositeDecision(guard, principal, context, tenant) ==
  LET Granted == {i \in DOMAIN guard.children :
                    LeafDecision(guard.children[i], principal, context, tenant) = "allowed"}
  IN CASE CompositeGranted(guard, Cardinality(Granted)) -> "allowed"
       [] OTHER -> GrantDecision(principal, FALSE)

Decide(guard, principal, context, tenant) ==
  CASE guard.kind = "none"      -> "allowed"
    [] guard.kind = "composite" -> CompositeDecision(guard, principal, context, tenant)
    [] OTHER                    -> LeafDecision(guard, principal, context, tenant)
===============================================================================
