----------------------------- MODULE RoutePolicies -----------------------------
(***************************************************************************)
(* Which authentication a route demands: the policy its layers declare,    *)
(* resolved and compiled once when the application starts (_openapi.py,    *)
(* the policy helpers of authentication.py, config.py).                    *)
(*                                                                         *)
(* A declaration lists the layers of a handler from the application to the *)
(* handler itself.  Each may carry a policy and an exclusion, which are    *)
(* the route options "auth" and "exclude_from_auth"; an exclusion may be   *)
(* set to a false value, which opts back in.  reuses names the owners      *)
(* whose policy object the handler declares again.                        *)
(***************************************************************************)
EXTENDS Integers, Sequences, FiniteSets

CONSTANTS
  Mechanisms,      \* registered mechanisms, in the order of the registry
  Defaults,        \* those that participate by default
  SessionCapable,  \* those that read a cookie
  CSRFConfigured,  \* the application has a CSRF implementation
  Origins          \* the application trusts some WebSocket origin

Registered == {Mechanisms[i] : i \in DOMAIN Mechanisms}

\* Policies: public, exclude, required (by default), any_of, all_of and
\* at_least over mechanisms, and any positive one made optional.
NoPolicy == [kind |-> "none"]
Public   == [kind |-> "public"]
Exclude  == [kind |-> "exclude"]
Refused  == [kind |-> "refused"]
Required == [kind |-> "any_of", of |-> Defaults, count |-> 1, optional |-> FALSE]

PositivePolicy(policy) ==
  policy.of # {} /\ policy.of \subseteq Registered /\ policy.count \in 1..Cardinality(policy.of)

-------------------------------------------------------------------------------
Layer(d, i) == d.layers[i]
Handler(d)  == d.layers[Len(d.layers)]
Owners(d)   == 1..(Len(d.layers) - 1)
Innermost(S) == CHOOSE i \in S : \A j \in S : j <= i

DeclaresPolicy(d, i)  == Layer(d, i).policy # NoPolicy
DeclaresExclude(d, i) == Layer(d, i).exclude = "yes"

\* The merged option: the innermost layer that sets it decides.
Excluded(d) ==
  LET Set == {i \in DOMAIN d.layers : Layer(d, i).exclude # "unset"}
  IN Set # {} /\ Layer(d, Innermost(Set)).exclude = "yes"

\* The handler decides if it declares something of its own, and a policy is
\* its own unless it is the very object some owner declares; then the nearest
\* owner that declares a policy, or an exclusion that still stands.
HandlerExcludes(d) == Excluded(d) /\ \A i \in Owners(d) : ~DeclaresExclude(d, i)
HandlerPolicy(d)   == Handler(d).policy # NoPolicy /\ d.reuses = {}
Deciding(d) == {i \in Owners(d) : DeclaresPolicy(d, i) \/ (DeclaresExclude(d, i) /\ Excluded(d))}

ResolveEffectivePolicy(d) ==
  IF \E i \in Owners(d) : DeclaresPolicy(d, i) /\ DeclaresExclude(d, i) THEN Refused
  ELSE IF HandlerExcludes(d) /\ HandlerPolicy(d) THEN Refused
  ELSE IF HandlerExcludes(d) THEN Exclude
  ELSE IF HandlerPolicy(d) THEN Handler(d).policy
  ELSE IF Deciding(d) = {} THEN NoPolicy
  ELSE LET i == Innermost(Deciding(d))
       IN IF DeclaresPolicy(d, i) THEN Layer(d, i).policy ELSE Exclude

\* Handlers of the generated schema take no policy from the application or
\* from themselves, only from the layers between.
NearestNonApplicationPolicy(d) ==
  LET Between == {i \in 2..(Len(d.layers) - 1) : DeclaresPolicy(d, i) \/ DeclaresExclude(d, i)}
  IN IF Between = {} THEN Public
     ELSE IF DeclaresPolicy(d, Innermost(Between)) THEN Layer(d, Innermost(Between)).policy ELSE Exclude

DefaultPolicy == IF Registered = {} THEN Public ELSE Required

\* A route that matches an exclusion pattern declares no policy of its own.
PolicyOf(d) ==
  LET resolved == ResolveEffectivePolicy(d)
  IN IF resolved = Refused \/ (d.matchesExclusion /\ resolved \notin {NoPolicy, Exclude}) THEN Refused
     ELSE IF d.matchesExclusion THEN Exclude
     ELSE IF d.generated = "options" THEN Public
     ELSE IF d.generated = "schema" THEN NearestNonApplicationPolicy(d)
     ELSE IF resolved = NoPolicy THEN DefaultPolicy ELSE resolved

-------------------------------------------------------------------------------
(* The compiled plan.                                                       *)

Alternatives(policy) ==
  CASE policy.kind = "any_of" -> {{m} : m \in policy.of}
    [] policy.kind = "all_of" -> {policy.of}
    [] policy.kind = "at_least" -> {M \in SUBSET policy.of : Cardinality(M) = policy.count}

Passive == [authenticate |-> FALSE, bypass |-> FALSE, alternatives |-> {}, anonymous |-> TRUE]

CompilePolicy(policy) ==
  CASE policy.kind = "public"  -> Passive
    [] policy.kind = "exclude" -> [Passive EXCEPT !.bypass = TRUE]
    [] OTHER -> [authenticate |-> TRUE, bypass |-> FALSE, alternatives |-> Alternatives(policy),
                 anonymous |-> policy.optional]

\* A plan that a cookie could satisfy demands CSRF protection, and so does a
\* handler that asks for it.
CSRFWhenDeclared(d) == d.csrf
CSRFRequired(d) ==
  \/ d.csrf
  \/ PolicyOf(d).kind # "exclude" /\ (UNION CompilePolicy(PolicyOf(d)).alternatives) \cap SessionCapable # {}

\* The start-up refuses a route whose policy cannot be compiled or whose
\* protection the application does not have.
Starts(d) ==
  LET policy == PolicyOf(d)
  IN /\ policy # Refused
     /\ policy.kind \notin {"public", "exclude"} => PositivePolicy(policy)
     /\ d.websocket => ~d.csrf /\ (Origins \/ SessionCapable \cap (UNION CompilePolicy(policy).alternatives) = {})
     /\ ~d.websocket /\ CSRFRequired(d) => CSRFConfigured
===============================================================================
