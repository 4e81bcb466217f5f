------------------------------ MODULE BearerTokens ------------------------------
(***************************************************************************)
(* JSON Web Tokens: what the local issuer signs, which key signs it, and   *)
(* what the verifiers of a bearer composite, of capabilities and of        *)
(* provider logout tokens accept.                                          *)
(*                                                                         *)
(* A token is its claims and header fields; its signature is the key that  *)
(* made it, which need not be the one its header names.  Signing keys are  *)
(* numbered in the order in which deployments introduce them.              *)
(***************************************************************************)
EXTENDS Authorization

CONSTANTS
  Accounts,       \* local accounts
  LocalIssuer, LocalAudience,
  ProviderKeys,   \* keys the provider publishes (JWKSProvider serves them)
  ForeignTokens,  \* tokens not signed by the local key ring
  BearerSlots,    \* trust slots of the bearer composite
  LogoutProfile,  \* what the logout-token verifier accepts
  Lifetime,       \* of local access tokens and capabilities
  Skew,           \* clock skew every verifier tolerates
  FirstTokens,    \* tokens the ring signed before the model begins
  MaxKeys,        \* deployments with a new signing key
  MaxTokens,      \* tokens the ring signs
  MaxEpoch        \* security epochs of an account

VARIABLES
  accounts,  \* epoch and activity of each local account
  ring,      \* the active signing key and the retained verification keys
  tokens     \* what the ring has signed

tokenVars == <<accounts, ring, tokens>>

BearerTokensInit ==
  /\ accounts = [a \in Accounts |-> [epoch |-> 0, active |-> TRUE]]
  /\ ring = [active |-> 1, retained |-> {}]
  /\ tokens = FirstTokens

AllVerificationKeys == {ring.active} \cup ring.retained

-------------------------------------------------------------------------------
(* Signing.                                                                 *)

\* The header names the type and the active key.
Signed(type, claims) ==
  [field \in {"type", "kid", "signer"} \cup DOMAIN claims |->
     IF field = "type" THEN type ELSE IF field \in {"kid", "signer"} THEN ring.active ELSE claims[field]]

Sign(token) ==
  /\ Cardinality(tokens) < MaxTokens
  /\ tokens' = tokens \cup {token}
  /\ UNCHANGED <<accounts, ring>>

\* The claims are the issuer's: the account's epoch, and the evidence of
\* its authentication with its own time.
AccessClaims(a, evidence, scopes) ==
  [issuer |-> LocalIssuer, audience |-> LocalAudience, subject |-> a, epoch |-> accounts[a].epoch,
   iat |-> now, exp |-> now + Lifetime, nbf |-> Never, scopes |-> scopes,
   methods |-> evidence.methods, at |-> evidence.at, purpose |-> "none", sid |-> "none"]

\* Only an active account is issued for, and nothing authenticated later
\* than it is issued.
IssueAccessToken(a, evidence, scopes) ==
  /\ accounts[a].active /\ evidence.at <= now
  /\ Sign(Signed("at+jwt", AccessClaims(a, evidence, scopes)))

CapabilityClaims(a, purpose, audience) ==
  [issuer |-> LocalIssuer, audience |-> audience, subject |-> a, epoch |-> 0,
   iat |-> now, exp |-> now + Lifetime, nbf |-> Never, scopes |-> {},
   methods |-> {}, at |-> now, purpose |-> purpose, sid |-> "none"]

MintCapability(a, purpose, audience) ==
  Sign(Signed("capability+jwt", CapabilityClaims(a, purpose, audience)))

\* A deployment signs with the next key; it goes on accepting the keys it
\* retains, and a key identifier is never used for two keys.
RotateSigningKey(retained) ==
  /\ ring.active < MaxKeys
  /\ ring' = [active |-> ring.active + 1, retained |-> retained]
  /\ UNCHANGED <<accounts, tokens>>

\* Passwords, factors and revocations end an epoch; an administrator
\* deactivates an account.
EndEpoch(a) ==
  /\ accounts[a].epoch < MaxEpoch
  /\ accounts' = [accounts EXCEPT ![a].epoch = @ + 1]
  /\ UNCHANGED <<ring, tokens>>

Deactivate(a) ==
  /\ accounts[a].active
  /\ accounts' = [accounts EXCEPT ![a].active = FALSE]
  /\ UNCHANGED <<ring, tokens>>

-------------------------------------------------------------------------------
(* Verification.                                                            *)

SignatureValid(token, trusted) == token.kid \in trusted /\ token.signer = token.kid

TimesAccepted(token, maximum) ==
  /\ token.iat <= now + Skew /\ token.exp > now - Skew
  /\ token.nbf # Never => token.nbf <= now + Skew /\ token.nbf < token.exp
  /\ token.exp > token.iat
  /\ maximum # Unbounded => token.exp - token.iat <= maximum

NormalizeClaims(token, profile) ==
  token.issuer = profile.issuer /\ token.audience \in profile.audiences
  /\ TimesAccepted(token, profile.maximum)

HeaderUnchecked(token, profile) == TRUE
ValidateHeader(token, profile) == token.type \in profile.types

VerifyJWT(token, profile, trusted) ==
  ValidateHeader(token, profile) /\ NormalizeClaims(token, profile) /\ SignatureValid(token, trusted)

\* The keys a slot trusts: the ring's, or those the provider publishes.
TrustedKeys(slot) == IF slot.keys = "ring" THEN AllVerificationKeys ELSE ProviderKeys

SelectorMatches(selector, token) ==
  /\ token.issuer \in selector.issuers /\ token.type \in selector.types
  /\ selector.audiences = {} \/ token.audience \in selector.audiences

\* What a configuration may hold: a selector trusts no more than its
\* verifier does, and no two slots have one selector.
SlotConsistent(slot) ==
  /\ slot.selector.issuers = {slot.profile.issuer} /\ slot.selector.types # {}
  /\ slot.selector.types \subseteq slot.profile.types
  /\ slot.selector.audiences \subseteq slot.profile.audiences
CompositeConsistent ==
  /\ BearerSlots # {} /\ \A s \in BearerSlots : SlotConsistent(s)
  /\ \A s, t \in BearerSlots : s.name = t.name \/ s.selector = t.selector => s = t
ASSUME BearerAssumption == CompositeConsistent

\* A token belongs to exactly one slot, or to none.
SelectSlot(token) == {s \in BearerSlots : SelectorMatches(s.selector, token)}

BearerAccepted(token) ==
  LET matches == SelectSlot(token)
  IN Cardinality(matches) = 1 /\ \A s \in matches : VerifyJWT(token, s.profile, TrustedKeys(s))

SlotOf(token) == CHOOSE s \in SelectSlot(token) : TRUE

LocalEvidence(token) ==
  [at |-> IF token.at = Never THEN token.iat ELSE token.at, expires |-> token.exp,
   methods |-> token.methods, traits |-> {}]
ServiceEvidence(token) ==
  [at |-> token.iat, expires |-> token.exp, methods |-> {"jwt"}, traits |-> {"service"}]

\* A local token's scopes are grants; those of a service token are bounds.
BearerOutcome(token) ==
  IF SlotOf(token).keys = "ring"
  THEN [evidence |-> LocalEvidence(token), bounds |-> NoBounds,
        grants |-> [NoGrants EXCEPT !.scope = token.scopes]]
  ELSE [evidence |-> ServiceEvidence(token), bounds |-> [NoBounds EXCEPT !.scope = token.scopes],
        grants |-> NoGrants]

\* A local token names an account that is active at the token's epoch; a
\* service token names a principal of the provider.
BearerIdentity(token) ==
  SlotOf(token).keys = "ring" =>
    /\ token.subject \in Accounts /\ accounts[token.subject].active
    /\ accounts[token.subject].epoch = token.epoch

VerifyCapability(token, purpose, audience) ==
  /\ token.type = "capability+jwt" /\ SignatureValid(token, AllVerificationKeys)
  /\ token.issuer = LocalIssuer /\ token.audience = audience /\ token.purpose = purpose
  /\ TimesAccepted(token, Unbounded)

\* A logout token names a subject or a session of the provider.
LogoutTokenAccepted(token) ==
  /\ VerifyJWT(token, LogoutProfile, ProviderKeys)
  /\ token.subject # "none" \/ token.sid # "none"
===============================================================================
