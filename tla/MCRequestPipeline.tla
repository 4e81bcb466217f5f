--------------------------- MODULE MCRequestPipeline ---------------------------
(***************************************************************************)
(* One account and one service of a provider, an API key and its          *)
(* successor, and routes of every kind of policy and guard.  Expect is     *)
(* written from what the routes are meant to demand, not from the         *)
(* compiler: who, a set of alternative sets of credential slots.           *)
(***************************************************************************)
EXTENDS RequestPipeline

CONSTANTS a, svc, k1, k2, s1

MCMechanisms == <<"session", "bearer", "api_key">>
MCDefaults == {"session", "bearer"}
MCSessionCapable == {"session"}

\* Account a is active; the provider knows it as "pa".
MCMappingOf == s1 :> [account |-> a, subject |-> "pa", sid |-> "p1"]
MCBindingOf == [p1 |-> "browser"]

MCKeyOwner == k1 :> a @@ k2 :> a
MCKeyExpiry == k1 :> 2 @@ k2 :> Never
MCBounds == [scope |-> {"read"}, role |-> {"member"}, tenant |-> {"t1", "t2"}]
MCKeyBounds == k1 :> MCBounds @@ k2 :> NoBounds

MCAuthorityOf ==
  a :> <<[scope |-> {"read", "write"}, role |-> {"member", "admin"}, tenant |-> {"t1"},
          tenantRole |-> {<<"t1", "admin">>, <<"t1", "member">>}],
         [NoGrants EXCEPT !.scope = {"read"}], Withheld>>
  @@ svc :> <<[NoGrants EXCEPT !.scope = {"read", "write"}]>>

-------------------------------------------------------------------------------
MCProviderKeys == {101}
MCLocalSlot ==
  [name |-> "local", selector |-> [issuers |-> {"local"}, audiences |-> {"api"}, types |-> {"at+jwt"}],
   profile |-> [issuer |-> "local", audiences |-> {"api"}, types |-> {"at+jwt"}, maximum |-> Unbounded], keys |-> "ring"]
MCServiceSlot ==
  [name |-> "service", selector |-> [issuers |-> {"idp"}, audiences |-> {}, types |-> {"at+jwt"}],
   profile |-> [issuer |-> "idp", audiences |-> {"api"}, types |-> {"at+jwt"}, maximum |-> 3], keys |-> "jwks"]
MCBearerSlots == {MCLocalSlot, MCServiceSlot}
MCLogoutProfile == [issuer |-> "idp", audiences |-> {"api"}, types |-> {"logout+jwt"}, maximum |-> 3]

MCToken ==
  [type |-> "at+jwt", kid |-> 101, signer |-> 101, issuer |-> "idp", audience |-> "api", subject |-> svc, epoch |-> 0,
   iat |-> 0, exp |-> 2, nbf |-> Never, scopes |-> {"read"}, methods |-> {}, at |-> Never, purpose |-> "none", sid |-> "none"]
MCServiceToken == MCToken
MCElsewhere    == [MCToken EXCEPT !.audience = "other"]
MCUnsigned     == [MCToken EXCEPT !.issuer = "local", !.subject = a, !.kid = 1]
MCLogoutToken  == [MCToken EXCEPT !.type = "logout+jwt", !.subject = "pa", !.sid = "p1", !.scopes = {}]
MCForeignTokens == {MCServiceToken, MCElsewhere, MCUnsigned, MCLogoutToken}
MCGenuine == {MCServiceToken}

MCPassword == [methods |-> {"password"}, at |-> 0]
MCTwoFactors == [methods |-> {"password", "totp"}, at |-> 1]
MCLoginEvidence == {MCTwoFactors}
MCFirstTokens ==
  {[type |-> "at+jwt", kid |-> 1, signer |-> 1, issuer |-> "local", audience |-> "api", subject |-> a, epoch |-> 0,
    iat |-> 0, exp |-> 1, nbf |-> Never, scopes |-> {"read"}, methods |-> {"password"}, at |-> 0, purpose |-> "none",
    sid |-> "none"]}

MCConnectTokens ==
  {[subject |-> a, bounds |-> [NoBounds EXCEPT !.scope = {"read"}],
    evidence |-> [at |-> 0, expires |-> 2, methods |-> {"websocket-connect-token"}, traits |-> {}]]}

-------------------------------------------------------------------------------
MCUnset(policy) == [policy |-> policy, exclude |-> "unset"]
MCDeclared(layers, guard) ==
  [layers |-> layers, reuses |-> {}, matchesExclusion |-> FALSE, generated |-> "none", csrf |-> FALSE, websocket |-> FALSE,
   guard |-> guard, tenant |-> "t1"]
MCNone == [kind |-> "none"]
MCPositive(kind, of, count, optional) == [kind |-> kind, of |-> of, count |-> count, optional |-> optional]
MCKnown == [kind |-> "authenticated"]
MCAssured(methods, age) == [kind |-> "assurance", need |-> [methods |-> methods, traits |-> {}, maxAge |-> age]]
MCGrant(of, value) == [kind |-> "grant", of |-> of, value |-> value]
MCTenantRole == [kind |-> "tenant_role", roles |-> {"admin"}]
MCEither == [kind |-> "composite", operator |-> "any_of", children |-> <<MCGrant("scope", "write"), [kind |-> "tenant"]>>, count |-> 1]

MCOptional == MCPositive("any_of", {"bearer"}, 1, TRUE)
MCRoute == [
  default  |-> MCDeclared(<<MCUnset(NoPolicy), MCUnset(NoPolicy)>>, MCAssured({"password"}, Unbounded)),
  fresh    |-> MCDeclared(<<MCUnset(Public), MCUnset(Required)>>, MCAssured({"password"}, 0)),
  optional |-> MCDeclared(<<MCUnset(NoPolicy), MCUnset(MCOptional)>>, MCNone),
  both     |-> MCDeclared(<<MCUnset(NoPolicy), MCUnset(MCPositive("all_of", {"bearer", "api_key"}, 1, FALSE))>>, MCGrant("scope", "write")),
  two      |-> MCDeclared(<<MCUnset(MCPositive("at_least", {"session", "bearer", "api_key"}, 2, FALSE)), MCUnset(NoPolicy)>>, MCEither),
  key      |-> [MCDeclared(<<MCUnset(Public), MCUnset(MCPositive("any_of", {"api_key"}, 1, FALSE)), MCUnset(Public)>>, MCTenantRole)
                  EXCEPT !.reuses = {1}],
  excluded |-> MCDeclared(<<MCUnset(Required), [policy |-> NoPolicy, exclude |-> "yes"]>>, MCNone),
  contrary |-> MCDeclared(<<MCUnset(NoPolicy), [policy |-> Public, exclude |-> "yes"]>>, MCNone),
  schema   |-> [MCDeclared(<<MCUnset(Required), MCUnset(NoPolicy), MCUnset(NoPolicy)>>, MCKnown) EXCEPT !.generated = "schema"],
  socket   |-> [MCDeclared(<<MCUnset(NoPolicy), MCUnset(NoPolicy)>>, MCKnown) EXCEPT !.websocket = TRUE],
  feed     |-> [MCDeclared(<<MCUnset(Public), MCUnset(NoPolicy)>>, MCNone) EXCEPT !.websocket = TRUE]]

MCDemand(who, anonymous) == [who |-> who, anonymous |-> anonymous, open |-> FALSE]
MCOpen == [who |-> {}, anonymous |-> TRUE, open |-> TRUE]
MCExpect == [
  default  |-> MCDemand({{"session"}, {"bearer"}}, FALSE),
  fresh    |-> MCDemand({{"session"}, {"bearer"}}, FALSE),
  optional |-> MCDemand({{"bearer"}}, TRUE),
  both     |-> MCDemand({{"bearer", "api_key"}}, FALSE),
  two      |-> MCDemand({{"session", "bearer"}, {"session", "api_key"}, {"bearer", "api_key"}}, FALSE),
  key      |-> MCDemand({{"api_key"}}, FALSE),
  excluded |-> MCOpen,
  schema   |-> MCOpen,
  feed     |-> MCOpen,
  socket   |-> MCDemand({{"session"}, {"bearer"}}, FALSE)]
===============================================================================
