--------------------------- MODULE MCHacpExchange ---------------------------
(* Small instances of HacpExchange: one human's key, another one, and two  *)
(* envelopes of one wire id, of which each key signed one.                 *)
EXTENDS HacpExchange

CONSTANTS OwnKey, OtherKey

MCScopes ==
    {[NoScope EXCEPT !.verb = <<"read", "create">>, !.resourceClass = <<"repo">>,
                     !.audience = <<"team">>, !.dataClass = <<"code">>]}

MCEnvelopeSettings ==
    {<<"principal", "p">>}

Escaped(digit) == <<"%", "2", digit>>

MCTokenSettings == {<<"constraints", [path |-> Escaped("f"), maxUses |-> 1]>>}

MCCompactActions ==
    {[verb |-> "read", resource |-> "r", payload |-> Absent,
      resourceClass |-> "repo", audience |-> "team", dataClass |-> "code",
      reversibility |-> Absent, externality |-> Absent, quantity |-> Absent,
      destination |-> Absent, toolName |-> Absent]}

MCHttpRequests ==
    {[method |-> "post", path |-> "r", body |-> Absent, resourceClass |-> Absent,
      audience |-> Absent, reversibility |-> Absent, externality |-> Absent,
      dataClass |-> Absent]}

MCCliEnvelopes ==
    {[principal |-> "p", kind |-> "system", maxActions |-> 1, scope |-> scope] :
         scope \in MCScopes}

MCCliTokens ==
    {[action |-> action, constraints |-> NoConstraints] : action \in MCCompactActions}

WireScope ==
    [verb |-> <<"send">>, resourceClass |-> Absent, audience |-> Absent,
     reversibility |-> Absent, externality |-> Absent, dataClass |-> Absent,
     destination |-> <<"here">>, toolName |-> << >>, maxQuantity |-> 1]

MCWireEnvelopes ==
    {Sign([id |-> 0, parent |-> 0, kind |-> "human", signer |-> 0,
           issuedAt |-> 0, expiresAt |-> 1, scope |-> WireScope,
           maxActions |-> 1, principal |-> "q", signature |-> Absent], key) :
         key \in {OwnKey, OtherKey}}

\* What the own key's envelope, under that scope, allows.
MCOtherActions ==
    {[verb |-> "send", resource |-> "r", payload |-> Absent,
      resourceClass |-> Absent, audience |-> Absent, dataClass |-> Absent,
      reversibility |-> Absent, externality |-> Absent, quantity |-> 1,
      destination |-> "here", toolName |-> Absent]}

\* Two tokens for it, one of which binds a path; the one outlives the envelope.
MCWireTokens ==
    {[token    |-> Sign([id |-> number, envelopeId |-> 0, principal |-> "q",
                         actionHash |-> action, signer |-> 0, expiresAt |-> number,
                         path |-> path, maxUses |-> Absent, signature |-> Absent],
                        OwnKey),
      action   |-> action,
      envelope |-> envelope] :
         <<number, path>> \in {<<1, Escaped("f")>>, <<2, Absent>>}, action \in MCOtherActions,
         envelope \in {envelope \in MCWireEnvelopes : envelope.signature.key = OwnKey}}

Point(state) == [state |-> state, expiresAt |-> 1, resolver |-> "human"]

FirstEvent ==
    Sign([payload |-> "e", payloadHash |-> "e", previous |-> Genesis,
          signature |-> Absent], OwnKey)

\* Requests whose checkpoint is awaited, with a timeout of their own, one of no
\* use or the host's, and one whose checkpoint is resolved.
MCRequests ==
    {[malformed |-> FALSE, checkpointState |-> [createdAt |-> 0, timeout |-> timeout],
      checkpoint |-> Absent, omitted |-> FALSE, event |-> Absent, prior |-> Absent,
      target |-> Escaped("F")] : timeout \in {1, IllTyped, Absent}}
    \cup
    {[malformed |-> FALSE, checkpointState |-> Absent,
      checkpoint |-> Point("RESOLVED_ALLOW"), omitted |-> FALSE,
      event |-> FirstEvent, prior |-> Absent, target |-> <<"%", "%", "2", "f">>]}

ResolvedRequests == {request \in MCRequests : Has(request.checkpoint)}

MCPolicies ==
    {[clock |-> 0, actionCount |-> 0, revokedKeys |-> {}, revokedTokens |-> {},
      revokedEnvelopes |-> {}, trustedKeys |-> {0, 1}, checkpointTimeout |-> 0,
      humanRequiredVerbs |-> {"read"}]}

\* A policy_context without current_time and clock.
ClocklessPolicies == {[initial EXCEPT !.clock = Absent] : initial \in MCPolicies}

BothPolicies == MCPolicies \cup ClocklessPolicies

\* No builder is called: the documents are there.
MCLastCall == -1
=============================================================================
