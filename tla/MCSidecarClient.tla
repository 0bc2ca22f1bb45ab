--------------------------- MODULE MCSidecarClient ---------------------------
(* A human's envelope and three tokens for it, made before the run begins,   *)
(* and calls that present them.  One token binds a path and has one use, one *)
(* has two uses, and one has no limit.                                       *)
EXTENDS SidecarClient

CONSTANTS OwnKey, Headers

MCScope ==
    [NoScope EXCEPT !.verb = <<"read">>, !.resourceClass = <<"repo">>,
                    !.audience = <<"team">>, !.dataClass = <<"code">>]

Envelope ==
    Sign([id |-> 1, parent |-> 0, kind |-> "human", signer |-> 1, issuedAt |-> 0,
          expiresAt |-> 0, scope |-> MCScope, maxActions |-> 1,
          principal |-> "p", signature |-> Absent], OwnKey)

Escaped(digit) == <<"%", "2", digit>>

Get(path) ==
    [method |-> "get", path |-> path, body |-> Absent, resourceClass |-> Absent,
     audience |-> Absent, reversibility |-> Absent, externality |-> Absent,
     dataClass |-> Absent]

Action == HttpAction(Get(Escaped("f")), MCScope)

Token(id, path, maxUses) ==
    Sign([id |-> id, envelopeId |-> 1, principal |-> "p", actionHash |-> Action,
          signer |-> 1, expiresAt |-> 0, path |-> path, maxUses |-> maxUses,
          signature |-> Absent],
         OwnKey)

MCWireEnvelopes == {Envelope}

Bound == Token(2, Escaped("f"), 1)
Double == Token(3, Absent, 2)
Unbound == Token(4, Absent, Absent)

MCWireTokens ==
    {[token |-> token, action |-> Action, envelope |-> Envelope] :
         token \in {Bound, Double, Unbound}}

Call(token, headers) ==
    [http |-> Get(Escaped("f")), envelope |-> Envelope, token |-> token, headers |-> headers]

\* With a token that has limits or none, with a new dictionary or the caller's
\* own, and two more: with the token without limits, and one of another envelope.
MCCalls ==
    {Call(token, headers) :
         token \in {Bound, Double, Absent}, headers \in {Headers, Absent}}
    \cup {Call(token, Absent) : token \in {Unbound, [Bound EXCEPT !.envelopeId = 2]}}

\* No builder is called: the documents are there.
MCLastCall == -1

MCPolicies ==
    {[clock |-> 0, actionCount |-> 0, revokedKeys |-> {}, revokedTokens |-> {},
      revokedEnvelopes |-> {}, trustedKeys |-> {1}, checkpointTimeout |-> Absent,
      humanRequiredVerbs |-> {}]}
=============================================================================
