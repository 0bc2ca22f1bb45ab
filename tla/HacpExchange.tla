---------------------------- MODULE HacpExchange ----------------------------
(***************************************************************************)
(* A life of HACP documents: EnvelopeBuilder and TokenBuilder              *)
(* (humanist_core/hacp/builders.py) make and sign envelopes and tokens,    *)
(* time passes, keys and documents are revoked and actions are counted;    *)
(* ConformanceRules says at every moment what the documents allow.         *)
(*                                                                         *)
(* There is one builder of each kind at a time.  It may be used again      *)
(* after it has built or signed, and it may be replaced by a new one.  The *)
(* commands of hacp/cli.py work on files, with builders of their own.      *)
(* Members that no evaluator looks at (the version, the statement, the     *)
(* budget's expiry; a token's issued_at, decision, policy digest and       *)
(* constraints other than the path and the number of uses) are left out.   *)
(* The host puts its clock into the policy context, or leaves it out.      *)
(***************************************************************************)
EXTENDS ConformanceRules, FiniteSets

CONSTANTS
    Keys,               \* private keys
    PublicKey,          \* the one whose public half the evaluator is given
    Scopes,             \* the arguments of scope()
    EnvelopeSettings,   \* the other setters of EnvelopeBuilder, with arguments
    TokenSettings,      \* the setters of TokenBuilder, with arguments
    CompactActions,     \* the arguments of proposed_action()
    HttpRequests,       \* the arguments of http_action()
    CliEnvelopes,       \* the options of "envelope create"
    CliTokens,          \* the action files of "token create"
    WireEnvelopes,      \* envelopes that came signed from elsewhere
    WireTokens,         \* and tokens, each with what it was signed for
    OtherActions,       \* actions that no TokenBuilder proposed
    Requests,           \* what a vector may say besides documents and action
    Policies,           \* the policy_context at first
    Lifetime,           \* 3600 seconds
    MaxEnvelopes,       \* bound: envelopes that are built or signed
    MaxTokens,          \* bound: tokens that are signed
    MaxId,              \* bound: ids that are chosen for builders
    MaxRevoked,         \* bound: revocations of a kind
    MaxCount,           \* bound: actions that are counted
    LastCall,           \* bound: the last moment at which a builder is called
    MaxTime             \* bound: the clock

VARIABLES
    envelopeBuilder,
    tokenBuilder,
    nextId,             \* uuid4 and generate_key_id; a caller's own are below 1
    built,              \* the models that EnvelopeBuilder has returned
    envelopes,          \* signed envelopes
    asked,              \* signed tokens, each with what it was signed for
    now,                \* time.time()
    policy              \* policy_context, as the host gives it at this moment

builderVars == <<envelopeBuilder, tokenBuilder, nextId>>
documentVars == <<built, envelopes, asked>>
hostVars == <<now, policy>>
vars == <<builderVars, documentVars, hostVars>>

Number == Int \cup {Absent}

Kinds == {"human", "system", "delegated"}

NoScope ==
    [verb |-> << >>, resourceClass |-> << >>, audience |-> << >>,
     reversibility |-> <<"reversible">>, externality |-> <<"internal">>,
     dataClass |-> << >>, destination |-> Absent, toolName |-> Absent,
     maxQuantity |-> Absent]

NoConstraints == [path |-> Absent, maxUses |-> Absent]

EnvelopeNumbers == {"maxActions", "issuedAt", "expiresAt", "signer", "id", "parent"}

TokenNumbers == {"expiresAt", "id", "signer"}

PolicyMembers ==
    {"clock", "checkpointTimeout", "trustedKeys", "revokedKeys", "revokedTokens",
     "revokedEnvelopes", "actionCount", "humanRequiredVerbs"}

\* A setter that is given anything else raises and changes nothing.
ASSUME SettingsAssumption ==
    /\ \A setting \in EnvelopeSettings :
           \/ setting[1] = "principal"
           \/ setting[1] = "kind" /\ setting[2] \in Kinds
           \/ setting[1] \in EnvelopeNumbers /\ setting[2] \in Int
    /\ \A setting \in TokenSettings :
           \/ setting[1] = "constraints" /\ DOMAIN setting[2] = DOMAIN NoConstraints
           \/ setting[1] \in TokenNumbers /\ setting[2] \in Int

ASSUME CliAssumption == \A options \in CliEnvelopes : options.maxActions \in Int

ASSUME WireAssumption ==
    /\ \A envelope \in WireEnvelopes :
           envelope.expiresAt \in Number /\ envelope.maxActions \in Number
    /\ \A entry \in WireTokens :
           entry.token.id \in Int /\ entry.token.expiresAt \in Int
    /\ \A request \in Requests :
           /\ Has(request.checkpointState) =>
                  /\ request.checkpointState.createdAt \in Number
                  /\ request.checkpointState.timeout \in Number \cup {IllTyped}
           /\ Has(request.checkpoint) => request.checkpoint.expiresAt \in Number
    /\ \A initial \in Policies :
           /\ DOMAIN initial = PolicyMembers
           /\ initial.clock \in Number /\ initial.actionCount \in Int
           /\ initial.checkpointTimeout \in Number
    /\ Lifetime \in Nat

\* A request target is a string, here a sequence of characters, or Absent, and
\* so is the path that a token names.
IsTarget(value) == Has(value) => value \in Seq(STRING)

ASSUME TargetAssumption ==
    /\ \A request \in Requests : IsTarget(request.target)
    /\ \A setting \in TokenSettings :
           setting[1] = "constraints" => IsTarget(setting[2].path)
    /\ \A file \in CliTokens : IsTarget(file.constraints.path)
    /\ \A entry \in WireTokens : IsTarget(entry.token.path)

-----------------------------------------------------------------------------
(* The builders *)

Or(value, default) == IF Has(value) THEN value ELSE default

NewEnvelopeBuilder ==
    [principal |-> Absent, kind |-> "system", scope |-> NoScope,
     maxActions |-> Absent, issuedAt |-> Absent, expiresAt |-> Absent,
     signer |-> Absent, id |-> Absent, parent |-> Absent]

\* An envelope that was given no id gets none.
Mutant_WithDefaults(builder) ==
    LET issuedAt == Or(builder.issuedAt, now)
    IN  [builder EXCEPT !.issuedAt = issuedAt,
                        !.expiresAt = Or(@, issuedAt + Lifetime),
                        !.signer = Or(@, nextId)]

\* What build_unsigned leaves in the builder.
WithDefaults(builder) ==
    LET issuedAt == Or(builder.issuedAt, now)
    IN  [builder EXCEPT !.issuedAt = issuedAt,
                        !.expiresAt = Or(@, issuedAt + Lifetime),
                        !.signer = Or(@, nextId),
                        !.id = Or(@, nextId + 1)]

\* The next id, after a builder has chosen those it lacks.
Following(number, builder) ==
    IF Has(builder.id) /\ Has(builder.signer) THEN nextId ELSE nextId + number

EnvelopeFrom(builder) ==
    [id |-> builder.id, parent |-> builder.parent, kind |-> builder.kind,
     signer |-> builder.signer, issuedAt |-> builder.issuedAt,
     expiresAt |-> builder.expiresAt, scope |-> builder.scope,
     maxActions |-> builder.maxActions, principal |-> builder.principal,
     signature |-> Absent]

Sign(document, key) ==
    [document EXCEPT !.signature = Signature(key, WithoutSignature(document))]

\* What came from elsewhere came signed, an envelope as it was signed and a
\* token for its action and its envelope, by whomever.
Signed(document) ==
    /\ "signature" \in DOMAIN document
    /\ document = Sign(document, document.signature.key)

ASSUME SignedAssumption ==
    /\ \A envelope \in WireEnvelopes : Signed(envelope)
    /\ \A entry \in WireTokens :
           /\ Signed(entry.token)
           /\ entry.token.actionHash = entry.action
           /\ entry.token.envelopeId = entry.envelope.id

NewTokenBuilder ==
    [envelope |-> Absent, action |-> Absent, constraints |-> NoConstraints,
     expiresAt |-> Absent, id |-> Absent, signer |-> Absent]

WithTokenDefaults(builder) ==
    [builder EXCEPT !.expiresAt = Or(@, builder.envelope.expiresAt),
                    !.id = Or(@, nextId),
                    !.signer = Or(@, builder.envelope.signer)]

TokenFrom(builder) ==
    [id |-> builder.id, envelopeId |-> builder.envelope.id,
     principal |-> builder.envelope.principal, actionHash |-> builder.action,
     signer |-> builder.signer, expiresAt |-> builder.expiresAt,
     path |-> builder.constraints.path, maxUses |-> builder.constraints.maxUses,
     signature |-> Absent]

HttpDimensions ==
    {"resourceClass", "audience", "reversibility", "externality", "dataClass"}

\* The verb of an HTTP method, which is here in lower case.
Verb(method) ==
    CASE method \in {"get", "head"} -> "read"
      [] method = "post" -> "create"
      [] method \in {"put", "patch"} -> "update"
      [] OTHER -> method

\* Every dimension is given with the request or granted by the scope.
IsDerivable(request, scope) ==
    \A dimension \in HttpDimensions :
        Has(request[dimension]) \/ scope[dimension] # << >>

\* The action the sidecar derives from a request and the granted scope.
HttpAction(request, scope) ==
    LET Explicit(dimension) == Or(request[dimension], scope[dimension][1])
    IN  [verb |-> Verb(request.method), resource |-> request.path, payload |-> request.body,
         resourceClass |-> Explicit("resourceClass"),
         audience |-> Explicit("audience"),
         reversibility |-> Explicit("reversibility"),
         externality |-> Explicit("externality"),
         dataClass |-> Explicit("dataClass"),
         quantity |-> Absent, destination |-> Absent, toolName |-> Absent]

-----------------------------------------------------------------------------
(* The actions *)

Init ==
    /\ envelopeBuilder = NewEnvelopeBuilder
    /\ tokenBuilder = NewTokenBuilder
    /\ nextId = 1
    /\ built = {} /\ envelopes = WireEnvelopes /\ asked = WireTokens
    /\ policy \in Policies
    /\ now = Or(policy.clock, 0)

\* scope() and every other setter overwrite a member and leave the rest.
SetEnvelope(field, value) ==
    /\ now <= LastCall
    /\ envelopeBuilder' = [envelopeBuilder EXCEPT ![field] = value]
    /\ UNCHANGED <<tokenBuilder, nextId, documentVars, hostVars>>

RenewEnvelopeBuilder ==
    /\ now <= LastCall
    /\ envelopeBuilder # NewEnvelopeBuilder
    /\ envelopeBuilder' = NewEnvelopeBuilder
    /\ UNCHANGED <<tokenBuilder, nextId, documentVars, hostVars>>

CompleteEnvelope ==
    /\ Has(envelopeBuilder.principal)
    /\ now <= LastCall
    /\ envelopeBuilder' = WithDefaults(envelopeBuilder)
    /\ nextId' = Following(2, envelopeBuilder)
    /\ built' = built \cup {EnvelopeFrom(envelopeBuilder')}
    /\ Cardinality(built') <= MaxEnvelopes /\ nextId' <= MaxId + 1
    /\ UNCHANGED <<tokenBuilder, asked, hostVars>>

\* build_unsigned and canonicalize
BuildEnvelope ==
    /\ CompleteEnvelope
    /\ UNCHANGED envelopes

SignEnvelope(key) ==
    /\ CompleteEnvelope
    /\ envelopes' = envelopes \cup {Sign(EnvelopeFrom(envelopeBuilder'), key)}

AttachEnvelope(envelope) ==
    /\ now <= LastCall
    /\ tokenBuilder' = [tokenBuilder EXCEPT !.envelope = envelope]
    /\ UNCHANGED <<envelopeBuilder, nextId, documentVars, hostVars>>

ProposeAction(action) ==
    /\ now <= LastCall
    /\ tokenBuilder' = [tokenBuilder EXCEPT !.action = action]
    /\ UNCHANGED <<envelopeBuilder, nextId, documentVars, hostVars>>

ProposeHttpAction(request) ==
    /\ now <= LastCall
    /\ Has(tokenBuilder.envelope)
    /\ LET scope == tokenBuilder.envelope.scope
       IN  /\ IsDerivable(request, scope)
           /\ tokenBuilder' = [tokenBuilder EXCEPT !.action = HttpAction(request, scope)]
    /\ UNCHANGED <<envelopeBuilder, nextId, documentVars, hostVars>>

SetToken(field, value) ==
    /\ now <= LastCall
    /\ tokenBuilder' = [tokenBuilder EXCEPT ![field] = value]
    /\ UNCHANGED <<envelopeBuilder, nextId, documentVars, hostVars>>

RenewTokenBuilder ==
    /\ now <= LastCall
    /\ tokenBuilder # NewTokenBuilder
    /\ tokenBuilder' = NewTokenBuilder
    /\ UNCHANGED <<envelopeBuilder, nextId, documentVars, hostVars>>

CompleteToken ==
    /\ now <= LastCall
    /\ Has(tokenBuilder.envelope) /\ Has(tokenBuilder.action)
    /\ Has(tokenBuilder.envelope.id)
    /\ tokenBuilder' = WithTokenDefaults(tokenBuilder)
    /\ nextId' = Following(1, tokenBuilder) /\ nextId' <= MaxId + 1
    /\ UNCHANGED <<envelopeBuilder, built, envelopes, hostVars>>

\* build_unsigned and canonicalize
BuildToken ==
    /\ CompleteToken
    /\ UNCHANGED asked

SignToken(key) ==
    /\ CompleteToken
    /\ asked' = asked \cup {[token    |-> Sign(TokenFrom(tokenBuilder'), key),
                             action   |-> tokenBuilder.action,
                             envelope |-> tokenBuilder.envelope]}
    /\ Cardinality(asked') <= MaxTokens

Tokens == {entry.token : entry \in asked}

\* "envelope create": a new builder, which lists no resource classes.
CreateEnvelope(options, key) ==
    LET builder == WithDefaults([NewEnvelopeBuilder EXCEPT
                       !.principal = options.principal, !.kind = options.kind,
                       !.scope = [options.scope EXCEPT !.resourceClass = << >>],
                       !.maxActions = options.maxActions])
    IN  /\ now <= LastCall
        /\ envelopes' = envelopes \cup {Sign(EnvelopeFrom(builder), key)}
        /\ nextId' = nextId + 2 /\ nextId' <= MaxId + 1
        /\ UNCHANGED <<envelopeBuilder, tokenBuilder, built, asked, hostVars>>

\* What "token create" makes of an envelope's file; the parent is not read.
FromFile(envelope) == [envelope EXCEPT !.parent = Absent, !.signature = Absent]

\* It raises where the file lacks the budget, the expiry or the id, or has a
\* scope with other dimensions than the builder's.
IsReadable(envelope) ==
    /\ Has(envelope.maxActions) /\ Has(envelope.expiresAt) /\ Has(envelope.id)
    /\ {dimension \in DOMAIN NoScope : Has(envelope.scope[dimension])} =
           HttpDimensions \cup {"verb"}

CreateToken(envelope, file, key) ==
    LET builder == WithTokenDefaults([NewTokenBuilder EXCEPT
                       !.envelope = FromFile(envelope),
                       !.action = file.action, !.constraints = file.constraints])
    IN  /\ now <= LastCall
        /\ IsReadable(envelope)
        /\ asked' = asked \cup {[token    |-> Sign(TokenFrom(builder), key),
                                 action   |-> builder.action,
                                 envelope |-> builder.envelope]}
        /\ Cardinality(asked') <= MaxTokens
        /\ nextId' = nextId + 1 /\ nextId' <= MaxId + 1
        /\ UNCHANGED <<envelopeBuilder, tokenBuilder, built, envelopes, hostVars>>

\* A host revokes a key, a token or an envelope, counts an action, or waits.
RevokedKinds == {"revokedKeys", "revokedTokens", "revokedEnvelopes"}

Revoke(kind, id) ==
    /\ \A other \in RevokedKinds : Cardinality(policy[other]) < MaxRevoked
    /\ policy' = [policy EXCEPT ![kind] = @ \cup {id}]
    /\ UNCHANGED <<builderVars, documentVars, now>>

RevokeSome ==
    \/ \E envelope \in envelopes :
           \/ Revoke("revokedKeys", envelope.signer)
           \/ Revoke("revokedEnvelopes", envelope.id)
           \/ Has(envelope.parent) /\ Revoke("revokedEnvelopes", envelope.parent)
    \/ \E token \in Tokens : Revoke("revokedTokens", token.id)

CountAction ==
    /\ policy.actionCount < MaxCount
    /\ policy' = [policy EXCEPT !.actionCount = @ + 1]
    /\ UNCHANGED <<builderVars, documentVars, now>>

Tick ==
    /\ now < MaxTime
    /\ now' = now + 1
    /\ policy' = [policy EXCEPT !.clock = IF Has(@) THEN now' ELSE Absent]
    /\ UNCHANGED <<builderVars, documentVars>>

BuilderStep ==
    \/ \E scope \in Scopes : SetEnvelope("scope", scope)
    \/ \E setting \in EnvelopeSettings : SetEnvelope(setting[1], setting[2])
    \/ RenewEnvelopeBuilder
    \/ BuildEnvelope
    \/ \E key \in Keys : SignEnvelope(key)
    \/ \E envelope \in built : AttachEnvelope(envelope)
    \/ \E action \in CompactActions : ProposeAction(action)
    \/ \E request \in HttpRequests : ProposeHttpAction(request)
    \/ \E setting \in TokenSettings : SetToken(setting[1], setting[2])
    \/ RenewTokenBuilder
    \/ BuildToken
    \/ \E key \in Keys : SignToken(key)
    \/ \E options \in CliEnvelopes, key \in Keys : CreateEnvelope(options, key)
    \/ \E envelope \in envelopes, file \in CliTokens, key \in Keys :
           CreateToken(envelope, file, key)

HostStep ==
    \/ RevokeSome
    \/ CountAction
    \/ Tick

Next == BuilderStep \/ HostStep

Spec == Init /\ [][Next]_vars

\* While the policy stays as it is.
BuilderSpec == Init /\ [][BuilderStep]_vars

\* Time passes.
FairSpec == Spec /\ WF_vars(Tick)

-----------------------------------------------------------------------------
(* What the documents allow *)

Actions == OtherActions \cup {entry.action : entry \in asked}

Vector(request, envelope, token, action) ==
    [malformed |-> request.malformed, envelope |-> envelope, token |-> token,
     action |-> action, checkpointState |-> request.checkpointState,
     checkpoint |-> request.checkpoint, omitted |-> request.omitted,
     event |-> request.event, prior |-> request.prior, target |-> request.target]

Vectors ==
    {Vector(request, envelope, token, action) :
         request \in Requests, envelope \in envelopes,
         token \in Tokens \cup {Absent}, action \in Actions}

CoreAllows(vector) ==
    DecisionFor(EvaluateConformance(PublicKey, vector, policy)) = "ALLOW"

Allows(vector) ==
    DecisionFor(EvaluateEnforcementV2(PublicKey, vector, policy)) = "ALLOW"

-----------------------------------------------------------------------------
(* Properties *)

TypeOK ==
    /\ DOMAIN envelopeBuilder = DOMAIN NewEnvelopeBuilder
    /\ \A field \in EnvelopeNumbers : envelopeBuilder[field] \in Number
    /\ envelopeBuilder.kind \in Kinds
    /\ envelopeBuilder.scope \in Scopes \cup {NoScope}
    /\ DOMAIN tokenBuilder = DOMAIN NewTokenBuilder
    /\ \A field \in TokenNumbers : tokenBuilder[field] \in Number
    /\ Has(tokenBuilder.envelope) => tokenBuilder.envelope \in built
    /\ \A envelope \in built :
           envelope.id \in Int /\ envelope.signer \in Int /\ envelope.expiresAt \in Int
    /\ \A envelope \in envelopes :
           envelope.expiresAt \in Number /\ envelope.maxActions \in Number
    /\ \A token \in Tokens : token.id \in Int /\ token.expiresAt \in Int
    /\ nextId \in Nat
    /\ DOMAIN policy = PolicyMembers
    /\ now \in Int /\ policy.clock \in {now, Absent} /\ policy.actionCount \in Int
    /\ policy.checkpointTimeout \in Number

\* Time, revocations and counted actions only take authority away: what the
\* evaluators do not allow now, they never allow later for the same documents,
\* action, checkpoint and provenance (conformance.py 249-441).
DenialIsFinal ==
    [][\A vector \in Vectors : Allows(vector)' => Allows(vector)]_policy

\* What a document becomes when a member is changed and the signature is not.
AlteredEnvelopes ==
    {[envelope EXCEPT !.scope = scope] : envelope \in envelopes, scope \in Scopes}
        \cup {[envelope EXCEPT !.expiresAt = Absent] : envelope \in envelopes}

AlteredTokens ==
    {[token EXCEPT !.actionHash = action] : token \in Tokens, action \in Actions}
        \cup {[token EXCEPT !.envelopeId = envelope.id] :
                  token \in Tokens, envelope \in envelopes}
        \cup {[token EXCEPT !.maxUses = Absent] : token \in Tokens}

PresentedVectors ==
    Vectors
        \cup {[vector EXCEPT !.envelope = envelope] :
                  vector \in Vectors, envelope \in AlteredEnvelopes}
        \cup {[vector EXCEPT !.token = token] :
                  vector \in Vectors, token \in AlteredTokens}

\* Whatever is presented, only what the trusted key signed is allowed: an
\* envelope as it was signed, and, if there is a token, one that was asked for
\* this very action under an envelope of this id (conformance.py 351-358 and
\* 441-461, builders.py 174-177 and 362-365).
AllowedWasSigned ==
    \A vector \in PresentedVectors :
        Allows(vector) =>
            /\ vector.envelope \in envelopes
            /\ vector.envelope.signature.key = PublicKey
            /\ Has(vector.token) =>
                   \E entry \in asked :
                       /\ entry.token = vector.token /\ entry.action = vector.action
                       /\ entry.envelope.id = vector.envelope.id

\* Two targets are the same request if they differ at most in the case of the
\* digits of percent escapes.
IsEscapeDigit(target, i) ==
    \E start \in {i - 1, i - 2} \cap 1 .. Len(target) - 2 :
        SubSeq(target, start, start + 2) \in
            {<<"%", first, second>> : first, second \in HexDigits}

SameTarget(left, right) ==
    /\ Len(left) = Len(right)
    /\ \A i \in DOMAIN left :
           \/ left[i] = right[i]
           \/ /\ Upper(left[i]) = Upper(right[i])
              /\ IsEscapeDigit(left, i) /\ IsEscapeDigit(right, i)

\* Where a token names a path, revision 2 allows what the Core evaluator allows
\* for exactly that request target, and for no other spelling of it than the
\* case of escaped digits (conformance_enforcement_v2.py 26-51 and 92-100).
TargetIsBound ==
    \A vector \in Vectors :
        Has(vector.target) /\ Has(vector.token) =>
            (Has(vector.token.path) =>
                (Allows(vector) <=>
                    CoreAllows(vector) /\ SameTarget(vector.target, vector.token.path)))

\* Where the host gives its clock, what an envelope with an expiry allows ends,
\* whatever else humans, agents and hosts do or leave undone (conformance.py
\* 52-54 and 394-400).
TemporaryAuthorityLapses ==
    <>[](Has(policy.clock) =>
             \A vector \in Vectors : Has(vector.envelope.expiresAt) => ~Allows(vector))

\* "expired authority -> DENY" (CONTRIBUTING.md:211): what an envelope allowed
\* it allows no longer once its expiry is past (conformance.py 51-56).
ExpiredIsDenied ==
    \A vector \in Vectors :
        Has(vector.envelope.expiresAt) /\ now > vector.envelope.expiresAt => ~Allows(vector)
=============================================================================
