-------------------------- MODULE ConformanceRules --------------------------
(***************************************************************************)
(* The conformance evaluators, as functions of the wire documents:         *)
(* evaluate_conformance_vector (humanist_core/hacp/conformance.py) and     *)
(* evaluate_enforcement_v2_vector (hacp/conformance_enforcement_v2.py).    *)
(*                                                                         *)
(*   envelope [id, parent, kind, signer, issuedAt, expiresAt, scope,       *)
(*             maxActions, signature]                                      *)
(*   token    [id, envelopeId, actionHash, signer, expiresAt, path,        *)
(*             maxUses, signature]                                         *)
(*   vector   [malformed, envelope, token, action, checkpointState,        *)
(*             checkpoint, omitted, event, prior, target]                  *)
(*   context  [clock, checkpointTimeout, trustedKeys, revokedKeys,         *)
(*             revokedTokens, revokedEnvelopes, actionCount,               *)
(*             humanRequiredVerbs]                                         *)
(*                                                                         *)
(* A member that a wire object lacks, or that has not the type the code    *)
(* asks for, is Absent; where the code tells the two apart, the latter is  *)
(* IllTyped.  A digest is what was digested, and a signature is the key    *)
(* with what was signed.  A decision follows from its reason.              *)
(***************************************************************************)
EXTENDS Integers, Sequences

CONSTANTS
    Absent,
    IllTyped,
    Genesis,            \* GENESIS_HASH, which starts a chain of events
    HmacKeys            \* signer key ids that contain "hmac"

Reasons ==
    {"INVALID_ACTION", "CHECKPOINT_TIMEOUT", "CHECKPOINT_REQUIRED",
     "CHECKPOINT_DENIED", "HUMAN_RESOLUTION_REQUIRED", "INVALID_CHECKPOINT_STATE",
     "KEY_REVOKED", "SIGNATURE_FAILURE", "TOKEN_REVOKED", "TOKEN_EXPIRED",
     "TOKEN_ENVELOPE_MISMATCH", "HASH_MISMATCH", "TRACEABILITY_MISSING",
     "TRACEABILITY_FAILURE", "ENVELOPE_EXPIRED", "ENVELOPE_REVOKED",
     "BUDGET_EXHAUSTED", "HUMAN_REQUIRED", "SCOPE_EXCEEDED", "BOUNDARY_CROSSING",
     "UNKNOWN_ATTRIBUTE"}

ASSUME AbsentAssumption ==
    /\ Absent \notin Reasons \cup Int
    /\ IllTyped \notin Int \cup {Absent}

Has(value) == value # Absent

Contains(values, candidate) == \E i \in DOMAIN values : values[i] = candidate

-----------------------------------------------------------------------------
(* Signatures *)

WithoutSignature(document) == [document EXCEPT !.signature = Absent]

Signature(key, contents) == [key |-> key, contents |-> contents]

\* A signature is one, whoever made it and over whatever.
Mutant_AnySignature(publicKey, contents, signature) == Has(signature)

VerifySignature(publicKey, contents, signature) ==
    signature = Signature(publicKey, contents)

\* The time at which the envelope was issued, whatever the context says.
Mutant_IssuedAt(context, envelope) == envelope.issuedAt

Clock(context, envelope) ==
    IF Has(context.clock) THEN context.clock
    ELSE IF Has(envelope.issuedAt) THEN envelope.issuedAt ELSE 0

-----------------------------------------------------------------------------
(* The gates, in order.  Each gives the reason of its first check that     *)
(* fails, or otherwise what the gates after it say.                        *)

CheckpointGate(vector, context, now, otherwise) ==
    LET state == vector.checkpointState
        point == vector.checkpoint
        timeout == IF Has(state.timeout) THEN state.timeout ELSE context.checkpointTimeout
        In(name) == Has(point) /\ point.state = name
    IN  IF \/ /\ Has(state) /\ Has(state.createdAt)
              /\ timeout \notin {Absent, IllTyped}
              /\ now > state.createdAt + timeout
           \/ In("OPEN") /\ Has(point.expiresAt) /\ now > point.expiresAt
        THEN "CHECKPOINT_TIMEOUT"
        ELSE IF In("OPEN") THEN "CHECKPOINT_REQUIRED"
        ELSE IF In("RESOLVED_DENY") THEN "CHECKPOINT_DENIED"
        ELSE IF In("RESOLVED_ALLOW") /\ point.resolver # "human"
             THEN "HUMAN_RESOLUTION_REQUIRED"
        ELSE IF Has(point) /\ point.state \notin {"RESOLVED_ALLOW", "", Absent}
             THEN "INVALID_CHECKPOINT_STATE"
        ELSE otherwise

\* Keys, the token's life and what it is bound to.
TokenGate(vector, context, now, otherwise) ==
    LET envelope == vector.envelope
        token    == vector.token
        SomeSigner(keys) ==
            envelope.signer \in keys \/ (Has(token) /\ token.signer \in keys)
        Trusted(key) == key \in context.trustedKeys
    IN  IF SomeSigner(context.revokedKeys) THEN "KEY_REVOKED"
        ELSE IF \/ /\ Has(context.trustedKeys)
                   /\ ~Trusted(envelope.signer) \/ (Has(token) /\ ~Trusted(token.signer))
                \/ SomeSigner(HmacKeys)
             THEN "SIGNATURE_FAILURE"
        ELSE IF ~Has(token) THEN otherwise
        ELSE IF token.id \in context.revokedTokens THEN "TOKEN_REVOKED"
        ELSE IF Has(token.expiresAt) /\ now > token.expiresAt THEN "TOKEN_EXPIRED"
        ELSE IF token.envelopeId # envelope.id THEN "TOKEN_ENVELOPE_MISMATCH"
        ELSE IF token.actionHash # vector.action THEN "HASH_MISMATCH"
        ELSE otherwise

VerifyProvenance(publicKey, event, prior) ==
    /\ Has(event.payload)
    /\ event.payloadHash = event.payload
    /\ event.previous = IF Has(prior) THEN prior ELSE Genesis
    /\ VerifySignature(publicKey, WithoutSignature(event), event.signature)

TraceGate(publicKey, vector, otherwise) ==
    IF vector.omitted THEN "TRACEABILITY_MISSING"
    ELSE IF Has(vector.event) /\ ~VerifyProvenance(publicKey, vector.event, vector.prior)
         THEN "TRACEABILITY_FAILURE"
    ELSE otherwise

EnvelopeGate(vector, context, now, otherwise) ==
    LET envelope == vector.envelope
        revoked  == context.revokedEnvelopes
    IN  IF Has(envelope.expiresAt) /\ now > envelope.expiresAt THEN "ENVELOPE_EXPIRED"
        ELSE IF \/ envelope.id \in revoked
                \/ Has(envelope.parent) /\ envelope.parent \in revoked
             THEN "ENVELOPE_REVOKED"
        ELSE otherwise

\* The dimensions that count where the scope has them, even if it lists
\* nothing, and those that count only if it lists something.
Dimensions == <<"audience", "reversibility", "externality", "dataClass", "verb",
                "resourceClass">>
OptionalDimensions == <<"destination", "toolName">>

Covered(action, scope, dimension) ==
    Has(scope[dimension]) => Contains(scope[dimension], action[dimension])

CoveredIfListed(action, scope, dimension) ==
    scope[dimension] # << >> => Covered(action, scope, dimension)

\* The reason for the first of a list of dimensions that is not covered.
Uncovered(action, dimensions, covered) ==
    LET first == CHOOSE i \in DOMAIN dimensions :
                     /\ dimensions[i] \notin covered
                     /\ \A j \in 1 .. i - 1 : dimensions[j] \in covered
    IN  IF Has(action[dimensions[first]]) THEN "BOUNDARY_CROSSING"
        ELSE "UNKNOWN_ATTRIBUTE"

ScopeReason(action, scope) ==
    LET listed   == {Dimensions[i] : i \in DOMAIN Dimensions}
        optional == {OptionalDimensions[i] : i \in DOMAIN OptionalDimensions}
        covered  == {dimension \in listed : Covered(action, scope, dimension)}
        met == {dimension \in optional : CoveredIfListed(action, scope, dimension)}
    IN  IF ~Has(scope) THEN "SCOPE_EXCEEDED"
        ELSE IF covered # listed THEN Uncovered(action, Dimensions, covered)
        ELSE IF /\ Has(action.quantity) /\ Has(scope.maxQuantity)
                /\ action.quantity > scope.maxQuantity
             THEN "SCOPE_EXCEEDED"
        ELSE IF met # optional THEN Uncovered(action, OptionalDimensions, met)
        ELSE Absent

\* The budget ends with the action that uses it up, and begins anew after it.
Mutant_Exhausted(vector, context) ==
    /\ Has(vector.envelope.maxActions)
    /\ context.actionCount = vector.envelope.maxActions

Exhausted(vector, context) ==
    /\ Has(vector.envelope.maxActions)
    /\ context.actionCount >= vector.envelope.maxActions

AuthorityGate(vector, context, otherwise) ==
    LET envelope == vector.envelope
        scopeReason == ScopeReason(vector.action, envelope.scope)
    IN  IF Exhausted(vector, context) THEN "BUDGET_EXHAUSTED"
        ELSE IF /\ vector.action.verb \in context.humanRequiredVerbs
                /\ envelope.kind = "system" /\ ~Has(envelope.parent)
             THEN "HUMAN_REQUIRED"
        ELSE IF Has(scopeReason) THEN scopeReason
        ELSE otherwise

SignatureGate(publicKey, vector) ==
    LET Fails(document) ==
            ~VerifySignature(publicKey, WithoutSignature(document), document.signature)
    IN  IF Fails(vector.envelope) \/ (Has(vector.token) /\ Fails(vector.token))
        THEN "SIGNATURE_FAILURE"
        ELSE Absent

\* The reason of evaluate_conformance_vector, or Absent.
EvaluateConformance(publicKey, vector, context) ==
    LET now == Clock(context, vector.envelope)
    IN  IF vector.malformed THEN "INVALID_ACTION"
        ELSE CheckpointGate(vector, context, now,
                 TokenGate(vector, context, now,
                     TraceGate(publicKey, vector,
                         EnvelopeGate(vector, context, now,
                             AuthorityGate(vector, context,
                                 SignatureGate(publicKey, vector))))))

DecisionFor(reason) ==
    IF ~Has(reason) THEN "ALLOW"
    ELSE IF reason \in {"CHECKPOINT_REQUIRED", "HUMAN_REQUIRED"} THEN "CHECKPOINT"
    ELSE "DENY"

-----------------------------------------------------------------------------
(* Revision 2: the request target *)

HexDigits == {"0", "1", "2", "3", "4", "5", "6", "7", "8", "9",
              "a", "b", "c", "d", "e", "f", "A", "B", "C", "D", "E", "F"}

Upper(digit) ==
    CASE digit = "a" -> "A" [] digit = "b" -> "B" [] digit = "c" -> "C"
      [] digit = "d" -> "D" [] digit = "e" -> "E" [] digit = "f" -> "F"
      [] OTHER -> digit

\* A triplet must end before the last character of the target.
Mutant_Triplet(target, i) ==
    /\ target[i] = "%" /\ i + 2 < Len(target)
    /\ target[i + 1] \in HexDigits /\ target[i + 2] \in HexDigits

Triplet(target, i) ==
    /\ target[i] = "%" /\ i + 2 <= Len(target)
    /\ target[i + 1] \in HexDigits /\ target[i + 2] \in HexDigits

\* What the loop appends to the result from an index on.
NormalizeRequestTarget(target) ==
    LET from[i \in 1 .. Len(target) + 3] ==
            IF i > Len(target) THEN << >>
            ELSE IF Triplet(target, i)
                 THEN <<"%", Upper(target[i + 1]), Upper(target[i + 2])>> \o from[i + 3]
                 ELSE <<target[i]>> \o from[i + 1]
    IN  from[1]

\* The token's path binds the request only where the Core evaluator allows.
EvaluateEnforcementV2(publicKey, vector, context) ==
    LET reason == EvaluateConformance(publicKey, vector, context)
    IN  IF Has(reason) THEN reason
        ELSE IF /\ Has(vector.target) /\ Has(vector.token) /\ Has(vector.token.path)
                /\ NormalizeRequestTarget(vector.target) #
                       NormalizeRequestTarget(vector.token.path)
             THEN "SCOPE_EXCEEDED"
        ELSE Absent
=============================================================================
