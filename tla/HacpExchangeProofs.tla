------------------------- MODULE HacpExchangeProofs -------------------------
(***************************************************************************)
(* The theorems of the builders and the evaluators, for every set of       *)
(* documents, settings, requests and policies: what the evaluators deny,   *)
(* they deny for good; what they allow was signed for just that; and a     *)
(* token that binds a path is for the requests of that path, which goes    *)
(* through the loop of normalize_request_target.                           *)
(***************************************************************************)
EXTENDS HacpExchange, WellFoundedInduction, SequenceTheorems, TLAPS

\* Only the absence of a reason allows.
LEMMA AllowsWithoutReason ==
    ASSUME NEW reason
    PROVE  DecisionFor(reason) = "ALLOW" <=> ~Has(reason)
BY DEF DecisionFor

IsNotBefore(laterTime, earlierTime) ==
    \/ laterTime = earlierTime
    \/ laterTime \in Int /\ earlierTime \in Int /\ laterTime >= earlierTime

\* One policy context is as late as another: more time has passed if they have
\* a clock, more is revoked, more actions are counted, and the host's choices
\* are the same.
IsLater(later, earlier) ==
    /\ Has(later.clock) <=> Has(earlier.clock)
    /\ Has(later.clock) => later.clock \in Int /\ earlier.clock \in Int
    /\ Has(later.clock) => later.clock >= earlier.clock
    /\ later.actionCount \in Int /\ earlier.actionCount \in Int
    /\ later.actionCount >= earlier.actionCount
    /\ earlier.revokedKeys \subseteq later.revokedKeys
    /\ earlier.revokedTokens \subseteq later.revokedTokens
    /\ earlier.revokedEnvelopes \subseteq later.revokedEnvelopes
    /\ later.trustedKeys = earlier.trustedKeys
    /\ later.humanRequiredVerbs = earlier.humanRequiredVerbs
    /\ later.checkpointTimeout = earlier.checkpointTimeout
    /\ earlier.checkpointTimeout \in Number

\* The times and limits in the documents are numbers, where they are there.
IsNumeric(vector) ==
    /\ vector.envelope.expiresAt \in Number /\ vector.envelope.maxActions \in Number
    /\ Has(vector.token) => vector.token.expiresAt \in Number
    /\ Has(vector.checkpointState) =>
           /\ vector.checkpointState.createdAt \in Number
           /\ vector.checkpointState.timeout \in Number \cup {IllTyped}
    /\ Has(vector.checkpoint) => vector.checkpoint.expiresAt \in Number

\* What a gate lets pass later it let pass before, if the gates after it did.
LEMMA CheckpointGateTightens ==
    ASSUME NEW vector, NEW later, NEW earlier,
           IsLater(later, earlier), IsNumeric(vector), NEW after, NEW before,
           ~Has(after) => ~Has(before),
           NEW laterTime, NEW earlierTime, IsNotBefore(laterTime, earlierTime),
           ~Has(CheckpointGate(vector, later, laterTime, after))
    PROVE  ~Has(CheckpointGate(vector, earlier, earlierTime, before))
<1> DEFINE state == vector.checkpointState
           point == vector.checkpoint
           timeout == IF Has(state.timeout) THEN state.timeout ELSE later.checkpointTimeout
           Overdue(time) ==
               \/ /\ Has(state) /\ Has(state.createdAt)
                  /\ timeout \notin {Absent, IllTyped}
                  /\ time > state.createdAt + timeout
               \/ /\ Has(point) /\ point.state = "OPEN" /\ Has(point.expiresAt)
                  /\ time > point.expiresAt
<1>1. Overdue(earlierTime) => Overdue(laterTime)
  BY DEF Has, IsLater, IsNumeric, IsNotBefore, Number
<1>2. ~Overdue(laterTime) /\ ~Has(after)
  BY AbsentAssumption DEF Reasons, CheckpointGate, Has
<1>3. ~Overdue(earlierTime) /\ ~Has(before)
  BY <1>1, <1>2
<1>4. QED
  BY <1>3, AbsentAssumption DEF Reasons, CheckpointGate, Has, IsLater

LEMMA TokenGateTightens ==
    ASSUME NEW vector, NEW later, NEW earlier,
           IsLater(later, earlier), IsNumeric(vector), NEW after, NEW before,
           ~Has(after) => ~Has(before),
           NEW laterTime, NEW earlierTime, IsNotBefore(laterTime, earlierTime),
           ~Has(TokenGate(vector, later, laterTime, after))
    PROVE  ~Has(TokenGate(vector, earlier, earlierTime, before))
BY AbsentAssumption DEF Reasons, TokenGate, Has, IsLater, IsNumeric, IsNotBefore, Number

LEMMA TraceGateTightens ==
    ASSUME NEW vector, NEW after, NEW before,
           ~Has(after) => ~Has(before),
           ~Has(TraceGate(PublicKey, vector, after))
    PROVE  ~Has(TraceGate(PublicKey, vector, before))
BY AbsentAssumption DEF Reasons, TraceGate, Has

LEMMA EnvelopeGateTightens ==
    ASSUME NEW vector, NEW later, NEW earlier,
           IsLater(later, earlier), IsNumeric(vector), NEW after, NEW before,
           ~Has(after) => ~Has(before),
           NEW laterTime, NEW earlierTime, IsNotBefore(laterTime, earlierTime),
           ~Has(EnvelopeGate(vector, later, laterTime, after))
    PROVE  ~Has(EnvelopeGate(vector, earlier, earlierTime, before))
BY AbsentAssumption DEF Reasons, EnvelopeGate, Has, IsLater, IsNumeric, IsNotBefore,
                            Number

LEMMA AuthorityGateTightens ==
    ASSUME NEW vector, NEW later, NEW earlier,
           IsLater(later, earlier), IsNumeric(vector), NEW after, NEW before,
           ~Has(after) => ~Has(before),
           ~Has(AuthorityGate(vector, later, after))
    PROVE  ~Has(AuthorityGate(vector, earlier, before))
BY AbsentAssumption DEF Reasons, AuthorityGate, Exhausted, Has, IsLater, IsNumeric, Number

LEMMA CoreTightens ==
    ASSUME NEW vector, NEW later, NEW earlier,
           IsLater(later, earlier), IsNumeric(vector),
           ~Has(EvaluateConformance(PublicKey, vector, later))
    PROVE  ~Has(EvaluateConformance(PublicKey, vector, earlier))
<1> DEFINE Time(context) == Clock(context, vector.envelope)
           Signing == SignatureGate(PublicKey, vector)
           Authority(context) == AuthorityGate(vector, context, Signing)
           Envelope(context) ==
               EnvelopeGate(vector, context, Time(context), Authority(context))
           Trace(context) == TraceGate(PublicKey, vector, Envelope(context))
           Token(context) == TokenGate(vector, context, Time(context), Trace(context))
           Checkpoint(context) ==
               CheckpointGate(vector, context, Time(context), Token(context))
<1>1. IsNotBefore(Time(later), Time(earlier))
  BY DEF Clock, IsLater, IsNotBefore
<1>2. /\ EvaluateConformance(PublicKey, vector, later) =
             IF vector.malformed THEN "INVALID_ACTION" ELSE Checkpoint(later)
      /\ EvaluateConformance(PublicKey, vector, earlier) =
             IF vector.malformed THEN "INVALID_ACTION" ELSE Checkpoint(earlier)
  BY DEF EvaluateConformance
<1> HIDE DEF Time
<1>3. ~Has(Authority(later)) => ~Has(Authority(earlier))
  BY AuthorityGateTightens
<1>4. ~Has(Envelope(later)) => ~Has(Envelope(earlier))
  <2> HIDE DEF Authority
  <2>1. QED BY <1>1, <1>3, EnvelopeGateTightens
<1>5. ~Has(Trace(later)) => ~Has(Trace(earlier))
  <2> HIDE DEF Envelope
  <2>1. QED BY <1>4, TraceGateTightens
<1>6. ~Has(Token(later)) => ~Has(Token(earlier))
  <2> HIDE DEF Trace
  <2>1. QED BY <1>1, <1>5, TokenGateTightens
<1>7. ~Has(Checkpoint(later)) => ~Has(Checkpoint(earlier))
  <2> HIDE DEF Token
  <2>1. QED BY <1>1, <1>6, CheckpointGateTightens
<1> HIDE DEF Checkpoint
<1>8. QED BY <1>2, <1>7, AbsentAssumption DEF Reasons, Has

\* Neither does revision 2 allow later what it did not before.
LEMMA EnforcementTightens ==
    ASSUME NEW vector, NEW later, NEW earlier,
           IsLater(later, earlier), IsNumeric(vector),
           ~Has(EvaluateEnforcementV2(PublicKey, vector, later))
    PROVE  ~Has(EvaluateEnforcementV2(PublicKey, vector, earlier))
BY CoreTightens, AbsentAssumption DEF Reasons, EvaluateEnforcementV2, Has

-----------------------------------------------------------------------------
(* Typing *)

\* The parts of TypeOK that only the builders, and only the host, disturb.
BuildersOK ==
    /\ DOMAIN envelopeBuilder = DOMAIN NewEnvelopeBuilder
    /\ \A field \in EnvelopeNumbers : envelopeBuilder[field] \in Number
    /\ envelopeBuilder.kind \in Kinds
    /\ envelopeBuilder.scope \in Scopes \cup {NoScope}
    /\ DOMAIN tokenBuilder = DOMAIN NewTokenBuilder
    /\ \A field \in TokenNumbers : tokenBuilder[field] \in Number
    /\ nextId \in Nat

DocumentsOK ==
    /\ Has(tokenBuilder.envelope) => tokenBuilder.envelope \in built
    /\ \A envelope \in built :
           envelope.id \in Int /\ envelope.signer \in Int /\ envelope.expiresAt \in Int
    /\ \A envelope \in envelopes :
           envelope.expiresAt \in Number /\ envelope.maxActions \in Number
    /\ \A token \in Tokens : token.id \in Int /\ token.expiresAt \in Int

PolicyOK ==
    /\ DOMAIN policy = PolicyMembers
    /\ now \in Int /\ policy.clock \in {now, Absent} /\ policy.actionCount \in Int
    /\ policy.checkpointTimeout \in Number

LEMMA TypeParts == TypeOK <=> BuildersOK /\ DocumentsOK /\ PolicyOK
BY DEF TypeOK, BuildersOK, DocumentsOK, PolicyOK

LEMMA TypeInit == Init => TypeOK
<1> SUFFICES ASSUME Init PROVE TypeOK
  OBVIOUS
<1>1. BuildersOK
  BY DEF Init, BuildersOK, NewEnvelopeBuilder, NewTokenBuilder, EnvelopeNumbers,
         TokenNumbers, Number, Kinds
<1>2. DocumentsOK
  BY WireAssumption DEF Init, DocumentsOK, Tokens, NewTokenBuilder, Has
<1>3. PolicyOK
  BY WireAssumption DEF Init, PolicyOK, Number, Or, Has
<1>4. QED BY <1>1, <1>2, <1>3, TypeParts

\* What build_unsigned leaves in the builder, and what it returns.
LEMMA CompletedEnvelope ==
    ASSUME BuildersOK, now \in Int
    PROVE  LET after == WithDefaults(envelopeBuilder)
               envelope == EnvelopeFrom(after)
           IN  /\ DOMAIN after = DOMAIN NewEnvelopeBuilder
               /\ \A field \in EnvelopeNumbers : after[field] \in Number
               /\ after.kind = envelopeBuilder.kind /\ after.scope = envelopeBuilder.scope
               /\ envelope.id \in Int /\ envelope.signer \in Int
               /\ envelope.expiresAt \in Int /\ envelope.maxActions \in Number
BY WireAssumption DEF BuildersOK, WithDefaults, EnvelopeFrom, NewEnvelopeBuilder,
       EnvelopeNumbers, Number, Or, Has

LEMMA CompletedToken ==
    ASSUME BuildersOK, DocumentsOK, Has(tokenBuilder.envelope)
    PROVE  LET after == WithTokenDefaults(tokenBuilder)
               token == TokenFrom(after)
           IN  /\ DOMAIN after = DOMAIN NewTokenBuilder
               /\ \A field \in TokenNumbers : after[field] \in Number
               /\ after.envelope = tokenBuilder.envelope
               /\ token.id \in Int /\ token.expiresAt \in Int
BY DEF BuildersOK, DocumentsOK, WithTokenDefaults, TokenFrom, NewTokenBuilder,
       TokenNumbers, Number, Or, Has

\* Signing adds a signature and leaves the rest.
LEMMA SigningKeeps ==
    ASSUME NEW builder, NEW key
    PROVE  /\ Sign(EnvelopeFrom(builder), key).expiresAt = EnvelopeFrom(builder).expiresAt
           /\ Sign(EnvelopeFrom(builder), key).maxActions = EnvelopeFrom(builder).maxActions
           /\ Sign(TokenFrom(builder), key).id = TokenFrom(builder).id
           /\ Sign(TokenFrom(builder), key).expiresAt = TokenFrom(builder).expiresAt
BY DEF Sign, EnvelopeFrom, TokenFrom

LEMMA TypeStep == TypeOK /\ [Next]_vars => TypeOK'
<1> SUFFICES ASSUME TypeOK, [Next]_vars PROVE TypeOK'
  OBVIOUS
<1> USE DEF vars, builderVars, documentVars, hostVars
<1>t. BuildersOK /\ DocumentsOK /\ PolicyOK
  BY TypeParts
<1>q. BuildersOK' /\ DocumentsOK' /\ PolicyOK' => TypeOK'
  BY TypeParts, PTL
<1>1. ASSUME NEW scope \in Scopes, SetEnvelope("scope", scope) PROVE TypeOK'
  <2>1. BuildersOK'
    BY <1>1, <1>t DEF SetEnvelope, BuildersOK, NewEnvelopeBuilder, EnvelopeNumbers
  <2>2. DocumentsOK' /\ PolicyOK'
    BY <1>1, <1>t DEF SetEnvelope, DocumentsOK, PolicyOK, Tokens
  <2>3. QED BY <2>1, <2>2, <1>q
<1>2. ASSUME NEW setting \in EnvelopeSettings, SetEnvelope(setting[1], setting[2])
      PROVE  TypeOK'
  <2>1. BuildersOK'
    BY <1>2, <1>t, SettingsAssumption
       DEF SetEnvelope, BuildersOK, NewEnvelopeBuilder, EnvelopeNumbers, Number
  <2>2. DocumentsOK' /\ PolicyOK'
    BY <1>2, <1>t DEF SetEnvelope, DocumentsOK, PolicyOK, Tokens
  <2>3. QED BY <2>1, <2>2, <1>q
<1>3. ASSUME RenewEnvelopeBuilder PROVE TypeOK'
  <2>1. BuildersOK'
    BY <1>3, <1>t DEF RenewEnvelopeBuilder, BuildersOK, NewEnvelopeBuilder,
                      EnvelopeNumbers, Number, Kinds
  <2>2. DocumentsOK' /\ PolicyOK'
    BY <1>3, <1>t DEF RenewEnvelopeBuilder, DocumentsOK, PolicyOK, Tokens
  <2>3. QED BY <2>1, <2>2, <1>q
<1>4. ASSUME CompleteEnvelope
      PROVE  /\ BuildersOK' /\ PolicyOK' /\ Tokens' = Tokens
             /\ tokenBuilder' = tokenBuilder
             /\ built' = built \cup {EnvelopeFrom(envelopeBuilder')}
             /\ LET envelope == EnvelopeFrom(envelopeBuilder')
                IN  /\ envelope.id \in Int /\ envelope.signer \in Int
                    /\ envelope.expiresAt \in Int /\ envelope.maxActions \in Number
  <2>1. now \in Int
    BY <1>t DEF PolicyOK
  <2>2. nextId' \in Nat
    BY <1>4, <1>t DEF CompleteEnvelope, BuildersOK, Following
  <2>3. BuildersOK'
    BY <1>4, <1>t, <2>1, <2>2, CompletedEnvelope DEF CompleteEnvelope, BuildersOK
  <2>4. QED
    BY <1>4, <1>t, <2>1, <2>3, CompletedEnvelope
       DEF CompleteEnvelope, PolicyOK, Tokens
<1>5. ASSUME BuildEnvelope PROVE TypeOK'
  <2>1. CompleteEnvelope /\ envelopes' = envelopes
    BY <1>5 DEF BuildEnvelope
  <2>2. DocumentsOK'
    BY <2>1, <1>4, <1>t DEF DocumentsOK
  <2>3. QED BY <2>1, <2>2, <1>4, <1>q
<1>6. ASSUME NEW key \in Keys, SignEnvelope(key) PROVE TypeOK'
  <2>1. /\ CompleteEnvelope
        /\ envelopes' = envelopes \cup {Sign(EnvelopeFrom(envelopeBuilder'), key)}
    BY <1>6 DEF SignEnvelope
  <2>2. DocumentsOK'
    BY <2>1, <1>4, <1>t, SigningKeeps DEF DocumentsOK, Number
  <2>3. QED BY <2>1, <2>2, <1>4, <1>q
<1>7. ASSUME NEW envelope \in built, AttachEnvelope(envelope) PROVE TypeOK'
  <2>1. BuildersOK'
    BY <1>7, <1>t DEF AttachEnvelope, BuildersOK, NewTokenBuilder, TokenNumbers
  <2>2. DocumentsOK' /\ PolicyOK'
    BY <1>7, <1>t DEF AttachEnvelope, BuildersOK, NewTokenBuilder, DocumentsOK,
                      PolicyOK, Tokens
  <2>3. QED BY <2>1, <2>2, <1>q
<1>8. ASSUME NEW action, tokenBuilder' = [tokenBuilder EXCEPT !.action = action],
             UNCHANGED <<envelopeBuilder, nextId, documentVars, hostVars>>
      PROVE  TypeOK'
  <2>1. BuildersOK'
    BY <1>8, <1>t DEF BuildersOK, NewTokenBuilder, TokenNumbers
  <2>2. DocumentsOK' /\ PolicyOK'
    BY <1>8, <1>t DEF BuildersOK, NewTokenBuilder, DocumentsOK, PolicyOK, Tokens
  <2>3. QED BY <2>1, <2>2, <1>q
<1>9. ASSUME NEW action \in CompactActions, ProposeAction(action) PROVE TypeOK'
  BY <1>8, <1>9 DEF ProposeAction
<1>10. ASSUME NEW request \in HttpRequests, ProposeHttpAction(request) PROVE TypeOK'
  BY <1>8, <1>10 DEF ProposeHttpAction
<1>11. ASSUME NEW setting \in TokenSettings, SetToken(setting[1], setting[2])
       PROVE  TypeOK'
  <2>1. BuildersOK'
    <3>1. \/ setting[1] = "constraints"
          \/ setting[1] \in TokenNumbers /\ setting[2] \in Int
      BY <1>11, SettingsAssumption
    <3>2. /\ tokenBuilder' = [tokenBuilder EXCEPT ![setting[1]] = setting[2]]
          /\ UNCHANGED <<envelopeBuilder, nextId>>
      BY <1>11 DEF SetToken
    <3>3. QED
      BY <3>1, <3>2, <1>t DEF BuildersOK, NewTokenBuilder, TokenNumbers, Number
  <2>2. DocumentsOK' /\ PolicyOK'
    <3>1. setting[1] \in {"constraints", "expiresAt", "id", "signer"}
      BY <1>11, SettingsAssumption DEF TokenNumbers
    <3>2. /\ tokenBuilder' = [tokenBuilder EXCEPT ![setting[1]] = setting[2]]
          /\ UNCHANGED <<documentVars, hostVars>>
      BY <1>11 DEF SetToken
    <3>3. tokenBuilder'.envelope = tokenBuilder.envelope
      BY <3>1, <3>2, <1>t DEF BuildersOK, NewTokenBuilder
    <3>4. QED BY <3>2, <3>3, <1>t DEF DocumentsOK, PolicyOK, Tokens
  <2>3. QED BY <2>1, <2>2, <1>q
<1>12. ASSUME RenewTokenBuilder PROVE TypeOK'
  <2>1. BuildersOK'
    BY <1>12, <1>t DEF RenewTokenBuilder, BuildersOK, NewTokenBuilder, TokenNumbers,
                       Number
  <2>2. DocumentsOK' /\ PolicyOK'
    BY <1>12, <1>t DEF RenewTokenBuilder, NewTokenBuilder, Has, DocumentsOK, PolicyOK,
                       Tokens
  <2>3. QED BY <2>1, <2>2, <1>q
<1>13. ASSUME CompleteToken
       PROVE  /\ BuildersOK' /\ PolicyOK'
              /\ tokenBuilder'.envelope = tokenBuilder.envelope
              /\ built' = built /\ envelopes' = envelopes
              /\ LET token == TokenFrom(tokenBuilder')
                 IN  token.id \in Int /\ token.expiresAt \in Int
  <2>1. nextId' \in Nat
    BY <1>13, <1>t DEF CompleteToken, BuildersOK, Following
  <2>2. BuildersOK'
    BY <1>13, <1>t, <2>1, CompletedToken DEF CompleteToken, BuildersOK
  <2>3. PolicyOK'
    BY <1>13, <1>t DEF CompleteToken, PolicyOK
  <2>4. QED
    BY <1>13, <1>t, <2>2, <2>3, CompletedToken DEF CompleteToken
<1>14. ASSUME BuildToken PROVE TypeOK'
  <2>1. CompleteToken /\ asked' = asked
    BY <1>14 DEF BuildToken
  <2>2. DocumentsOK'
    BY <2>1, <1>13, <1>t DEF DocumentsOK, Tokens
  <2>3. QED BY <2>1, <2>2, <1>13, <1>q
<1>15. ASSUME NEW key \in Keys, SignToken(key) PROVE TypeOK'
  <2>1. CompleteToken
    BY <1>15 DEF SignToken
  <2>2. Tokens' = Tokens \cup {Sign(TokenFrom(tokenBuilder'), key)}
    <3> DEFINE token == Sign(TokenFrom(tokenBuilder'), key)
               entry == [token |-> token, action |-> tokenBuilder.action,
                         envelope |-> tokenBuilder.envelope]
    <3>1. asked' = asked \cup {entry} /\ entry.token = token
      BY <1>15 DEF SignToken
    <3> HIDE DEF entry, token
    <3>2. Tokens' = Tokens \cup {token}
      BY <3>1 DEF Tokens
    <3>3. QED BY <3>2 DEF token
  <2>3. DocumentsOK'
    BY <2>1, <2>2, <1>13, <1>t, SigningKeeps DEF DocumentsOK
  <2>4. QED BY <2>1, <2>3, <1>13, <1>q
<1>16. ASSUME UNCHANGED <<builderVars, documentVars>>, PolicyOK' PROVE TypeOK'
  <2>1. BuildersOK' /\ DocumentsOK'
    BY <1>16, <1>t DEF BuildersOK, DocumentsOK, Tokens
  <2>2. QED BY <2>1, <1>16, <1>q
<1>17. ASSUME NEW kind \in RevokedKinds, NEW id, Revoke(kind, id) PROVE TypeOK'
  <2>1. PolicyOK'
    BY <1>17, <1>t DEF Revoke, RevokedKinds, PolicyOK, PolicyMembers
  <2>2. QED BY <2>1, <1>16, <1>17 DEF Revoke
<1>18. ASSUME RevokeSome PROVE TypeOK'
  BY <1>17, <1>18 DEF RevokeSome, RevokedKinds
<1>19. ASSUME CountAction PROVE TypeOK'
  <2>1. PolicyOK'
    BY <1>19, <1>t DEF CountAction, PolicyOK, PolicyMembers
  <2>2. QED BY <2>1, <1>16, <1>19 DEF CountAction
<1>20. ASSUME Tick PROVE TypeOK'
  <2>1. PolicyOK'
    BY <1>20, <1>t DEF Tick, PolicyOK, PolicyMembers, Has
  <2>2. QED BY <2>1, <1>16, <1>20 DEF Tick
<1>21. ASSUME UNCHANGED vars PROVE TypeOK'
  <2>1. PolicyOK'
    BY <1>21, <1>t DEF PolicyOK
  <2>2. QED BY <2>1, <1>16, <1>21
<1>22. ASSUME NEW options \in CliEnvelopes, NEW key \in Keys, CreateEnvelope(options, key)
       PROVE  TypeOK'
  <2> DEFINE builder == WithDefaults([NewEnvelopeBuilder EXCEPT
                            !.principal = options.principal, !.kind = options.kind,
                            !.scope = [options.scope EXCEPT !.resourceClass = << >>],
                            !.maxActions = options.maxActions])
  <2>1. /\ EnvelopeFrom(builder).expiresAt \in Number
        /\ EnvelopeFrom(builder).maxActions \in Number
    BY <1>t, CliAssumption, WireAssumption
       DEF NewEnvelopeBuilder, WithDefaults, EnvelopeFrom, Or, Has, Number, PolicyOK
  <2>2. /\ envelopes' = envelopes \cup {Sign(EnvelopeFrom(builder), key)}
        /\ nextId' = nextId + 2
        /\ UNCHANGED <<envelopeBuilder, tokenBuilder, built, asked, hostVars>>
    BY <1>22 DEF CreateEnvelope
  <2> HIDE DEF builder
  <2>3. BuildersOK'
    BY <2>2, <1>t DEF BuildersOK
  <2>4. DocumentsOK'
    BY <2>1, <2>2, <1>t, SigningKeeps DEF DocumentsOK, Tokens
  <2>5. PolicyOK'
    BY <2>2, <1>t DEF PolicyOK
  <2>6. QED BY <2>3, <2>4, <2>5, <1>q
<1>23. ASSUME NEW envelope \in envelopes, NEW file \in CliTokens, NEW key \in Keys,
              CreateToken(envelope, file, key)
       PROVE  TypeOK'
  <2> DEFINE builder == WithTokenDefaults([NewTokenBuilder EXCEPT
                            !.envelope = FromFile(envelope),
                            !.action = file.action, !.constraints = file.constraints])
             token == Sign(TokenFrom(builder), key)
             entry == [token |-> token, action |-> builder.action,
                       envelope |-> builder.envelope]
  <2>1. Has(envelope.expiresAt) /\ envelope.expiresAt \in Int
    BY <1>23, <1>t DEF CreateToken, IsReadable, DocumentsOK, Number, Has
  <2>2. TokenFrom(builder).id \in Int /\ TokenFrom(builder).expiresAt \in Int
    <3>1. builder.envelope = FromFile(envelope)
      BY DEF NewTokenBuilder, WithTokenDefaults
    <3>2. builder.id = nextId /\ builder.expiresAt = FromFile(envelope).expiresAt
      BY DEF NewTokenBuilder, WithTokenDefaults, Or, Has
    <3>3. FromFile(envelope).expiresAt = envelope.expiresAt
      BY DEF FromFile
    <3>4. QED BY <3>2, <3>3, <2>1, <1>t DEF TokenFrom, BuildersOK
  <2>3. /\ asked' = asked \cup {entry} /\ entry.token = token
        /\ nextId' = nextId + 1
        /\ UNCHANGED <<envelopeBuilder, tokenBuilder, built, envelopes, hostVars>>
    BY <1>23 DEF CreateToken
  <2>4. token.id \in Int /\ token.expiresAt \in Int
    BY <2>2, SigningKeeps
  <2> HIDE DEF builder, token, entry
  <2>5. Tokens' = Tokens \cup {token}
    BY <2>3 DEF Tokens
  <2>6. BuildersOK'
    BY <2>3, <1>t DEF BuildersOK
  <2>7. DocumentsOK'
    BY <2>3, <2>4, <2>5, <1>t DEF DocumentsOK
  <2>8. PolicyOK'
    BY <2>3, <1>t DEF PolicyOK
  <2>9. QED BY <2>6, <2>7, <2>8, <1>q
<1>24. QED
  BY <1>1, <1>2, <1>3, <1>5, <1>6, <1>7, <1>9, <1>10, <1>11, <1>12, <1>18, <1>14,
     <1>15, <1>19, <1>20, <1>21, <1>22, <1>23 DEF Next, BuilderStep, HostStep

\* The builders, documents and policy are always well typed.
THEOREM TypeCorrect == Spec => []TypeOK
BY TypeInit, TypeStep, PTL DEF Spec

-----------------------------------------------------------------------------
(* A denial is final *)

\* No step makes the policy context an earlier one.
LEMMA PolicyMovesOn == TypeOK /\ [Next]_vars => IsLater(policy', policy)
<1> SUFFICES ASSUME TypeOK, [Next]_vars PROVE IsLater(policy', policy)
  OBVIOUS
<1>t. PolicyOK
  BY TypeParts
<1>1. CASE UNCHANGED policy
  BY <1>1, <1>t, AbsentAssumption DEF PolicyOK, IsLater, Has, Number
<1>2. ASSUME NEW kind \in RevokedKinds, NEW id, Revoke(kind, id)
      PROVE  IsLater(policy', policy)
  BY <1>2, <1>t, AbsentAssumption
     DEF Revoke, RevokedKinds, PolicyOK, PolicyMembers, IsLater, Has, Number
<1>3. CASE RevokeSome
  BY <1>2, <1>3 DEF RevokeSome, RevokedKinds
<1>4. CASE CountAction
  BY <1>4, <1>t, AbsentAssumption
     DEF CountAction, PolicyOK, PolicyMembers, IsLater, Has, Number
<1>5. CASE Tick
  BY <1>5, <1>t, AbsentAssumption
     DEF Tick, PolicyOK, PolicyMembers, IsLater, Has, Number
<1>6. QED
  BY <1>1, <1>3, <1>4, <1>5
     DEF Next, BuilderStep, HostStep, vars, hostVars, CreateEnvelope, CreateToken,
         SetEnvelope, RenewEnvelopeBuilder, BuildEnvelope, SignEnvelope,
         CompleteEnvelope, AttachEnvelope, ProposeAction, ProposeHttpAction, SetToken,
         RenewTokenBuilder, BuildToken, SignToken, CompleteToken

LEMMA VectorsAreNumeric ==
    ASSUME TypeOK, NEW vector \in Vectors
    PROVE  IsNumeric(vector)
<1>1. PICK request \in Requests, envelope \in envelopes,
           token \in Tokens \cup {Absent}, action \in Actions :
           vector = Vector(request, envelope, token, action)
  BY DEF Vectors
<1>2. Has(token) => token.expiresAt \in Number
  BY TypeParts DEF DocumentsOK, Has, Number
<1>3. QED
  BY <1>1, <1>2, TypeParts, WireAssumption DEF DocumentsOK, IsNumeric, Vector

\* What the evaluators do not allow now they never allow later, for the same
\* documents, action, checkpoint and provenance: time, revocations and counted
\* actions only take authority away (conformance.py 249-441).
THEOREM DenialsAreFinal == Spec => DenialIsFinal
<1>1. TypeOK /\ [Next]_vars => [\A vector \in Vectors : Allows(vector)' => Allows(vector)]_policy
  <2> SUFFICES ASSUME TypeOK, [Next]_vars, NEW vector \in Vectors, Allows(vector)'
               PROVE  Allows(vector)
    OBVIOUS
  <2>1. ~Has(EvaluateEnforcementV2(PublicKey, vector, policy'))
    BY AllowsWithoutReason DEF Allows
  <2>2. IsLater(policy', policy) /\ IsNumeric(vector)
    BY PolicyMovesOn, VectorsAreNumeric
  <2>3. ~Has(EvaluateEnforcementV2(PublicKey, vector, policy))
    BY <2>1, <2>2, EnforcementTightens
  <2>4. QED BY <2>3, AllowsWithoutReason DEF Allows
<1>2. QED BY <1>1, TypeCorrect, PTL DEF Spec, DenialIsFinal

-----------------------------------------------------------------------------
(* Only what was signed is allowed *)

\* What an evaluation that gives no reason has found right.
FoundSigned(vector) ==
    /\ vector.envelope.signature =
           Signature(PublicKey, WithoutSignature(vector.envelope))
    /\ Has(vector.token) =>
           /\ vector.token.signature =
                  Signature(PublicKey, WithoutSignature(vector.token))
           /\ vector.token.envelopeId = vector.envelope.id
           /\ vector.token.actionHash = vector.action

\* A gate that gives no reason passes on that those after it give none.
LEMMA CheckpointGatePasses ==
    ASSUME NEW vector, NEW context, NEW time, NEW otherwise,
           ~Has(CheckpointGate(vector, context, time, otherwise))
    PROVE  ~Has(otherwise)
BY AbsentAssumption DEF CheckpointGate, Has, Reasons

LEMMA TokenGatePasses ==
    ASSUME NEW vector, NEW context, NEW time, NEW otherwise,
           ~Has(TokenGate(vector, context, time, otherwise))
    PROVE  /\ ~Has(otherwise)
           /\ Has(vector.token) =>
                  /\ vector.token.envelopeId = vector.envelope.id
                  /\ vector.token.actionHash = vector.action
BY AbsentAssumption DEF TokenGate, Has, Reasons

LEMMA TraceGatePasses ==
    ASSUME NEW vector, NEW otherwise,
           ~Has(TraceGate(PublicKey, vector, otherwise))
    PROVE  ~Has(otherwise)
BY AbsentAssumption DEF TraceGate, Has, Reasons

LEMMA EnvelopeGatePasses ==
    ASSUME NEW vector, NEW context, NEW time, NEW otherwise,
           ~Has(EnvelopeGate(vector, context, time, otherwise))
    PROVE  ~Has(otherwise)
BY AbsentAssumption DEF EnvelopeGate, Has, Reasons

LEMMA AuthorityGatePasses ==
    ASSUME NEW vector, NEW context, NEW otherwise,
           ~Has(AuthorityGate(vector, context, otherwise))
    PROVE  ~Has(otherwise)
BY AbsentAssumption DEF AuthorityGate, Has, Reasons

LEMMA SignatureGatePasses ==
    ASSUME NEW vector, ~Has(SignatureGate(PublicKey, vector))
    PROVE  /\ vector.envelope.signature =
                  Signature(PublicKey, WithoutSignature(vector.envelope))
           /\ Has(vector.token) =>
                  vector.token.signature =
                      Signature(PublicKey, WithoutSignature(vector.token))
BY AbsentAssumption DEF SignatureGate, VerifySignature, Has, Reasons

LEMMA AllowedIsFoundSigned ==
    ASSUME NEW vector, NEW context,
           ~Has(EvaluateConformance(PublicKey, vector, context))
    PROVE  FoundSigned(vector)
<1> DEFINE time == Clock(context, vector.envelope)
           signed == SignatureGate(PublicKey, vector)
           authority == AuthorityGate(vector, context, signed)
           envelope == EnvelopeGate(vector, context, time, authority)
           trace == TraceGate(PublicKey, vector, envelope)
           token == TokenGate(vector, context, time, trace)
           checkpoint == CheckpointGate(vector, context, time, token)
<1>1. ~Has(checkpoint)
  BY AbsentAssumption DEF EvaluateConformance, Has, Reasons
<1> HIDE DEF time, signed, authority, envelope, trace, token, checkpoint
<1>2. ~Has(token)
  BY <1>1, CheckpointGatePasses DEF checkpoint
<1>3. /\ ~Has(trace)
      /\ Has(vector.token) =>
             /\ vector.token.envelopeId = vector.envelope.id
             /\ vector.token.actionHash = vector.action
  BY <1>2, TokenGatePasses DEF token
<1>4. ~Has(envelope)
  BY <1>3, TraceGatePasses DEF trace
<1>5. ~Has(authority)
  BY <1>4, EnvelopeGatePasses DEF envelope
<1>6. ~Has(signed)
  BY <1>5, AuthorityGatePasses DEF authority
<1>7. QED
  BY <1>3, <1>6, SignatureGatePasses DEF signed, FoundSigned

\* A signed document in which a member other than the signature was changed is
\* the document itself, if its signature still fits.
LEMMA AlterationShows ==
    ASSUME NEW document, Signed(document),
           NEW member, member # "signature", NEW value, NEW altered,
           altered = [document EXCEPT ![member] = value],
           altered.signature = Signature(PublicKey, WithoutSignature(altered))
    PROVE  altered = document
<1> DEFINE signature == Signature(document.signature.key, WithoutSignature(document))
<1>1. /\ "signature" \in DOMAIN document
      /\ document = [document EXCEPT !.signature = signature]
  BY DEF Signed, Sign
<1>2. document.signature = signature
  BY <1>1, Zenon
<1>3. altered.signature = signature
  BY <1>1, <1>2
<1>4. WithoutSignature(altered) = WithoutSignature(document)
  <2>1. \A key, contents : Signature(key, contents).contents = contents
    BY DEF Signature
  <2>2. Signature(PublicKey, WithoutSignature(altered)) =
            Signature(document.signature.key, WithoutSignature(document))
    BY <1>3
  <2>3. Signature(PublicKey, WithoutSignature(altered)).contents =
            Signature(document.signature.key, WithoutSignature(document)).contents
    BY <2>2
  <2> DEFINE left == WithoutSignature(altered)
             right == WithoutSignature(document)
  <2> HIDE DEF left, right
  <2>4. Signature(PublicKey, left).contents = left
    BY <2>1
  <2>5. Signature(document.signature.key, right).contents = right
    BY <2>1
  <2>6. left = right
    BY <2>3, <2>4, <2>5 DEF left, right
  <2>7. QED BY <2>6 DEF left, right
<1> HIDE DEF signature
<1>5. DOMAIN altered = DOMAIN document
  OBVIOUS
<1>6. ASSUME NEW name \in DOMAIN document, name # "signature"
      PROVE  altered[name] = document[name]
  BY <1>4, <1>5, <1>6 DEF WithoutSignature
<1>7. \A name \in DOMAIN document : altered[name] = document[name]
  BY <1>2, <1>3, <1>6
<1>8. altered = [name \in DOMAIN altered |-> altered[name]]
  OBVIOUS
<1>9. document = [name \in DOMAIN document |-> document[name]]
  BY <1>1
<1>10. QED BY <1>5, <1>7, <1>8, <1>9

LEMMA SigningSigns ==
    ASSUME NEW document, "signature" \in DOMAIN document, NEW key
    PROVE  Signed(Sign(document, key))
<1> DEFINE signature == Signature(key, WithoutSignature(document))
           signed == Sign(document, key)
<1>1. signed = [document EXCEPT !.signature = signature]
  BY DEF Sign
<1>2. signed.signature = signature /\ signed.signature.key = key
  BY <1>1 DEF Signature
<1>3. WithoutSignature(signed) = WithoutSignature(document)
  BY <1>1 DEF WithoutSignature
<1>4. Sign(signed, key) = [signed EXCEPT !.signature = signature]
  BY <1>3 DEF Sign
<1>5. [signed EXCEPT !.signature = signature] = signed
  BY <1>1
<1>6. "signature" \in DOMAIN signed
  BY <1>1
<1> HIDE DEF signed
<1>7. QED BY <1>2, <1>4, <1>5, <1>6 DEF Signed, signed

\* Every document is signed, and every token for what it was asked for.
DocumentsSigned ==
    /\ \A envelope \in envelopes : Signed(envelope)
    /\ \A entry \in asked :
           /\ Signed(entry.token)
           /\ entry.token.actionHash = entry.action
           /\ entry.token.envelopeId = entry.envelope.id

\* A token is made out for the action and the envelope in the builder.
LEMMA TokenIsForItsAction ==
    ASSUME NEW before, DOMAIN before = DOMAIN NewTokenBuilder, NEW after,
           after = WithTokenDefaults(before), NEW key, NEW token,
           token = Sign(TokenFrom(after), key)
    PROVE  /\ Signed(token)
           /\ token.actionHash = before.action
           /\ token.envelopeId = before.envelope.id
<1>1. after.action = before.action /\ after.envelope = before.envelope
  BY DEF WithTokenDefaults, NewTokenBuilder
<1>2. "signature" \in DOMAIN TokenFrom(after)
  BY DEF TokenFrom
<1>3. /\ Sign(TokenFrom(after), key).actionHash = after.action
      /\ Sign(TokenFrom(after), key).envelopeId = after.envelope.id
  BY DEF TokenFrom, Sign
<1>4. QED BY <1>1, <1>2, <1>3, SigningSigns

LEMMA EnvelopeIsSigned ==
    ASSUME NEW builder, NEW key
    PROVE  Signed(Sign(EnvelopeFrom(builder), key))
<1>1. "signature" \in DOMAIN EnvelopeFrom(builder)
  BY DEF EnvelopeFrom
<1>2. QED BY <1>1, SigningSigns

LEMMA DocumentsSignedKept ==
    TypeOK /\ DocumentsSigned /\ [Next]_vars => DocumentsSigned'
<1> SUFFICES ASSUME TypeOK, DocumentsSigned, [Next]_vars PROVE DocumentsSigned'
  OBVIOUS
<1>1. ASSUME UNCHANGED <<envelopes, asked>> PROVE DocumentsSigned'
  BY <1>1 DEF DocumentsSigned
<1>2. ASSUME NEW key \in Keys, SignEnvelope(key) PROVE DocumentsSigned'
  <2>1. envelopes' = envelopes \cup {Sign(EnvelopeFrom(envelopeBuilder'), key)}
        /\ asked' = asked
    BY <1>2 DEF SignEnvelope, CompleteEnvelope
  <2>2. Signed(Sign(EnvelopeFrom(envelopeBuilder'), key))
    BY EnvelopeIsSigned
  <2>3. QED BY <2>1, <2>2 DEF DocumentsSigned
<1>3. ASSUME NEW token, NEW action, NEW envelope,
             asked' = asked \cup {[token |-> token, action |-> action,
                                   envelope |-> envelope]},
             envelopes' = envelopes, Signed(token), token.actionHash = action,
             token.envelopeId = envelope.id
      PROVE  DocumentsSigned'
  BY <1>3 DEF DocumentsSigned
<1>4. ASSUME NEW key \in Keys, SignToken(key) PROVE DocumentsSigned'
  <2> DEFINE token == Sign(TokenFrom(tokenBuilder'), key)
  <2>1. /\ tokenBuilder' = WithTokenDefaults(tokenBuilder)
        /\ envelopes' = envelopes
        /\ asked' = asked \cup {[token |-> token, action |-> tokenBuilder.action,
                                 envelope |-> tokenBuilder.envelope]}
    BY <1>4 DEF SignToken, CompleteToken
  <2>2. DOMAIN tokenBuilder = DOMAIN NewTokenBuilder
    BY DEF TypeOK
  <2>3. /\ Signed(token) /\ token.actionHash = tokenBuilder.action
        /\ token.envelopeId = tokenBuilder.envelope.id
    BY <2>1, <2>2, TokenIsForItsAction
  <2> HIDE DEF token
  <2>4. QED BY <1>3, <2>1, <2>3
<1>5. ASSUME NEW options \in CliEnvelopes, NEW key \in Keys,
             CreateEnvelope(options, key)
      PROVE  DocumentsSigned'
  <2> DEFINE builder == WithDefaults([NewEnvelopeBuilder EXCEPT
                            !.principal = options.principal, !.kind = options.kind,
                            !.scope = [options.scope EXCEPT !.resourceClass = << >>],
                            !.maxActions = options.maxActions])
  <2>1. /\ envelopes' = envelopes \cup {Sign(EnvelopeFrom(builder), key)}
        /\ asked' = asked
    BY <1>5 DEF CreateEnvelope
  <2>2. Signed(Sign(EnvelopeFrom(builder), key))
    BY EnvelopeIsSigned
  <2>3. QED BY <2>1, <2>2 DEF DocumentsSigned
<1>6. ASSUME NEW envelope \in envelopes, NEW file \in CliTokens, NEW key \in Keys,
             CreateToken(envelope, file, key)
      PROVE  DocumentsSigned'
  <2> DEFINE before == [NewTokenBuilder EXCEPT
                            !.envelope = FromFile(envelope),
                            !.action = file.action, !.constraints = file.constraints]
             after == WithTokenDefaults(before)
             token == Sign(TokenFrom(after), key)
  <2>1. /\ envelopes' = envelopes
        /\ asked' = asked \cup {[token |-> token, action |-> after.action,
                                 envelope |-> after.envelope]}
    BY <1>6 DEF CreateToken
  <2>2. DOMAIN before = DOMAIN NewTokenBuilder
    BY DEF NewTokenBuilder
  <2> HIDE DEF before
  <2>3. after.action = before.action /\ after.envelope = before.envelope
    BY <2>2 DEF WithTokenDefaults, NewTokenBuilder
  <2>4. /\ Signed(token) /\ token.actionHash = before.action
        /\ token.envelopeId = before.envelope.id
    BY <2>2, TokenIsForItsAction
  <2> HIDE DEF after, token
  <2>5. QED BY <1>3, <2>1, <2>3, <2>4
<1>7. QED
  BY <1>1, <1>2, <1>4, <1>5, <1>6
     DEF Next, BuilderStep, HostStep, vars, hostVars, documentVars, builderVars, SetEnvelope,
         RenewEnvelopeBuilder, BuildEnvelope, CompleteEnvelope, AttachEnvelope,
         ProposeAction, ProposeHttpAction, SetToken, RenewTokenBuilder, BuildToken,
         CompleteToken, RevokeSome, Revoke, CountAction, Tick

\* What is presented is made of documents, of which one may be altered.
LEMMA PresentedIsSigned ==
    ASSUME DocumentsSigned, NEW vector \in PresentedVectors, FoundSigned(vector)
    PROVE  /\ vector.envelope \in envelopes
           /\ Has(vector.token) => vector.token \in Tokens
<1>1. ASSUME NEW genuine \in Vectors
      PROVE  /\ genuine.envelope \in envelopes
             /\ Has(genuine.token) => genuine.token \in Tokens
             /\ {"envelope", "token"} \subseteq DOMAIN genuine
  BY DEF Vectors, Vector, Has
<1>2. \A token \in Tokens : Signed(token)
  BY DEF DocumentsSigned, Tokens
<1>3. CASE vector \in Vectors
  BY <1>1, <1>3
<1>4. ASSUME NEW genuine \in Vectors, NEW envelope \in AlteredEnvelopes,
             vector = [genuine EXCEPT !.envelope = envelope]
      PROVE  /\ vector.envelope \in envelopes
             /\ Has(vector.token) => vector.token \in Tokens
  <2>1. vector.envelope = envelope /\ vector.token = genuine.token
    BY <1>1, <1>4
  <2>2. envelope.signature = Signature(PublicKey, WithoutSignature(envelope))
    BY <2>1 DEF FoundSigned
  <2>3. PICK original \in envelopes, member \in {"scope", "expiresAt"} :
            \E value : envelope = [original EXCEPT ![member] = value]
    BY DEF AlteredEnvelopes
  <2>4. envelope = original
    BY <2>2, <2>3, AlterationShows DEF DocumentsSigned
  <2>5. QED BY <1>1, <2>1, <2>4
<1>5. ASSUME NEW genuine \in Vectors, NEW token \in AlteredTokens,
             vector = [genuine EXCEPT !.token = token]
      PROVE  /\ vector.envelope \in envelopes
             /\ Has(vector.token) => vector.token \in Tokens
  <2>1. vector.token = token /\ vector.envelope = genuine.envelope
    BY <1>1, <1>5
  <2>2. Has(token) =>
            token.signature = Signature(PublicKey, WithoutSignature(token))
    BY <2>1 DEF FoundSigned
  <2>3. PICK original \in Tokens, member \in {"actionHash", "envelopeId", "maxUses"} :
            \E value : token = [original EXCEPT ![member] = value]
    BY DEF AlteredTokens
  <2>4. Has(token) => token = original
    BY <1>2, <2>2, <2>3, AlterationShows
  <2>5. QED BY <1>1, <2>1, <2>4
<1>6. QED BY <1>3, <1>4, <1>5 DEF PresentedVectors

\* Whatever is presented, only what the trusted key signed is allowed, for any
\* documents, keys, builders' lives and alterations: an envelope as it was
\* signed, and a token that was asked for this action under this envelope's id.
THEOREM OnlyTheSignedIsAllowed == Spec => []AllowedWasSigned
<1>1. Init => DocumentsSigned
  BY SignedAssumption DEF Init, DocumentsSigned
<1>2. DocumentsSigned => AllowedWasSigned
  <2> SUFFICES ASSUME DocumentsSigned, NEW vector \in PresentedVectors,
                      Allows(vector)
               PROVE  /\ vector.envelope \in envelopes
                      /\ vector.envelope.signature.key = PublicKey
                      /\ Has(vector.token) =>
                             \E entry \in asked :
                                 /\ entry.token = vector.token
                                 /\ entry.action = vector.action
                                 /\ entry.envelope.id = vector.envelope.id
    BY DEF AllowedWasSigned
  <2>1. ~Has(EvaluateEnforcementV2(PublicKey, vector, policy))
    BY AllowsWithoutReason DEF Allows
  <2>2. ~Has(EvaluateConformance(PublicKey, vector, policy))
    BY <2>1 DEF EvaluateEnforcementV2
  <2>3. FoundSigned(vector)
    BY <2>2, AllowedIsFoundSigned
  <2>4. /\ vector.envelope \in envelopes
        /\ Has(vector.token) => vector.token \in Tokens
    BY <2>3, PresentedIsSigned
  <2>5. vector.envelope.signature.key = PublicKey
    BY <2>3 DEF FoundSigned, Signature
  <2>6. ASSUME Has(vector.token)
        PROVE  \E entry \in asked :
                   /\ entry.token = vector.token
                   /\ entry.action = vector.action
                   /\ entry.envelope.id = vector.envelope.id
    <3>1. PICK entry \in asked : entry.token = vector.token
      BY <2>4, <2>6 DEF Tokens
    <3>2. QED BY <2>3, <2>6, <3>1 DEF DocumentsSigned, FoundSigned
  <2>7. QED BY <2>4, <2>5, <2>6
<1>3. QED BY <1>1, <1>2, DocumentsSignedKept, TypeCorrect, PTL DEF Spec

-----------------------------------------------------------------------------
(* Request targets *)

\* The library's induction, as a fact about sets of naturals.
LEMMA SmallestOf ==
    ASSUME NEW T, T \subseteq Nat, T # {}
    PROVE  \E n \in T : \A m \in T : n <= m
<1> DEFINE Below == {pair \in Nat \X Nat : pair[1] < pair[2]}
<1>1. IsWellFoundedOn(Below, Nat)
  BY NatLessThanWellFounded DEF OpToRel
<1> HIDE DEF Below
<1>2. PICK n \in T : \A m \in T : <<m, n>> \notin Below
  BY <1>1, WFMin
<1>3. ASSUME NEW m \in T PROVE n <= m
  <2>1. m \in Nat /\ n \in Nat /\ ~ (<<m, n>> \in Below)
    BY <1>2
  <2>2. QED BY <2>1 DEF Below
<1>4. QED BY <1>2, <1>3

\* The characters of targets.  The provers do not know of a literal that it
\* is a string.
Characters == STRING \cup HexDigits \cup {"%"}

LEMMA UpperKeepsKind ==
    ASSUME NEW character
    PROVE  /\ Upper(character) \in HexDigits <=> character \in HexDigits
           /\ Upper(character) = "%" <=> character = "%"
           /\ character \in Characters => Upper(character) \in Characters
           /\ "%" \notin HexDigits
<1>1. "%" \notin HexDigits
  BY DEF HexDigits
<1>2. CASE character \in {"a", "b", "c", "d", "e", "f"}
  <2>1. Upper(character) \in {"A", "B", "C", "D", "E", "F"}
    BY <1>2 DEF Upper
  <2>2. {"A", "B", "C", "D", "E", "F", "a", "b", "c", "d", "e", "f"} \subseteq HexDigits
    BY DEF HexDigits
  <2>3. Upper(character) \in HexDigits /\ character \in HexDigits
    BY <1>2, <2>1, <2>2
  <2>4. QED BY <1>1, <2>3 DEF Characters
<1>3. CASE character \notin {"a", "b", "c", "d", "e", "f"}
  <2>1. Upper(character) = character
    BY <1>3 DEF Upper
  <2>2. QED BY <1>1, <2>1
<1>4. QED BY <1>2, <1>3

\* A triplet of the target from an index on holds the place.
InTriplet(target, from, place) ==
    \E start \in {place - 1, place - 2} : start >= from /\ Triplet(target, start)

Character(target, from, place) ==
    IF InTriplet(target, from, place) THEN Upper(target[place]) ELSE target[place]

\* What the loop appends from an index on, place by place.
Rest(target, from) ==
    [k \in 1 .. Len(target) + 1 - from |-> Character(target, from, from + k - 1)]

\* No triplet starts within another.
LEMMA TripletsAreApart ==
    ASSUME NEW target \in Seq(Characters), NEW i \in Nat, Triplet(target, i)
    PROVE  ~Triplet(target, i + 1) /\ ~Triplet(target, i + 2)
<1>1. "%" \notin HexDigits
  BY UpperKeepsKind
<1>2. QED BY <1>1 DEF Triplet

LEMMA Tabulated ==
    ASSUME NEW S, NEW n \in Nat, NEW s, DOMAIN s = 1 .. n, s = [k \in 1 .. n |-> s[k]],
           \A k \in 1 .. n : s[k] \in S
    PROVE  s \in Seq(S) /\ Len(s) = n
<1>1. s \in [1 .. n -> S]
  OBVIOUS
<1>2. QED BY <1>1

\* Sequences of one and of three.
LEMMA Listed ==
    ASSUME NEW S, NEW a \in S, NEW b \in S, NEW c \in S
    PROVE  /\ <<a>> \in Seq(S) /\ Len(<<a>>) = 1 /\ <<a>>[1] = a
           /\ <<a, b, c>> \in Seq(S) /\ Len(<<a, b, c>>) = 3
           /\ <<a, b, c>>[1] = a /\ <<a, b, c>>[2] = b /\ <<a, b, c>>[3] = c
OBVIOUS

LEMMA RestIsTarget ==
    ASSUME NEW target \in Seq(Characters), NEW i \in Nat \ {0}
    PROVE  /\ Rest(target, i) \in Seq(Characters)
           /\ Len(Rest(target, i)) = IF i > Len(target) THEN 0 ELSE Len(target) + 1 - i
           /\ \A k \in 1 .. Len(target) + 1 - i :
                  Rest(target, i)[k] = Character(target, i, i + k - 1)
<1>1. Len(target) \in Nat /\ \A j \in 1 .. Len(target) : target[j] \in Characters
  OBVIOUS
<1>2. \A k \in 1 .. Len(target) + 1 - i : i + k - 1 \in 1 .. Len(target)
  BY <1>1
<1>3. \A k \in 1 .. Len(target) + 1 - i : Character(target, i, i + k - 1) \in Characters
  BY <1>1, <1>2, UpperKeepsKind DEF Character
<1>4. \A k \in 1 .. Len(target) + 1 - i :
          Rest(target, i)[k] = Character(target, i, i + k - 1)
  BY DEF Rest
<1>5. CASE i > Len(target)
  <2>1. 1 .. Len(target) + 1 - i = {}
    BY <1>1, <1>5
  <2>2. Rest(target, i) = << >>
    BY SMTT(30), <2>1 DEF Rest
  <2>3. QED BY <1>5, <2>1, <2>2
<1>6. CASE i <= Len(target)
  <2>1. PICK n \in Nat : n = Len(target) + 1 - i
    BY <1>1, <1>6
  <2>2. Rest(target, i) = [k \in 1 .. n |-> Character(target, i, i + k - 1)]
    BY <2>1 DEF Rest
  <2>3. \A k \in 1 .. n : Character(target, i, i + k - 1) \in Characters
    BY <1>3, <2>1
  <2>4. /\ DOMAIN Rest(target, i) = 1 .. n
        /\ Rest(target, i) = [k \in 1 .. n |-> Rest(target, i)[k]]
        /\ \A k \in 1 .. n : Rest(target, i)[k] \in Characters
    BY <2>2, <2>3
  <2>5. Rest(target, i) \in Seq(Characters) /\ Len(Rest(target, i)) = n
    BY <2>4, Tabulated
  <2>6. QED BY <1>1, <1>4, <1>6, <2>1, <2>5
<1>7. QED BY <1>1, <1>5, <1>6

\* The loop after the target's end, at a triplet and at another character.
LEMMA RestAtEnd ==
    ASSUME NEW target \in Seq(Characters), NEW i \in Nat \ {0}, i > Len(target)
    PROVE  Rest(target, i) = << >>
BY RestIsTarget, EmptySeq

\* A sequence that is another with a third after it.
LEMMA Joined ==
    ASSUME NEW S, NEW whole \in Seq(S), NEW head \in Seq(S), NEW tail \in Seq(S),
           Len(whole) = Len(head) + Len(tail),
           \A k \in 1 .. Len(head) : whole[k] = head[k],
           \A k \in 1 .. Len(tail) : whole[Len(head) + k] = tail[k]
    PROVE  whole = head \o tail
<1>1. /\ head \o tail \in Seq(S) /\ Len(head \o tail) = Len(whole)
      /\ \A k \in 1 .. Len(whole) :
            (head \o tail)[k] = IF k <= Len(head) THEN head[k] ELSE tail[k - Len(head)]
  BY ConcatProperties
<1>2. ASSUME NEW k \in 1 .. Len(whole) PROVE whole[k] = (head \o tail)[k]
  <2>1. CASE k <= Len(head)
    BY <1>1, <2>1
  <2>2. CASE k > Len(head)
    <3>1. k - Len(head) \in 1 .. Len(tail) /\ Len(head) + (k - Len(head)) = k
      BY <2>2
    <3>2. whole[k] = tail[k - Len(head)]
      BY <3>1
    <3>3. QED BY <1>1, <2>2, <3>2
  <2>3. QED BY <2>1, <2>2
<1>3. QED BY <1>1, <1>2, SeqEqual

LEMMA RestAtTriplet ==
    ASSUME NEW target \in Seq(Characters), NEW i \in Nat \ {0}, Triplet(target, i)
    PROVE  Rest(target, i) =
               <<"%", Upper(target[i + 1]), Upper(target[i + 2])>> \o Rest(target, i + 3)
<1>1. PICK n \in Nat : n = Len(target)
  OBVIOUS
<1>2. PICK later \in Nat \ {0} : later = i + 3
  OBVIOUS
<1>3. /\ i + 2 <= n /\ target[i] = "%"
      /\ \A j \in 1 .. n : target[j] \in Characters
  BY <1>1 DEF Triplet
<1>4. PICK first \in Characters, second \in Characters :
          first = Upper(target[i + 1]) /\ second = Upper(target[i + 2])
  <2>1. Upper(target[i + 1]) \in Characters /\ Upper(target[i + 2]) \in Characters
    BY <1>3, UpperKeepsKind
  <2>2. QED BY <2>1
<1>5. PICK head \in Seq(Characters) :
          /\ head = <<"%", first, second>> /\ Len(head) = 3
          /\ head[1] = "%" /\ head[2] = first /\ head[3] = second
  <2>1. "%" \in Characters
    BY DEF Characters
  <2>2. /\ <<"%", first, second>> \in Seq(Characters)
        /\ Len(<<"%", first, second>>) = 3
        /\ <<"%", first, second>>[1] = "%" /\ <<"%", first, second>>[2] = first
        /\ <<"%", first, second>>[3] = second
    BY <2>1, Listed
  <2>3. QED BY <2>2
<1>6. /\ Rest(target, later) \in Seq(Characters)
      /\ Len(Rest(target, later)) = n - i - 2
      /\ \A k \in 1 .. n - i - 2 :
            Rest(target, later)[k] = Character(target, later, i + k + 2)
  <2>1. /\ (IF later > n THEN 0 ELSE n + 1 - later) = n - i - 2
        /\ n + 1 - later = n - i - 2
        /\ \A k \in 1 .. n - i - 2 : later + k - 1 = i + k + 2
    BY <1>2, <1>3
  <2>2. /\ Rest(target, later) \in Seq(Characters)
        /\ Len(Rest(target, later)) = n - i - 2
        /\ \A k \in 1 .. n - i - 2 :
              Rest(target, later)[k] = Character(target, later, later + k - 1)
    BY <1>1, <2>1, RestIsTarget
  <2>3. QED BY <2>1, <2>2
<1>7. /\ Rest(target, i) \in Seq(Characters)
      /\ Len(Rest(target, i)) = n + 1 - i
      /\ \A k \in 1 .. n + 1 - i : Rest(target, i)[k] = Character(target, i, i + k - 1)
  BY <1>1, <1>3, RestIsTarget
<1>8. ASSUME NEW k \in 1 .. 3 PROVE Rest(target, i)[k] = head[k]
  <2>1. /\ ~InTriplet(target, i, i)
        /\ InTriplet(target, i, i + 1) /\ InTriplet(target, i, i + 2)
    BY DEF InTriplet
  <2>2. /\ Character(target, i, i) = "%"
        /\ Character(target, i, i + 1) = first
        /\ Character(target, i, i + 2) = second
    BY <1>3, <1>4, <2>1 DEF Character
  <2>3. k \in 1 .. n + 1 - i /\ (k = 1 \/ k = 2 \/ k = 3)
    BY <1>3
  <2>4. Rest(target, i)[k] = Character(target, i, i + k - 1)
    BY <1>7, <2>3
  <2>5. QED BY <1>5, <2>2, <2>3, <2>4
<1>9. ASSUME NEW k \in 1 .. n - i - 2
      PROVE  Rest(target, i)[3 + k] = Rest(target, later)[k]
  <2>1. PICK j \in Nat : j = i + k + 2 /\ j >= later
    BY <1>2
  <2>2. ~Triplet(target, i + 1) /\ ~Triplet(target, i + 2)
    BY TripletsAreApart
  <2>3. \A start \in {j - 1, j - 2} :
            start >= i => start >= later \/ start = i + 1 \/ start = i + 2
    BY <1>2, <2>1
  <2>4. \A start \in {j - 1, j - 2} : start >= later => start >= i
    BY <1>2, <2>1
  <2>5. InTriplet(target, i, j) <=> InTriplet(target, later, j)
    BY <2>2, <2>3, <2>4 DEF InTriplet
  <2>6. 3 + k \in 1 .. n + 1 - i /\ i + (3 + k) - 1 = j
    BY <1>3, <2>1
  <2>7. Rest(target, i)[3 + k] = Character(target, i, j)
    BY <1>7, <2>6
  <2>8. QED BY <1>6, <2>1, <2>5, <2>7 DEF Character
<1>10. n + 1 - i = 3 + (n - i - 2)
  BY <1>3
<1>11. Rest(target, i) = head \o Rest(target, later)
  <2>1. Len(Rest(target, i)) = Len(head) + Len(Rest(target, later))
    BY <1>5, <1>6, <1>7, <1>10
  <2>2. \A k \in 1 .. Len(head) : Rest(target, i)[k] = head[k]
    BY <1>5, <1>8
  <2>3. \A k \in 1 .. Len(Rest(target, later)) :
            Rest(target, i)[Len(head) + k] = Rest(target, later)[k]
    BY <1>5, <1>6, <1>9
  <2>4. Rest(target, i) \in Seq(Characters) /\ Rest(target, later) \in Seq(Characters)
    BY <1>6, <1>7
  <2>5. QED BY <2>1, <2>2, <2>3, <2>4, Joined
<1>12. QED BY <1>2, <1>4, <1>5, <1>11

LEMMA RestAtCharacter ==
    ASSUME NEW target \in Seq(Characters), NEW i \in 1 .. Len(target),
           ~Triplet(target, i)
    PROVE  Rest(target, i) = <<target[i]>> \o Rest(target, i + 1)
<1>1. PICK n \in Nat : n = Len(target)
  OBVIOUS
<1>2. PICK later \in Nat \ {0} : later = i + 1
  OBVIOUS
<1>3. /\ i \in Nat \ {0} /\ i <= n
      /\ \A j \in 1 .. n : target[j] \in Characters
  BY <1>1
<1>4. PICK head \in Seq(Characters) :
          head = <<target[i]>> /\ Len(head) = 1 /\ head[1] = target[i]
  <2>1. target[i] \in Characters
    BY <1>1, <1>3
  <2>2. /\ <<target[i]>> \in Seq(Characters) /\ Len(<<target[i]>>) = 1
        /\ <<target[i]>>[1] = target[i]
    BY <2>1, Listed
  <2>3. QED BY ONLY <2>2
<1>5. /\ Rest(target, later) \in Seq(Characters)
      /\ Len(Rest(target, later)) = n - i
      /\ \A k \in 1 .. n - i : Rest(target, later)[k] = Character(target, later, i + k)
  <2>1. /\ (IF later > n THEN 0 ELSE n + 1 - later) = n - i
        /\ n + 1 - later = n - i
        /\ \A k \in 1 .. n - i : later + k - 1 = i + k
    BY <1>2, <1>3
  <2>2. /\ Rest(target, later) \in Seq(Characters)
        /\ Len(Rest(target, later)) = n - i
        /\ \A k \in 1 .. n - i :
              Rest(target, later)[k] = Character(target, later, later + k - 1)
    <3>1. /\ Rest(target, later) \in Seq(Characters)
          /\ Len(Rest(target, later)) = IF later > Len(target) THEN 0
                                        ELSE Len(target) + 1 - later
          /\ \A k \in 1 .. Len(target) + 1 - later :
                 Rest(target, later)[k] = Character(target, later, later + k - 1)
      BY RestIsTarget
    <3>2. QED BY ONLY <1>1, <2>1, <3>1
  <2>3. ASSUME NEW k \in 1 .. n - i
        PROVE  Rest(target, later)[k] = Character(target, later, i + k)
    <3>1. later + k - 1 = i + k
      BY <2>1
    <3>2. Rest(target, later)[k] = Character(target, later, later + k - 1)
      BY <2>2
    <3>3. QED BY ONLY <3>1, <3>2
  <2>4. QED BY <2>2, <2>3
<1>6. /\ Rest(target, i) \in Seq(Characters)
      /\ Len(Rest(target, i)) = n + 1 - i
      /\ \A k \in 1 .. n + 1 - i : Rest(target, i)[k] = Character(target, i, i + k - 1)
  BY <1>1, <1>3, RestIsTarget
<1>7. Rest(target, i)[1] = head[1]
  <2>1. ~InTriplet(target, i, i)
    BY DEF InTriplet
  <2>2. Character(target, i, i) = target[i]
    BY <2>1 DEF Character
  <2>3. 1 \in 1 .. n + 1 - i /\ i + 1 - 1 = i
    BY <1>3
  <2>4. QED BY <1>4, <1>6, <2>2, <2>3
<1>8. ASSUME NEW k \in 1 .. n - i
      PROVE  Rest(target, i)[1 + k] = Rest(target, later)[k]
  <2>1. PICK j \in Nat : j = i + k /\ j >= later
    BY <1>2
  <2>2. InTriplet(target, i, j) <=> InTriplet(target, later, j)
    BY <1>2, <2>1 DEF InTriplet
  <2>3. 1 + k \in 1 .. n + 1 - i /\ i + (1 + k) - 1 = j
    BY <1>3, <2>1
  <2>4. Rest(target, i)[1 + k] = Character(target, i, j)
    BY <1>6, <2>3
  <2>5. QED BY <1>5, <2>1, <2>2, <2>4 DEF Character
<1>9. n + 1 - i = 1 + (n - i)
  BY <1>3
<1>10. Rest(target, i) = head \o Rest(target, later)
  <2>1. Len(Rest(target, i)) = Len(head) + Len(Rest(target, later))
    BY <1>4, <1>5, <1>6, <1>9
  <2>2. \A k \in 1 .. Len(head) : Rest(target, i)[k] = head[k]
    BY <1>4, <1>7
  <2>3. \A k \in 1 .. Len(Rest(target, later)) :
            Rest(target, i)[Len(head) + k] = Rest(target, later)[k]
    BY <1>4, <1>5, <1>8
  <2>4. Rest(target, i) \in Seq(Characters) /\ Rest(target, later) \in Seq(Characters)
    BY <1>5, <1>6
  <2>5. QED BY <2>1, <2>2, <2>3, <2>4, Joined
<1>11. QED BY <1>2, <1>4, <1>10

\* One turn of the loop, given what the later turns append.
LoopFrom(target, from, i) ==
    IF i > Len(target) THEN << >>
    ELSE IF Triplet(target, i)
         THEN <<"%", Upper(target[i + 1]), Upper(target[i + 2])>> \o from[i + 3]
         ELSE <<target[i]>> \o from[i + 1]

IsLoop(target, from) ==
    from = [i \in 1 .. Len(target) + 3 |-> LoopFrom(target, from, i)]

LEMMA RestIsLoop ==
    ASSUME NEW target \in Seq(Characters), NEW from,
           NEW i \in 1 .. Len(target) + 3,
           i <= Len(target) => from[i + 1] = Rest(target, i + 1),
           Triplet(target, i) /\ i <= Len(target) => from[i + 3] = Rest(target, i + 3)
    PROVE  LoopFrom(target, from, i) = Rest(target, i)
<1>1. Len(target) \in Nat /\ i \in Nat \ {0}
  OBVIOUS
<1>2. CASE i > Len(target)
  BY <1>1, <1>2, RestAtEnd DEF LoopFrom
<1>3. CASE i <= Len(target) /\ Triplet(target, i)
  <2>1. ~(i > Len(target)) /\ from[i + 3] = Rest(target, i + 3)
    BY <1>1, <1>3
  <2>2. LoopFrom(target, from, i) =
            <<"%", Upper(target[i + 1]), Upper(target[i + 2])>> \o from[i + 3]
    BY <1>3, <2>1 DEF LoopFrom
  <2>3. Rest(target, i) =
            <<"%", Upper(target[i + 1]), Upper(target[i + 2])>> \o Rest(target, i + 3)
    BY <1>1, <1>3, RestAtTriplet
  <2>4. QED BY ONLY <2>1, <2>2, <2>3
<1>4. CASE i <= Len(target) /\ ~Triplet(target, i)
  <2>1. i \in 1 .. Len(target) /\ ~(i > Len(target))
    BY <1>1, <1>4
  <2>2. from[i + 1] = Rest(target, i + 1)
    BY <1>4
  <2>3. LoopFrom(target, from, i) = <<target[i]>> \o from[i + 1]
    BY <1>4, <2>1 DEF LoopFrom
  <2>4. Rest(target, i) = <<target[i]>> \o Rest(target, i + 1)
    BY <1>4, <2>1, RestAtCharacter
  <2>5. QED BY ONLY <2>2, <2>3, <2>4
<1>5. QED BY <1>1, <1>2, <1>3, <1>4

\* A triplet ends within its target.
LEMMA TripletWithin ==
    ASSUME NEW target \in Seq(Characters), NEW i \in Nat, Triplet(target, i)
    PROVE  i + 3 \in 1 .. Len(target) + 1
BY DEF Triplet

\* The loop has a result, and it is the one above.
LEMMA NormalizedIsRest ==
    ASSUME NEW target \in Seq(Characters)
    PROVE  NormalizeRequestTarget(target) = Rest(target, 1)
<1> DEFINE places == 1 .. Len(target) + 3
           rest == [i \in places |-> Rest(target, i)]
           from == CHOOSE f : IsLoop(target, f)
<1>1. Len(target) \in Nat
  OBVIOUS
<1>2. IsLoop(target, rest)
  <2>1. ASSUME NEW i \in places PROVE LoopFrom(target, rest, i) = Rest(target, i)
    <3>1. i <= Len(target) => rest[i + 1] = Rest(target, i + 1)
      BY <1>1
    <3>2. i <= Len(target) /\ Triplet(target, i) => rest[i + 3] = Rest(target, i + 3)
      <4>1. i \in Nat
        BY <1>1
      <4>2. Triplet(target, i) => i + 3 \in places
        BY <1>1, <4>1, TripletWithin
      <4>3. QED BY <4>2
    <3> HIDE DEF rest
    <3>3. QED BY <3>1, <3>2, RestIsLoop
  <2> HIDE DEF places
  <2>2. rest = [i \in places |-> LoopFrom(target, rest, i)]
    BY <2>1
  <2> HIDE DEF rest
  <2>3. QED BY <2>2 DEF IsLoop, places
<1>3. IsLoop(target, from)
  <2> HIDE DEF rest
  <2>1. QED BY <1>2
<1>4. NormalizeRequestTarget(target) = from[1]
  BY DEF NormalizeRequestTarget, IsLoop, LoopFrom
<1> HIDE DEF from, rest
<1>5. \A i \in places : from[i] = LoopFrom(target, from, i)
  BY <1>3 DEF IsLoop
<1> DEFINE wrong == {k \in 0 .. Len(target) + 2 :
                       from[Len(target) + 3 - k] # Rest(target, Len(target) + 3 - k)}
<1>6. wrong = {}
  <2> SUFFICES ASSUME wrong # {} PROVE FALSE
    OBVIOUS
  <2>1. PICK k \in wrong : \A m \in wrong : k <= m
    <3>1. wrong \subseteq Nat
      OBVIOUS
    <3> HIDE DEF wrong
    <3>2. QED BY <3>1, SmallestOf
  <2>2. PICK i \in places : i = Len(target) + 3 - k
    BY <1>1, <2>1
  <2>3. k \in 0 .. Len(target) + 2 /\ from[i] # Rest(target, i)
    BY <2>1, <2>2
  <2>4. ASSUME NEW j \in places, j > i PROVE from[j] = Rest(target, j)
    <3>1. PICK m \in 0 .. Len(target) + 2 : j = Len(target) + 3 - m /\ m < k
      <4>1. Len(target) + 3 - j \in 0 .. Len(target) + 2
        BY <1>1
      <4>2. Len(target) + 3 - j < k
        BY <1>1, <2>2, <2>3, <2>4
      <4>3. j = Len(target) + 3 - (Len(target) + 3 - j)
        BY <1>1
      <4> HIDE DEF places
      <4>4. QED BY <4>1, <4>2, <4>3
    <3>2. m \notin wrong
      <4> HIDE DEF wrong
      <4>1. QED BY <1>1, <2>1, <2>3, <3>1
    <3>3. QED BY <3>1, <3>2
  <2>5. i <= Len(target) => from[i + 1] = Rest(target, i + 1)
    BY <1>1, <2>4
  <2>6. i <= Len(target) /\ Triplet(target, i) => from[i + 3] = Rest(target, i + 3)
    <3>1. i \in Nat
      BY <1>1
    <3>2. Triplet(target, i) => i + 3 \in places /\ i + 3 > i
      BY <1>1, <3>1, TripletWithin
    <3> HIDE DEF places
    <3>3. QED BY <2>4, <3>2
  <2>7. LoopFrom(target, from, i) = Rest(target, i)
    BY <2>5, <2>6, RestIsLoop
  <2>8. QED BY <1>5, <2>3, <2>7
<1>7. from[1] = Rest(target, 1)
  <2>1. Len(target) + 2 \in 0 .. Len(target) + 2 /\ Len(target) + 3 - (Len(target) + 2) = 1
    BY <1>1
  <2>2. QED BY <1>6, <2>1
<1>8. QED BY <1>4, <1>7

\* The normal form, place by place.
LEMMA Normalized ==
    ASSUME NEW target \in Seq(Characters)
    PROVE  /\ NormalizeRequestTarget(target) \in Seq(Characters)
           /\ Len(NormalizeRequestTarget(target)) = Len(target)
           /\ \A i \in 1 .. Len(target) :
                  NormalizeRequestTarget(target)[i] = Character(target, 1, i)
<1>1. PICK one \in Nat \ {0} : one = 1
  OBVIOUS
<1>2. /\ Rest(target, one) \in Seq(Characters)
      /\ Len(Rest(target, one)) = IF one > Len(target) THEN 0 ELSE Len(target) + 1 - one
      /\ \A k \in 1 .. Len(target) + 1 - one :
             Rest(target, one)[k] = Character(target, one, one + k - 1)
  BY RestIsTarget
<1>3. /\ Len(target) \in Nat /\ Len(target) + 1 - one = Len(target)
      /\ (IF one > Len(target) THEN 0 ELSE Len(target) + 1 - one) = Len(target)
      /\ \A k \in 1 .. Len(target) : one + k - 1 = k
  BY <1>1
<1>4. QED BY <1>1, <1>2, <1>3, NormalizedIsRest

\* The percent escapes of a target are its triplets.
LEMMA EscapesAreTriplets ==
    ASSUME NEW target \in Seq(Characters), NEW start \in 1 .. Len(target) - 2
    PROVE  SubSeq(target, start, start + 2) \in
               {<<"%", first, second>> : first, second \in HexDigits}
           <=> Triplet(target, start)
<1> DEFINE sub == SubSeq(target, start, start + 2)
<1>1. /\ Len(target) \in Nat /\ start \in Nat \ {0} /\ start + 2 <= Len(target)
      /\ \A i \in start .. start + 2 : target[i] \in Characters
  OBVIOUS
<1>2. /\ sub \in Seq(Characters) /\ Len(sub) = 3
      /\ \A i \in 1 .. 3 : sub[i] = target[start + i - 1]
  <2>1. /\ sub \in Seq(Characters)
        /\ Len(sub) = IF start <= start + 2 THEN start + 2 - start + 1 ELSE 0
        /\ \A i \in 1 .. start + 2 - start + 1 : sub[i] = target[start + i - 1]
    <3>1. start \in Int /\ start + 2 \in Int
      BY <1>1
    <3>2. QED BY <1>1, <3>1, SubSeqProperties
  <2>2. start + 2 - start + 1 = 3 /\ start <= start + 2
    BY <1>1
  <2>3. QED BY <2>1, <2>2
<1>3. sub[1] = target[start] /\ sub[2] = target[start + 1] /\ sub[3] = target[start + 2]
  <2>1. start + 1 - 1 = start /\ start + 2 - 1 = start + 1 /\ start + 3 - 1 = start + 2
    BY <1>1
  <2>2. QED BY <1>2, <2>1
<1>4. ASSUME Triplet(target, start)
      PROVE  \E first, second \in HexDigits : sub = <<"%", first, second>>
  <2>1. PICK first \in HexDigits, second \in HexDigits :
            sub[1] = "%" /\ sub[2] = first /\ sub[3] = second
    BY <1>3, <1>4 DEF Triplet
  <2>2. first \in Characters /\ second \in Characters /\ "%" \in Characters
    BY DEF Characters
  <2>3. PICK three \in Seq(Characters) :
            /\ three = <<"%", first, second>> /\ Len(three) = 3
            /\ three[1] = "%" /\ three[2] = first /\ three[3] = second
    <3>1. /\ <<"%", first, second>> \in Seq(Characters)
          /\ Len(<<"%", first, second>>) = 3
          /\ <<"%", first, second>>[1] = "%" /\ <<"%", first, second>>[2] = first
          /\ <<"%", first, second>>[3] = second
      BY <2>2, Listed
    <3>2. QED BY <3>1
  <2> HIDE DEF sub
  <2>4. \A i \in 1 .. 3 : i = 1 \/ i = 2 \/ i = 3
    OBVIOUS
  <2>5. \A i \in 1 .. 3 : sub[i] = three[i]
    BY <2>1, <2>3, <2>4
  <2>6. sub = three
    BY <1>2, <2>3, <2>5, SeqEqual
  <2>7. QED BY <2>3, <2>6
<1>5. ASSUME NEW first \in HexDigits, NEW second \in HexDigits,
             sub = <<"%", first, second>>
      PROVE  Triplet(target, start)
  <2> HIDE DEF sub
  <2>1. sub[1] = "%" /\ sub[2] = first /\ sub[3] = second
    BY <1>5
  <2>2. QED BY <1>1, <1>3, <2>1 DEF Triplet
<1>6. QED BY <1>4, <1>5

LEMMA EscapeDigitIsInTriplet ==
    ASSUME NEW target \in Seq(Characters), NEW i \in 1 .. Len(target)
    PROVE  IsEscapeDigit(target, i) <=> InTriplet(target, 1, i)
<1>1. \A start \in {i - 1, i - 2} :
          start >= 1 /\ Triplet(target, start) => start \in 1 .. Len(target) - 2
  BY DEF Triplet
<1>2. IsEscapeDigit(target, i) <=>
          \E start \in {i - 1, i - 2} \cap 1 .. Len(target) - 2 : Triplet(target, start)
  BY EscapesAreTriplets DEF IsEscapeDigit
<1>3. \A start \in 1 .. Len(target) - 2 : start >= 1
  OBVIOUS
<1>4. QED BY <1>1, <1>2, <1>3 DEF InTriplet

\* Two targets that agree up to the digits of their escapes, or in their
\* normal forms, have the same triplets.
LEMMA SameHasTriplets ==
    ASSUME NEW left \in Seq(Characters), NEW right \in Seq(Characters),
           SameTarget(left, right), NEW i \in Nat \ {0}, Triplet(left, i)
    PROVE  Triplet(right, i)
<1>1. /\ Len(left) = Len(right) /\ Len(left) \in Nat
      /\ DOMAIN left = 1 .. Len(left)
      /\ \A k \in 1 .. Len(left) :
            \/ left[k] = right[k]
            \/ InTriplet(left, 1, k) /\ InTriplet(right, 1, k)
  BY EscapeDigitIsInTriplet DEF SameTarget
<1>2. ASSUME NEW target \in Seq(Characters), NEW k \in 1 .. Len(target),
             InTriplet(target, 1, k)
      PROVE  target[k] \in HexDigits
  <2>1. PICK start \in {k - 1, k - 2} : start >= 1 /\ Triplet(target, start)
    BY <1>2 DEF InTriplet
  <2>2. k = start + 1 \/ k = start + 2
    BY <2>1
  <2>3. QED BY <2>1, <2>2 DEF Triplet
<1>3. /\ left[i] = "%" /\ i + 2 <= Len(left)
      /\ left[i + 1] \in HexDigits /\ left[i + 2] \in HexDigits
  BY DEF Triplet
<1>4. i \in 1 .. Len(left) /\ i + 1 \in 1 .. Len(left) /\ i + 2 \in 1 .. Len(left)
  BY <1>1, <1>3
<1>5. right[i] = "%"
  BY <1>1, <1>2, <1>3, <1>4, UpperKeepsKind
<1>6. right[i + 1] \in HexDigits /\ right[i + 2] \in HexDigits
  BY <1>1, <1>2, <1>3, <1>4
<1>7. QED BY <1>1, <1>3, <1>5, <1>6 DEF Triplet

LEMMA NormalHasTriplets ==
    ASSUME NEW left \in Seq(Characters), NEW right \in Seq(Characters),
           NormalizeRequestTarget(left) = NormalizeRequestTarget(right),
           NEW i \in Nat \ {0}, Triplet(left, i)
    PROVE  Triplet(right, i)
<1>1. /\ Len(left) = Len(right) /\ Len(left) \in Nat
      /\ \A k \in 1 .. Len(left) : Character(left, 1, k) = Character(right, 1, k)
  BY Normalized
<1>2. ASSUME NEW target, NEW k
      PROVE  /\ Character(target, 1, k) \in HexDigits <=> target[k] \in HexDigits
             /\ Character(target, 1, k) = "%" <=> target[k] = "%"
  BY UpperKeepsKind DEF Character
<1>3. /\ left[i] = "%" /\ i + 2 <= Len(left)
      /\ left[i + 1] \in HexDigits /\ left[i + 2] \in HexDigits
  BY DEF Triplet
<1>4. i \in 1 .. Len(left) /\ i + 1 \in 1 .. Len(left) /\ i + 2 \in 1 .. Len(left)
  BY <1>1, <1>3
<1>5. right[i] = "%"
  BY <1>1, <1>2, <1>3, <1>4
<1>6. right[i + 1] \in HexDigits /\ right[i + 2] \in HexDigits
  BY <1>1, <1>2, <1>3, <1>4
<1>7. QED BY <1>1, <1>3, <1>5, <1>6 DEF Triplet

\* Two targets have one normal form exactly if they are the same request.
LEMMA NormalFormDecides ==
    ASSUME NEW left \in Seq(Characters), NEW right \in Seq(Characters)
    PROVE  NormalizeRequestTarget(left) = NormalizeRequestTarget(right)
           <=> SameTarget(left, right)
<1> DEFINE Places == 1 .. Len(left)
<1>1. Len(left) \in Nat /\ DOMAIN left = Places
  OBVIOUS
<1>2. ASSUME \A i \in Nat \ {0} : Triplet(left, i) <=> Triplet(right, i),
             NEW k \in Places
      PROVE  InTriplet(left, 1, k) <=> InTriplet(right, 1, k)
  <2>1. \A start \in {k - 1, k - 2} : start >= 1 => start \in Nat \ {0}
    BY <1>1
  <2>2. QED BY <1>2, <2>1 DEF InTriplet
<1>3. ASSUME SameTarget(left, right)
      PROVE  NormalizeRequestTarget(left) = NormalizeRequestTarget(right)
  <2>1. SameTarget(right, left)
    <3>1. Len(right) = Len(left) /\ DOMAIN right = DOMAIN left
      BY <1>1, <1>3 DEF SameTarget
    <3>2. QED BY <1>3, <3>1 DEF SameTarget
  <2>2. \A i \in Nat \ {0} : Triplet(left, i) <=> Triplet(right, i)
    BY <1>3, <2>1, SameHasTriplets
  <2>3. ASSUME NEW k \in Places PROVE Character(left, 1, k) = Character(right, 1, k)
    <3>1. InTriplet(left, 1, k) <=> InTriplet(right, 1, k)
      BY <1>2, <2>2
    <3>2. \/ left[k] = right[k]
          \/ Upper(left[k]) = Upper(right[k]) /\ InTriplet(left, 1, k)
      BY <1>1, <1>3, EscapeDigitIsInTriplet DEF SameTarget
    <3>3. QED BY <3>1, <3>2 DEF Character
  <2>4. Len(right) = Len(left)
    BY <1>3 DEF SameTarget
  <2>5. /\ NormalizeRequestTarget(left) \in Seq(Characters)
        /\ NormalizeRequestTarget(right) \in Seq(Characters)
        /\ Len(NormalizeRequestTarget(left)) = Len(left)
        /\ Len(NormalizeRequestTarget(right)) = Len(left)
        /\ \A k \in Places :
              NormalizeRequestTarget(left)[k] = NormalizeRequestTarget(right)[k]
    BY <2>3, <2>4, Normalized
  <2>6. QED BY <2>5, SeqEqual
<1>4. ASSUME NormalizeRequestTarget(left) = NormalizeRequestTarget(right)
      PROVE  SameTarget(left, right)
  <2>1. \A i \in Nat \ {0} : Triplet(left, i) <=> Triplet(right, i)
    BY <1>4, NormalHasTriplets
  <2>2. /\ Len(left) = Len(right)
        /\ \A k \in Places : Character(left, 1, k) = Character(right, 1, k)
    BY <1>4, Normalized
  <2>3. ASSUME NEW k \in Places
        PROVE  \/ left[k] = right[k]
               \/ /\ Upper(left[k]) = Upper(right[k])
                  /\ IsEscapeDigit(left, k) /\ IsEscapeDigit(right, k)
    <3>1. InTriplet(left, 1, k) <=> InTriplet(right, 1, k)
      BY <1>2, <2>1
    <3>2. k \in 1 .. Len(right)
      BY <2>2
    <3>3. CASE InTriplet(left, 1, k)
      <4>1. Upper(left[k]) = Upper(right[k])
        BY <2>2, <3>1, <3>3 DEF Character
      <4>2. IsEscapeDigit(left, k) /\ IsEscapeDigit(right, k)
        BY <3>1, <3>2, <3>3, EscapeDigitIsInTriplet
      <4>3. QED BY <4>1, <4>2
    <3>4. CASE ~InTriplet(left, 1, k)
      BY <2>2, <3>1, <3>4 DEF Character
    <3>5. QED BY <3>3, <3>4
  <2>4. QED BY <1>1, <2>2, <2>3 DEF SameTarget
<1>5. QED BY <1>3, <1>4

-----------------------------------------------------------------------------
(* Paths are targets *)

PathsOK ==
    /\ IsTarget(tokenBuilder.constraints.path)
    /\ \A entry \in asked : IsTarget(entry.token.path)

\* A token names the path of the builder that made it.
LEMMA TokenHasPath ==
    ASSUME NEW before, DOMAIN before = DOMAIN NewTokenBuilder, NEW key
    PROVE  Sign(TokenFrom(WithTokenDefaults(before)), key).path = before.constraints.path
<1> DEFINE after == WithTokenDefaults(before)
<1>1. after.constraints = before.constraints
  BY DEF WithTokenDefaults, NewTokenBuilder
<1> HIDE DEF after
<1>2. Sign(TokenFrom(after), key).path = after.constraints.path
  BY DEF TokenFrom, Sign
<1>3. QED BY <1>1, <1>2 DEF after

LEMMA PathsKept == TypeOK /\ PathsOK /\ [Next]_vars => PathsOK'
<1> SUFFICES ASSUME TypeOK, PathsOK, [Next]_vars PROVE PathsOK'
  OBVIOUS
<1>1. DOMAIN tokenBuilder = DOMAIN NewTokenBuilder
  BY DEF TypeOK
<1>2. ASSUME UNCHANGED <<tokenBuilder, asked>> PROVE PathsOK'
  BY <1>2 DEF PathsOK
<1>3. ASSUME UNCHANGED asked, NEW field \in DOMAIN NewTokenBuilder, NEW value,
             tokenBuilder' = [tokenBuilder EXCEPT ![field] = value],
             field = "constraints" => IsTarget(value.path)
      PROVE  PathsOK'
  <2>1. tokenBuilder'.constraints =
            IF field = "constraints" THEN value ELSE tokenBuilder.constraints
    BY <1>1, <1>3 DEF NewTokenBuilder
  <2>2. QED BY <1>3, <2>1 DEF PathsOK
<1>4. ASSUME NEW envelope, AttachEnvelope(envelope) PROVE PathsOK'
  <2>1. UNCHANGED asked /\ tokenBuilder' = [tokenBuilder EXCEPT !["envelope"] = envelope]
    BY <1>4 DEF AttachEnvelope, documentVars
  <2>2. "envelope" \in DOMAIN NewTokenBuilder
    BY DEF NewTokenBuilder
  <2>3. QED BY <1>3, <2>1, <2>2
<1>5. ASSUME NEW action,
             UNCHANGED asked /\ tokenBuilder' = [tokenBuilder EXCEPT !["action"] = action]
      PROVE  PathsOK'
  <2>1. "action" \in DOMAIN NewTokenBuilder
    BY DEF NewTokenBuilder
  <2>2. QED BY <1>3, <1>5, <2>1
<1>6. ASSUME NEW action, ProposeAction(action) PROVE PathsOK'
  BY <1>5, <1>6 DEF ProposeAction, documentVars
<1>7. ASSUME NEW request, ProposeHttpAction(request) PROVE PathsOK'
  BY <1>5, <1>7 DEF ProposeHttpAction, documentVars
<1>8. ASSUME NEW setting \in TokenSettings, SetToken(setting[1], setting[2])
      PROVE  PathsOK'
  <2>1. /\ setting[1] \in TokenNumbers \cup {"constraints"}
        /\ setting[1] = "constraints" => IsTarget(setting[2].path)
    BY SettingsAssumption, TargetAssumption
  <2>2. setting[1] \in DOMAIN NewTokenBuilder
    BY <2>1 DEF TokenNumbers, NewTokenBuilder
  <2>3. /\ UNCHANGED asked
        /\ tokenBuilder' = [tokenBuilder EXCEPT ![setting[1]] = setting[2]]
    BY <1>8 DEF SetToken, documentVars
  <2>4. QED BY <1>3, <2>1, <2>2, <2>3
<1>9. CASE RenewTokenBuilder
  <2>1. tokenBuilder'.constraints.path = Absent
    BY <1>9 DEF RenewTokenBuilder, NewTokenBuilder, NoConstraints
  <2>2. QED BY <1>9, <2>1 DEF PathsOK, RenewTokenBuilder, documentVars, IsTarget, Has
<1>10. ASSUME CompleteToken PROVE tokenBuilder'.constraints = tokenBuilder.constraints
  BY <1>1, <1>10 DEF CompleteToken, WithTokenDefaults, NewTokenBuilder
<1>11. CASE BuildToken
  BY <1>10, <1>11 DEF BuildToken, PathsOK
<1>12. ASSUME NEW key \in Keys, SignToken(key) PROVE PathsOK'
  <2>1. PICK token : /\ asked' = asked \cup {[token    |-> token,
                                             action   |-> tokenBuilder.action,
                                             envelope |-> tokenBuilder.envelope]}
                     /\ token = Sign(TokenFrom(WithTokenDefaults(tokenBuilder)), key)
    BY <1>12 DEF SignToken, CompleteToken
  <2>2. token.path = tokenBuilder.constraints.path
    BY <1>1, <2>1, TokenHasPath
  <2>3. tokenBuilder'.constraints = tokenBuilder.constraints
    BY <1>10, <1>12 DEF SignToken
  <2>4. QED BY <2>1, <2>2, <2>3 DEF PathsOK
<1>13. ASSUME NEW envelope \in envelopes, NEW file \in CliTokens, NEW key \in Keys,
              CreateToken(envelope, file, key)
       PROVE  PathsOK'
  <2>1. PICK before : before = [NewTokenBuilder EXCEPT
                            !.envelope = FromFile(envelope),
                            !.action = file.action, !.constraints = file.constraints]
    OBVIOUS
  <2>2. PICK token, action, other :
            /\ asked' = asked \cup {[token |-> token, action |-> action,
                                     envelope |-> other]}
            /\ token = Sign(TokenFrom(WithTokenDefaults(before)), key)
            /\ UNCHANGED tokenBuilder
    BY <1>13, <2>1 DEF CreateToken
  <2>3. DOMAIN before = DOMAIN NewTokenBuilder /\ before.constraints = file.constraints
    BY <2>1 DEF NewTokenBuilder
  <2>4. token.path = file.constraints.path
    BY <2>2, <2>3, TokenHasPath
  <2>5. IsTarget(token.path)
    BY <2>4, TargetAssumption
  <2>6. QED BY <2>2, <2>5 DEF PathsOK
<1>14. QED
  BY <1>2, <1>4, <1>6, <1>7, <1>8, <1>9, <1>11, <1>12, <1>13
     DEF Next, BuilderStep, HostStep, vars, hostVars, documentVars, builderVars, SetEnvelope,
         RenewEnvelopeBuilder, BuildEnvelope, CompleteEnvelope, SignEnvelope,
         CreateEnvelope, RevokeSome, Revoke, CountAction, Tick

\* For targets of any length, revision 2 binds an allowed request to the path
\* its token names, up to the case of escaped digits, and takes nothing else
\* away: the loop of normalize_request_target ends with the same result for
\* two targets exactly if they are the same request.
THEOREM RequestsAreBound == Spec => []TargetIsBound
<1>1. Init => PathsOK
  BY TargetAssumption DEF Init, PathsOK, NewTokenBuilder, NoConstraints, IsTarget, Has
<1>2. PathsOK => TargetIsBound
  <2> SUFFICES ASSUME PathsOK, NEW vector \in Vectors, Has(vector.target),
                      Has(vector.token), Has(vector.token.path)
               PROVE  Allows(vector) <=>
                        CoreAllows(vector)
                        /\ SameTarget(vector.target, vector.token.path)
    BY DEF TargetIsBound
  <2>1. PICK request \in Requests : vector.target = request.target
    BY DEF Vectors, Vector
  <2>2. vector.token \in Tokens
    BY DEF Vectors, Vector, Has
  <2>3. vector.target \in Seq(Characters)
    <3>1. vector.target \in Seq(STRING)
      BY <2>1, TargetAssumption DEF IsTarget
    <3>2. QED BY <3>1 DEF Characters
  <2>4. vector.token.path \in Seq(Characters)
    <3>1. vector.token.path \in Seq(STRING)
      BY <2>2 DEF PathsOK, Tokens, IsTarget
    <3>2. QED BY <3>1 DEF Characters
  <2>5. NormalizeRequestTarget(vector.target) = NormalizeRequestTarget(vector.token.path)
        <=> SameTarget(vector.target, vector.token.path)
    BY <2>3, <2>4, NormalFormDecides
  <2>6. CASE Has(EvaluateConformance(PublicKey, vector, policy))
    <3>1. Has(EvaluateEnforcementV2(PublicKey, vector, policy))
      BY <2>6 DEF EvaluateEnforcementV2
    <3>2. QED BY <2>6, <3>1, AllowsWithoutReason DEF Allows, CoreAllows
  <2>7. CASE ~Has(EvaluateConformance(PublicKey, vector, policy))
    <3>1. Has("SCOPE_EXCEEDED") /\ ~Has(Absent)
      BY AbsentAssumption DEF Has, Reasons
    <3>2. Has(EvaluateEnforcementV2(PublicKey, vector, policy)) <=>
              NormalizeRequestTarget(vector.target) #
                  NormalizeRequestTarget(vector.token.path)
      BY <2>7, <3>1 DEF EvaluateEnforcementV2
    <3>3. QED BY <2>5, <2>7, <3>2, AllowsWithoutReason DEF Allows, CoreAllows
  <2>8. QED BY <2>6, <2>7
<1>3. QED BY <1>1, <1>2, PathsKept, TypeCorrect, PTL DEF Spec
=============================================================================
