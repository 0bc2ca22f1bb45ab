------------------------ MODULE SidecarClientProofs -------------------------
(***************************************************************************)
(* What a caller of SidecarClient may conclude from how a request ended,   *)
(* and whose token a request spends, proved for every set of documents,    *)
(* calls, dictionaries and policies, and any number of requests.           *)
(***************************************************************************)
EXTENDS SidecarClient, HacpExchangeProofs, FiniteSetTheorems

-----------------------------------------------------------------------------
(* The client and the sidecar leave the documents and the policy alone *)

LEMMA ClientStepMaps ==
    [ClientNext]_<<vars, clientVars>> => [Next]_vars
BY DEF ClientNext, Request, Receive, FailConnection, End, Judge, Interfere, Exchange, vars

LEMMA ClientImplements == ClientSpec => Spec
<1>1. ClientInit => Init
  BY DEF ClientInit
<1>2. QED BY <1>1, ClientStepMaps, PTL DEF ClientSpec, Spec

\* Requests in flight change nothing about it: what the evaluators deny, they
\* deny for good (conformance.py 249-441).
THEOREM ClientDenialsAreFinal == ClientSpec => DenialIsFinal
BY ClientImplements, DenialsAreFinal, PTL

-----------------------------------------------------------------------------
(* Sequences *)

LEMMA Appended ==
    ASSUME NEW S, NEW s \in Seq(S), NEW e
    PROVE  /\ Append(s, e) \in Seq(S \cup {e})
           /\ Len(Append(s, e)) = Len(s) + 1
           /\ DOMAIN Append(s, e) = DOMAIN s \cup {Len(s) + 1}
           /\ \A i \in DOMAIN s : Append(s, e)[i] = s[i]
           /\ Append(s, e)[Len(s) + 1] = e
<1>1. s \in Seq(S \cup {e}) /\ e \in S \cup {e}
  OBVIOUS
<1>2. QED BY <1>1

LEMMA Replaced ==
    ASSUME NEW S, NEW s \in Seq(S), NEW i \in DOMAIN s, NEW e
    PROVE  /\ [s EXCEPT ![i] = e] \in Seq(S \cup {e})
           /\ Len([s EXCEPT ![i] = e]) = Len(s)
           /\ DOMAIN [s EXCEPT ![i] = e] = DOMAIN s
           /\ [s EXCEPT ![i] = e][i] = e
           /\ \A j \in DOMAIN s \ {i} : [s EXCEPT ![i] = e][j] = s[j]
<1>1. s \in Seq(S \cup {e}) /\ e \in S \cup {e}
  OBVIOUS
<1>2. QED BY <1>1, ExceptSeq

-----------------------------------------------------------------------------
(* One request *)

Definite == ReasonCodes \ {"TRACEABILITY_FAILURE"}

Record(request) ==
    request = [call |-> request.call, carried |-> request.carried,
               fate |-> request.fate, answer |-> request.answer,
               outcome |-> request.outcome]

HasDocuments(request) ==
    Has(request.carried.envelope) /\ Has(request.carried.token)

Numeric(headers) ==
    /\ Has(headers.envelope) => headers.envelope.maxActions \in Number
    /\ Has(headers.token) => headers.token.maxUses \in Number

\* An answer on its way says what became of the request, and so does the end.
Truthful(request) ==
    /\ Record(request)
    /\ request.call \in Calls
    /\ DOMAIN request.carried = DOMAIN NoHeaders /\ Numeric(request.carried)
    /\ request.fate \in {"sent", "executed", "refused"}
    /\ request.outcome \in {"waiting", "returned"} \cup Errors
    /\ request.fate = "executed" => HasDocuments(request)
    /\ Has(request.answer) =>
           LET end == HandleHacpResponse(request.answer)
           IN  /\ request.outcome = "waiting"
               /\ end = "returned" => request.fate = "executed"
               /\ end \in Definite => request.fate = "refused"
    /\ request.outcome = "returned" => request.fate = "executed"
    /\ request.outcome \in Definite => request.fate = "refused"

SameBut(after, before, fate) ==
    after.call = before.call /\ after.carried = before.carried /\ after.fate = fate

LEMMA EndIsOutcome ==
    ASSUME NEW answer PROVE HandleHacpResponse(answer) \in {"returned"} \cup Errors
BY DEF HandleHacpResponse, ParseReasonCode, Errors, ReasonCodes

LEMMA NewIsTruthful ==
    ASSUME NEW call \in Calls, NEW carried, DOMAIN carried = DOMAIN NoHeaders,
           Numeric(carried)
    PROVE  Truthful(NewRequest(call, carried))
BY DEF Truthful, NewRequest, Record, Definite, ReasonCodes, Has

\* The members of a request after the client, the sidecar, or what is between
\* them, dealt with it.
RequestOf(call, carried, fate, answer, outcome) ==
    [call |-> call, carried |-> carried, fate |-> fate, answer |-> answer,
     outcome |-> outcome]

LEMMA EndedMembers ==
    ASSUME NEW call, NEW carried, NEW fate, NEW answer, NEW before, NEW outcome
    PROVE  Ended(RequestOf(call, carried, fate, answer, before), outcome) =
               RequestOf(call, carried, fate, Absent, outcome)
<1>1. [RequestOf(call, carried, fate, answer, before) EXCEPT !.outcome = outcome] =
          RequestOf(call, carried, fate, answer, outcome)
  BY DEF RequestOf
<1>2. [RequestOf(call, carried, fate, answer, outcome) EXCEPT !.answer = Absent] =
          RequestOf(call, carried, fate, Absent, outcome)
  BY DEF RequestOf
<1>3. QED BY <1>1, <1>2 DEF Ended

LEMMA JudgedMembers ==
    ASSUME NEW call, NEW carried, NEW fate, NEW answer, NEW outcome, NEW reason
    PROVE  Judged(RequestOf(call, carried, fate, answer, outcome), reason) =
               RequestOf(call, carried, IF Has(reason) THEN "refused" ELSE "executed",
                         IF outcome = "waiting" /\ ~Has(answer)
                         THEN [decision |-> DecisionFor(reason), reason |-> reason]
                         ELSE answer,
                         outcome)
<1> DEFINE request == RequestOf(call, carried, fate, answer, outcome)
           after == IF Has(reason) THEN "refused" ELSE "executed"
           said == IF outcome = "waiting" /\ ~Has(answer)
                   THEN [decision |-> DecisionFor(reason), reason |-> reason]
                   ELSE answer
<1>1. request.outcome = outcome /\ request.answer = answer
  BY DEF RequestOf
<1> HIDE DEF after
<1>2. [request EXCEPT !.fate = after] = RequestOf(call, carried, after, answer, outcome)
  BY DEF RequestOf
<1>3. RequestOf(call, carried, after, answer, outcome).answer = answer
  BY DEF RequestOf
<1>4. [RequestOf(call, carried, after, answer, outcome) EXCEPT
          !.answer = IF request.outcome = "waiting" /\ ~Has(@)
                     THEN [decision |-> DecisionFor(reason), reason |-> reason]
                     ELSE @] =
          [RequestOf(call, carried, after, answer, outcome) EXCEPT !.answer = said]
  BY <1>1, <1>3
<1> HIDE DEF said
<1>5. [RequestOf(call, carried, after, answer, outcome) EXCEPT !.answer = said] =
          RequestOf(call, carried, after, said, outcome)
  BY DEF RequestOf
<1> HIDE DEF request
<1>6. Judged(request, reason) = RequestOf(call, carried, after, said, outcome)
  BY <1>2, <1>4, <1>5 DEF Judged, after
<1>7. QED BY <1>6 DEF request, after, said

LEMMA InterferedMembers ==
    ASSUME NEW call, NEW carried, NEW fate, NEW before, NEW outcome, NEW answer
    PROVE  [RequestOf(call, carried, fate, before, outcome) EXCEPT !.answer = answer] =
               RequestOf(call, carried, fate, answer, outcome)
BY DEF RequestOf

LEMMA EndIsTruthful ==
    ASSUME NEW request, Truthful(request), request.outcome = "waiting", NEW outcome,
           \/ outcome = "UNKNOWN_ERROR"
           \/ Has(request.answer) /\ outcome = HandleHacpResponse(request.answer)
    PROVE  /\ Truthful(Ended(request, outcome))
           /\ Ended(request, outcome).outcome = outcome
           /\ ~Has(Ended(request, outcome).answer)
           /\ SameBut(Ended(request, outcome), request, request.fate)
<1>1. request = RequestOf(request.call, request.carried, request.fate, request.answer,
                          request.outcome)
  BY DEF Truthful, Record, RequestOf
<1>2. Ended(request, outcome) =
          RequestOf(request.call, request.carried, request.fate, Absent, outcome)
  BY <1>1, EndedMembers
<1>3. outcome \in {"returned"} \cup Errors
  BY EndIsOutcome DEF Errors
<1>4. outcome = "UNKNOWN_ERROR" => outcome \notin Definite /\ outcome # "returned"
  BY DEF Definite, ReasonCodes
<1>5. QED
  BY <1>2, <1>3, <1>4 DEF Truthful, Record, RequestOf, HasDocuments, SameBut, Has

LEMMA JudgedIsTruthful ==
    ASSUME NEW request, Truthful(request), request.fate = "sent", NEW reason,
           ~Has(reason) => HasDocuments(request)
    PROVE  /\ Truthful(Judged(request, reason))
           /\ Judged(request, reason).outcome = request.outcome
           /\ Judged(request, reason).answer \in
                  {request.answer, [decision |-> DecisionFor(reason), reason |-> reason]}
           /\ SameBut(Judged(request, reason), request,
                      IF Has(reason) THEN "refused" ELSE "executed")
<1> DEFINE said == [decision |-> DecisionFor(reason), reason |-> reason]
           answer == IF request.outcome = "waiting" /\ ~Has(request.answer)
                     THEN said ELSE request.answer
           fate == IF Has(reason) THEN "refused" ELSE "executed"
           Result == RequestOf(request.call, request.carried, fate, answer, request.outcome)
<1>1. request = RequestOf(request.call, request.carried, request.fate, request.answer,
                          request.outcome)
  BY DEF Truthful, Record, RequestOf
<1>2. Judged(request, reason) = Result
  BY <1>1, JudgedMembers
<1>3. /\ HandleHacpResponse(said) = "returned" => ~Has(reason)
      /\ HandleHacpResponse(said) \in Definite => Has(reason)
  BY DEF HandleHacpResponse, DecisionFor, ParseReasonCode, Definite, ReasonCodes
<1> HIDE DEF said
<1>4. request.outcome # "returned" /\ request.outcome \notin Definite
  BY DEF Truthful
<1>5. Has(answer) =>
          /\ request.outcome = "waiting"
          /\ HandleHacpResponse(answer) = "returned" => fate = "executed"
          /\ HandleHacpResponse(answer) \in Definite => fate = "refused"
  <2>1. CASE request.outcome = "waiting" /\ ~Has(request.answer)
    BY <1>3, <2>1
  <2>2. CASE ~(request.outcome = "waiting" /\ ~Has(request.answer))
    BY <2>2 DEF Truthful
  <2>3. QED BY <2>1, <2>2
<1>6. answer \in {request.answer, said}
  OBVIOUS
<1>7. fate \in {"executed", "refused"} /\ (fate = "executed" => HasDocuments(request))
  OBVIOUS
<1> HIDE DEF answer, fate
<1>8. Truthful(Result)
  BY <1>4, <1>5, <1>7 DEF Truthful, Record, RequestOf, HasDocuments
<1>9. QED BY <1>2, <1>6, <1>8 DEF RequestOf, SameBut, said, fate

LEMMA InterferedIsTruthful ==
    ASSUME NEW request, Truthful(request), request.outcome = "waiting",
           NEW decision \in {Absent, "STRANGE"}
    PROVE  LET interfered == [request EXCEPT
                   !.answer = [decision |-> decision, reason |-> Absent]]
           IN  /\ Truthful(interfered) /\ interfered.outcome = request.outcome
               /\ interfered.answer = [decision |-> decision, reason |-> Absent]
               /\ SameBut(interfered, request, request.fate)
<1> DEFINE answer == [decision |-> decision, reason |-> Absent]
           Result == RequestOf(request.call, request.carried, request.fate, answer,
                               request.outcome)
<1>1. request = RequestOf(request.call, request.carried, request.fate, request.answer,
                          request.outcome)
  BY DEF Truthful, Record, RequestOf
<1>2. HandleHacpResponse(answer) \in {"TRACEABILITY_FAILURE", "UNKNOWN_ERROR"}
  BY DEF HandleHacpResponse, Has
<1> HIDE DEF answer
<1>3. [request EXCEPT !.answer = answer] = Result
  BY <1>1, InterferedMembers
<1>4. Truthful(Result)
  BY <1>2 DEF Truthful, Record, RequestOf, HasDocuments, Definite, ReasonCodes
<1>5. QED BY <1>3, <1>4 DEF answer, RequestOf, SameBut

LEMMA AllowedHasDocuments ==
    ASSUME NEW http, NEW envelope, NEW token, ~Has(SidecarReason(http, envelope, token))
    PROVE  Has(envelope) /\ Has(token)
BY CallAssumption DEF SidecarReason, Has

-----------------------------------------------------------------------------
(* Every request is truthful *)

HeadersOK ==
    /\ DOMAIN dictionaries = Dictionaries
    /\ \A name \in Dictionaries :
          DOMAIN dictionaries[name] = DOMAIN NoHeaders /\ Numeric(dictionaries[name])

RequestsOK ==
    /\ \E S : requests \in Seq(S)
    /\ \A i \in DOMAIN requests :
          /\ Truthful(requests[i])
          /\ requests[i].outcome = "waiting" => i = Len(requests)

Sound == HeadersOK /\ RequestsOK

LEMMA SoundInit == ClientInit => Sound
<1> SUFFICES ASSUME ClientInit PROVE Sound
  OBVIOUS
<1>1. HeadersOK
  BY DEF ClientInit, HeadersOK, Numeric, NoHeaders, Has
<1>2. requests \in Seq({}) /\ DOMAIN requests = {}
  BY DEF ClientInit
<1>3. QED BY <1>1, <1>2 DEF Sound, RequestsOK

LEMMA ReplacedIsSound ==
    ASSUME RequestsOK, NEW i \in DOMAIN requests, NEW request, Truthful(request),
           request.outcome = "waiting" => requests[i].outcome = "waiting",
           requests' = [requests EXCEPT ![i] = request]
    PROVE  RequestsOK'
<1>1. PICK S : requests \in Seq(S)
  BY DEF RequestsOK
<1>2. /\ requests' \in Seq(S \cup {request})
      /\ Len(requests') = Len(requests)
      /\ DOMAIN requests' = DOMAIN requests
      /\ requests'[i] = request
      /\ \A j \in DOMAIN requests \ {i} : requests'[j] = requests[j]
  BY <1>1, Replaced
<1>3. QED BY <1>2 DEF RequestsOK

LEMMA RequestKeepsSound ==
    ASSUME Sound, NEW call \in Calls, Request(call) PROVE Sound'
<1> DEFINE before  == HeadersBefore(call)
           carried == [envelope |-> Or(call.envelope, before.envelope),
                       token    |-> Or(call.token, before.token)]
<1>1. DOMAIN carried = DOMAIN NoHeaders /\ Numeric(carried)
  BY CallAssumption DEF NoHeaders, HeadersBefore, Numeric, Or, Has, Sound, HeadersOK
<1>2. /\ dictionaries' = [name \in Dictionaries |->
                             IF name = call.headers THEN carried ELSE dictionaries[name]]
      /\ requests' = Append(requests, NewRequest(call, carried))
      /\ ~Waiting
  BY DEF Request
<1> HIDE DEF carried
<1>3. HeadersOK'
  BY <1>1, <1>2 DEF Sound, HeadersOK
<1>4. PICK S : requests \in Seq(S)
  BY DEF Sound, RequestsOK
<1>5. /\ requests' \in Seq(S \cup {NewRequest(call, carried)})
      /\ Len(requests') = Len(requests) + 1
      /\ DOMAIN requests' = DOMAIN requests \cup {Len(requests) + 1}
      /\ \A i \in DOMAIN requests : requests'[i] = requests[i]
      /\ requests'[Len(requests) + 1] = NewRequest(call, carried)
  BY <1>2, <1>4, Appended
<1>6. Truthful(NewRequest(call, carried))
  BY <1>1, NewIsTruthful
<1>7. \A i \in DOMAIN requests : requests[i].outcome # "waiting"
  <2>1. ASSUME NEW i \in DOMAIN requests, requests[i].outcome = "waiting"
        PROVE  FALSE
    <3>1. i = Len(requests) /\ requests # << >>
      BY <1>4, <2>1 DEF Sound, RequestsOK
    <3>2. QED BY <1>2, <2>1, <3>1 DEF Waiting
  <2>2. QED BY <2>1
<1>8. RequestsOK'
  <2>1. \A i \in DOMAIN requests' :
            Truthful(requests'[i]) /\ (requests'[i].outcome = "waiting" => i = Len(requests'))
    BY <1>5, <1>6, <1>7 DEF Sound, RequestsOK
  <2>2. QED BY <1>5, <2>1 DEF RequestsOK
<1>9. QED BY <1>3, <1>8 DEF Sound

LEMMA EndKeepsSound ==
    ASSUME Sound, Receive \/ FailConnection PROVE Sound'
<1> DEFINE i == Len(requests)
<1>1. PICK outcome :
        /\ requests' = [requests EXCEPT ![i] = Ended(requests[i], outcome)]
        /\ UNCHANGED dictionaries
        /\ Waiting
        /\ \/ outcome = "UNKNOWN_ERROR"
           \/ /\ Has(requests[i].answer)
              /\ outcome = HandleHacpResponse(requests[i].answer)
  BY DEF Receive, FailConnection, End
<1>2. i \in DOMAIN requests /\ requests[i].outcome = "waiting"
  BY <1>1 DEF Sound, RequestsOK, Waiting
<1>3. Truthful(requests[i])
  BY <1>2 DEF Sound, RequestsOK
<1>4. /\ Truthful(Ended(requests[i], outcome))
      /\ Ended(requests[i], outcome).outcome = outcome
  BY <1>1, <1>2, <1>3, EndIsTruthful
<1>5. RequestsOK'
  BY <1>1, <1>2, <1>4, ReplacedIsSound DEF Sound
<1>6. QED BY <1>1, <1>5 DEF Sound, HeadersOK

LEMMA JudgeKeepsSound ==
    ASSUME Sound, NEW i \in DOMAIN requests, Judge(i) PROVE Sound'
<1> DEFINE carried == requests[i].carried
           reason  == SidecarReason(requests[i].call.http, carried.envelope, carried.token)
           judged  == Judged(requests[i], reason)
<1>1. /\ requests[i].fate = "sent"
      /\ requests' = [requests EXCEPT ![i] = judged]
      /\ UNCHANGED dictionaries
  BY DEF Judge
<1>2. ~Has(reason) => HasDocuments(requests[i])
  BY AllowedHasDocuments DEF HasDocuments
<1>3. Truthful(requests[i])
  BY DEF Sound, RequestsOK
<1>4. Truthful(judged) /\ judged.outcome = requests[i].outcome
  <2> HIDE DEF reason
  <2>1. QED BY <1>1, <1>2, <1>3, JudgedIsTruthful
<1> HIDE DEF judged
<1>5. RequestsOK'
  BY <1>1, <1>4, ReplacedIsSound DEF Sound
<1>6. QED BY <1>1, <1>5 DEF Sound, HeadersOK

LEMMA InterfereKeepsSound ==
    ASSUME Sound, NEW i \in DOMAIN requests, Interfere(i) PROVE Sound'
<1> DEFINE Interfered(decision) ==
               [requests[i] EXCEPT !.answer = [decision |-> decision, reason |-> Absent]]
<1>1. PICK decision \in {Absent, "STRANGE"} :
        requests' = [requests EXCEPT ![i] = Interfered(decision)]
  BY DEF Interfere
<1>2. requests[i].outcome = "waiting" /\ UNCHANGED dictionaries
  BY DEF Interfere
<1>3. Truthful(requests[i])
  BY DEF Sound, RequestsOK
<1> DEFINE interfered == Interfered(decision)
<1>4. Truthful(interfered) /\ interfered.outcome = requests[i].outcome
  BY <1>2, <1>3, InterferedIsTruthful
<1> HIDE DEF Interfered
<1>5. RequestsOK'
  BY <1>1, <1>4, ReplacedIsSound DEF Sound
<1>6. QED BY <1>2, <1>5 DEF Sound, HeadersOK

LEMMA SoundStep == Sound /\ [ClientNext]_<<vars, clientVars>> => Sound'
<1> SUFFICES ASSUME Sound, [ClientNext]_<<vars, clientVars>> PROVE Sound'
  OBVIOUS
<1>1. CASE UNCHANGED clientVars
  BY <1>1 DEF clientVars, Sound, HeadersOK, RequestsOK
<1>2. ASSUME NEW call \in Calls, Request(call) PROVE Sound'
  BY <1>2, RequestKeepsSound
<1>3. CASE Receive \/ FailConnection
  BY <1>3, EndKeepsSound
<1>4. ASSUME NEW i \in DOMAIN requests, Judge(i) \/ Interfere(i) PROVE Sound'
  BY <1>4, JudgeKeepsSound, InterfereKeepsSound
<1>5. CASE Exchange
  BY <1>1, <1>5 DEF Exchange
<1>6. QED BY <1>1, <1>2, <1>3, <1>4, <1>5 DEF ClientNext

LEMMA Soundness == ClientSpec => []Sound
BY SoundInit, SoundStep, PTL DEF ClientSpec

\* Requests, their ends and the caller's headers are always well formed.
THEOREM ClientTypeCorrect == ClientSpec => []ClientTypeOK
<1>1. Sound => ClientTypeOK
  <2> SUFFICES ASSUME Sound PROVE ClientTypeOK
    OBVIOUS
  <2>1. DOMAIN requests = 1 .. Len(requests)
    BY DEF Sound, RequestsOK
  <2>2. QED BY <2>1 DEF Sound, HeadersOK, RequestsOK, Truthful, ClientTypeOK
<1>2. QED BY Soundness, <1>1, PTL

\* A request that returns was allowed and forwarded, with both its documents,
\* however the network treats it (client.py 75-110).
THEOREM ClientFailsClosed == ClientSpec => []FailsClosed
<1>1. Sound => FailsClosed
  BY DEF Sound, RequestsOK, Truthful, HasDocuments, FailsClosed
<1>2. QED BY Soundness, <1>1, PTL

\* An exception with the protocol's reason means that the request was not and
\* will not be executed (client.py 77-110, exceptions.py 82-102).
THEOREM DefiniteErrorsHold == ClientSpec => []DefiniteErrorsAreDenials
<1>1. Sound => DefiniteErrorsAreDenials
  BY DEF Sound, RequestsOK, Truthful, Definite, DefiniteErrorsAreDenials
<1>2. QED BY Soundness, <1>1, PTL

-----------------------------------------------------------------------------
(* What a retry tells *)

\* A budget is exhausted because the envelope's is, or the token was used.
LEMMA ExhaustedReason ==
    ASSUME NEW vector, NEW context,
           EvaluateEnforcementV2(PublicKey, vector, context) = "BUDGET_EXHAUSTED"
    PROVE  Exhausted(vector, context)
<1> DEFINE moment == Clock(context, vector.envelope)
           Signing == SignatureGate(PublicKey, vector)
           Authority == AuthorityGate(vector, context, Signing)
           Envelope == EnvelopeGate(vector, context, moment, Authority)
           Trace == TraceGate(PublicKey, vector, Envelope)
           Token == TokenGate(vector, context, moment, Trace)
           Checkpoint == CheckpointGate(vector, context, moment, Token)
<1>1. EvaluateConformance(PublicKey, vector, context) = "BUDGET_EXHAUSTED"
  BY AbsentAssumption DEF EvaluateEnforcementV2, Has, Reasons
<1>2. Checkpoint = "BUDGET_EXHAUSTED"
  BY <1>1 DEF EvaluateConformance
<1>3. Token = "BUDGET_EXHAUSTED"
  <2> HIDE DEF Token
  <2>1. QED BY <1>2 DEF CheckpointGate
<1>4. Trace = "BUDGET_EXHAUSTED"
  <2> HIDE DEF Trace
  <2>1. QED BY <1>3 DEF TokenGate
<1>5. Envelope = "BUDGET_EXHAUSTED"
  <2> HIDE DEF Envelope
  <2>1. QED BY <1>4 DEF TraceGate
<1>6. Authority = "BUDGET_EXHAUSTED"
  <2> HIDE DEF Authority
  <2>1. QED BY <1>5 DEF EnvelopeGate
<1>7. ScopeReason(vector.action, vector.envelope.scope) # "BUDGET_EXHAUSTED"
  BY AbsentAssumption DEF ScopeReason, Uncovered, Reasons
<1>8. Signing # "BUDGET_EXHAUSTED"
  BY AbsentAssumption DEF SignatureGate, Reasons
<1> HIDE DEF Signing
<1>9. QED BY <1>6, <1>7, <1>8 DEF AuthorityGate

BudgetOver(request) ==
    /\ Has(request.carried.envelope) /\ Has(request.carried.envelope.maxActions)
    /\ policy.actionCount >= request.carried.envelope.maxActions

Spent(request) ==
    /\ HasDocuments(request)
    /\ UsedUp(request.carried.token) \/ BudgetOver(request)

\* What the sidecar said, on its way or received.
Said(request, code) ==
    \/ request.outcome = code
    \/ Has(request.answer) /\ HandleHacpResponse(request.answer) = code

\* The requests that were executed on a token, of those on its id.
UsesBy(token) == {i \in UsesOf(token.id) : requests[i].carried.token = token}

\* No token was used more often than it may be, and a budget was called
\* exhausted when a token was used up or an envelope's budget spent.
UsesOK ==
    /\ \A i \in DOMAIN requests :
          LET token == requests[i].carried.token
          IN  requests[i].fate = "executed" /\ Has(token.maxUses) =>
                  Cardinality(UsesBy(token)) <= token.maxUses
    /\ \A i \in DOMAIN requests :
          Said(requests[i], "BUDGET_EXHAUSTED") => Spent(requests[i])

\* A finite set, and the set with one element more or less.
LEMMA OneMoreOrLess ==
    ASSUME NEW uses, IsFiniteSet(uses), NEW use
    PROVE  /\ Cardinality(uses) \in Nat /\ Cardinality(uses \cup {use}) \in Nat
           /\ Cardinality(uses \cup {use}) >= Cardinality(uses)
           /\ Cardinality(uses \cup {use}) <= Cardinality(uses) + 1
           /\ use \in uses => Cardinality(uses \ {use}) = Cardinality(uses) - 1
<1>1. Cardinality(uses) \in Nat
  BY FS_CardinalityType
<1>2. Cardinality(uses \cup {use}) =
          IF use \in uses THEN Cardinality(uses) ELSE Cardinality(uses) + 1
  BY FS_AddElement
<1>3. Cardinality(uses \ {use}) =
          IF use \in uses THEN Cardinality(uses) - 1 ELSE Cardinality(uses)
  BY FS_RemoveElement
<1>4. QED BY <1>1, <1>2, <1>3

\* The requests on a token are finitely many.
LEMMA UsesAreFinite ==
    ASSUME RequestsOK, NEW token
    PROVE  /\ IsFiniteSet(UsesOf(token.id)) /\ IsFiniteSet(UsesBy(token))
           /\ Cardinality(UsesOf(token.id)) \in Nat /\ Cardinality(UsesBy(token)) \in Nat
           /\ Cardinality(UsesBy(token)) <= Cardinality(UsesOf(token.id))
<1>1. DOMAIN requests = 1 .. Len(requests) /\ Len(requests) \in Nat
  BY DEF RequestsOK
<1>2. IsFiniteSet(DOMAIN requests)
  BY <1>1, FS_Interval
<1>3. UsesOf(token.id) \subseteq DOMAIN requests /\ UsesBy(token) \subseteq UsesOf(token.id)
  BY DEF UsesOf, UsesBy
<1>4. QED BY <1>2, <1>3, FS_Subset, FS_CardinalityType

LEMMA UsesInit == ClientInit => UsesOK
BY DEF ClientInit, UsesOK

LEMMA UsesRequest ==
    ASSUME Sound, UsesOK, NEW call \in Calls, Request(call) PROVE UsesOK'
<1>1. PICK carried : requests' = Append(requests, NewRequest(call, carried))
  BY DEF Request
<1>2. UNCHANGED policy
  BY DEF Request, vars, hostVars
<1>3. PICK S : requests \in Seq(S)
  BY DEF Sound, RequestsOK
<1>4. /\ DOMAIN requests' = DOMAIN requests \cup {Len(requests) + 1}
      /\ \A i \in DOMAIN requests : requests'[i] = requests[i]
      /\ requests'[Len(requests) + 1] = NewRequest(call, carried)
  BY <1>1, <1>3, Appended
<1>5. /\ NewRequest(call, carried).fate = "sent"
      /\ ~Has(NewRequest(call, carried).answer)
      /\ NewRequest(call, carried).outcome = "waiting"
  BY DEF NewRequest, Has
<1>6. ASSUME NEW token
      PROVE  UsesOf(token.id)' = UsesOf(token.id) /\ UsesBy(token)' = UsesBy(token)
  BY <1>4, <1>5 DEF UsesOf, UsesBy
<1>7. ASSUME NEW i \in DOMAIN requests, NEW token, token = requests[i].carried.token
      PROVE  /\ requests[i].fate = "executed" /\ Has(token.maxUses) =>
                    Cardinality(UsesBy(token)') <= token.maxUses
             /\ Said(requests[i], "BUDGET_EXHAUSTED") =>
                    /\ HasDocuments(requests[i])
                    /\ UsedUp(token)' \/ BudgetOver(requests[i])
  BY <1>6, <1>7 DEF UsesOK, Spent, UsedUp
<1>8. QED
  BY <1>2, <1>4, <1>5, <1>7 DEF UsesOK, Spent, HasDocuments, BudgetOver, Said

\* A request that was not executed by this step.
LEMMA UsesSame ==
    ASSUME Sound, UsesOK, NEW i \in DOMAIN requests, NEW request, NEW fate,
           requests' = [requests EXCEPT ![i] = request],
           UNCHANGED policy,
           SameBut(request, requests[i], fate),
           fate = "executed" <=> requests[i].fate = "executed",
           \/ Said(request, "BUDGET_EXHAUSTED") => Said(requests[i], "BUDGET_EXHAUSTED")
           \/ Spent(request)
    PROVE  UsesOK'
<1>1. PICK S : requests \in Seq(S)
  BY DEF Sound, RequestsOK
<1>2. /\ DOMAIN requests' = DOMAIN requests
      /\ requests'[i] = request
      /\ \A j \in DOMAIN requests \ {i} : requests'[j] = requests[j]
  BY <1>1, Replaced
<1>3. \A j \in DOMAIN requests :
        /\ requests'[j].fate = "executed" <=> requests[j].fate = "executed"
        /\ requests'[j].carried = requests[j].carried
  BY <1>2 DEF SameBut
<1>4. ASSUME NEW token
      PROVE  UsesOf(token.id)' = UsesOf(token.id) /\ UsesBy(token)' = UsesBy(token)
  BY <1>2, <1>3 DEF UsesOf, UsesBy
<1>5. Spent(request) => Spent(requests[i])
  BY DEF SameBut, BudgetOver, Spent, HasDocuments
<1>6. \A j \in DOMAIN requests :
        Said(requests'[j], "BUDGET_EXHAUSTED") => Spent(requests[j])
  BY <1>2, <1>5 DEF UsesOK
<1>7. ASSUME NEW j \in DOMAIN requests, NEW token, token = requests[j].carried.token
      PROVE  /\ requests'[j].fate = "executed" /\ Has(token.maxUses) =>
                    Cardinality(UsesBy(token)') <= token.maxUses
             /\ Said(requests'[j], "BUDGET_EXHAUSTED") =>
                    /\ HasDocuments(requests[j])
                    /\ UsedUp(token)' \/ BudgetOver(requests[j])
  BY <1>3, <1>4, <1>6, <1>7 DEF UsesOK, Spent, UsedUp
<1>8. QED
  BY <1>2, <1>3, <1>7 DEF UsesOK, Spent, HasDocuments, BudgetOver, Said

\* A request that was executed by this step.
LEMMA UsesExecuted ==
    ASSUME Sound, UsesOK, NEW i \in DOMAIN requests, NEW request,
           requests' = [requests EXCEPT ![i] = request],
           UNCHANGED policy,
           requests[i].fate = "sent",
           SameBut(request, requests[i], "executed"),
           Has(request.carried.token), ~UsedUp(request.carried.token),
           Numeric(request.carried),
           ~Said(request, "BUDGET_EXHAUSTED"), RequestsOK'
    PROVE  UsesOK'
<1>1. PICK S : requests \in Seq(S)
  BY DEF Sound, RequestsOK
<1>2. /\ DOMAIN requests' = DOMAIN requests
      /\ requests'[i] = request
      /\ \A j \in DOMAIN requests \ {i} : requests'[j] = requests[j]
  BY <1>1, Replaced
<1>3. request.fate = "executed"
  BY DEF SameBut
<1> DEFINE used == request.carried.token
<1>4. ASSUME NEW token
      PROVE  /\ UsesOf(token.id)' = IF token.id = used.id THEN UsesOf(token.id) \cup {i}
                                    ELSE UsesOf(token.id)
             /\ UsesBy(token)' = IF token = used THEN UsesBy(token) \cup {i}
                                 ELSE UsesBy(token)
  BY <1>2, <1>3 DEF UsesOf, UsesBy
<1>5. ASSUME NEW token, UsedUp(token), token.maxUses \in Int
      PROVE  UsedUp(token)'
  <2>1. /\ Cardinality(UsesOf(token.id)) \in Nat
        /\ Cardinality(UsesOf(token.id) \cup {i}) \in Nat
        /\ Cardinality(UsesOf(token.id) \cup {i}) >= Cardinality(UsesOf(token.id))
    <3>1. IsFiniteSet(UsesOf(token.id))
      BY UsesAreFinite DEF Sound
    <3>2. QED BY <3>1, OneMoreOrLess
  <2>2. /\ Cardinality(UsesOf(token.id)') >= Cardinality(UsesOf(token.id))
        /\ Cardinality(UsesOf(token.id)') \in Nat
    <3>1. UsesOf(token.id)' = UsesOf(token.id) \/ UsesOf(token.id)' = UsesOf(token.id) \cup {i}
      BY <1>4
    <3>2. CASE UsesOf(token.id)' = UsesOf(token.id)
      BY <2>1, <3>2
    <3>3. CASE UsesOf(token.id)' = UsesOf(token.id) \cup {i}
      BY <2>1, <3>3
    <3>4. QED BY <3>1, <3>2, <3>3
  <2>3. QED BY <1>5, <2>1, <2>2 DEF UsedUp
<1>6. ASSUME NEW j \in DOMAIN requests, NEW token, token = requests'[j].carried.token,
             requests'[j].fate = "executed", Has(token.maxUses)
      PROVE  Cardinality(UsesBy(token)') <= token.maxUses
  <2>1. CASE token = used
    <3>1. token.maxUses \in Int
      BY <1>6, <2>1 DEF Numeric, Number, Has
    <3>2. /\ Cardinality(UsesOf(token.id)) \in Nat /\ Cardinality(UsesBy(token)) \in Nat
          /\ Cardinality(UsesBy(token)) <= Cardinality(UsesOf(token.id))
          /\ IsFiniteSet(UsesBy(token))
      BY UsesAreFinite DEF Sound
    <3>3. Cardinality(UsesOf(token.id)) < token.maxUses
      BY <1>6, <2>1, <3>1, <3>2 DEF UsedUp
    <3>4. /\ Cardinality(UsesBy(token) \cup {i}) <= Cardinality(UsesBy(token)) + 1
          /\ Cardinality(UsesBy(token) \cup {i}) \in Nat
      BY <3>2, OneMoreOrLess
    <3>5. UsesBy(token)' = UsesBy(token) \cup {i}
      BY <1>4, <2>1
    <3>6. QED BY <3>1, <3>2, <3>3, <3>4, <3>5
  <2>2. CASE token # used
    <3>1. j # i /\ requests'[j] = requests[j]
      BY <1>2, <1>6, <2>2
    <3>2. QED BY <1>4, <1>6, <2>2, <3>1 DEF UsesOK
  <2>3. QED BY <2>1, <2>2
<1>7. ASSUME NEW j \in DOMAIN requests, NEW token, token = requests'[j].carried.token,
             Said(requests'[j], "BUDGET_EXHAUSTED")
      PROVE  /\ HasDocuments(requests'[j])
             /\ UsedUp(token)' \/ BudgetOver(requests[j])
  <2>1. j # i /\ requests'[j] = requests[j]
    BY <1>2, <1>7
  <2>2. Spent(requests[j])
    BY <1>7, <2>1 DEF UsesOK
  <2>3. ASSUME UsedUp(token) PROVE token.maxUses \in Int
    BY <1>7, <2>1, <2>2, <2>3
       DEF Spent, HasDocuments, UsedUp, Sound, RequestsOK, Truthful, Numeric, Number, Has
  <2>4. QED BY <1>5, <1>7, <2>1, <2>2, <2>3 DEF Spent
<1>8. QED
  BY <1>2, <1>6, <1>7 DEF UsesOK, Spent, HasDocuments, BudgetOver, Said

LEMMA UsesEnd ==
    ASSUME Sound, UsesOK, Receive \/ FailConnection PROVE UsesOK'
<1> DEFINE i == Len(requests)
<1>1. PICK outcome :
        /\ requests' = [requests EXCEPT ![i] = Ended(requests[i], outcome)]
        /\ UNCHANGED policy
        /\ Waiting
        /\ \/ outcome = "UNKNOWN_ERROR"
           \/ /\ Has(requests[i].answer)
              /\ outcome = HandleHacpResponse(requests[i].answer)
  BY DEF Receive, FailConnection, End, vars, hostVars
<1>2. i \in DOMAIN requests /\ requests[i].outcome = "waiting"
  BY <1>1 DEF Sound, RequestsOK, Waiting
<1>3. Truthful(requests[i])
  BY <1>2 DEF Sound, RequestsOK
<1> DEFINE ended == Ended(requests[i], outcome)
<1>4. /\ ended.outcome = outcome /\ ~Has(ended.answer)
      /\ SameBut(ended, requests[i], requests[i].fate)
  BY <1>1, <1>2, <1>3, EndIsTruthful
<1> HIDE DEF ended
<1>5. Said(ended, "BUDGET_EXHAUSTED") => Said(requests[i], "BUDGET_EXHAUSTED")
  BY <1>1, <1>4 DEF Said
<1>6. QED BY <1>1, <1>2, <1>4, <1>5, UsesSame DEF ended

LEMMA UsesInterfere ==
    ASSUME Sound, UsesOK, NEW i \in DOMAIN requests, Interfere(i) PROVE UsesOK'
<1> DEFINE Answer(decision) == [decision |-> decision, reason |-> Absent]
<1>1. PICK decision \in {Absent, "STRANGE"} :
        requests' = [requests EXCEPT
            ![i] = [requests[i] EXCEPT !.answer = Answer(decision)]]
  BY DEF Interfere
<1>2. requests[i].outcome = "waiting" /\ UNCHANGED policy
  BY DEF Interfere, vars, hostVars
<1>3. Truthful(requests[i])
  BY DEF Sound, RequestsOK
<1> DEFINE answer == Answer(decision)
           interfered == [requests[i] EXCEPT !.answer = answer]
<1>4. /\ interfered.outcome = requests[i].outcome /\ interfered.answer = answer
      /\ SameBut(interfered, requests[i], requests[i].fate)
  BY <1>2, <1>3, InterferedIsTruthful
<1>5. HandleHacpResponse(answer) # "BUDGET_EXHAUSTED"
  BY DEF HandleHacpResponse, Has
<1>6. requests' = [requests EXCEPT ![i] = interfered]
  BY <1>1
<1> HIDE DEF interfered, answer
<1>7. ~Said(interfered, "BUDGET_EXHAUSTED")
  BY <1>2, <1>4, <1>5 DEF Said
<1>8. QED BY <1>2, <1>4, <1>6, <1>7, UsesSame

\* The sidecar says that a budget is exhausted only if it is.
LEMMA SidecarExhausted ==
    ASSUME NEW request,
           SidecarReason(request.call.http, request.carried.envelope,
                         request.carried.token) = "BUDGET_EXHAUSTED"
    PROVE  Spent(request)
<1> DEFINE envelope == request.carried.envelope
           vector == [malformed |-> FALSE, envelope |-> envelope,
                      token |-> request.carried.token,
                      action |-> HttpAction(request.call.http, envelope.scope),
                      checkpointState |-> Absent, checkpoint |-> Absent,
                      omitted |-> FALSE, event |-> Absent, prior |-> Absent,
                      target |-> request.call.http.path]
           reason == EvaluateEnforcementV2(PublicKey, vector, policy)
<1>0. HasDocuments(request)
  BY DEF SidecarReason, HasDocuments
<1>1. \/ reason = "BUDGET_EXHAUSTED"
      \/ UsedUp(request.carried.token)
  BY DEF SidecarReason
<1>2. reason = "BUDGET_EXHAUSTED" => Exhausted(vector, policy)
  <2> HIDE DEF vector
  <2>1. QED BY ExhaustedReason
<1>3. Exhausted(vector, policy) => BudgetOver(request)
  BY <1>0 DEF Exhausted, BudgetOver, HasDocuments
<1> HIDE DEF vector
<1>4. QED BY <1>0, <1>1, <1>2, <1>3 DEF Spent

\* It allows only what a token is left for.
LEMMA SidecarAllows ==
    ASSUME NEW request,
           ~Has(SidecarReason(request.call.http, request.carried.envelope,
                              request.carried.token))
    PROVE  HasDocuments(request) /\ ~UsedUp(request.carried.token)
<1>1. HasDocuments(request)
  BY AllowedHasDocuments DEF HasDocuments
<1>2. QED
  BY <1>1, AbsentAssumption DEF SidecarReason, HasDocuments, Has, Reasons

LEMMA UsesJudge ==
    ASSUME Sound, UsesOK, NEW i \in DOMAIN requests, Judge(i) PROVE UsesOK'
<1> DEFINE carried == requests[i].carried
           reason  == SidecarReason(requests[i].call.http, carried.envelope, carried.token)
           judged  == Judged(requests[i], reason)
           fate    == IF Has(reason) THEN "refused" ELSE "executed"
<1>1. /\ requests[i].fate = "sent"
      /\ requests' = [requests EXCEPT ![i] = judged]
      /\ UNCHANGED policy
  BY DEF Judge, vars, hostVars
<1>2. Truthful(requests[i])
  BY DEF Sound, RequestsOK
<1>3. /\ ~Has(reason) => HasDocuments(requests[i]) /\ ~UsedUp(carried.token)
      /\ reason = "BUDGET_EXHAUSTED" => Spent(requests[i])
  BY SidecarAllows, SidecarExhausted
<1>4. RequestsOK'
  BY JudgeKeepsSound DEF Sound
<1> HIDE DEF reason
<1>5. /\ judged.outcome = requests[i].outcome
      /\ judged.answer \in {requests[i].answer,
                            [decision |-> DecisionFor(reason), reason |-> reason]}
      /\ SameBut(judged, requests[i], fate)
  BY <1>1, <1>2, <1>3, JudgedIsTruthful
<1> HIDE DEF judged
<1>6. ~Said(requests[i], "BUDGET_EXHAUSTED")
  BY <1>1, <1>2 DEF Truthful, Said, Definite, ReasonCodes
<1>7. Said(judged, "BUDGET_EXHAUSTED") => reason = "BUDGET_EXHAUSTED"
  BY <1>5, <1>6, AbsentAssumption
     DEF Said, HandleHacpResponse, DecisionFor, ParseReasonCode, ReasonCodes, Has, Reasons
<1>8. CASE Has(reason)
  <2>1. \/ ~Said(judged, "BUDGET_EXHAUSTED")
        \/ Spent(judged)
    BY <1>3, <1>5, <1>7 DEF Spent, HasDocuments, BudgetOver, SameBut
  <2>2. fate = "refused"
    BY <1>8
  <2>3. QED BY <1>1, <1>5, <2>1, <2>2, UsesSame
<1>9. CASE ~Has(reason)
  <2>1. reason # "BUDGET_EXHAUSTED"
    BY <1>9, AbsentAssumption DEF Has, Reasons
  <2>2. /\ Has(judged.carried.token) /\ ~UsedUp(judged.carried.token)
        /\ Numeric(judged.carried)
    BY <1>2, <1>3, <1>5, <1>9 DEF SameBut, HasDocuments, Truthful
  <2>3. SameBut(judged, requests[i], "executed")
    BY <1>5, <1>9
  <2>4. QED BY <1>1, <1>4, <1>7, <2>1, <2>2, <2>3, UsesExecuted
<1>10. QED BY <1>8, <1>9

LEMMA UsesExchange ==
    ASSUME Sound, UsesOK, TypeOK, Exchange PROVE UsesOK'
<1>1. UNCHANGED requests
  BY DEF Exchange, clientVars
<1>2. /\ policy'.actionCount \in Int /\ policy.actionCount \in Int
      /\ policy'.actionCount >= policy.actionCount
  BY PolicyMovesOn DEF Exchange, IsLater
<1>3. ASSUME NEW i \in DOMAIN requests, BudgetOver(requests[i])
      PROVE  BudgetOver(requests[i])'
  <2>1. requests[i].carried.envelope.maxActions \in Int
    BY <1>3 DEF BudgetOver, Sound, RequestsOK, Truthful, Numeric, Number, Has
  <2>2. QED BY <1>1, <1>2, <1>3, <2>1 DEF BudgetOver
<1>4. QED BY <1>1, <1>3 DEF UsesOK, Spent, HasDocuments, Said, UsedUp, UsesOf, UsesBy

LEMMA UsesStep ==
    Sound /\ UsesOK /\ TypeOK /\ [ClientNext]_<<vars, clientVars>> => UsesOK'
<1> SUFFICES ASSUME Sound, UsesOK, TypeOK, [ClientNext]_<<vars, clientVars>>
             PROVE  UsesOK'
  OBVIOUS
<1>1. CASE UNCHANGED <<vars, clientVars>>
  BY <1>1 DEF vars, hostVars, clientVars, UsesOK, Spent, HasDocuments, Said, UsedUp,
              UsesOf, UsesBy, BudgetOver
<1>2. ASSUME NEW call \in Calls, Request(call) PROVE UsesOK'
  BY <1>2, UsesRequest
<1>3. CASE Receive \/ FailConnection
  BY <1>3, UsesEnd
<1>4. ASSUME NEW i \in DOMAIN requests, Judge(i) \/ Interfere(i) PROVE UsesOK'
  BY <1>4, UsesJudge, UsesInterfere
<1>5. CASE Exchange
  BY <1>5, UsesExchange
<1>6. QED BY <1>1, <1>2, <1>3, <1>4, <1>5 DEF ClientNext

\* A retry that returns leaves fewer uses than the token has to the attempts
\* that were given up, and one that finds the budget exhausted knows that so
\* many were executed, however often a token may be used and whatever is lost
\* or late (client.py 77-79).
THEOREM RetriesAreTold == ClientSpec => []RetriesTellWhatHappened
<1>1. Sound /\ UsesOK => RetriesTellWhatHappened
  <2> SUFFICES ASSUME Sound, UsesOK, NEW i \in DOMAIN requests,
                      NEW token, token = requests[i].carried.token,
                      NEW envelope, envelope = requests[i].carried.envelope
               PROVE  /\ requests[i].outcome = "returned" /\ Has(token.maxUses) =>
                            Cardinality({j \in UsesOf(token.id) \ {i} :
                                            requests[j].carried.token = token})
                                < token.maxUses
                      /\ requests[i].outcome = "BUDGET_EXHAUSTED" =>
                            \/ /\ Has(token.maxUses)
                               /\ Cardinality(UsesOf(token.id) \ {i}) >= token.maxUses
                            \/ /\ Has(envelope.maxActions)
                               /\ policy.actionCount >= envelope.maxActions
    BY DEF RetriesTellWhatHappened
  <2>1. Truthful(requests[i])
    BY DEF Sound, RequestsOK
  <2>2. ASSUME requests[i].outcome = "returned", Has(token.maxUses)
        PROVE  Cardinality({j \in UsesOf(token.id) \ {i} :
                               requests[j].carried.token = token}) < token.maxUses
    <3>1. requests[i].fate = "executed" /\ HasDocuments(requests[i])
      BY <2>1, <2>2 DEF Truthful
    <3>2. i \in UsesBy(token)
      BY <3>1 DEF UsesBy, UsesOf
    <3>3. {j \in UsesOf(token.id) \ {i} : requests[j].carried.token = token} =
              UsesBy(token) \ {i}
      BY DEF UsesBy
    <3>4. Cardinality(UsesBy(token)) <= token.maxUses
      BY <2>2, <3>1 DEF UsesOK
    <3>5. token.maxUses \in Int
      BY <2>1, <2>2, <3>1 DEF Truthful, HasDocuments, Numeric, Number, Has
    <3>6. /\ IsFiniteSet(UsesBy(token)) /\ Cardinality(UsesBy(token)) \in Nat
      BY UsesAreFinite DEF Sound
    <3>7. Cardinality(UsesBy(token) \ {i}) = Cardinality(UsesBy(token)) - 1
      BY <3>2, <3>6, OneMoreOrLess
    <3>8. Cardinality(UsesBy(token) \ {i}) < token.maxUses
      BY <3>4, <3>5, <3>6, <3>7
    <3>9. QED BY <3>3, <3>8
  <2>3. ASSUME requests[i].outcome = "BUDGET_EXHAUSTED"
        PROVE  \/ /\ Has(token.maxUses)
                  /\ Cardinality(UsesOf(token.id) \ {i}) >= token.maxUses
               \/ /\ Has(envelope.maxActions)
                  /\ policy.actionCount >= envelope.maxActions
    <3>1. Spent(requests[i])
      BY <2>3 DEF UsesOK, Said
    <3>2. requests[i].fate # "executed"
      BY <2>1, <2>3 DEF Truthful, Definite, ReasonCodes
    <3>3. UsesOf(token.id) \ {i} = UsesOf(token.id)
      BY <3>2 DEF UsesOf
    <3>4. QED BY <3>1, <3>3 DEF Spent, UsedUp, BudgetOver
  <2>4. QED BY <2>2, <2>3
<1>2. ClientSpec => []TypeOK
  BY ClientImplements, TypeCorrect, PTL
<1>3. ClientSpec => []UsesOK
  BY Soundness, <1>2, UsesInit, UsesStep, PTL DEF ClientSpec
<1>4. QED BY Soundness, <1>1, <1>3, PTL

-----------------------------------------------------------------------------
(* Where a token comes from *)

\* The requests up to one that were given a token together with a dictionary.
GivenWith(log, headers, last) ==
    {j \in 1 .. last : Has(log[j].call.token) /\ log[j].call.headers = headers}

\* The token that was given last with a dictionary, or none.
IsLastGiven(log, token, headers, last) ==
    \/ ~Has(token) /\ GivenWith(log, headers, last) = {}
    \/ \E j \in GivenWith(log, headers, last) :
          /\ \A k \in GivenWith(log, headers, last) : k <= j
          /\ token = log[j].call.token

\* A dictionary holds the token that was given last with it, and a request
\* carries what its dictionary held once it was made.
OriginOK ==
    /\ \A name \in Dictionaries :
          IsLastGiven(requests, dictionaries[name].token, name, Len(requests))
    /\ \A i \in DOMAIN requests :
          LET call == requests[i].call
              token == requests[i].carried.token
          IN  IF Has(call.headers) THEN IsLastGiven(requests, token, call.headers, i)
              ELSE token = call.token

LEMMA GivenBefore ==
    ASSUME NEW log, NEW later, NEW last \in Nat,
           \A j \in 1 .. last : later[j].call = log[j].call,
           NEW token, NEW headers
    PROVE  IsLastGiven(later, token, headers, last) <=>
               IsLastGiven(log, token, headers, last)
<1>1. GivenWith(later, headers, last) = GivenWith(log, headers, last)
  BY DEF GivenWith
<1>2. \A j \in GivenWith(log, headers, last) : later[j].call.token = log[j].call.token
  BY DEF GivenWith
<1>3. QED BY <1>1, <1>2 DEF IsLastGiven

\* One more request that was given a token with the dictionary, one that was
\* given none, and one with another dictionary.
LEMMA GivenNext ==
    ASSUME NEW log, NEW last \in Nat, NEW token, NEW headers,
           IsLastGiven(log, token, headers, last)
    PROVE  /\ log[last + 1].call.headers = headers =>
                  IsLastGiven(log, Or(log[last + 1].call.token, token), headers, last + 1)
           /\ log[last + 1].call.headers # headers =>
                  IsLastGiven(log, token, headers, last + 1)
<1> DEFINE new == log[last + 1].call
           Before == GivenWith(log, headers, last)
           After == GivenWith(log, headers, last + 1)
<1>1. 1 .. last + 1 = (1 .. last) \cup {last + 1}
  OBVIOUS
<1>2. CASE Has(new.token) /\ new.headers = headers
  <2>1. last + 1 \in After /\ \A k \in After : k <= last + 1
    BY <1>2 DEF GivenWith
  <2>2. Or(new.token, token) = new.token
    BY <1>2 DEF Or
  <2>3. QED BY <1>2, <2>1, <2>2 DEF IsLastGiven
<1>3. CASE ~(Has(new.token) /\ new.headers = headers)
  <2>1. After = Before
    BY <1>1, <1>3 DEF GivenWith
  <2>2. IsLastGiven(log, token, headers, last + 1)
    BY <2>1 DEF IsLastGiven
  <2>3. new.headers = headers => Or(new.token, token) = token
    BY <1>3 DEF Or
  <2>4. QED BY <2>2, <2>3
<1>4. QED BY <1>2, <1>3

LEMMA OriginInit == ClientInit => OriginOK
<1> SUFFICES ASSUME ClientInit PROVE OriginOK
  OBVIOUS
<1>1. DOMAIN requests = {} /\ Len(requests) = 0
  BY DEF ClientInit
<1>2. ASSUME NEW name \in Dictionaries
      PROVE  IsLastGiven(requests, dictionaries[name].token, name, 0)
  BY DEF ClientInit, NoHeaders, IsLastGiven, GivenWith, Has
<1>3. QED BY <1>1, <1>2 DEF OriginOK

LEMMA OriginSame ==
    ASSUME Sound, OriginOK, UNCHANGED dictionaries,
           NEW i \in DOMAIN requests, NEW request,
           requests' = [requests EXCEPT ![i] = request],
           request.call = requests[i].call, request.carried = requests[i].carried
    PROVE  OriginOK'
<1>1. PICK S : requests \in Seq(S)
  BY DEF Sound, RequestsOK
<1>2. /\ DOMAIN requests' = DOMAIN requests /\ Len(requests') = Len(requests)
      /\ requests'[i] = request
      /\ \A j \in DOMAIN requests \ {i} : requests'[j] = requests[j]
  BY <1>1, Replaced
<1>3. \A j \in DOMAIN requests :
        /\ requests'[j].call = requests[j].call
        /\ requests'[j].carried = requests[j].carried
  BY <1>2
<1>4. DOMAIN requests = 1 .. Len(requests) /\ Len(requests) \in Nat
  BY <1>1
<1>5. ASSUME NEW name \in Dictionaries
      PROVE  IsLastGiven(requests', dictionaries[name].token, name, Len(requests))
  BY <1>3, <1>4, GivenBefore DEF OriginOK
<1>6. ASSUME NEW j \in DOMAIN requests, Has(requests[j].call.headers)
      PROVE  IsLastGiven(requests', requests[j].carried.token, requests[j].call.headers, j)
  <2>1. j \in Nat /\ 1 .. j \subseteq DOMAIN requests
    BY <1>4
  <2>2. IsLastGiven(requests, requests[j].carried.token, requests[j].call.headers, j)
    BY <1>6 DEF OriginOK
  <2>3. \A k \in 1 .. j : requests'[k].call = requests[k].call
    BY <1>3, <2>1
  <2>4. ASSUME NEW token, NEW headers, IsLastGiven(requests, token, headers, j)
        PROVE  IsLastGiven(requests', token, headers, j)
    BY <2>1, <2>3, <2>4, GivenBefore
  <2>5. QED BY <2>2, <2>4
<1>7. QED BY <1>2, <1>3, <1>5, <1>6 DEF OriginOK

LEMMA OriginRequest ==
    ASSUME Sound, OriginOK, NEW call \in Calls, Request(call) PROVE OriginOK'
<1> DEFINE before  == HeadersBefore(call)
           carried == [envelope |-> Or(call.envelope, before.envelope),
                       token    |-> Or(call.token, before.token)]
           last    == Len(requests)
<1>1. /\ dictionaries' = [name \in Dictionaries |->
                             IF name = call.headers THEN carried ELSE dictionaries[name]]
      /\ requests' = Append(requests, NewRequest(call, carried))
  BY DEF Request
<1>2. carried.token = Or(call.token, before.token)
  OBVIOUS
<1> HIDE DEF carried
<1>3. PICK S : requests \in Seq(S)
  BY DEF Sound, RequestsOK
<1>4. /\ DOMAIN requests = 1 .. last /\ last \in Nat
      /\ Len(requests') = last + 1
      /\ DOMAIN requests' = DOMAIN requests \cup {last + 1}
      /\ \A j \in DOMAIN requests : requests'[j] = requests[j]
      /\ requests'[last + 1] = NewRequest(call, carried)
  BY <1>1, <1>3, Appended
<1>5. requests'[last + 1].call = call /\ requests'[last + 1].carried = carried
  BY <1>4 DEF NewRequest
<1> HIDE DEF last, before
<1>6. ASSUME NEW name \in Dictionaries
      PROVE  /\ name = call.headers =>
                    IsLastGiven(requests', Or(call.token, dictionaries[name].token),
                                name, last + 1)
             /\ name # call.headers =>
                    IsLastGiven(requests', dictionaries[name].token, name, last + 1)
  <2>1. IsLastGiven(requests, dictionaries[name].token, name, last)
    BY DEF OriginOK, last
  <2>2. IsLastGiven(requests', dictionaries[name].token, name, last)
    BY <1>4, <2>1, GivenBefore
  <2>3. QED BY <1>4, <1>5, <2>2, GivenNext
<1>7. ASSUME Has(call.headers)
      PROVE  /\ call.headers \in Dictionaries
             /\ before = dictionaries[call.headers]
  BY <1>7, CallAssumption DEF Has, before, HeadersBefore
<1>8. ASSUME NEW name \in Dictionaries
      PROVE  IsLastGiven(requests', dictionaries'[name].token, name, last + 1)
  <2>1. CASE name = call.headers
    <3>1. Has(call.headers)
      BY <2>1, CallAssumption DEF Has
    <3>2. dictionaries'[name].token = Or(call.token, dictionaries[name].token)
      BY <1>1, <1>2, <1>7, <2>1, <3>1
    <3>3. QED BY <1>6, <2>1, <3>2
  <2>2. CASE name # call.headers
    BY <1>1, <1>6, <2>2
  <2>3. QED BY <2>1, <2>2
<1>9. ASSUME NEW j \in DOMAIN requests
      PROVE  IF Has(requests'[j].call.headers)
             THEN IsLastGiven(requests', requests'[j].carried.token,
                              requests'[j].call.headers, j)
             ELSE requests'[j].carried.token = requests'[j].call.token
  <2>1. j \in Nat /\ 1 .. j \subseteq DOMAIN requests
    BY <1>4
  <2>2. ASSUME Has(requests[j].call.headers)
        PROVE  IsLastGiven(requests', requests[j].carried.token,
                           requests[j].call.headers, j)
    <3>1. IsLastGiven(requests, requests[j].carried.token, requests[j].call.headers, j)
      BY <2>2 DEF OriginOK
    <3>2. \A k \in 1 .. j : requests'[k].call = requests[k].call
      BY <1>4, <2>1
    <3>3. ASSUME NEW token, NEW headers, IsLastGiven(requests, token, headers, j)
          PROVE  IsLastGiven(requests', token, headers, j)
      BY <2>1, <3>2, <3>3, GivenBefore
    <3>4. QED BY <3>1, <3>3
  <2>3. QED BY <1>4, <2>2 DEF OriginOK
<1>10. IF Has(call.headers)
       THEN IsLastGiven(requests', carried.token, call.headers, last + 1)
       ELSE carried.token = call.token
  <2>1. CASE Has(call.headers)
    BY <1>2, <1>6, <1>7, <2>1
  <2>2. CASE ~Has(call.headers)
    BY <1>2, <2>2 DEF before, HeadersBefore, NoHeaders, Or, Has
  <2>3. QED BY <2>1, <2>2
<1>11. QED BY <1>4, <1>5, <1>8, <1>9, <1>10 DEF OriginOK

\* A request keeps its call and what it carries.
LEMMA RequestStays ==
    ASSUME NEW request, Truthful(request), NEW answer, NEW outcome, NEW reason
    PROVE  /\ Ended(request, outcome).call = request.call
           /\ Ended(request, outcome).carried = request.carried
           /\ [request EXCEPT !.answer = answer].call = request.call
           /\ [request EXCEPT !.answer = answer].carried = request.carried
           /\ Judged(request, reason).call = request.call
           /\ Judged(request, reason).carried = request.carried
<1>1. request = RequestOf(request.call, request.carried, request.fate, request.answer,
                          request.outcome)
  BY DEF Truthful, Record, RequestOf
<1>2. Ended(request, outcome) =
          RequestOf(request.call, request.carried, request.fate, Absent, outcome)
  BY <1>1, EndedMembers
<1>3. [request EXCEPT !.answer = answer] =
          RequestOf(request.call, request.carried, request.fate, answer, request.outcome)
  BY <1>1, InterferedMembers
<1>4. Judged(request, reason) =
          RequestOf(request.call, request.carried,
                    IF Has(reason) THEN "refused" ELSE "executed",
                    IF request.outcome = "waiting" /\ ~Has(request.answer)
                    THEN [decision |-> DecisionFor(reason), reason |-> reason]
                    ELSE request.answer,
                    request.outcome)
  BY <1>1, JudgedMembers
<1>5. ASSUME NEW fate, NEW said, NEW end, NEW after,
             after = RequestOf(request.call, request.carried, fate, said, end)
      PROVE  after.call = request.call /\ after.carried = request.carried
  BY <1>5 DEF RequestOf
<1> DEFINE interfered == [request EXCEPT !.answer = answer]
<1>6. interfered =
          RequestOf(request.call, request.carried, request.fate, answer, request.outcome)
  BY <1>3
<1> HIDE DEF interfered
<1>7. interfered.call = request.call /\ interfered.carried = request.carried
  BY <1>5, <1>6
<1>8. /\ Ended(request, outcome).call = request.call
      /\ Ended(request, outcome).carried = request.carried
  BY <1>2, <1>5
<1>9. /\ Judged(request, reason).call = request.call
      /\ Judged(request, reason).carried = request.carried
  BY <1>4, <1>5
<1>10. QED BY <1>7, <1>8, <1>9 DEF interfered

LEMMA OriginStep ==
    Sound /\ OriginOK /\ [ClientNext]_<<vars, clientVars>> => OriginOK'
<1> SUFFICES ASSUME Sound, OriginOK, [ClientNext]_<<vars, clientVars>>
             PROVE  OriginOK'
  OBVIOUS
<1>1. CASE UNCHANGED clientVars
  BY <1>1 DEF clientVars, OriginOK
<1>2. ASSUME NEW call \in Calls, Request(call) PROVE OriginOK'
  BY <1>2, OriginRequest
<1>3. \A i \in DOMAIN requests : Truthful(requests[i])
  BY DEF Sound, RequestsOK
<1>4. CASE Receive \/ FailConnection
  <2> DEFINE i == Len(requests)
  <2>1. PICK outcome : /\ requests' = [requests EXCEPT ![i] = Ended(requests[i], outcome)]
                       /\ UNCHANGED dictionaries
    BY <1>4 DEF Receive, FailConnection, End
  <2>2. i \in DOMAIN requests
    BY <1>4 DEF Receive, FailConnection, Waiting, Sound, RequestsOK
  <2>3. QED BY <1>3, <2>1, <2>2, RequestStays, OriginSame
<1>5. ASSUME NEW i \in DOMAIN requests, Judge(i) PROVE OriginOK'
  <2>1. PICK reason : /\ requests' = [requests EXCEPT ![i] = Judged(requests[i], reason)]
                      /\ UNCHANGED dictionaries
    BY <1>5 DEF Judge
  <2>2. QED BY <1>3, <2>1, RequestStays, OriginSame
<1>6. ASSUME NEW i \in DOMAIN requests, Interfere(i) PROVE OriginOK'
  <2>1. PICK answer :
            /\ requests' = [requests EXCEPT ![i] = [requests[i] EXCEPT !.answer = answer]]
            /\ UNCHANGED dictionaries
    BY <1>6 DEF Interfere
  <2>2. QED BY <1>3, <2>1, RequestStays, OriginSame
<1>7. QED BY <1>1, <1>2, <1>4, <1>5, <1>6 DEF ClientNext, Exchange

\* A request is executed on the token that it was given, or that was given
\* last with its dictionary (client.py 55-67), for every number of calls and
\* dictionaries.
THEOREM TokensComeFromTheirCaller == ClientSpec => []TokensAreSpentWhereGiven
<1>1. Sound /\ OriginOK => TokensAreSpentWhereGiven
  <2> SUFFICES ASSUME Sound, OriginOK, NEW i \in DOMAIN requests,
                      requests[i].fate = "executed"
               PROVE  LET call  == requests[i].call
                          Given == {j \in 1 .. i :
                                      /\ Has(requests[j].call.token)
                                      /\ j = i \/ requests[j].call.headers = call.headers}
                      IN  \E j \in Given :
                              /\ \A k \in Given : k <= j
                              /\ j = i \/ Has(call.headers)
                              /\ requests[i].carried.token = requests[j].call.token
    BY DEF TokensAreSpentWhereGiven
  <2> DEFINE call  == requests[i].call
             Given == {j \in 1 .. i :
                         /\ Has(requests[j].call.token)
                         /\ j = i \/ requests[j].call.headers = call.headers}
  <2>1. Has(requests[i].carried.token)
    BY DEF Sound, RequestsOK, Truthful, HasDocuments
  <2>2. i \in Nat /\ i \in 1 .. i
    BY DEF Sound, RequestsOK
  <2>3. Given = GivenWith(requests, call.headers, i)
    BY DEF GivenWith
  <2>4. CASE Has(call.headers)
    <3>1. IsLastGiven(requests, requests[i].carried.token, call.headers, i)
      BY <2>4 DEF OriginOK
    <3>2. PICK j \in GivenWith(requests, call.headers, i) :
              /\ \A k \in GivenWith(requests, call.headers, i) : k <= j
              /\ requests[i].carried.token = requests[j].call.token
      BY <2>1, <3>1 DEF IsLastGiven
    <3>3. QED BY <2>3, <2>4, <3>2
  <2>5. CASE ~Has(call.headers)
    <3>1. requests[i].carried.token = call.token
      BY <2>5 DEF OriginOK
    <3>2. i \in Given /\ \A k \in Given : k <= i
      BY <2>1, <2>2, <3>1
    <3>3. QED BY <3>1, <3>2
  <2>6. QED BY <2>4, <2>5
<1>2. ClientSpec => []OriginOK
  BY Soundness, OriginInit, OriginStep, PTL DEF ClientSpec
<1>3. QED BY Soundness, <1>1, <1>2, PTL
=============================================================================
