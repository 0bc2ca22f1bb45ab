--------------------------- MODULE SidecarClient ----------------------------
(***************************************************************************)
(* SidecarClient (humanist_core/hacp/client.py) presents the documents of  *)
(* HacpExchange to a sidecar, over a network that loses, delays and        *)
(* garbles.  The client waits for one answer at a time; what it has given  *)
(* up waiting for may still arrive and be executed.  The sidecar is        *)
(* external: it judges by ConformanceRules, with the host's policy of the  *)
(* moment, forwards what it allows, and lets a token be used max_uses      *)
(* times, or without a limit if the token has none (docs/Integration with  *)
(* HACP Sidecar.md 984-1011).                                              *)
(*                                                                         *)
(*   call    [http, envelope, token, headers]                              *)
(*   request [call, carried, fate, answer, outcome]                        *)
(*                                                                         *)
(* A request is "sent", on its way or lost, until the sidecar has executed *)
(* or refused it, whatever its client has heard or concluded before.       *)
(* A call's headers name a dictionary of the caller's, or are Absent; a    *)
(* dictionary holds an envelope and a token.  The headers of the policy    *)
(* context and the tool name, from which the sidecar's judgement is not    *)
(* known, are left out.                                                    *)
(***************************************************************************)
EXTENDS HacpExchange

CONSTANTS
    Dictionaries,       \* the caller's own dictionaries of headers
    Calls,              \* the arguments of request()
    MaxRequests         \* bound: requests

VARIABLES
    dictionaries,       \* the HACP headers in each of Dictionaries
    requests            \* in order of request()

clientVars == <<dictionaries, requests>>

NoHeaders == [envelope |-> Absent, token |-> Absent]

\* A caller may present anything, also a string that is no document; the
\* sidecar has a reason of its own, INVALID_ENVELOPE.
ASSUME CallAssumption ==
    /\ Absent \notin Dictionaries \cup {"INVALID_ENVELOPE"}
    /\ \A call \in Calls :
           /\ call.headers \in Dictionaries \cup {Absent}
           /\ Has(call.envelope) => call.envelope.maxActions \in Number
           /\ Has(call.token) => call.token.maxUses \in Number

-----------------------------------------------------------------------------
(* Answers and exceptions *)

\* REASON_CODE_MAP
ReasonCodes ==
    {"INVALID_ENVELOPE", "SIGNATURE_FAILURE", "KEY_REVOKED", "ENVELOPE_REVOKED",
     "TOKEN_REVOKED", "ENVELOPE_EXPIRED", "TOKEN_EXPIRED", "SCOPE_EXCEEDED",
     "BOUNDARY_CROSSING", "BUDGET_EXHAUSTED", "TRACEABILITY_FAILURE",
     "CHECKPOINT_REQUIRED", "REAUTHORIZE_REQUIRED"}

Mutant_AnyCode(code) == code

ParseReasonCode(code) == IF code \in ReasonCodes THEN code ELSE "UNKNOWN_ERROR"

Mutant_NoDecisionReturns(answer) ==
    IF answer.decision \in {"ALLOW", Absent} THEN "returned"
    ELSE IF answer.decision = "CHECKPOINT" THEN "CHECKPOINT_REQUIRED"
    ELSE IF answer.decision = "DENY" THEN ParseReasonCode(answer.reason)
    ELSE "UNKNOWN_ERROR"

\* How request() ends on an answer: it returns, or raises with this code.
HandleHacpResponse(answer) ==
    IF ~Has(answer.decision) THEN "TRACEABILITY_FAILURE"
    ELSE IF answer.decision = "ALLOW" THEN "returned"
    ELSE IF answer.decision = "CHECKPOINT" THEN "CHECKPOINT_REQUIRED"
    ELSE IF answer.decision = "DENY" THEN ParseReasonCode(answer.reason)
    ELSE "UNKNOWN_ERROR"

-----------------------------------------------------------------------------
(* The client *)

ClientInit ==
    /\ Init
    /\ dictionaries = [name \in Dictionaries |-> NoHeaders]
    /\ requests = << >>

Waiting ==
    /\ requests # << >>
    /\ requests[Len(requests)].outcome = "waiting"

NewRequest(call, carried) ==
    [call |-> call, carried |-> carried, fate |-> "sent", answer |-> Absent,
     outcome |-> "waiting"]

\* Calls without a dictionary share one: a default argument made only once.
Mutant_SharedDefault(call) ==
    IF Has(call.headers) THEN dictionaries[call.headers]
    ELSE IF requests = << >> THEN NoHeaders
    ELSE requests[Len(requests)].carried

HeadersBefore(call) ==
    IF Has(call.headers) THEN dictionaries[call.headers] ELSE NoHeaders

\* Only what the call has overwrites a header; the dictionary is the caller's.
Request(call) ==
    LET before  == HeadersBefore(call)
        carried == [envelope |-> Or(call.envelope, before.envelope),
                    token    |-> Or(call.token, before.token)]
    IN  /\ ~Waiting
        /\ Len(requests) < MaxRequests
        /\ dictionaries' = [name \in Dictionaries |->
                              IF name = call.headers THEN carried
                              ELSE dictionaries[name]]
        /\ requests' = Append(requests, NewRequest(call, carried))
        /\ UNCHANGED vars

\* The client stops waiting: an answer is used up, a request goes its way.
Ended(request, outcome) ==
    [request EXCEPT !.outcome = outcome, !.answer = Absent]

End(outcome) ==
    /\ requests' = [requests EXCEPT ![Len(requests)] = Ended(@, outcome)]
    /\ UNCHANGED <<vars, dictionaries>>

Receive ==
    /\ Waiting
    /\ Has(requests[Len(requests)].answer)
    /\ End(HandleHacpResponse(requests[Len(requests)].answer))

\* The client sends the request once more before it gives up.
Mutant_SendsAgain ==
    /\ Waiting
    /\ \/ End("UNKNOWN_ERROR")
       \/ /\ requests' = [requests EXCEPT ![Len(requests)].fate = "sent"]
          /\ UNCHANGED <<vars, dictionaries>>

\* httpx.HTTPError: the timeout of 5 seconds, or a connection that broke.
FailConnection ==
    /\ Waiting
    /\ End("UNKNOWN_ERROR")

-----------------------------------------------------------------------------
(* The network and the sidecar.  A request that is lost stays "sent", and the *)
(* client never learns of an answer that is lost: its connection fails.       *)

\* The requests that the sidecar forwarded on one token id.
UsesOf(tokenId) ==
    {i \in DOMAIN requests : /\ requests[i].fate = "executed"
                             /\ requests[i].carried.token.id = tokenId}

UsedUp(token) ==
    Has(token.maxUses) /\ Cardinality(UsesOf(token.id)) >= token.maxUses

\* The sidecar's reason not to forward, or Absent.  Its name for a token of
\* another action is not the evaluators' (the same document, 430-470).
SidecarReason(http, envelope, token) ==
    IF ~Has(envelope) \/ ~Has(token) THEN "INVALID_ENVELOPE"
    ELSE IF ~IsDerivable(http, envelope.scope) THEN "UNKNOWN_ATTRIBUTE"
    ELSE LET vector == [malformed |-> FALSE, envelope |-> envelope, token |-> token,
                        action |-> HttpAction(http, envelope.scope),
                        checkpointState |-> Absent, checkpoint |-> Absent,
                        omitted |-> FALSE, event |-> Absent, prior |-> Absent,
                        target |-> http.path]
             reason == EvaluateEnforcementV2(PublicKey, vector, policy)
         IN  IF reason = "HASH_MISMATCH" THEN "SIGNATURE_FAILURE"
             ELSE IF ~Has(reason) /\ UsedUp(token) THEN "BUDGET_EXHAUSTED"
             ELSE reason

\* The sidecar answers, after it forwarded the request if it allows it.  Its
\* answer reaches nobody if the client has given up, or has another answer.
Judged(request, reason) ==
    [request EXCEPT
        !.fate = IF Has(reason) THEN "refused" ELSE "executed",
        !.answer = IF request.outcome = "waiting" /\ ~Has(@)
                   THEN [decision |-> DecisionFor(reason), reason |-> reason]
                   ELSE @]

Judge(i) ==
    LET carried == requests[i].carried
        reason  == SidecarReason(requests[i].call.http, carried.envelope, carried.token)
    IN  /\ requests[i].fate = "sent"
        /\ requests' = [requests EXCEPT ![i] = Judged(@, reason)]
        /\ UNCHANGED <<vars, dictionaries>>

\* What is not the sidecar answers, while the request may still go its way, or
\* spoils the sidecar's answer.
Interfere(i) ==
    /\ requests[i].outcome = "waiting"
    /\ \E decision \in {Absent, "STRANGE"} :
          requests' = [requests EXCEPT
              ![i].answer = [decision |-> decision, reason |-> Absent]]
    /\ UNCHANGED <<vars, dictionaries>>

\* The builders and the host, at any moment.
Exchange == Next /\ UNCHANGED clientVars

ClientNext ==
    \/ \E call \in Calls : Request(call)
    \/ Receive
    \/ FailConnection
    \/ \E i \in DOMAIN requests : Judge(i) \/ Interfere(i)
    \/ Exchange

ClientSpec == ClientInit /\ [][ClientNext]_<<vars, clientVars>>

-----------------------------------------------------------------------------
(* Properties *)

Errors == ReasonCodes \cup {"UNKNOWN_ERROR"}

ClientTypeOK ==
    /\ DOMAIN dictionaries = Dictionaries
    /\ \A name \in Dictionaries : DOMAIN dictionaries[name] = DOMAIN NoHeaders
    /\ DOMAIN requests = 1 .. Len(requests)
    /\ \A i \in DOMAIN requests :
          /\ requests[i].call \in Calls
          /\ DOMAIN requests[i].carried = DOMAIN NoHeaders
          /\ requests[i].fate \in {"sent", "executed", "refused"}
          /\ Has(requests[i].answer) => requests[i].outcome = "waiting"
          /\ requests[i].outcome \in {"waiting", "returned"} \cup Errors
          /\ requests[i].outcome = "waiting" => i = Len(requests)

\* request() returns only if the sidecar allowed this very request and
\* forwarded it, with both documents; whatever is missing, strange, lost or
\* late makes it raise (client.py 75-110).
FailsClosed ==
    \A i \in DOMAIN requests :
        requests[i].outcome = "returned" =>
            /\ requests[i].fate = "executed"
            /\ Has(requests[i].carried.envelope) /\ Has(requests[i].carried.token)

\* An exception with a reason of the protocol means that the request was not
\* and will not be executed.  Two exceptions do not say so: UNKNOWN_ERROR, and
\* TRACEABILITY_FAILURE, which also stands for an answer without a decision
\* (client.py 77-110, exceptions.py 82-102).
DefiniteErrorsAreDenials ==
    \A i \in DOMAIN requests :
        requests[i].outcome \in ReasonCodes \ {"TRACEABILITY_FAILURE"} =>
            requests[i].fate = "refused"

\* A request is executed on the token it was given; without one, on the last
\* that was given with its dictionary, and without a dictionary on none
\* (client.py 55-67).
TokensAreSpentWhereGiven ==
    \A i \in DOMAIN requests :
      LET call  == requests[i].call
          Given == {j \in 1 .. i : /\ Has(requests[j].call.token)
                                   /\ j = i \/ requests[j].call.headers = call.headers}
      IN  requests[i].fate = "executed" =>
            \E j \in Given :
                /\ \A k \in Given : k <= j
                /\ j = i \/ Has(call.headers)
                /\ requests[i].carried.token = requests[j].call.token

\* A caller that tries again with the same token learns what became of the
\* attempts it gave up.  If one returns, fewer others than the token has uses
\* were or will ever be executed on it: none, if it has one use.  If the budget
\* is exhausted while the envelope's is not, as many others as the token has
\* uses were executed on its id (client.py 77-79).
RetriesTellWhatHappened ==
    \A i \in DOMAIN requests :
        LET token  == requests[i].carried.token
            Others == UsesOf(token.id) \ {i}
            envelope == requests[i].carried.envelope
        IN  /\ requests[i].outcome = "returned" /\ Has(token.maxUses) =>
                  Cardinality({j \in Others : requests[j].carried.token = token})
                      < token.maxUses
            /\ requests[i].outcome = "BUDGET_EXHAUSTED" =>
                  \/ Has(token.maxUses) /\ Cardinality(Others) >= token.maxUses
                  \/ Has(envelope.maxActions) /\ policy.actionCount >= envelope.maxActions
=============================================================================
