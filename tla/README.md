# A verification project for humanist-core

TLA+ models of the Python package `humanist_core`, the TLC runs that check
them on small instances, and TLAPS proofs of what matters most for every
instance.  Everything is translated from the code at this commit; file and
line numbers below are relative to the repository (`authority.py` is
`humanist_core/authority.py`, and so on).

- [1. The system](#1-the-system)
- [2. Modules](#2-modules-and-how-they-correspond-to-the-code)
- [3. Runs](#3-runs)
- [4. Proofs](#4-proofs)
- [5. Divergences found](#5-where-the-code-and-its-documents-disagree)
- [6. Assumptions and limits](#6-assumptions-and-limits)
- [7. Plan](#7-plan)

## 1. The system

humanist-core keeps a human's authority over an autonomous agent: a human
grants a bounded intent, every action the agent proposes is judged against
it, and crossing a meaningful boundary needs the human again.

| Component | State it keeps | Operations | Correct if |
|---|---|---|---|
| **Authority core** `authority.py` | the kernel's list of decision tokens; immutable envelopes held by callers | `authorize_intent`, `issue_decision_token`, `evaluate` | authority grows only by a human's grant or approval, no further than what was granted, and what is temporary ends |
| **Boundary detection** `boundary.py` | an `AutonomyBudget`: units consumed, list of actions | `SemanticDeltaGuard.compare`, `RiskEngine.evaluate`, `can_act`/`consume`/`reset` | the budget is never overdrawn and its total is what its actions cost |
| **Provenance graph** `provenance.py` | insertion-ordered events, a children index | `new_event`, `append`, `verify_all`, `ancestors`, `explain`, `find_root` | the graph stays causal, queries are exact, verification reports exactly what is not this graph's |
| **HumanistCallback** `integrations/langchain_v2.py` | a kernel, a budget, a graph, the last semantic action, the last tool event | `on_tool_start`, `on_tool_end`, `on_agent_finish`, `on_chain_start` | a tool runs only with authority and inside the budget, crossing a boundary needs renewed authority, and every event explains itself |
| **Safe harbor ledger** `safe_harbor.py` | a file of hash-chained records, `last_hash` in memory | constructor, `log_intent`, `verify_integrity` | the chain verifies unless it was altered, and a logged intent can be read back |
| **Loop breaker** `loop_breaker.py`, `integrations/langchain_guard.py` | hops, start times and pending outputs per session; a similarity window | `on_chain_start`, `on_tool_end`, `on_llm_end`, `intercept_human_input` | a chain's tools are bounded, no approval passes faster than a human could give it, and nothing is stopped for no reason |
| **HACP SDK builders** `hacp/builders.py`, `models.py`, `crypto.py` | half-built envelopes and tokens | setters, `build_unsigned`, `canonicalize`, `sign` | what is signed is what was asked for, and stays usable by exactly that |
| **HACP sidecar client** `hacp/client.py`, `exceptions.py` | an HTTP session; the headers in the caller's dictionaries | `SidecarClient.request` | how a request ends never says more than what the sidecar did with it, and a token travels no further than the dictionary of headers it was given with |
| **HACP command line** `hacp/cli.py` | files | `envelope create`, `token create`, `request` | its documents are what the builders would sign |
| **Conformance evaluators** `hacp/conformance.py`, `conformance_enforcement_v2.py` | none | `evaluate_conformance_vector`, `evaluate_enforcement_v2_vector` | the gates allow only what was signed, deny for good, and revision 2 only tightens revision 1 |
| **Evaluation** `evaluation/` | none | metrics and benchmark reports | statistics only |

How they interact: the callback owns a kernel, a budget and a graph and calls
them in the order evaluate, record, charge, compare, decide; the agent runner
(LangChain, external) calls the callback before and after each tool, and runs
the tool only if the call returned.  The host may call
`callback.kernel.issue_decision_token` and `callback.budget.reset()`, which is
how a human checkpoint ends.  The loop breaker holds a ledger but never calls
it, and is given its handlers by the agent runner as well.  In the SDK an
`EnvelopeBuilder` makes and signs an envelope, a `TokenBuilder` reads that
envelope's scope, id, key and expiry and makes a token for one action, and the
evaluators judge both, with the host's policy context, by themselves.  A
`SidecarClient` sends both, as headers of a request, to a Go sidecar that is not
in this repository; it judges them, forwards what it allows, and names its
decision in a header of the answer.

What is hard about it:

- **time**: expiry of envelopes and tokens, a context that has no clock,
  wall-clock ordering of events whose times may be equal;
- **order**: approvals accumulate in a list and the first that covers decides;
  events are built and appended in separate calls;
- **partial failure**: `on_tool_start` has four exceptional exits, each after
  some of its effects;
- **overlap**: tools run at the same time, and the callback has one slot;
  started from several threads, `on_tool_start` races with itself, and so do the
  loop breaker's handlers when tools return together; chains nest, and the guard
  keeps one counter for a chain and those directly below it;
- **reuse**: a builder remembers the ids and times it chose when it first built,
  and a dictionary of headers the documents it was last used with;
- **a lossy network**: a request that its client gave up may still be executed,
  and the caller tries again, with a token that may be good for several uses;
- **crashes and several writers**: the ledger keeps the end of its chain in
  memory and in a file, and nothing locks either.

The hazards, each at its line and with the properties that watch it, are in
`PROJECT.json`.

## 2. Modules, and how they correspond to the code

```
AuthorityRules   BoundaryRules   ProvenanceRules   ConformanceRules   (pure)
   |     \             |            /      |              |
   |      \            |           /       |              |
Authority  +---- HumanistCallback      Provenance    HacpExchange
   |                   |                                  |
BoundedAuthority  ThreadedCallback                   SidecarClient
(INSTANCE, abstract)                        SafeHarbor    LoopGuard
```

**AuthorityRules** holds `ScopeGuard.evaluate`, `DecisionToken.covers`/`is_valid`,
`IntentEnvelope.is_expired` and the order in which `AgencyKernel.evaluate`
consults them.  An empty string and Python's `None` are both the constant
`None`: a dimension the caller left unstated.  **Authority** is the kernel
over time: `AuthorizeIntent` and `IssueDecisionToken` are the two operations
that create something, `Tick` is `time.time()`.  `evaluate` changes nothing and
is therefore the state function `Decision`, which the properties quantify
over every envelope and action at every moment.  A `ttl` of 0 is falsy and
gives no expiry (`ExpiryFor`).

**BoundedAuthority** is what the core promises, without tokens or clocks:
a set of authorized (envelope, action) pairs that a human's `Grant` extends
under one envelope, a human's `Approve` extends for one actor and one
operation, and time's `Lapse` only shrinks.  `Authority` implements it under
the mapping `granted <- envelopes, authorized <- AuthorizedPairs`.

**ProvenanceRules** holds events, signing, `append`'s checks, verification and
the graph walks; the depth-first loop of `ancestors` is a recursive function
whose steps are the turns of the loop, and `sorted` is a stable sort by
timestamp.  **Provenance** is a graph and its callers: `NewEvent` builds an
event (by this graph or by another with a different key or policy),
`AppendEvent` tries any built event at any time, `Alter` is tampering with the
stored dictionary as `tests/test_provenance.py` does.  The parents of an event
are a list that may name one parent twice, as nothing in `new_event` and `append`
forbids; then the children index names the event twice as well
(`ChildrenAfter`).  The clock moves by a
member of `ClockSteps` between two `new_event`s; 0 is one of them, so that two
events may have one timestamp, as two calls of `time.time()` may.

**BoundaryRules** holds the semantic delta, its classification and the cost of
an operation.  **HumanistCallback** composes the three rule modules.
`on_tool_start` is four actions, one per way it ends: `StartExhausted`,
`StartCrossing`, `StartRefused`, `StartAdmitted`; each contains everything the
code did by then (`StartCall` is the part all share; `Consume` the charge).
The variable `calls` is the runner's list of calls: a call is `running` after
`StartAdmitted` and `done` after `OnToolEnd`, and several may be running.
A refused call is charged, recorded, and moves the baseline, exactly as in the
code, where the decision is looked at last.  Every event has the time at which its
handler ran, so that events of one clock tick have one timestamp.

**ThreadedCallback** is the same callback when the runner starts tools from
several threads.  Nothing in `langchain_v2.py` or `boundary.py` locks, so
`on_tool_start` is one action per access to state that threads share:
`Enter` (decide and record), `PublishCall` (the slot of the last tool call),
`PassBudget` or `StopExhausted` (`can_act`), `LoadConsumed` and `StoreConsumed`
(the two halves of `+=`), `LogAction`, `PassBoundary` or `StopCrossing` (the
comparison with the baseline) and `Settle` (the new baseline, then the decision
taken on entry).  A frame holds a thread's locals.  The other handlers, the
human, a reset and the clock come in between, as the actions of
`HumanistCallback`.  `overlapped` is a history variable that no action reads.
What the single-threaded module promises is not refined step by step, because
results and approvals may be recorded between the steps of one start;
`SerialStartsAreExact` states the promise itself.

**SafeHarbor** is the ledger: `OpenLedger` is the constructor, and `log_intent`
is `BuildRecord`, `HashRecord` (`last_hash` is read twice), `WriteRecord` or
`WriteTorn`, and `Return`.  The file is a sequence of lines and a line a
sequence of the pieces written between two newlines, so that a torn write
without a newline swallows the next record as it does on disk.  `Exit` ends a
process between any two steps of its threads; `Alter` edits a record as
`tests/test_safe_harbor.py` does.  `exclusive` and `torn` are history
variables: they record whether the environment kept to one writer at a time
and whether a write was torn, and no action reads `exclusive`.

**LoopGuard** is `AgencyGuardCallback` with the two rules of `AgencyGuardV2`
that can stop something, and the runner that calls it from several threads.
Nothing in `langchain_guard.py` locks, so a handler takes one step per access to
the dictionaries that chains share: `OnToolEnd` reads the count of a tool that
returned, `StoreHops` stores it, `StorePending` keeps the output, and `CheckHops`
reads the count once more and compares it; `OnLlmEnd` reads the pending output of
a text that asks for approval, and `PlanAccepted` or `PlanBlocked` reads the start
time and judges the text, unless the analyzer failed and it passes unchecked
(`PlanUnchecked`).  `OnChainStart` is one step.  `ToolStart` and `ToolError` are
the runner's own steps, for which the guard has no handler: a tool that fails is
counted by nobody.  A session is `parent_run_id or run_id` (`SessionOf`), so a
nested chain resets its parent's counter and start time, but has a counter and
perhaps no start time of its own.  A text is the number of its words, and reading
time is counted in fifths of a second, which makes the code's 0.6 and 1 second per
word and 10 seconds of deciding integers.  `outputs`, `verdicts` and `overlapped`
are history variables.

**ConformanceRules** holds the two evaluators as functions of the documents.
Each gate takes what the gates after it say as its last argument, `otherwise`,
and gives a reason code, or `Absent` for none; `EvaluateConformance` nests them
in the code's order, and the decision follows from the reason (`DecisionFor`).
`Absent` also stands for a member that a wire object lacks or that has not the
type the code asks for, except where the code tells the two apart: a checkpoint's
timeout falls back to the host's if the member is missing, and is not checked at
all if it is `IllTyped`.  A signature is the key with what was signed, a digest
is what was digested.  Request targets are sequences of characters, because
`NormalizeRequestTarget` is about characters.
**HacpExchange** is a life of such documents.  `SetEnvelope` and `SetToken` are
the builders' setters; `BuildEnvelope`, `SignEnvelope`, `BuildToken`,
`SignToken` complete a builder with the ids, key and times it lacks, and leave
them in it, so that a builder that is used again gives its next document the
same id.  `RenewEnvelopeBuilder` and `RenewTokenBuilder` are constructor calls.  Of a
token's constraints the model has the path and `max_uses`.
`policy` is the host's `policy_context`: `Tick`, `RevokeSome` and `CountAction`
are what a host does to it.  `now` is the real time; the policy's clock is `now`,
or `Absent` in a context without `current_time` and `clock`, for which the
evaluators use the envelope's own `issued_at`.  `asked` keeps with each signed token what it was
signed for.  `CreateEnvelope` and `CreateToken` are the command line's: new
builders, an envelope that is read back from its file without parent and
signature (`FromFile`), and the files that the command cannot read (`IsReadable`).
The evaluators change nothing, so they are state functions over
every vector made of these documents (`Vectors`) and over documents altered
after the signature (`PresentedVectors`).  Actions of `proposed_action` lack the
dimensions `reversibility` and `externality`, which every scope of the builder
lists, and are denied as UNKNOWN_ATTRIBUTE; only `http_action` gives an action
that the builder's own envelopes allow.  An envelope of the command line lists no
resource classes, so that no action is covered by it.

**SidecarClient** composes HacpExchange with a client, a network and a sidecar.
`Request` is `request` up to the moment it waits: the headers go into the
caller's own dictionary, where only what the call has overwrites what is there
(`HeadersBefore`).  `Receive` is `_handle_hacp_response` and `parse_reason_code`
(`HandleHacpResponse`), `FailConnection` is `httpx.HTTPError`.  The client
waits for one answer at a time; a request it has given up stays with the
network.  `Judge` is the sidecar, which is external: it derives the action from
the request, judges the documents by `ConformanceRules` with the policy of the
moment, lets a token be used `max_uses` times, or without a limit if it has none
(`UsesOf`, `UsedUp`), and forwards before it answers; so
`docs/Integration with HACP Sidecar.md` 984-1011 has it, and at 430-470 that a
token of another action is called SIGNATURE_FAILURE, not HASH_MISMATCH.
`Interfere` is a proxy or another server, whose answer names no decision or a
strange one, while the request may still go its way.  An answer or a request that is lost needs no action of its own:
the client's connection fails.  `Exchange` is every step of HacpExchange, at any
moment.

The theorems stand in `*Proofs` modules, next to the module they are about;
**HumanistCallbackProofs** is about both callbacks.  **RulesProofs** holds the
lemmas that the graph's and the callback's proofs share: induction as a fact
about sets of naturals, what appending and replacing do to a sequence, the walk
of `ancestors()` and the sort of `explain()` on any causal graph, and sums.

`MC*` modules give the constants their values.  An operator `Mutant_X` stands
before the definition it is a plausible mistake of; it is used only to show
that a property would notice.

## 3. Runs

| Run | Shows | Instance |
|---|---|---|
| `authority` | `TypeOK`; `AuthorityMovesForAReason`: a decision changes only by a covering token of the envelope's own actor, or by time and then to REAUTHORIZE; `TimeBoundedAuthorityLapses`; `ImplementsBoundedAuthority` | 2 humans, 2 intents, 3 kinds of approval, 7 actions, up to 2 envelopes and 2 tokens, clock 0..5; 131,710 states |
| `authority_fresh_token` | a violation of `FreshTokenHonoured`, see section 5 | as above |
| `provenance` | `TypeOK`, `ParentsPrecede`, `ChildrenMirrorParents`, `AncestorsAreExact`, `ExplainIsCausal`, `BrokenAreExactlyTheForeign` | 4 events with up to 2 parents (a diamond, one parent named twice), one of another policy, one alteration, a clock that need not move between two events; 1,029,841 states |
| `callback` | `TypeOK`; `BoundariesNeedRenewal`: past a boundary between it and a tool that ran gets only a call whose authority was renewed in between; `NoSilentScopeExpansion`; `BudgetReconciles`; `AutonomyIsBounded`; `EveryEventReachesIntent`; `SequentialResultsAreLinked` | 4 tools (two of one kind, one forbidden), budget for about two modifications, 3 calls, one approval, one reset, one clock tick; 233,879 states |
| `callback_renewed_authority` | a violation of `RenewedAuthorityCrosses`, see section 5 | as above, with an approval that lasts one tick and 2 ticks |
| `callback_threads` | `ThreadedTypeOK`; `KindsBoundedByThreads`: what ever ran is of at most as many kinds as there are threads; `BudgetNeverOvercharges`: lost updates only forget; `GraphTellsStops`: below each tool_call event is the reason for which that very call was stopped; `SerialStartsAreExact`: a host that lets one thread at a time into `on_tool_start` loses nothing | 2 symmetric threads, 3 tools of different kinds (one needs an approval), 3 calls, a budget that two calls exceed, one approval, one reset; 1,656,641 states |
| `safe_harbor` | `TypeOK`, `VerificationIsExact`, `AlteringIsNoticed`, `TornWriteCostsOneRecord` | 2 processes, one with 2 threads, 3 calls, one torn write, one exit, one alteration; 616,468 states |
| `safe_harbor_two_writers` | a violation of `AlarmMeansTampering`, see section 5 | as above |
| `loop_guard` | `TypeOK`; `AutonomyIsBounded`, for chains whose handlers take turns; `StopsAreDeserved`, whatever overlaps | 2 threads, 3 chains, nested or not, 4 tools, 2 at a time, limit 1, one text that asks for approval, outputs of 5 words, clock 0 and 12 seconds; run ids and threads are symmetric; 2,237,530 states |
| `exchange_life` | `ClientTypeOK`; `FailsClosed`; `DefiniteErrorsAreDenials`; `TokensAreSpentWhereGiven`; `RetriesTellWhatHappened` | one envelope for one action and three tokens for it, of one use, of two and of any number; 8 calls, with a token or none, into a dictionary or without one, one with a token of another envelope; 3 requests, one counted action, the clock at rest; 467,042 states |
| `exchange_authority` | `TargetIsBound`, `DenialIsFinal`, `TemporaryAuthorityLapses` | two envelopes of one id and two tokens that are there when the run begins, contexts with a clock and without, 4 requests, 2 revocations of a kind, count up to 2, clock 0..3; 384 states |
| `exchange_documents` | `TypeOK`, `AllowedWasSigned` | two envelopes and a token from builders that are reused and replaced, and from the command line, next to two wire envelopes of one id, up to 5 chosen ids, the policy at rest; 91,048 states |

Why the bounds are enough for the questions asked: two tokens are the fewest
for one to shadow the other, and the clock runs past the longest deadline any
human act can set (`HumanHorizon` + 2), so every temporary authority ends
inside the run.  Four events are the fewest for a shared ancestor reached over
two paths.  Three calls are the fewest for a call whose baseline was set by a
refused one and whose result comes after another start; the two resets-free
and reset histories are both covered by one reset.  Three records, one torn
write and one exit give every order of tear, crash, reopen and continue.  Three
chains are the fewest for a nested one next to a second tree, or two levels of
nesting; with limit 1 and two tools at a time four tools are the fewest to exceed
what `AutonomyIsBounded` allows a chain without a nested one, and two threads lose
a count; 12 seconds are more than what a text of one word needs with nothing to
read (11 seconds) and less than what it needs after an output of 5 words (14).
Two threads are the fewest for a race, and three calls let one thread start
again between the steps of the other; three tools of pairwise different kinds
would all run if threads were bounded by nothing.  Three requests are
the fewest to use up a token of two uses, and give a first attempt and two
retries, with every way a token may travel from one call to the next.  Two
envelopes are the fewest for a token of one to be presented with another.
`exchange_documents` leaves the policy as it is: `DenialIsFinal` says, and
`DenialsAreFinal` proves, that a moving policy only takes away, so what is allowed
later was allowed then.  `exchange_life` and `exchange_authority`
call no builder (`LastCall` is -1, before the clock begins): their documents are
there when the run begins.  The few states of `exchange_authority` are all that
the host's policy can be in, and in each the evaluators judge every combination
of documents and requests.  The paths and targets hold the same escape in both
cases, at the end of the target, and after a stray percent sign; the clock runs
past the expiry of both the envelopes and the tokens.  The runs end where the
bounds are reached, so they do not check deadlock; none of these components waits
for anything but the client, whose connection may always fail.

**Fairness.**  Only `TimeBoundedAuthorityLapses` and `TemporaryAuthorityLapses`
need any: weak fairness of `Tick`, because time passes whatever humans, agents
and hosts do.  Nothing is assumed
about humans, agents or the runner, which may never call back, nor about the
client: the 5 seconds of httpx are counted per read, so an answer that trickles
may keep a client waiting for ever, and nothing says that it ends.

## 4. Proofs

Every safety invariant and every action property that a passing run checks is
also a theorem, for every value of the constants.

| Theorem | Statement | Argument |
|---|---|---|
| `AuthorityProofs!TypeCorrect` | `Spec => []TypeOK` | by action |
| `AuthorityProofs!MovesForAReason` | `Spec => AuthorityMovesForAReason` | a new token is appended last, so where an older token covers the action it still decides (`OlderTokenDecides`); validity and expiry are monotone in time (`TimeOnlyLapses`) |
| `AuthorityProofs!Implements` | `Spec => ImplementsBoundedAuthority` | each action of the kernel is one of the abstract actions: `GrantMovesNothing`, `IssueMovesOnlyCovered`, `TickOnlyLapses` |
| `ProvenanceProofs!TypeCorrect`, `CausalityIsAcyclic`, `VerifyAllIsExact` | `Spec => []TypeOK`, `[]ParentsPrecede`, `[]BrokenAreExactlyTheForeign` | `GraphInv`: what was built was minted under some key and policy with earlier events as parents (`BuiltAreMinted`), what is stored is that, altered at most in its content (`EventsAreStored`), and `ParentsPrecede`; an altered or foreign content never fits the signature |
| `ProvenanceProofs!IndexIsExact` | `Spec => []ChildrenMirrorParents` | `IndexInv`: each entry of the index holds an event as often as the event names its parent, in the order of the graph (`Mirrors`); an append adds as many ids at the end of each parent's entry as the event names it (`EntryAfter`, `MentionsCount`), and an event without children has the empty one |
| `ProvenanceProofs!WalkIsExact` | `Spec => []AncestorsAreExact` | each turn of the loop takes one edge from a child to a parent off the stack for good (`TurnSpends`), so that the stack is empty after at most as many turns as there are pairs of events; `Explores` says what is visited meanwhile, and at the end that is the ancestors (`AncestorsFound`) |
| `ProvenanceProofs!ExplanationIsCausal` | `ClockSteps \subseteq Nat` implies `Spec => []ExplainIsCausal` | `TimeInv`: timestamps do not fall in the order of building, so a parent's is never the greater; the stable sort puts every event at its rank (`RanksOrder`, `SortedByTime`).  With a clock that goes back the property is false, hence the hypothesis |
| `HumanistCallbackProofs!TypeCorrect` | `Spec => []TypeOK` | by action |
| `HumanistCallbackProofs!OnlyRenewedAuthorityCrosses` | `Spec => []BoundariesNeedRenewal` | `BoundariesNeedRenewal` is not inductive, since a new call is compared with the baseline and not with the calls that ran; `BaselineSpeaksForCompared` says that the baseline is of the kind of every call that got past the boundary, refused ones included, and `SameKind` that "of one kind" is an equivalence although `compare` is not symmetric in general.  The proof shows more than the property asks: no call crosses at all, which is what `RenewedAuthorityCrosses` is about |
| `HumanistCallbackProofs!BoundedAutonomy` | `Spec => []AutonomyIsBounded` | every operation costs at least one unit (`CostIsPositive`) |
| `HumanistCallbackProofs!NothingSilentlyExpands` | `Spec => []NoSilentScopeExpansion` | `ScopeInv` adds that no token was issued in the future; a permission has one of the two reasons (`PermittedForAReason`), and later tokens take none away (`ReasonsLast`) |
| `HumanistCallbackProofs!EveryExplanationReachesIntent` | `Spec => []EveryEventReachesIntent` | `CallbackInv`: every event but the first, the intent, has one parent, an earlier event (`Rooted`); `Chronicle` adds that timestamps do not fall in the order of recording, though they may stand still; the intent is among the ancestors of each event, and what the sort puts first is no later than it (`ReachesIntent`) |
| `HumanistCallbackProofs!ResultsOfSequentialToolsAreLinked` | `Spec => []SequentialResultsAreLinked` | `CallbackInv`: the slot holds the event of the latest call, so a result is linked to its own call or another was started before (`Linked`) |
| `HumanistCallbackProofs!TheBudgetReconciles` | `Spec => []BudgetReconciles` | the charged events are those of the whole graph (`ChargedIn`), and each way a start can end adds the call's cost to both sums or to none (`CallIsCharged`, `CheckpointIsNotCharged`, `OthersAreFree`) |
| `HumanistCallbackProofs!ThreadsAreTyped` | `ThreadedSpec => []ThreadedTypeOK` | by action |
| `HumanistCallbackProofs!KindsAreBounded` | `ThreadedSpec => []KindsBoundedByThreads` | `KindsInv` counts what is in play: the kinds that ran, those that a thread has brought past the boundary, and the baseline's.  Without a baseline nothing has run, so only the threads count; the first baseline is one of theirs, and from then on the set does not grow |
| `HumanistCallbackProofs!NoCallIsBilledTwice` | `ThreadedSpec => []BudgetNeverOvercharges` | `PaidInv`: neither the total nor any value a thread has loaded exceeds what the calls beyond the store have cost, a thread's own call not counted |
| `HumanistCallbackProofs!StopsAreToldOnce` | `ThreadedSpec => []GraphTellsStops` | `RecordInv` (calls have events of their own) and `StopsInv` (the count below each call's event follows its outcome) |
| `HumanistCallbackProofs!OneAtATimeIsExact` | `ThreadedSpec => []SerialStartsAreExact` | while nothing overlapped one thread at most is inside (`AloneInv`), and where it stands says what still differs from the single-threaded callback: of the slot (`SlotInv`), of the baseline (`SerialKindInv`), of the budget (`SerialBudgetInv`: `Settled`, or `InProgress` of one thread) |
| `SafeHarborProofs!ExactVerification` | `Spec => []VerificationIsExact` | `Chained`: each line links to the one before unless its intent was altered, and a thread at each step of `log_intent` holds the end of the chain as far as it has got |
| `SafeHarborProofs!TypeCorrect`, `NothingHidesAnAlteration` | `Spec => []TypeOK`, `[]AlteringIsNoticed` | `FileInv`: every hash on the file, in memory or in a thread's hands is that of a user's intent, which no altered record's is |
| `SafeHarborProofs!TornWritesCostOneRecordEach` | `Spec => []TornWriteCostsOneRecord` | `TornInv`: there are at most as many broken lines as torn writes (`Broken`), and each returned entry is alone on its line or the last piece of a broken one (`Kept`) |
| `LoopGuardProofs!TypeCorrect` | `Spec => []TypeOK` | by action |
| `LoopGuardProofs!BoundedAutonomy` | `Spec => []AutonomyIsBounded` | `Account`: as long as the handlers of a chain take turns, it is `Quiet`, or one thread is `Counting` (has read the count and not stored it) or has `Counted` (and not compared it); in each case the tools that returned are covered by the count, what the thread is about to add, and `MaxAutoHops` for each chain started directly below it (`Forgiven`), and the tools still running fit into what is left of the limit |
| `LoopGuardProofs!DeservedStops` | `Spec => []StopsAreDeserved` | `SessionAccount`, for every interleaving: a session's start time is that of one of its chains (`TimesAccount`), a count, stored or about to be, is no more than the tools that returned (`ReturnsCounted`), and what there is to read is nothing or an output of the chain (`ReturnsRead`) |
| `HacpExchangeProofs!TypeCorrect` | `Spec => []TypeOK` | by action; `CompletedEnvelope` and `CompletedToken` say what a completed builder holds |
| `HacpExchangeProofs!DenialsAreFinal` | `Spec => DenialIsFinal` | every step moves the policy to a later one (`IsLater`, `PolicyMovesOn`), where a clock stays a clock and none stays none; each gate that lets a vector pass under the later policy lets it pass under the earlier one if the gates after it do (`CheckpointGateTightens` and so on), so the whole nest does (`CoreTightens`, `EnforcementTightens`) |
| `HacpExchangeProofs!OnlyTheSignedIsAllowed` | `Spec => []AllowedWasSigned` | to be allowed a vector passes each gate, which gives the signatures and digests that were found right (`AllowedIsFoundSigned`); `DocumentsSigned` says that every document carries the signature of itself and every token that of the action and envelope it was asked for; an altered one no longer does (`AlterationShows`) |
| `HacpExchangeProofs!RequestsAreBound` | `Spec => []TargetIsBound` | what the loop of `normalize_request_target` appends from a place on is given in closed form (`Rest`), by the smallest place where it would not be (`NormalizedIsRest`); an escape stays one and gets its digits raised, everything else stays (`EscapesAreTriplets`), so equal normal forms mean the same request and conversely (`NormalFormDecides`) |
| `SidecarClientProofs!ClientTypeCorrect`, `ClientFailsClosed`, `DefiniteErrorsHold` | `ClientSpec => []ClientTypeOK`, `[]FailsClosed`, `[]DefiniteErrorsAreDenials` | `Sound`: every request is `Truthful`, which speaks also of the answer that is still on its way and would otherwise be missing, and of the requests that were given up before the sidecar saw them; it is kept by an end, a judgement and an interference (`EndIsTruthful`, `JudgedIsTruthful`, `InterferedIsTruthful`) |
| `SidecarClientProofs!RetriesAreTold` | `ClientSpec => []RetriesTellWhatHappened` | `UsesOK`: at most `max_uses` requests were executed on one token, however often it travelled (`UsesBy`), and who was told that a budget is exhausted has a token that is used up or an envelope whose actions are counted up (`Spent`); executed requests and counts are never taken back; `ExhaustedReason` finds the gate that says so through the nest of gates |
| `SidecarClientProofs!TokensComeFromTheirCaller` | `ClientSpec => []TokensAreSpentWhereGiven` | `OriginOK`: a dictionary holds the token last given with it, and a request carries what its dictionary held once it was made, which later calls do not change |
| `SidecarClientProofs!ClientDenialsAreFinal` | `ClientSpec => DenialIsFinal` | every step of the client maps to a step of HacpExchange or to none (`ClientImplements`) |

They hold for every value of the constants and without the bounds' help (the
bounds are guards, which the proofs do not use).  Assumptions about constants
are the named `ASSUME`s of the modules, and each is a fact about Python's
values, the code's checks or the environment:

- `None`, `Absent` and `IllTyped` are no number, no action, no effect, no reason code and no
  dictionary, and `Altered` and `Cut` are no contents or intents: marks are
  told apart from data;
- lifetimes, limits, counts and lengths are numbers, keywords are sets of
  strings, targets and paths are sequences of strings (`TargetAssumption`);
- run ids and threads are finitely many, every thread belongs to a ledger, and
  the graph's own key and policy are among those that build events;
- the setters are given what they accept (`SettingsAssumption`; they raise
  otherwise), the command line's `--max-actions` is an integer
  (`CliAssumption`), and wire documents, a token's `max_uses` and the host's clock
  are numbers or absent (`WireAssumption`; the code ignores anything else there,
  which is `Absent`, except in a checkpoint's timeout);
- a document that came from elsewhere came with the signature of what it is,
  and a token with the digest and the id of what it was asked for
  (`SignedAssumption`): nobody signs for a key that is not theirs.  Documents
  altered after that are not among them; `PresentedVectors` makes them.

Induction over data is not available to the provers as a rule, because the
library states it for an operator.  `RulesProofs!Induction` and
`RulesProofs!Smallest` state it for a set of naturals instead, and a proof
about a recursive function takes the set of arguments for which the function
does what it should.  `SumFunction` is the community modules' fold; `SumsAgree`
shows by such a set that the order it picks does not matter.

Only model-checked: the two liveness properties, `TimeBoundedAuthorityLapses`
and `TemporaryAuthorityLapses`, because fairness speaks of `ENABLED`, which
the prover does not treat.

## 5. Where the code and its documents disagree

Each of these is a run that TLC must find violated.

- `FreshTokenHonoured` (`authority.py:195`): an expired token stays first in
  the list and shadows a fresh one for the same action.
- `RenewedAuthorityCrosses` (`langchain_v2.py:228`): a call that was stopped at a
  boundary is stopped again after a human issued a decision token for it, and
  after a reset of the budget too, because the comparison comes before the
  kernel's decision counts and nothing changes what is compared with.  The message
  at 255 asks for a "Human checkpoint", and `docs/ARCHITECTURE_v2.0.md` (105,
  143-171, 213, 250-252, 2118-2131) has a token or a new intent renew authority.
  `BoundariesNeedRenewal` shows the half that holds: nothing crosses without
  renewed authority.
- `AlarmMeansTampering` (`safe_harbor.py:87`): two writers fork the chain and
  verification reports tampering.  `VerificationIsExact` shows that it is right
  for one writer at a time.

Each of these has a configuration of its own beside the runs, under which TLC
finds the property violated as well:

| Property | Configuration, module | What the trace shows |
|---|---|---|
| `ResultLinkedToOwnCall` (`langchain_v2.py:296`, "record causally linked result") | `MCHumanistCallbackResultLink.cfg`, `MCHumanistCallback` | with two running calls a result becomes a child of the other call; `SequentialResultsAreLinked` shows that one after the other they are right |
| `FindRootIsIntent` (`provenance.py:226`, "The first element is the root intent") | `MCHumanistCallbackRoot.cfg`, `MCHumanistCallback` | two events of one clock tick, and `find_root` returns the one that has parents; `EveryEventReachesIntent` shows that it is then as old as the intent, which the explanation reaches |
| `DeclaredIntentIsBaseline` (`ARCHITECTURE_v2.0.md:549-558`) | `MCHumanistCallbackBaseline.cfg`, `MCHumanistCallback` | a refused call becomes the baseline although its tool never ran, and a call that the intent grants is stopped as a crossing |
| `HopLimitPerInitiation` (`langchain_guard.py:41`, "Reset autonomous counters on human initiation") | `MCLoopGuardInitiation.cfg`, `MCLoopGuard` | a nested chain, which no human started, resets its parent's counter, and the parent's tools exceed the limit; `AutonomyIsBounded` shows what is bounded instead |
| `EveryToolCounts` (`ARCHITECTURE_v0.1.md:107-108`, "Each tool execution increments hop counter") | `MCLoopGuardLostHop.cfg`, `MCLoopGuard` | two tools return in two threads, both read the same count, and the chain goes on past the limit |
| `TimeIsNoJudge` (`ARCHITECTURE_v2.0.md:1010-1037` and Invariant 6, 1330) | `MCLoopGuardElapsed.cfg`, `MCLoopGuard` | of two equal texts after equal outputs the later passes and the earlier is blocked (`loop_breaker.py:168`), which is what "if elapsed < minimum_reading_time: raise NotHuman()" stands for there as never to be done; `StopsAreDeserved` says what the code goes by, not that it should |
| `WholeChainIsTimed` (`langchain_guard.py:33`, "to track the whole chain") | `MCLoopGuardUntracked.cfg`, `MCLoopGuard` | a nested chain below which no chain started has no start time, and its text is blocked however long ago its tree was started |
| `ExpiredIsDenied` (`CONTRIBUTING.md:211`, expired authority ends in DENY) | `MCHacpExchangeNoClock.cfg`, `MCHacpExchange` | without a clock in its context an evaluator judges an envelope at the time it was issued (`conformance.py:56`), and allows what has expired, as `tests/test_conformance_hardening.py:344-351` has it; `TemporaryAuthorityLapses` is stated for hosts that give their clock |

Seen while modelling, and contained in the models:

- `hacp/exceptions.py:4` says that all exceptions result in DENY; after a
  connection that failed, or an answer that lost its decision, the request may
  have been executed, and may be even later (`FailConnection`).
- Several of the evaluators' reasons are not in `REASON_CODE_MAP` and raise the
  same exception as a lost connection (`ParseReasonCode`).
- `envelope create --expires-in` sets the budget's expiry, which no evaluator
  reads; the envelope's own stays an hour after its issue (`cli.py:68`).

## 6. Assumptions and limits

- The runner runs a tool only if `on_tool_start` returned.  LangChain does so
  only for handlers with `raise_error`; that switch is the host's.
- HMAC and SHA-256 are injective, so a digest is what was digested.
- Clocks do not run backwards, but may stand still between two events.
  `ExplainIsCausal` puts a parent before its child unless they share a
  timestamp, and then `explain` may have them the other way round.  The two events
  that one handler of the callback records share a timestamp always.
- `uuid4` ids are fresh.
- Budgets and costs are naturals; the defaults and all risk profiles are.
- `HumanistCallback`'s handlers are atomic, which is what a host gets that
  starts tools from one thread.  In `ThreadedCallback` only `on_tool_start`
  is split; an event's construction and its append go with the access before
  them, and so do accesses that commute with it; a reset is one step.
- The sidecar is external: `SidecarClient` has what the documents say of it and
  `client.py` relies on, not its code.  It counts the uses of a token by its id and
  changes no counter of the host.  The headers of the policy context and the
  tool name are left out, with whatever the sidecar makes of them.
- A token may travel along a dictionary of headers that its caller uses again, into
  a request that was given none; `TokensAreSpentWhereGiven` says that it goes no
  further, not that it stays.
- Where the loop guard raises, the runner gives up the whole tree of chains;
  tools that are already running still end.  Tools and language models run
  inside a chain, and `langchain_core` is installed (otherwise `on_llm_end`
  checks nothing).  `on_chain_start` is one step.  `AutonomyIsBounded` counts the
  tools that return, as the guard does, not those that fail, and speaks only of
  chains whose handlers took turns.  The similarity score decides only what is
  printed, so the window is left out, except that the analyzer may fail.
- Nobody signs for a key that is not theirs, and a signature fits one document.
  The host gives the evaluators its clock at all times or never, and only adds to
  its revocation lists and its action count.
- The evaluators look at no other constraint of a token than its path, and not
  at its `decision`; the sidecar counts `max_uses` as well.  The model has no other
  constraint, and no `decision`.
- What reached the file stays there: `SafeHarbor` has processes that end, not
  machines that lose unsynced pages.
- Not modelled: `RiskLevel`, `policy_overrides`, `_session_id`, envelope
  signatures (never checked by the core), payload digests other than as part
  of an event's content, `remaining()` and the other read-only accessors.

## 7. Plan

Modelled: the authority core, provenance, boundary detection with the callback,
single- and multi-threaded, the ledger, the loop breaker under threads, the builders, the
command line, the evaluators and the client.  Every safety property of their
runs is proved.  What would say more, in this order:

1. the safety half of the liveness properties: past the longest deadline any
   human act can set nothing temporary is authorised, and past its expiry an
   envelope allows nothing, at every state and not only in the end;
2. revision 2 of the evaluators only tightens revision 1, as a theorem about
   every vector and not only about a moving policy;
3. a specification of the callback and of the loop guard with the disagreements of
   section 5 repaired, which would satisfy the properties violated there;
4. an abstract specification of what a callback promises its host, implemented
   by `HumanistCallback`, and by `ThreadedCallback` where starts do not overlap.
