# Orca SDK for Go: models, checks and proofs

This directory holds TLA+ modules that model the parts of this SDK whose
behaviour depends on order: goroutines that share state, requests that are lost
and repeated, pages and frames that arrive while something else happens. TLC
checks them on small instances; the safety properties and all three refinements are
proved with TLAPS for instances of every size.

Contents: [inventory](#the-system), [modules](#the-modules),
[runs and bounds](#the-runs), [fairness](#fairness), [proofs](#the-proofs),
[disagreements](#disagreements), [what is left out](#not-modelled),
[plan](#plan), [how to run](#how-to-run).

## The system

The SDK is a library without threads of its own. Every operation is a method
that runs on its caller's goroutine, and one `Client` is meant to be shared by
many goroutines. A call travels

    service method -> extension gate -> options -> request pipeline -> response
                      (cloudgate.go)   (With,       (Do, attempt)      (JSON, pages,
                                       ResolveURL)                      events)

| Component | Source | State it keeps | Operations | What makes it hard | What makes it correct |
|---|---|---|---|---|---|
| Extension gate | `cloudgate.go` | a map of group lists and a map of in-flight probes, under one mutex; one channel per probe | `resolve`, `ensure*Extension` | concurrent misses share a probe; waiters read its result without the mutex; cancellation; failure; panics | one probe at a time; verdicts that are true of the deployment; failures forgotten; waiters woken |
| Request pipeline | `internal/requestconfig/requestconfig.go`, `client.go` | the loop counter, one context per attempt, the response in hand | `Do`, `attempt`, `doJSON`, `doMultipart`, `openStream` | lost and late requests, retries of mutations, a context that ends between any two steps, many exits | contexts released on every path; a keyed or guarded mutation performed once; the call ends, with an honest verdict |
| Retry delay | same | none | `retryDelay`, `capDelay` | fixed-width durations, floats, two headers in two units | bounded; the server's wait granted; doubling |
| Pagination | `packages/pagination` | the cursor in hand, the offset, `done` and `err` | `GetNextPage`, `All`, `AutoPager.Next` | two dialects, two directions, lists that change during a walk, failure half way | no item twice, none missed by a clean end, a failure never looks like the end |
| Event streams | `packages/ssestream` | the frame being built, `done`, `err`, the body | `Stream.Next`, `Close`, `Decoder.Next`, `scanLines` | a body cut anywhere, chunks cut anywhere, a silent server, cancellation | exactly the whole frames; a clean end is complete; a blocked reader is released |
| Resource services | `cloud.go` and the service files | none, beyond the client they hold | some 250 methods | each must be gated on its extension and only on it | no request to a deployment that does not serve it |
| Call options | `option`, `params.go`, `requestconfig.go` | a client's config, the caller's slice | `With`, `Clone`, `ResolveURL`, list parameters | the slice and the config are shared by concurrent and by later calls | each page has its own call's parameters |
| Configuration: base URL, credentials, headers | `client.go`, `option`, `requestconfig.go`, `baseurl.go` | a `RequestConfig` per client and per call, a header map each, queued notices | `New`, the legacy constructors, `Apply`, `With`, `Clone`, `WithPathPrefix`, `ApplyHeaders` | configs are derived from each other by goroutines at any moment; options write into maps in place; many ways to write one URL | a request carries what its own chain of options says, and nobody else's; one deployment, one URL |
| SSE to NDJSON rendering | `sse.go`, `stream.go` | none, beyond the decoder's | `DecodeSSE` | a second consumer of the same decoder, with a writer that may fail | every whole frame a line |
| Errors | `internal/apierror` | none | `FromTransport`, `FromResponse` | decides what is retried | see the pipeline |
| Optional values, multipart bodies, session handles, types | see `PROJECT.json` | none | pure functions | data, not order | see [Not modelled](#not-modelled) |

Components meet in four places. The gate's probe is itself a request of the
pipeline, made on the *call's* configuration. The cursor of a list keeps a
closure over the call's options and comes back to the pipeline for every page.
A stream owns the body of a response, and with it the attempt's context. And
all clones of a client share one gate.

## The modules

| Module | Models | State and actions against the code |
|---|---|---|
| `ExtensionGate` | what the gate promises, with no mutex and no waiting | `known`: what is known of a deployment; a question is answered from it, or by one probe for a set of callers |
| `DiscoveryCache` | `discoveryCache.resolve`, `ensureExtensionAvailable` | `mu`, `groups`, `inFlight`: the struct. `done`, `result`: `discoveryCall`. A caller's `pc` stands between two steps of `resolve`; `Hit`, `Join`, `Lead` are the three ways through the first critical section, `Publish` the second, `CloseDone` and `Wake` the channel. `FetchPanics` unwinds `resolve`, which defers nothing. `Rejected` are the callers whose credential the deployment does not accept: a probe they lead is answered 401 for all who wait on it. `Nested` are those whose credential provider or transport uses this SDK: a 404 it meets elsewhere is in the chain of the probe's error. `Blank` are the deployments that may answer `GET /apis` 2xx without a body. The field `by` of a result, whose probe it came from, is a history that no action reads |
| `DiscoveryCacheProofs` | theorems about `DiscoveryCache`; that it implements `ExtensionGate` | see [The proofs](#the-proofs) |
| `CallContract` | what a call promises: bounded effect, one verdict | |
| `RequestPipeline` | `RequestConfig.Do`, `attempt`, and what the wrappers do with its response | `attempt` is the loop variable, `open` the attempts whose `context.CancelFunc` has not been called, `wire` and `replies` the network, `applied` and `fresh` the deployment and the resource. `request.guard` is what a mutation depends on: that the resource is there (`DELETE`), or unchanged (`AgentUpdateParams.Version`); `OthersChange` is another client. One action per exit of `attempt`, of the loop and of the wrappers |
| `RetryDelay` | `retryDelay`, `capDelay` | `Wait` is one visit of the loop to `retryDelay` with any headers; `Wrap` and `ToDuration` are Go's integer overflow and float conversion |
| `PageWalk` | what walking a list promises | |
| `Pagination` | `PageCursor`, `All`, `AutoPager` | `query` is `requestURL`, `page` the cursor's fields, `rest` the walker's offset. `Successor` is `nextPageURL`. `Change` is somebody else's insertion or deletion |
| `EventStream` | `Stream`, `Decoder`, `DecodeSSE` | `read` is the scanner's place, `frame` the event and data being built. `consumer` says who calls the decoder: `Skip`, `Fail`, `Yield` are what `Stream.Next` does with a frame, `Render` and `RenderFails` what the renderer does. `InNext` is one step inside `Stream.Next` or the renderer |
| `LineScanner` | `scanLines` under `bufio.Scanner` | `arrived` is the end of the buffer, `start` its beginning. `Split`, `SplitRemainder` are the results of `scanLines`; `ReadChunk`, `EndScan`, `Overflow` are the scanner's. `atEOF` means that the reader has returned an error, `io.EOF` included |
| `Operations` | every operation of the services: gate, method, form of the answer | sets, named after the service they belong to |
| `ExtensionCall` | one whole call: the gate, then the operation's request | composes `ExtensionGate` with `Operations`; `raw` is the destination of `WithRawJSON` |
| `CallOptions` | `appendListQuery`, `With`, `ResolveURL`, `ListPage` | `array` is the room behind the caller's slice, `own` the array it grew into; a page is sent with the options *as they read then* |
| `ClientConfig` | `New`, the legacy constructors, `RequestConfig.With`, `Clone`, `Apply`, `FlushWarnings`, `ApplyHeaders`, `ResolveURL`, `NormalizeBaseURL` | `cfg` holds a config per client, derived client or call, `headers` the heap of header maps, `left` the options `Apply` has yet to run. Options are applied one at a time, between the steps of whoever makes other configs. `said` records the words of each config's chain, by whom; it decides nothing and the properties are stated with it |
| `RequestPipelineProofs` | theorems about `RequestPipeline` and about `RetryDelay`: it extends both, which is why the names in `RetryDelay` differ (`DelayInit`, `DelaySpec`, `failures` for the loop variable, `Retries` for `MaxRetries`) | see [The proofs](#the-proofs) |
| `PaginationProofs`, `LineScannerProofs`, `EventStreamProofs`, `ExtensionCallProofs`, `CallOptionsProofs`, `ClientConfigProofs` | theorems about the module of that name | see [The proofs](#the-proofs) |
| `MCExtensionCall`, `MCClientConfig` | instances for TLC | the classes of operations; four ways to write two base URLs, four environments, the option lists |

`DiscoveryCache` implements `ExtensionGate`, and `ExtensionCall` builds on
`ExtensionGate` alone: what holds of a call with the abstract gate holds with the
real one. `RequestPipeline` implements `CallContract`, `Pagination` implements
`PageWalk`. `Pagination` takes it that the page asked for is the one the
cursor's URL names, which is what `CallOptions` checks (`EveryPageIsTheNext`);
`EventStream` takes lines as given, which is what `LineScanner` checks.
`DiscoveryCache` takes base URLs as keys, one to a deployment, which is what
`ClientConfig` checks (`DeploymentHasOneKey`).

Definitions named in a comment `Mutant of ...` stand right before the definition
they are a broken version of. They are part of no specification; each shows that
the property `PROJECT.json` pairs it with can fail.

## The runs

| Run | Configuration | Bound, and why it is enough |
|---|---|---|
| `gate` | two callers, two deployments, one caller whose credential is rejected, the other with a provider that may meet a 404 of its own, one deployment that may answer without a body, probes that may panic; 324,284 states | a leader and its waiter on one deployment, or two leaders contending for the mutex, and either of them the rejected one. What needs a third caller, a latecomer between the two critical sections, is covered by proof for every number of callers; the liveness property alone rests on this bound |
| `gate_abort` | two callers, one deployment | violation: a joined caller reports an abort that was not its own |
| `extension_call` | two callers, one of them rejected and the other nested, two deployments, one of them blank, three classes of operation, all combinations of the two options; 960,897 states | the classes of `Operations` differ only in gate, mutation and form of answer. The run takes a sample: a core read, a gated mutation and `EnsureAvailable`; the proofs cover them all. Two calls are enough for one to live off the other's probe |
| `call_options` | two walks, three pages, every order of up to three parameters, client defaults for them, a page among these, no spare capacity; 75,272 states | two callers can only disturb each other through the array or the config; page three is the first fetched with a token over a token |
| `call_options_shared` | the same, room for one option behind the slice | violation: a walk sends another walk's parameter |
| `call_options_prefixed` | the same, on a scoped client | violation: the first page is already asked for outside the list |
| `request_pipeline` | two retries (the default), every kind of call, every guard, two kinds of provider failure; 49,106 states | three attempts: a first, one in the middle, a last; the three may all be in the network at once, and another client's change may fall between any two |
| `pagination` | four items, pages of up to two, two changes during the walk, from every query | three pages or more, in both directions, with the anchor itself deleted |
| `event_stream` | every body of up to four lines out of nine kinds, read by either consumer; 796,234 states | two whole frames, or one and the start of another, with every end in every place |
| `line_scanner` | every body of up to six bytes in every division into chunks, a buffer of four | a CRLF on both sides of every chunk boundary, a line that just fits and one that does not |
| `client_config` | a client made from one of four environments with one or two options in every order or by a legacy constructor, and two configs with one option each, derived from it or from each other at any moment; 392,879 states | two siblings, or a parent, a child and a grandchild; the second of two options is where order shows. Base URLs are written in four ways that between them have every kind of slash. Longer lists, and any number of slashes, are covered by proof |
| `retry_delay` | durations of at most 127 ticks (eight bits), nine retries, 21 numbers and six dates | numbers on both sides of the cap, of the largest duration and of the wrap-around in either unit; the doubling overflows at the seventh retry |

What each property says stands in the comment above it. The ones a reader of
the code should know of:

- `ImplementsGate`: all the callers that share a probe get its answer as if in one
  step, at the moment it is published; a cached list is never replaced.
- `FailureIsNotRemembered`, `VerdictIsTrue`: a failed probe reaches those who
  waited for it and nobody else; no caller is told of an extension that is not there, whoever
  asked; and one that is there is denied in two cases only: the deployment answered `GET /apis` without a
  body, which is taken for an empty list, or the provider or transport of the probe's leader failed with
  a 404 from somewhere else. The second misleads the callers that share that probe and nobody
  after them.
- `ProtectedMutationIsAppliedOnce`: with an idempotency key, or a guard, a late first
  attempt and two retries perform the mutation once between them.
- `RefusalIsHonest`: a call that reports its resource gone or changed has not done that
  itself. This needs the key: without one it is true of calls that were not retried
  only, and the property says so.
- `ContextsAreReleased`: at every moment the unreleased contexts are exactly the
  one of the attempt in hand.
- `NoItemTwice`, `CleanEndIsComplete` (`Pagination`): both directions, under insertion and
  deletion.
- `ItemsAreTheFrames`: what the consumer gets is what the body says, compared with a
  definition of frames that does not read the body line by line.
- `EveryTokenIsALine`, `NothingSettledWaits`: the lines do not depend on the chunks, and none
  whose end the bytes at hand settle is kept from the consumer until more arrive.
- `EveryPageHasItsOwnParameters`: nothing of one call's options reaches another's pages.
- `EveryRequestIsAsConfigured`: the same of credentials, headers and retries, over chains of
  configs, compared with the words said to each.

Deadlock checking is off where the system stops by design: a call that has
returned, a body that has ended, and, at the gate, callers that wait on a probe
that panicked. Parts of the models that bound an unbounded system are named
there as bounds: `Calls` (the heap), `Churn`, `MaxLines`, `MaxBytes`, `MaxPages`,
`Retries` in `RetryDelay`.

## Fairness

- `DiscoveryCache`: a runnable goroutine is scheduled (weak fairness of each
  caller's `Resolve`), a probe ends because its attempts are bounded in number and
  time, and a mutex that keeps being released is eventually taken (strong
  fairness of `Lock`: `sync.Mutex` hands itself over to a starved waiter). Nothing makes a
  probe panic or a caller ask.
- `RequestPipeline`: the call's goroutine runs; a round trip and a body read end
  because every attempt is bounded by `RequestTimeout` or `http.Client.Timeout`.
  Nothing is assumed of the deployment, the network, or the owner of a stream.
- `Pagination`: fetches return and the loop body returns to the walker. That the
  walk ends also needs that the list does not grow forever (`Churn`).
- `EventStream`: the consumer's goroutine runs inside `Next` or the renderer, whose writer does
  not block forever, and a body whose request
  context has ended stops being readable, as `net/http` does. The server may stay silent forever.
- `LineScanner`: the connection delivers or ends.
- `ClientConfig`, `CallOptions`, `ExtensionCall`, `RetryDelay`: safety only, no fairness.

## The proofs

Each theorem holds for every value of the constants that its module's one named assumption
admits. The assumptions say what the constants are (numbers are naturals, sentinels are fresh,
kinds are among those the code has) and nothing of how the code behaves. One more hypothesis is
stated where it is used: `NoRoom`, that the slice list calls share has no capacity behind it,
without which the theorems of `CallOptionsProofs` are false (`call_options_shared`).

| Module (assumption) | Theorem | States |
|---|---|---|
| `DiscoveryCacheProofs` (`SentinelsAreFresh`) | `TypeCorrect` | `TypeOK` |
| | `AtMostOneProbe` | `OneProbe` |
| | `VerdictsAreTrue` | `VerdictIsTrue`, an action property |
| | `FailuresAreForgotten` | `FailureIsNotRemembered` |
| | `ClosedCallsAreFrozen` | `ClosedCallIsFrozen`, an action property |
| | `RefinesGate` | `ImplementsGate` |
| `RequestPipelineProofs` (`PipelineAssumption`) | `TypeCorrect` | `TypeOK` |
| | `ContextsReleased` | `ContextsAreReleased` |
| | `ProtectedOnce` | `ProtectedMutationIsAppliedOnce` |
| | `RefusalsAreHonest` | `RefusalIsHonest` |
| | `RefinesContract` | `ImplementsContract` |
| the same (`RetryDelayAssumption`) | `DelayTypeCorrect` | `DelayTypeOK` |
| | `DelaysStayBounded` | `DelayIsBounded` |
| | `WaitsAreDue` | `WaitIsDue` |
| `PaginationProofs` (`PaginationAssumption`) | `TypeCorrect` | `TypeOK` |
| | `NoneComesTwice` | `NoItemTwice` |
| | `CleanEndsAreComplete` | `CleanEndIsComplete` |
| | `RefinesPageWalk` | `ImplementsPageWalk` |
| `LineScannerProofs` (`LineScannerAssumption`) | `TypeCorrect` | `TypeOK` |
| | `TokensAreLines` | `EveryTokenIsALine` |
| | `OutcomesAreTrue` | `OutcomeIsTrue` |
| | `SettledLinesDoNotWait` | `NothingSettledWaits`, an action property |
| `EventStreamProofs` (`EventStreamAssumption`) | `TypeCorrect` | `TypeOK` |
| | `DeliveredAreTheFrames` | `ItemsAreTheFrames` |
| | `CleanEndsAreComplete` | `CleanEndIsComplete` |
| `ExtensionCallProofs` (`ExtensionCallAssumption`) | `TypeCorrect` | `TypeOK` |
| | `UnservedIsNotAsked` | `NothingIsSentUnserved` |
| | `OptionsAreTheCalls` | `OptionsServeTheCall` |
| `CallOptionsProofs` (`CallOptionsAssumption`, `NoRoom`) | `TypeCorrect` | `TypeOK` |
| | `OwnParametersOnly` | `EveryPageHasItsOwnParameters` |
| | `PagesAreNext` | `EveryPageIsTheNext` |
| `ClientConfigProofs` (`ConfigAssumption`) | `TypeCorrect` | `TypeOK` |
| | `RequestsAreAsConfigured` | `EveryRequestIsAsConfigured` |
| | `OneKeyForADeployment` | `DeploymentHasOneKey` |
| | `NoticesAreWrittenOnce` | `EveryNoticeOnce` |

`ConfigAssumption` also says what a caller may write for a base URL (`Spelt`): the root, any number of
slashes, one of the legacy suffixes or none, and slashes again. It asks that the suffix be all there is to strip: a
deployment with the root `/api` whose URL is written `/api/v1` is normalised to the root `/`, because `/api/v1` is
how that one is written, too. The code cannot tell the two apart, and no run had such a pair: the proof found it.

Every module has a theorem `Invariance`, that its `IInv` holds in every
reachable state (for `RetryDelay`, `DelayInvariance` and `DelayInv`), with a lemma or a step for each action; the theorems above follow from it. None of the properties is
inductive as it stands. What `IInv` adds:

- **The gate.** `OneProbe` says nothing of the call a leader holds, so nothing stops it from
  publishing into another's call; and `VerdictIsTrue` says nothing of results that have not been returned yet. So: a
  caller holds a call exactly while it owns one or waits on
  one (`HoldsInv`); a leader's call is the one in flight for its key and nobody else
  owns it (`OwnerInv`); a call is in flight for one key, and no longer once it is
  published (`FlightInv`); a closed call is neither in flight nor owned (`DoneInv`);
  waiters asked for the deployment the owner probes (`WaitInv`); and the cache and
  every settled result are true of the deployment, or the empty list of an answer without a body, or the 404 of a
  nested leader (`TruthInv`), from which `VerdictIsTrue` follows for the step that gives the verdict. `FailuresAreForgotten` needs that a call has no result
  while its leader is still asking (`FreshInv`); `ClosedCallsAreFrozen` follows from `DoneInv`
  and `Unreferenced`, because only an owner, the last reader, or the allocator writes a
  call. For the refinement, a result that waits to be published is one its leader's probe could have found
  (`ResultInv`). `Publish` maps to the abstract probe for the set of callers that hold the call, and `FetchPanics` to a failed one for the
  leader alone; `Ask`, `RejectOptions`, `Cancel` and `Hit` map to the abstract gate's own steps, every other step to a stutter.
- **The pipeline.** The requests on the wire and those performed never outnumber those sent
  (`CountInv`), which bounds the effect; a keyed call's requests all carry the key (`KeyInv`), and what a guard
  depended on is gone once the mutation has been performed (`GuardInv`), which makes it one. An honest refusal is traced back from the verdict
  to the answer in hand and to the answers on the wire: each was given of a resource that somebody
  else had changed, and such a call is never performed (`HonestInv`).
- **Pagination.** The range of a walk falls into three parts: what lies behind the page in hand, the page, and
  what the cursor will ask for. `GoesOn` says that the cursor's range is disjoint from the page and misses no item that
  has been in the list all along; those (`steadfast`) only ever become fewer, so later insertions and deletions
  do not disturb it.
- **Lines.** The scanner stands where a line begins, or has taken a last line that nothing terminates, and its tokens
  are the lines that begin before it (`TokensInv`). The definition of a line looks at the whole body;
  `scanLines` at the buffer. That the two agree when the buffer ends in a CR is what `atEOF` and the request for
  one more byte are for.
- **Frames.** The frame being built is what the lines since the last blank one say (`FrameInv`), the lemma
  `FrameGrows` being that `consumeField` adds a line to it in the sense of `WholeFrame`, which is a
  definition over all the lines; and frames that have been handed over went where they had to go (`ItemsInv`). The lemma
  `FramesKeep` says that lines that arrive later change none of it.
- **Whole calls.** What is known of a deployment is part of what it serves, and nothing after an answer without a body; permission was given for the
  group the call is about; and the one request of a call that carries its key is the one it makes after
  that (`RequestInv`). The gate is `ExtensionGate`: the theorem is about any cache that implements it.
- **Options.** A slice has left the shared array by its first append (`SliceInv`), from where on it
  holds its caller's parameters, and a walk's query is what those and the page number say (`WalkInv`).
- **Configuration.** A config amounts to the words it has heard so far: those said to it, less the ones in `left`
  (`AmountsInv`, with `Amounts` comparing each field with a definition over the whole chain of words). A clone starts with what
  all of its parent's words amount to, so a config that is ready must have heard them all (`ReadyInv`); and a config
  that nobody has begun to make is the author of no word (`AuthorInv`), without which a clone might write
  its parent's notices. An option hands a
  word over; the lemmas `LastWordGrows`, `ValuesGrow` and `LegacyBasesGrow` say what one more word does to what
  all of them amount to. That headers are the config's own is the part that fails for a clone that shares
  its parent's map. `NormalForm` says that a base URL, as it may be written, is normalised to its root: a fact about suffixes of
  sequences and the longest of them.
- **Retry delay.** A delay is one that `retryDelay` may have chosen for these headers and this attempt (`DelayInv`). That
  all it may choose is due is arithmetic, a lemma for each of the four ways: a number a duration can hold is converted to itself and
  its product does not wrap (`MillisecondsAre`, `SecondsAre`), and half of it, rounded down, is within a unit
  (`Products`). The backoff needs that the doublings are numbers (`TwoToTheIs`), by the least number for which they
  were not. Beyond what a duration holds, nothing is said of the wait but that it is bounded.

Only model-checked: every liveness property (`EveryCallReturnsUnlessStranded`, `CallEnds`, `WalkEnds`,
`CancelReleasesNext`, `ScanEnds`), since neither `ENABLED` nor fairness is in this prover's reach.

Where a proof needs induction over numbers it takes the least counterexample (`LeastOfNaturals`, from the
well-foundedness of `<`), because the induction theorems of the library have an operator as a parameter, which
none of the provers at hand instantiates.

## Disagreements

Three runs end in a violation on purpose; their counterexamples show the code doing
something else than a comment in it says.

- **A coalesced caller inherits the leader's cancellation** (`gate_abort`).
  `cloudgate.go:58` returns the leader's error, and `apierror.go:223` defines
  `UserAbortError` as the caller's own doing.
- **List calls may overwrite each other's parameters** (`call_options_shared`).
  `params.go:40` appends to the caller's slice. If it has spare capacity the
  option lands in the caller's array, where the closure of an earlier cursor
  (`client.go:467-469`) reads it at every further page. Two calls on one goroutine, one after the
  other, are enough: a parameter of the second is added to the pages of the first if
  the first page's URL does not have it; concurrent calls race.
- **A list on a client scoped with `WithPathPrefix` asks in the wrong place**
  (`call_options_prefixed`). `requestconfig.go:256` puts the prefix before an absolute URL
  too, and `client.go:459-461` calls re-resolving a no-op. The first page is already wrong: `ListPage`
  resolves the list's path, and `Fetch` resolves the result again at once (`client.go:462-470`).

Others came up in the same way. The models follow the code; the statement it
departs from is kept as a definition at the end of the module, where replacing the
invariants of the run's configuration with it makes TLC show the counterexample.

- `EveryCallReturns` (with `ProvidersMayPanic`): a panic in a probe that is recovered further up
  (a `net/http` handler's, say) leaves the call in flight for good
  (`cloudgate.go:65`), so that later callers of that deployment wait forever.
  The passing run checks that nothing else does this.
- `UnavailableIsTheDeployments` (`DiscoveryCache`): a 404 from elsewhere makes a deployment look old.
  `cloudgate.go:104-105` finds a `NotFoundError` anywhere in the chain of the probe's error; a credential
  provider that uses this SDK may have met one, and `requestconfig.go:92` keeps it with `%w`. The caller is told
  that the extension is unavailable, and `cloudgate.go:108-109` writes that "GET /apis returned 404", which was
  never sent. Nothing is remembered.
- `OnlyListsAreCached` (`DiscoveryCache`): a 2xx answer to `GET /apis` without a body is no error to `doJSON`
  (`client.go:566`), so that the gate caches an empty list, and says "unavailable" of every group as long as
  the cache lives. `cloudgate.go:24-26` will not have one bad moment do that.
- `RejectionIsTheCallersOwn` (`DiscoveryCache`): the 401 a probe meets with its leader's credential is
  reported to every caller that waits on it (`cloudgate.go:58,97`;
  `apierror.go:86-87`, "the credential was ... rejected"). It is not remembered.
- `ConflictIsALoss` (`RequestPipeline`): the conflict a versioned update reports may be with its own
  first attempt, performed and unanswered (`requestconfig.go:487`; `apierror.go:99`). The comment at
  487-489 says the next attempt can win; it sends the same version again, so it cannot.
- `ExplicitOptionWins` (`ClientConfig`): `ORCA_BASE_URL` is applied before the explicit option
  and fails `New` if it does not parse (`client.go:128`; the comment at 120). The deprecation notice
  also names the variable `ORCA_REGISTRY_URL` (`baseurl.go:68`), which nothing reads.
- `DeletedIsNotSent` (`ClientConfig`): `WithHeaderDel` does not remove the credential, the wrapper's
  `Accept`, or the SDK's `User-Agent`, which is put back (`requestconfig.go:291-310`;
  `option/requestoption.go:162`). For the same reason `WithHeader` of one of the first two is without
  effect while the credential or the wrapper sets it.
- `AnySlashesWillDo` (`ClientConfig`): `/api//v1` loses its `/v1` only, the partial strip that
  `baseurl.go:16-22` is at pains to avoid; and of `/v1/v1` one suffix goes.
- A renderer writes an error event of the server as a line and returns nil (`sse.go:32-37`), where
  `Stream.Next` fails (`stream.go:100`). `CleanEndIsComplete` says so for one and not for the other.
- `DownloadsLeaveRawUntouched`: the gate's probe of a gated download writes the
  destination of `WithRawJSON` (`cloudgate.go:96-98`, `client.go:558`;
  `option/requestoption.go:257-258`).
- `UploadsAreCaptured`: `doMultipart` never fills it (`client.go:577-625`).
- `RetriesAreSafe`: an unkeyed mutation is retried like anything else
  (`requestconfig.go:353-355`; `option/requestoption.go:202`).
- `ProviderErrorIsFinal`: a credential provider whose error wraps one of this SDK's
  connection errors is retried (`requestconfig.go:508-515`; the comment at 502-507).
- `TruncationIsReported`: a body cut in the middle of a frame ends the stream with a nil
  error unless the transport reports one (`decoder.go:115`; the comment at 76-79).
- `ServerIsObeyed`: a wait beyond eight seconds is cut (`requestconfig.go:549`; 519 and
  the SDK's `README.md:88-89`).
- `BackoffNeverCollapses`: from the 35th retry on the doubling overflows and the
  backoff may be zero (`requestconfig.go:544-546`); it takes a `WithMaxRetries` of 35 or
  more.

## Not modelled

- `packages/param`, `internal/apijson`, `multipart.go`, the resource types: encoding of data, in
  functions without state, concurrency or order.
- `sessionhandle.go`: forwards each call with the session's identifier put first; it keeps no
  state and takes no decision.
- The JSON of a rendered line, the byte order mark at the start of a stream, the payload bytes of
  events.
- Validation of option values other than base URLs and credentials; `WithHTTPClient`; paths of
  operations and their parameter checks.
- Percent-encoded slashes in a base URL's path: `NormalizeBaseURL` rewrites the decoded path, so one
  that has them loses them; `ClientConfig` has segments only.
- `Close` called on a `Stream` while another goroutine is in `Next` (`stream.go:132`): the fields are
  unsynchronised and nothing promises that use.
- List servers that mix the two dialects on one page (ID anchors, no token and no
  `has_more`): `Pagination` answers only with lists that speak one dialect.
- The two deadlines of an attempt, `RequestTimeout` and `http.Client.Timeout`, are one in
  `RequestPipeline`: whichever ends it, the states are the same (`option/requestoption.go:220`).
- Writers and destinations that callers share between concurrent calls (`WithWarningWriter`,
  `WithRawJSON` on a client): their synchronisation is the caller's.
- Options that say something else the second time they are applied: gate and request resolve the same
  options separately (`cloudgate.go:86`, `cloud.go`), and `ExtensionCall` gives both the same base URL. A legacy base
  URL given to a gated or a list call is told of by each config made from it; `EveryNoticeOnce`
  is about one config.
- How long a call sleeps between attempts before it notices that its context has ended: `RequestPipeline`
  has the wait and its end, not its length.

## Plan

Modelled and checked: every component that has state or takes decisions. Proved: every invariant, action
property and refinement that a passing run checks, those of `CallOptions` without spare capacity. Left to do:

1. `ExtensionCall` over `DiscoveryCache` itself, as a refinement of `ExtensionCall` over `ExtensionGate`.
2. The weaker promises that the disagreements leave standing, as properties and theorems: what `CallOptions` keeps
   with spare capacity when the calls come one after the other, what an abort seen by a joined caller says of its leader.

## How to run

    tlc -workers 2 -config DiscoveryCache.cfg DiscoveryCache
    tlapm DiscoveryCacheProofs.tla
    for m in *Proofs.tla; do tlapm $m; done

`PROJECT.json` lists every run with its module and configuration, the lines each
definition stands for, and the hazards the properties are aimed at.
