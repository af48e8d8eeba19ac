# A TLA+ model of the ZenTao MCP server

The program is a Go server that offers a ZenTao bug tracker to MCP clients. It
translates OpenAPI operations into MCP tools, adds seven composite tools of its
own (bug search, worklog, quality report, analysis, AI scores, similar bugs,
name resolution), logs in to ZenTao on behalf of its clients, and keeps an
index of historical bugs. The modules here state what its stateful parts
promise and check those promises. Line numbers refer to the files under `src/`;
the correspondence of every definition with its lines is in `PROJECT.json`
(`map`).

## The system

| Component | State | Operations | Hard parts |
|---|---|---|---|
| `ZentaoTokenManager` (`internal/middleware/zentao_token_manager.go`) | `tokens`, `failures`, `accountFailures`, `inflight`, under one mutex that is released during a login | `Token`, `TokenWithLoginGuard`, `Refresh`, `Cleanup` | two critical sections around a network call; coalesced logins and waiters; cancellation; expiry; full caches; an account that ZenTao locks after a few rejections |
| `authTransport` (`auth_transport.go`) | none | one round trip, a refresh and a replay after a 401 | concurrent 401s for one token |
| `ZentaoAuthenticator` (`zentao_authenticator.go`) | two limiters | `Wrap`, `validateToken` | order of the gates; the guard runs inside the manager's critical section |
| `accessLimiter` (`zentao_access_limiter.go`) | a global bucket, a table of buckets by address, the time of the next cleanup | `allow` | rounding of waits, forgetting of idle addresses, a full table |
| bug index (`internal/service/bugindex`) | one immutable snapshot behind a lock | `Replace`, `Search`, `Ready`, `Len`, `BuiltAt` | a new generation under running searches |
| index builder and history lookup (`internal/service/zentao/history.go`) | the index, `buildState` (an atomic pointer) | `RunIndexBuilder`, `FindSimilarBugs` | partial failure of a build, two publications, re-reading as the caller |
| REST client (`internal/service/zentao/client.go`) | none | `listAll`, `getJSON`, `detail` | paging through a collection that changes |
| composite tools (`bugs.go`, `worklog.go`, `score.go`, `analysis.go`, `report.go`) | none | one per tool | a record budget shared by several scans, failed scopes |
| MCP controller, schema service, tool service, OpenAPI loader | built once at start | registration, one request per call | reference cycles in schemas, allow and block lists |
| application (`cmd/app`) | readiness | start-up, shutdown | readiness before the listener, builder goroutine |

They interact as follows. A request passes `ZentaoAuthenticator.Wrap`: the
request limiter, the header checks, then either the token manager (whose login
guard is the login limiter) or `validateToken`. The tools then read ZenTao
through an HTTP client whose transport asks the token manager again, and once
more with `Refresh` after a 401. Composite tools page through collections with
`listAll`. The index builder does the same under a service account, in its own
goroutine, and swaps its result into the index; lookups rank with the index and
re-read every candidate with `detail` under the caller's credentials.

What makes each component correct:

* token manager: ZenTao never sees one rejected login too many; no two logins of
  an account at a time, however its name is spelled; every waiter is woken;
  nobody gets a session of another account or password; a working session is not
  lost because of somebody else's mistake; the caches keep their bounds without
  giving up a budget.
* access limiter: no window admits more than burst plus rate times its length,
  for everybody and for each address, although addresses are forgotten; the
  table is bounded; a client that waits as long as it was told is let in.
* index and lookups: nothing is returned that the caller could not read itself;
  no candidate vanishes; an index with gaps says so, also after failed
  refreshes; lookups and builds end.
* paged scans: distinct records within the budget; a scan that does not claim
  truncation holds every record that was there throughout.
* searches and worklogs over several scopes: an answer that admits to no gap has
  none, a failed scope does not take the others' budget, nothing is counted
  twice, and the budget bounds what is read.
* gate and transport: a request acts with its own client's session and with no
  other; what it asks of ZenTao happens once; that a session was closed meanwhile
  is repaired and not reported; a client is only told that its credentials are
  bad when they are.
* payloads: a structured output passes the schema that was published for it,
  values come back in the type the document gives them, arguments reach the
  place the document gives them, and an analysis says of a bug what its history
  says.

## The modules

| Module | Models | Its actions and the code |
|---|---|---|
| `AccountLockout` | what the token manager promises to ZenTao, without any of its caches | begin a login unless the budget is spent, ZenTao's answer, the end of a login, time |
| `TokenManager` | `ZentaoTokenManager` with concurrent callers, and ZenTao | one action for each return or unlock of `token()` before the login (`ReuseSession`, `ThrottleAccount`, `SuppressRetry`, `WaitForLogin`, `RefuseNewAccount`, `GuardRefuses`, `BeginLogin`, `ReturnCancelled`), one for each kind of answer after it (`ReceiveAccepted`, `ReceiveRejected`, `ReceiveFailed`), `Wake`, `StopWaiting`, `Cleanup` |
| `TokenManagerProofs` | theorems about `TokenManager` | |
| `MCTokenManager` | instances for TLC | |
| `HistoryIndex` | the builder goroutine, the index and concurrent lookups, over a ZenTao whose bugs and permissions change | `StartBuild` to `StoreState` are `refreshIndex` and `buildCorpus`; `Ask`, `CheckReady`, `Explain`, `Search`, `ReadStatus`, `ReadHit`, `FoldBatch` are `FindSimilarBugs`, `indexStatus` and `verifyHits` |
| `HistoryIndexProofs` | theorems about `HistoryIndex` | |
| `MCHistoryIndex` | instances for TLC | |
| `Subsequences` | a list with some of its elements taken, by their positions (`Pick`), and the numbers of a set in order (`Ascending`) | pure operators |
| `SequenceLemmas` | lemmas about `Pick`, enumerations, sums, and induction over sets of numbers | |
| `PagedScan` | `listAll` over a collection that shifts between pages | `FetchPage` is one turn of the loop, `FetchFails` its error return |
| `PagedScanProofs` | theorems about `PagedScan` | |
| `ScopeScan` | the loops of `SearchBugs`, `UserWorklog`, `ResolveScope` and `QualityReportFor` over scopes that overlap, fail and change | `NamedScopes`, `ListProducts`, `AllKinds`, `NoScope` choose the scopes; `ScanScope`, `ScanFails`, `ReportFails`, `OutOfBudget` are the branches of one turn of the loop |
| `ScopeScanProofs` | theorems about `ScopeScan` | |
| `AccessLimiter` | `accessLimiter.allow` | `RefuseFull`, `RefuseRate`, `Admit`: its three returns |
| `AccessLimiterProofs` | theorems about `AccessLimiter` | |
| `RequestGate` | `ZentaoAuthenticator.Wrap`, the tool behind it and `authTransport` under it, for concurrent requests over one `TokenManager` | `RefuseRequest`, `RefuseHeaders`, `StartLogin`, `StartValidation` are the outcomes of the gate's checks, `RefuseLogin`, `AdmitToken`, `RefuseToken` those of the login and of `validateToken`; `AskToken`, `UsePersonalToken`, `Execute`, `SendFails`, `Reject401`, `NoSession` are one `RoundTrip`; `ManagerLookup` to `ManagerReceives` are the manager's own steps |
| `RequestGateProofs` | theorems about `RequestGate`, and how it uses `TokenManager` | |
| `MCRequestGate` | instances for TLC | |
| `Shapes` | schemas and values | pure operators |
| `OutputShapes` | the output side: `resolveSchema`, `buildOutput`, `compatibleOutputSchema`, `normalizeStructuredOutput`, and what a validator accepts, on schemas and values that nest to any given depth | recursive functions |
| `ToolInputs` | from an operation to a tool and from arguments to a request: `Tools`, `buildInput`, `collectParams`, `RegisterAllTools`, `IsAllowed`, `Execute` | pure operators |
| `BugInsights` | `AnalyzeBug`, `actionInsights`, `resolutionNote`, `relatedFromIndex`, `relatedBugs`, `AIScores` | pure operators |
| `Exchange` | the state of one exchange: its stage, the call, the answer | |
| `ToolCalls` | registration, and a generic tool up to the request it sends | `RegisterTools`, `CallGeneric` |
| `BugTools` | the analysis and score tools | `CallBuiltIn` |
| `Payloads` | the whole exchange, with ZenTao's answer and the tool's | the actions of the two modules above, and `Reply`, `CallFails`: `toolHandler` |
| `ExchangeProofs` | theorems about `ToolCalls`, `BugTools` and `Payloads` | |
| `MCPayloads` | documents, arguments, bodies and histories for TLC | |

`RequestGate` extends `TokenManager`: its requests are the manager's callers, and
each of its steps either leaves the manager alone or is a step of it. That this
is so is a theorem (`GateDrivesManager`), not a convention. The access limiter
appears in it as what it is for a request, a refusal that can come at two places;
its own module says when.

A critical section is one action, and so is one read of another goroutine's
state: in `HistoryIndex` the index is replaced in one step and `buildState` in
the next, and a lookup searches in one step and reads the status in another,
because no lock covers both. Every lookup of the token manager first runs
`cleanupLocked`, and so does every action that models one (`Cleaned`,
`LiveTokens` and so on): cleaning is not an action that may be skipped.
`Cleanup`, the exported method, is an action besides.

What is abstracted: an account, a password, an address, a bug is a model value;
a token is the login that issued it; `Protection` maps spellings of an account to
the bucket they share (lower case, trimmed); `SharedPrefix` says which failure
keys start with `key#` (an account named `alice#x` shares the prefix of
`alice`). The ranking of the bug index is any order of any matching bugs, cut at the
index's own limit (`MaxHits`, `maxLimit` in `search.go`). The
limiter counts in integers where the code counts in float64: a request costs
`Cost` units and a tick adds `Rate` of them, so that rounding is the only thing
left out; the nanosecond that `wait` adds is the rounding up to the next tick.
Messages, logs and layouts are left out.

In `HistoryIndex` a product scan is one step, with a result that `PagedScan`
allows: a scan that is not truncated holds the bugs that were there all along,
and possibly some of those that came or went. `PagedScan` checks that promise
for `id_desc` listings that send totals and honour page numbers
(`CompleteUnlessTruncated`), which is how the builder lists bugs. `ScopeScan` takes the same step for the scan of a scope.
Both steps are proved of `PagedScan` (`ScanIsOneStep`, `ScanIsListed`).

`ScopeScan` models four tools in one module because they are the same loop with
different bookkeeping: what a failed scan costs (`Cost`), whether the scans share a budget
(`Remaining`), whether an empty one ends the loop (`OutOfBudget`), whether
repeated ids are dropped (`Distinct`), and whether a record seen before is
skipped (`Taken`).

In the payload modules a value keeps its kind, its nesting and what its text can
be parsed as; a schema keeps the keywords the documents of the repository use in
responses. A schema is an entry of a document and names its parts, so that
references can form cycles. An argument keeps its text, which stands for what `fmt.Sprint`
makes of it; parameters go to the path, the query, the headers or the body (the code
sends no cookies, and no property asks for one).
`Valid`, the validator of the MCP library, is external and modelled by the
keywords it is given here.

What the code does to schemas and values it does by recursion, and `OutputShapes`
writes it as functions on the sets of all schemas and values up to a depth
(`SchemaTrees`, `ValueTrees`; the depths are the constants `SchemaDepth` and
`ValueDepth`, and any number will do). Each function is given by what it makes of
a schema when its parts are done (`Compatible`, `Normalized`, `ValidAmong` and so on), and a set is
computed where the code has a predicate: `Matching` is the set of values for which
`valueMatchesSchema` is true. No module has a `RECURSIVE` operator, which the
prover could not reason about.

The exchange is built in layers. `ToolCalls` and `BugTools` have a specification each
that leaves the rest open (`RequestSpec`: other steps call no generic tool and leave the tools
alone; `BugToolSpec`: other steps answer generic tools only), and `Payloads` puts
the output side on top. Its actions are those of the layers, and `Reply` and
`CallFails`. That each of its steps is one the layers allow is a theorem
(`ExchangeIsRequest`, `ExchangeAsksAboutBugs`), so what is proved of a layer holds of the
exchange (`ExchangesKeep`). Loops that take some elements of a list are written with
`Pick`, which names the positions that are taken, where `SelectSeq` would compute
them: that is what the proofs can reason about.

## The runs

| Run | Instance | What it shows |
|---|---|---|
| `accounts` | 3 callers, 3 spellings of one account, 2 passwords, 3 calls, a cache of 2 sessions, clock to 3 (3.8 million states) | with prompt answers: exclusion of logins, no abandoned waiter, at most `FailureLimit` rejections, the budget agrees with ZenTao's count, answers fit their calls, sessions survive other callers' mistakes and, when the cache is full, only the least recently used goes; the manager implements `AccountLockout` |
| `caches` | 2 callers, 2 accounts, caches of one entry, 4 calls, late answers | bounds and eviction; the bucket of a running login stays; every call returns |
| `late` | 1 caller, answers may be late | **violated**: `WithinBudget` (see below) |
| `builds` | 2 products, 1 bug, 2 builds, 2 changes, 1 lookup at a time | gaps are reported, failed refreshes keep what is known, builds and lookups end |
| `lookups` | 4 bugs in batches of 2, 1 build, 1 change | verification as the caller, accounting of candidates |
| `race` | as `builds`, with an overfetch of 2 | **violated**: `NoGapConcealed` (see below) |
| `paged` | pages of 2, budgets 1 to 5, up to 6 records, 2 deletions, any number of creations within the 6 | the promises of `listAll` |
| `limiter` | 3 addresses, a table of 2, clock to 8 | the promises of `allow` |
| `scopes` | 2 scopes with up to 2 records, named up to 3 times, budget of 2, 1 change, 4 tools | gaps are reported, a failed scope costs a search nothing, a worklog keeps to `maxScan`, no record is counted twice |
| `scope_budget` | as `scopes`, without changes | **violated**: `SearchWithinMaxScan` (see below) |
| `gate` | 2 concurrent requests with one account, two passwords, a personal token, or half of the credentials; 1 business request each; 2 sessions closed by ZenTao, answers that get lost, 1 client that hangs up, clock to 1 (3 million states) | requests act as their callers, have their effect once, do not notice closed sessions and are refused for what happened |
| `payloads` | documents of 3 schemas with references, alternatives and nullable types; values of depth 2; parameters in the path, query, headers and body; histories of up to 3 actions, and of a bug resolved, reopened and resolved again (0.3 million states) | outputs pass their schemas, numbers are restored, arguments are sent, insights follow the record, related bugs are readable |

Why the bounds are enough. Three callers are a login, a waiter on it and a
caller that interferes; spellings and two passwords distinguish the keys the
code uses (account, bucket, account and password). Three spellings have a session each
in a cache for two, so that a login evicts one of two others. `FailureLimit = 2` is the
default, and three calls are one more than it; the clock reaches beyond a
failure window, a session and a failure entry, so that every kind of entry
expires, while others live. Caches of one entry make every insertion of another
account meet a full cache. The `builds` instance has a failing, a truncated and
a complete scan in one build, and a second build that fails, is abandoned or
succeeds after the first; the percentage 60 makes one failure of two survivable
and two of two not. `lookups` has two full batches. The budgets of `paged` lie
below, at and above one and two pages. In `limiter` a request costs more than
one tick adds, so that waits have a remainder. In `scopes` the two scopes hold more
than the budget together and may share both records, and three names make one
of them repeat; the budget runs out within a scope, between two, or not at all.
In `gate` two requests are enough for one to evict, coalesce with
or fail for the other between any two of its steps; a session lives for one unit,
so it expires within a request as well as being closed, and two closed sessions
are what it takes to exhaust the one refresh. `MaxCalls` leaves every request
the calls it needs (`CallsAssumption`). In `payloads` three schemas give a cycle
through one, two and three references and alternatives that overlap; `SchemaDepth`
and `ValueDepth` leave room for every schema these resolve to and every body (TLC
checks `ResponsesAssumption`); and a
history of three actions has every order of comment, resolution and activation; the histories
of five have two resolutions, each with and without a remark, with comments before either.
`MaxHits`, 50 in the code, cuts a ranking in `payloads`; in the runs of `HistoryIndex` it is
as large as the rankings they need.
The bounds are the constants `MaxTime`, `MaxCalls`, `MaxBuilds`, `MaxChanges`,
`MaxBudget`, `MaxRecords`, `MaxDeletes`, `MaxTargets`, `MaxRequests`,
`MaxBusiness`, `MaxClosed` and `MaxHangUps`; each stands in a guard of an action of the environment. Once they
are reached the environment is silent, and the components finish what they do.
Symmetry is used in runs without liveness, over callers and over the bugs of one
product. Deadlock is checked everywhere but in `paged`, `scopes` and
`payloads`, where a scan or an answer that has ended stops, and in `gate`, where
clients stop sending requests.

### Fairness

`TokenManager!FairSpec`: a goroutine that can run does, so `Lookup` and
`Wake \/ StopWaiting` are weakly fair; a login has a timeout of 30 seconds
(`loginTimeout`), so `Answer` and `Receive` are. Nobody has to call, cancel, or
wait for the clock. `HistoryIndex!FairSpec`: the builder goroutine and each
lookup are weakly fair, which assumes that every read ends. The clients give up after 60
seconds without response headers (`internal/clients/http.go:34`), but nothing bounds the
body behind them: a body that stalls for good would park the builder or the lookup
(the comment at `http.go:24` says what that means for the index), and
`EveryLookupReturns` does not see it. It says that nothing else keeps them. Asking, building
for ever, and changes in ZenTao are not fair. Weak fairness is enough: no step of
a lookup is disabled again by another component.

### Three disagreements with the documentation

* `late`: the answer to a second login is processed after the window of the
  first rejection has passed (`zentao_token_manager.go:241`), and the count
  starts over, although the login was sent and counted by ZenTao inside the
  window. ZenTao then counts a third rejection with no quiet window in between,
  where `deploy/cloud/README.md:109` promises to stop after two. The answer has
  to be in flight at the moment the window ends.
* `race`: `refreshIndex` publishes the documents before their coverage, and a
  lookup searches before it reads the coverage. A lookup in between reports the
  coverage of the previous generation, and a miss in a gapped index comes
  without the note that `deploy/cloud/README.md:99` asks for.
* `scope_budget`: when the scan of a scope fails after some pages, `SearchBugs`
  goes on without taking the records it has read off the budget
  (`bugs.go:260`), so a search may read more than `maxScan` bugs, where
  `docs/zentao-mcp-extensions.md:78` and the tool's schema
  (`zentao_schemas.go:54`) give a maximum. `UserWorklog` does take them off. The
  excess is bounded by one budget for each failing scope. What the rule buys is
  `FailuresAreLocal`: a failing scope cannot starve the others, which
  `docs/zentao-mcp-extensions.md:84` promises.

## What is proved

For all values of the constants that satisfy the named assumptions of the module.

`TokenManagerProofs`:

* `TypeCorrect`: `Spec => []TypeOK`.
* `MutualExclusion` (`OneLoginPerAccount`) and `WaitersKept` (`NoAbandonedWaiters`).
  The two are inductive together (`Exclusion`): a login starts only when its
  bucket is not in `inflight`, `inflight` names the login that holds the bucket,
  and only that login removes it. `LoginSteps` says what every step may do to
  logins and channels, and `ExclusionStep` uses nothing else of the steps.
* `BudgetKept` (`WithinBudget`) and `BudgetsAgree` (`BudgetAgrees`), under
  `PromptReplies` and `~LostReplies`. `WithinBudget` is not inductive: the bound on
  ZenTao's count holds because a login begins only when the server's own count
  is below the limit and the two counts agree, and they agree only up to the
  answer that is on its way. `BudgetInv` adds this: for each bucket the
  server's entry and ZenTao's agree, or the login of the bucket is answered and
  they differ by exactly its verdict; a login that is not answered yet has budget
  left; a bucket in flight has an entry. There is one lemma for each way a
  step can touch a bucket (`BeginKeeps`, `AnswerKeeps`, `ReceiveKeeps`,
  `CleaningKeeps`, `TickKeeps`, and `FrameKeeps` for buckets it leaves alone).
* `ManagerImplementsLockout`: `Spec => Lockout!Spec` with the refinement mapping of
  `TokenManager`, from the same invariant and the same assumptions.

Where `PromptReplies` or `~LostReplies` does not hold, `WithinBudget` is false: the
run `late` is a counterexample to the first, and a rejection whose answer is lost
cannot be known to any client. Nothing else needs them: the theorems that follow
hold with late and lost answers too.

* `CachesKept` (`CachesBounded`) and `ActiveBucketsKept` (`ActiveBucketKept`), from
  `CacheInv`. They need each other's argument: the table of accounts is bounded because a
  login is refused when only active buckets are left, and an active bucket
  stays because every login finds its bucket in the table, where cleanup
  passes it over.
* `AnswersKept` (`AnswersFitTheCall`), from `SessionInv`: every cached session is one
  its account's own login stored under its own password, and serial numbers tell
  sessions apart: a login made to replace a session has a greater serial than
  that session, so that what a refresh returns is never the stale token.
* `SessionsKept` (`SessionsSurvive`), an action property. A login that ends may
  replace a session only if the session was of no use to its caller, so the proof
  needs to know that a login still in flight is still needed (`LoginsNeeded`): when
  it began the cache held nothing its caller could use, and since then only a
  login of the same account could have put something there, of which there is no
  other (`OneLoginPerAccount`).

`RequestGateProofs`:

* `GateDrivesManager`: `GateSpec => DrivesManager`, that is `TokenManager`'s `Spec`. A
  step of the gate calls the manager only for a request that is not in a call
  (`RouteInv`), so it is one of the manager's steps or leaves it alone. With it
  every theorem about the manager is one about the composed system, and the
  proofs below use them.
* `EffectsKept`, `ExpiryKept`, `RefusalsKept`. Each rests on an invariant about one
  request; `Locality` says that steps of other requests do not touch it, and
  what the manager does for others is known from its interface (`result` changes
  only for its own caller). `EffectsAtMostOnce` holds because a request is sent
  again only after a 401, which executes nothing (`UntouchedInv`). `ExpiryIsInvisible`
  holds because the second session differs from the first (`AnswersFitTheCall`) and
  was itself found closed (`ExpiryInv`). `RefusalIsHonest` holds because the manager
  reports a rejection only of the very account and password ZenTao turned down,
  now or remembered in `failures` (`RefusalInv`).
* `CallersKept` (`ActsAsCaller`), under `PromptReplies`. `VouchInv` relates every cached
  session, and every accepted login whose answer is on its way, to the moment
  ZenTao accepted it. The assumption is needed because the manager starts the life of a session
  when it receives the answer, so that a late answer lives longer than
  `TokenTTL` after ZenTao's decision.

`AccessLimiterProofs`, from the one assumption of `AccessLimiter`:

* `LimiterTypeCorrect`: `Spec => []TypeOK`, with the capacity of every bucket.
* `RatesKept` (`GlobalWithinRate`) and `AddressRatesKept` (`AddressWithinRate`). Neither is
  inductive, for a window's count alone does not say what the bucket can still
  give. The argument is a potential: what a bucket holds now, counting the
  refill the code has not written yet (`Held`), plus what the window has
  admitted never exceeds a burst plus what the rate has added since the window
  began (`GlobalInv`, `AddressInv`). An address without a bucket holds a full
  one, so that forgetting it keeps the bound exactly when `IdleIsFull` says that
  it was full anyway.
* `TableKept`: `Spec => []TableBounded`.
* `RetryAfterKept`: `Spec => RetryAfterIsEnough`, by `PromiseInv`: what a bucket
  holds and what it gains until the promised moment make a request, because a
  quotient rounded up by one is enough (`Division`).

`HistoryIndexProofs`, in two parts that share no variable but the index:

* `IndexComplete` (`CompleteUnlessPartial`) and `StatusTrue` (`StatusFollowsIndex`)
  from `IndexInv`. Neither is inductive: a build publishes what several earlier
  scans have found. The invariant says of each scan of a running build that, if it
  claims to be complete, it holds every bug of its product that has been there
  since the build began (`ScansKeep`), and that between the two publications the
  gaps of the new index are those the build is about to store.
* `HistoryTypeCorrect` (`TypeOK`), `ReadAsCallerAlways` (`ReadAsCaller`) and
  `CandidatesAccounted` (`EveryCandidateAccounted`) from `LookupInv`, which says of
  every lookup where it is: before the first batch nothing is counted (`Fresh`);
  between batches each hit before `start` is in one of the counts, the bugs are
  the hits at some of those positions, in their order, and what the open batch has
  read successfully the caller could read (`Verifying`); at the end the same up to
  the last hit examined (`Accounted`). The work is in `FoldBatch`: it stops at the
  hit that fills the answer, so its tallies are those of a prefix of the batch and
  together they are as many as the prefix is long. That taking positions of a
  list and then positions of the rest is taking positions of the whole is
  `BatchPicked`.

`PagedScanProofs`, from the assumptions of `PagedScan`:

* `ScanTypeCorrect`, `ScanDistinctWithinBudget` (`DistinctWithinBudget`), `ScanEnds`
  (`EveryPageCounts`): after `page - 1` pages there is a new record from each page
  that did not end the scan, and no more than the pages hold (`PagesHold`).
* `ScanComplete` (`CompleteUnlessTruncated`). A record that slips across a page
  boundary after a deletion is never seen again; the scan is honest only because
  the largest total it has been told is too large for what it then reads. Hence
  `SkippedAreCounted`: for each steady record not read yet, that total is at
  least what was read, the record itself, and every older record not read. A
  deletion can only lower the right-hand side, and a new record is newer than
  all of them. When a page goes past the record, pages being newest first
  (`NewestFirst`), the total that came with it still counted what lies behind.
* `ScanExact` (`ExactWhenQuiet`): without changes the scan has read the pages before
  this one, exactly (`ExactSoFar`).
* `ScanIsOneStep`, `ScanIsListed`: the two modules that take a scan for one step
  assume no more than its pages give. When the last page ends a scan, what it
  leaves is what `HistoryIndex!ScanProduct` may choose (`ProductScanned`: nothing
  but ids that existed, `ReadTouched`, and every steady one unless truncated), for
  a ZenTao that sends totals and honours page numbers. Of a scope that does not
  change meanwhile it is what `ScopeScan!Listed` holds (`ScopeListed`): then no
  total is out of date and nothing read is gone (`QuietRead`), so a full budget
  leaves records behind, and only a ZenTao that cuts pages short and sends no total
  can make a scan look complete that is not. `ProductScanned` and `ScopeListed`
  restate those two formulas over the variables of `PagedScan`; a failed scan
  returns no records in either module.

`ScopeScanProofs`, all from one invariant, `TypeOK /\ Started /\ CountedOnce /\ Covered /\ Books`:

* `ScopeTypeCorrect` (`TypeOK`); `RecordsCountedOnce` (`CountedOnce`), because what is
  added to an answer has no record in common with it (`Joined`, `TakenOnce`).
* `AnswersComplete` (`CompleteUnlessTold`): as long as the answer admits to nothing,
  each scope before `next` is in it as far as the request wants its records, and
  every scope asked for is among the targets (`Covered`). That the targets lost
  none when repeated ids were dropped is `DistinctFacts`.
* `FailuresCostNothing` (`FailuresAreLocal`) and `WorklogKeepsBudget`
  (`WorklogWithinMaxScan`): what is left of a budget and what the scans that count
  have read make the whole, at every moment (`Books`). The scans that count are
  all of them in a worklog, and those that did not fail in a search.

`ExchangeProofs`:

* `ArgumentsAlwaysSent`: `RequestSpec => []ArgumentsSent`. A registered tool is built from
  an operation of the document (`ToolsBuilt`), and it is called with arguments its
  input schema accepts (`CalledWell`); the rest is about operators. What
  `build_input.go` requires and what `execute.go` fills in are computed
  separately, from two lists of parameters, and the proof shows that they agree:
  a placeholder is required whether it is declared or inferred, a declaration of
  the operation wins over one of the path, and `path.Join` keeps a path without
  empty and dot segments as it is (`Joins`). `DocumentAssumption` says that the
  documents write their paths so, and `SDKAssumption` that the MCP library refuses
  a call that lacks a required argument.
* `RelatedReadable`: `BugToolSpec => []RelatedAreReadable`. The ranking gives each bug its own
  place because similarity and id order them totally (`PlacesTaken`).
  `BugToolsAssumption` says that a detail call returns one bug at most, and that a
  scan and the index hold a bug once.
* `InsightsFollow`: `BugToolSpec => []InsightsFollowRecord`. For the note: what the loop of
  `resolutionNote` knows after each action has a closed form (`Known`: the note of the first
  resolution that is `Explained`, if there is one by then, and the last comment), which takes the loop's steps (`KnownSteps`) and therefore is
  what it computes (`SameSteps`). For the scores: sorting the keys of a history is
  a bijection, so its comments are as many as the record has (`AsMany`), and sums
  over the objects are added one object at a time.

* `OutputsAlwaysPass` (`Spec => []OutputPasses`) and `NumbersAlwaysRestored`
  (`Spec => []NumbersRestored`), of `Payloads`. The invariant is small (`AnswerInv`: a
  called tool is built from an operation of a document, an answer is what
  `toolHandler` makes of a body that operation may get); the weight is in the
  functions. The argument goes in four steps.
  1. The recursive functions are what their definitions say (`PromisedDef`, `ValidDef`,
     `SaysDef`, `CompatibleDef`, `NormalizeDef`, `ResolutionExists`). `Recursion` says so for any
     function that looks only at what has a lower rank; the rank of a schema is the
     lowest level it is on (`Height`), that of a set of visited schemas is how many are
     `Left`. `CompatibleDef` also bounds the published schema: drift adds one level for each,
     so it is within twice the depth (`Published`).
  2. A document resolves to schemas that are `Sound` again and no deeper than the
     document has entries (`ResolvedSchema`), because a schema that is being resolved is not entered again.
  3. Normalisation breaks no promise, whichever schema it follows (`NormalizedFollows`:
     a value is promised to every schema it was promised to before). That it is for every schema and not for its own only matters in a
     choice, where the code may follow an alternative that is not the one ZenTao meant.
  4. What is promised passes the published schema (`PromisedIsValid`): a choice keeps its
     alternatives (`ChoiceValid`), everything else either drifts, and accepts any value (`DriftAccepts`), or is
     an object without required fields (`PlainValid`). For `NumbersRestored` the fourth step is
     `SaidIsRestored`: a value that can be read as declared comes out as declared.

  The assumptions: `ResponsesAssumption` (a response is described by a schema of its document, the documents are made of
  `Sound` schemas, and `SchemaDepth` and `ValueDepth` are large enough for them and for the bodies) and
  `DepthAssumption`. All of the schemas of `docs/zentao-openapi.json` and
  `docs/gitfox-openapi.json` are `Sound`: one type at most, no `allOf` and no `not`, items in
  arrays only, properties in objects only, choices that say nothing else.
* `ExchangeIsRequest`, `ExchangeAsksAboutBugs`: `Payloads` implements the two layers, and
  `ExchangesKeep` takes their three theorems over.

`SequenceLemmas` has what these share. Induction here is over sets of numbers
(`Induction`): a set that has 0, and with each number the next, has all of them; and over
sets of anything with a rank (`RankInduction`, `Recursion`).
The theorems of the standard library that take a predicate as a parameter cannot
be used with these provers, but a set is a value.

Only model-checked, and why: liveness (`EveryCallReturns`, `EveryLookupReturns`), which is
outside the prover's reach. Every invariant and every action property that a passing
run checks is a theorem.

## What the checks do not say

* `IdleIsFull` is a premise of `AddressWithinRate`: an idle address has a full bucket
  again before it is forgotten. With the default options it holds with a
  large margin; the configuration check accepts rates at which it does not.
* `CompleteUnlessTruncated` is about listings that send totals, are sorted by
  descending id and whose pages follow the page number. Without a total, a
  record that is deleted between two pages lets another slip by unnoticed.
* The reason given with an empty index (`Explain`), and the document count and age in
  an answer, may belong to another generation than the search. No property is
  stated about them: no document promises it.
* An empty product list is a successful build for the code: it replaces the
  index. The model does the same.
* A login that a business request needs does not pass the login limiter: only the
  gate has a guard. So `RefuseRequest` and `GuardRefuses` bound what comes in, not
  what an admitted request goes on to do.
* A 401 that denies a business request, while the session is good, makes the transport
  log in again. The budget of the account bounds what that can do.
* `CountedOnce` excludes `ResolveScope`, where a kind that is named twice is listed
  twice (`scope.go:107`), and AI scores count an id that is given twice twice.
* `OutputPasses` has a premise, `Promised`: ZenTao answers an object where the document has one.
  A schema with alternatives is normalised only for those that the value does not match
  strictly (`normalize_output.go:83`). `NumbersRestored` asks nothing of a value whose
  schema names no type, as schemas with alternatives do (`Says`).
* `ArgumentsSent` is about arguments a request can carry (`Transportable`); see the list below.

Deviations met while modelling that no run states; most concern text the models
abstract from, or contradict no document:

* A bug that is resolved without a remark after a comment, reopened, and resolved again with
  a remark is explained by the earlier comment (`analysis.go:202-204`), where the comment at
  `analysis.go:186` says that an explicit resolve comment is preferred. What the code keeps
  to, for any number of resolutions, is `NoteFollowsRule`, the first conjunct of
  `InsightsFollowRecord`: the first resolution that has a remark or a comment before it
  decides.
* Actions keyed by id are sorted as strings (`analysis.go:230`): 10 before 9.
* A cookie parameter is listed in the input schema and never sent (`execute.go:52`). Path arguments are escaped twice, and a number of a million or more is written
  `1e+06` in a path or a query (`execute.go:41`, `execute.go:58`); lists become `[a b]`;
  `null` for a path parameter without a type leaves the placeholder; an empty path argument or `..`
  changes the route.
* `ParseFloat` accepts `NaN` and `Inf` (`normalize_output.go:336`), which JSON cannot
  carry. `OutputPasses` takes every text that can be read as a number for one JSON can carry.
* A parameter declared twice as required is listed twice (`build_input.go:71`).
* An AI score of 0 in the first field hides the second (`values.go:234`).
* Two operations with one id replace each other when they are registered.
* Readiness is set before the listener is up (`main.go:187`).

## Not modelled, and why

* Application (`cmd/app`): start-up and shutdown in sequence, configuration, health
  endpoints, telemetry. Its parts share one flag, set once.
* Tokenising and BM25 (`bugindex/search.go`, `tokenize.go`): a ranking is any order
  of any matching bugs, up to the limit; no property depends on a score.
* What is computed from records once they are read: the distributions, trends
  and percentiles of `report.go`, facets and `orderBy` of `bugs.go`, roles and
  summaries of `worklog.go`, averages of `score.go`, and the conversions of
  `values.go` (dates, text, users). They are pure functions of one list, and the
  unit tests compare them with examples; a model of them would repeat them.
* `scoreScopeIDs`: one `listAll`, whose promises are those of `PagedScan`.
* The composite tools' constant schemas, JSON and TOON encoding, logging: text.
* Crashes and restarts: nothing is persisted. A restart is `Init`.

What could follow: the aggregation of
`report.go` against a reference definition; `RequestGate` with `AccessLimiter` composed step by
step, to bound the logins an address can cause through business requests; and the
lifecycle of the application, if shutdown ever has to wait for the builder.
