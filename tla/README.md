# Formal models of gophercloud

TLA+ modules, TLC runs and TLAPS proofs about the part of gophercloud that has
behaviour of its own: the `ProviderClient` that many goroutines share (its token,
its reauthentication, its request loop), the authentication that installs
`ReauthFunc`, the way from the settings of a user to a login and from a catalog
to an endpoint, the requests of a service client, the pagination of listings,
the waits, and the files of stack templates. Paths are relative to the
repository; line numbers refer to the commit the modules were written from.

Contents: 1 the system - 2 the modules and how they correspond to the code -
3 the runs - 4 bounds and fairness - 5 the proofs - 6 what the code does that its
comments do not say - 7 what is not modelled - 8 the plan.

## 1. The system

Some 1800 Go files make up the SDK. Almost all of them are service packages
(`openstack/<service>/<version>/<resource>`), which turn Go structs into URLs and
JSON and back, and have no state. The logic sits in two dozen files:

| Component | Files | State | Operations |
|---|---|---|---|
| Token and reauthentication | `provider_client.go` 56-320 | `TokenID`, `authResult`, `ReauthFunc`, `Throwaway`; `reauthmut.ongoing`, a future | `Token`, `SetToken`, `SetTokenAndAuthResult`, `CopyTokenFrom`, `GetAuthResult`, `authenticatedHeaders`, `Reauthenticate` |
| Request engine | `provider_client.go` 322-601 | one `requestState` per call (`hasReauthenticated`, `retries`), the caller's body reader, the open response bodies | `Request`, `doRequest` |
| Authentication flow | `openstack/client.go` | the throw-away client captured in `ReauthFunc`; `EndpointLocator` | `Authenticate`, `v2auth`, `v3auth` and the closures they install |
| Service client | `service_client.go`, and `provider_client.go` 368-432 | the caller's `RequestOpts`, which the calls write into | `Get`, `Post`, ..., `Request` |
| Pagination | `pagination/*.go` | `currentURL`, `currentPage`, `firstPage`, what has been collected | `EachPage`, `AllPages`, `NextPageURL`, `IsEmpty` |
| Endpoint lookup, version discovery | `endpoint_search.go`, `openstack/endpoint.go`, `openstack/endpoint_location.go`, `openstack/utils/*.go` | the catalog the `EndpointLocator` has captured | `ChooseVersion`, `V2Endpoint`, `V3Endpoint`, `GetServiceVersions`, `RequireMicroversion`, the `New<Service>` functions |
| Authentication options | `auth_options.go`, `openstack/identity/v3/tokens/requests.go` | `Scope`, which copies of the options share | `ToTokenV3CreateMap`, `ToTokenV3ScopeMap`, `CanReauth` |
| Configuration | `openstack/auth_env.go`, `openstack/config/...` | none | `AuthOptionsFromEnv`, `clouds.Parse` |
| Waits | `util.go`, `servers/util.go` and its likes, `internal/acceptance/...` | a ticker and a context | `WaitFor` and the predicates it is given |
| Stack files | `openstack/orchestration/v1/stacks/` | the `Template` and `Environment` of the caller, which a call changes | `ToStackCreateMap`, `toStackUpdateMap` and what they call |
| Results, parameters, errors | `results.go`, `params.go`, `errors.go` | none | `ExtractInto`, `BuildRequestBody`, ... |

How they interact. Options come from a program, the environment or
`clouds.yaml`; `Authenticate` turns them into a login, and the answer into a
token and a catalog. `New<Service>` finds an endpoint in that catalog, asking
services for their versions where the catalog does not settle them, and makes a
service client. A service package calls the service client, which calls
`ProviderClient.Request`. `doRequest` asks `authenticatedHeaders` for the token
(which waits while a reauthentication runs), sends the request, and on a 401
calls `Reauthenticate`, which calls the hook `ReauthFunc`. That hook is a closure
of `v2auth` or `v3auth`: it authenticates once more, on a *throw-away copy* of
the client that shares the mutexes of its original, through requests of its own,
and copies the token back. So the request engine calls the reauthentication,
which calls the authentication, which calls the request engine. Pagers sit on
top and call `Request` once per page, while other users change the collection;
waits call it once a second, while the resource changes.

What is hard about it, and makes each component correct:

* *Token and reauthentication.* Any number of goroutines see the same token
  expire. It must be renewed once, everybody must learn whether that worked,
  nobody may wait for a future that will not be resolved, a cancelled context
  must get its owner out, and a future must be resolved by the call that made it
  (a second resolution closes a closed channel, which panics).
* *Locks.* `CopyTokenFrom` holds two mutexes, in an order the callers choose, and
  they may be the same one.
* *Request engine.* Four remedies for a failed attempt share one counter; each
  attempt opens a body and each way out must close it; the reader of the request
  body is consumed by an attempt.
* *Authentication flow.* The reauthentication must not wait for itself, the token
  must be used only when the whole authentication has succeeded, and the
  throw-away client must have one user at a time.
* *Service client.* A call writes its body, target and headers into options the
  caller may use again, or use at the same time in another goroutine.
* *Endpoints.* The first of several candidates counts, versions are read off
  types, URLs or documents, and an error in one candidate ends the search.
* *Options and configuration.* Five sources of settings with precedences of their
  own must lead to a login an identity service accepts; the copy kept for
  reauthentications shares a pointer with the application.
* *Pagination.* The next page is asked for by a marker or a link from an older
  view of the collection; the first page of `AllPages` must be used once.
* *Waits.* Tick, context and answer come in any order, and the resource goes on
  changing between the polls.
* *Stack files.* The walk replaces references by URLs in the caller's own
  template; the order is random and a fetch may fail half-way.

The places in the code where each of these can go wrong are the hazards of
`PROJECT.json`.

## 2. The modules

```
SingleFlight        what Reauthenticate promises                 (abstract)
  ^ refinement
ProviderClient      token and reauthentication, many goroutines
TokenPairs          what the token store promises, without locks (abstract)
  ^ refinement
TokenStore          the mutexes of the token, lock by lock
AuthFlow            authentication + requests + reauthentication, as stacks of frames
DoRequest           one call of Request, all its remedies
ServiceClient       calls on options they may share, down to the composed request
Versions            version discovery as operators
  ^ EXTENDS
EndpointSearch      identity version -> catalog -> endpoint -> microversion
AuthOptions         login bodies, scopes and their sources, as operators
  ^ EXTENDS
Settings            settings -> options -> login -> reauthentication or second login
Pager               EachPage and AllPages over a changing collection
Polling             WaitFor and the waits built on it, over a changing resource
StackFiles          the files a template and an environment lead to

<Module>Proofs      theorems: ProviderClient (with SingleFlight and TokenStore), AuthFlow,
                    DoRequest, ServiceClient, EndpointSearch, Settings,
                    Pager (with Polling), StackFiles
MC<Module>, MC<Module>_<question>.cfg                instances for TLC
```

Several modules contain a few definitions marked *Broken* next to the definition
they distort (`Publish_OnlyOnSuccess` beside `Publish`, for instance). They are
plausible mistakes in that piece of code, are not part of any specification, and
serve to show that each property notices one: with the broken form in place of
the right one, the property fails.

### ProviderClient

An actor is a *call* of the API: a `Request`, a `Reauthenticate(ctx, "")`, or a
`SetToken` by the application. A goroutine that makes several calls in a row is
one of the orders in which calls may start. An action is a stretch of code
between two points where another goroutine can interfere.

| Module | Code |
|---|---|
| `token`, `ongoing`, `ferr[f]` | `TokenID`, `reauthmut.ongoing`, the `err` and `done` of a future (named by the call that made it) |
| `CheckOngoing`, `HeadersResume`, `HeadersCancelled`, `ReadToken` | `authenticatedHeaders`: the critical section, the two outcomes of `ongoing.Get(ctx)`, `Token()` |
| `Accepted`, `Unauthorized`, `RoundTripCancelled` | what `HTTPClient.Do` returned, the first and the second 401 |
| `EnterReauthenticate` | the first critical section of `Reauthenticate` |
| `CompareToken` | the comparison of `TokenID`, which holds no lock |
| `ReauthSucceeds`, `ReauthFails` | `ReauthFunc` returns; as the closures of v2auth and v3auth do, it writes the token last and only on success |
| `Publish` | the last critical section: `ongoing.Set(err)`, `ongoing = nil` |
| `FollowerResume`, `FollowerCancelled` | the two outcomes of `Get` for a call that joined |
| `Cancel` | the context of a call is done |

Tokens are numbered in the order they become the client's, which abstracts
random strings by what matters, that they are never handed out twice. A service
may refuse any token at any time. `MaxBackoffRetries`, bodies and other failures
are left to `DoRequest`.

`ImplementsSingleFlight` is the refinement: `SingleFlight` with the flight for
`ongoing`, the verdict for the future's `err`, and what a caller was told for
its `err`, where the leader is told the moment everybody is.

### TokenStore and TokenPairs

`Token`, `GetAuthResult`, `SetToken`, `SetTokenAndAuthResult` and
`CopyTokenFrom` as want-lock, lock, lock-the-other, write-token, write-result,
unlock. A waiting writer keeps new readers out, as `sync.RWMutex` does. Tokens
and results are named by the call that made them, so a pair that does not belong
together is visible. `MutexOf` says which clients share a mutex.

`TokenPairs` has no locks: each call changes or copies a whole pair at one
moment. `ImplementsTokenPairs` maps a call's moment to its write of the token,
the pair of a client whose result is still to be written being the one it will
have.

### DoRequest

The recursion of `doRequest` as a loop. `client` and `opts` are the hooks and the
options, `state` is the `requestState`, `reader` is where the caller's `RawBody`
stands, `open` counts response bodies that are not closed and `deferred` those
among them that a pending `defer resp.Body.Close()` of some frame will close.
`Return` is the unwinding of all frames: deferred closes, and the wrapping in
`ErrErrorAfterReauthentication` by the frame that reauthenticated, in which the
error of the last attempt stays (`result` says how the attempt ended, and whether
that is wrapped). A file is a
reader that can be rewound but that the transport closes, so that the `Seek`
after a reauthentication fails. `attempts`, `failures`, `backoffs` and `reauths`
only count, for the properties.

### AuthFlow

Each goroutine has a stack of frames, `doRequest` and `auth`, with a program
counter each, since the code really recurses: `doRequest` ->
`Reauthenticate` -> `ReauthFunc` -> `v3auth` -> `doRequest`. `clients[1]` is the
user's client, every other one a throw-away copy appended by `Install`; all share
`ongoing`. `CanReauth` is the heart of it: the options handed to the throw-away
authentication are those of the user with `AllowReauth` off, except for an
`AuthOptionsBuilder` of a type outside the `switch` in `v3auth`. Contexts are left
out here.

### ServiceClient

An actor is a call of a verb on a service client with an options object, which
several calls may name, one after the other or at once; a call given nil has an
object of its own. `InitReqOpts` writes the body and the target into it,
`CheckHeaders` and `MakeHeaders` are the test for a nil map and its replacement,
`WriteHeaders` writes the microversion and the headers of the client, and
`Compose` is `doRequest` down to the finished request. `sent` records it. Maps
have headers in the spelling of whoever wrote them; `Canonical` is the name that
`net/http` makes of a spelling, and of several in one map any may come last.
`overlapped` only remembers which calls ran on one object at the same time: a Go
program that does that has a data race, and the properties that need a call to be
alone say so.

### Versions and EndpointSearch

The path of a URL is a sequence of elements; two constants say what the two
regular expressions of the package make of an element. `Versions` has
`BaseVersionedEndpoint`, `extractVersion`, `GetServiceVersions` and `IsSupported`
as operators. `EndpointSearch` is an
application that goes the whole way: `ChooseBySuffix`, `AskIdentity`,
`WalkValue`, `WalkEnds` are `ChooseVersion`; `Authenticated` captures a catalog of the
version chosen; `NewServiceClient` is `initClientOpts` and `ApplyDefaults`;
`SkipEndpoint`, `TryEndpoint` and `SearchExhausted` are the loops of `V2Endpoint`
and `V3Endpoint`, with the discovery of one candidate per step, and
`EndpointURL` the deprecated search without it; `RequireMicroversion` asks the endpoint found. The
services (external) answer with any of `Documents`, or not at all.

### AuthOptions and Settings

Options are functions from the names that are set to their values. `AuthOptions`
has the decision tables: `ToTokenV3CreateMap`, `ToTokenV3ScopeMap` of both
packages, `CanReauth`, `AuthOptionsFromEnv`, the merges and the key lookups of
`Parse`, `verify` and `insecure`. `Settings` puts them into a sequence: options
appear from one of three sources, unless `Parse` fails (a cloud names a public one
and there is no `clouds-public.yaml`) or panics, a login sends them and keeps a copy for
`ReauthFunc`, the application changes its options (or the `Scope` both point to),
and a reauthentication or a second login follows.

### Pager

The collection is a set of numbered items. The service (external) answers a
marker with the next `Limit` items behind it, and a link when there are more;
it may hide items from this user after cutting the page, as services with
per-item policies do. Other users create and remove items between any two steps.
The shape of the body decides where `AllPages` looks for the items; `Keys` lists
the outcomes of the search in a Go map, whose order is random.

### Polling

`WaitFor` with one tick in the ticker's channel, a context that ends at any
moment, and the four predicates the repository gives it: a status, a status or
ERROR, a 404, and the one that ends when a port is detached. The resource takes
the steps of `Lifecycle` whenever it likes, so that a status may pass unseen
between two polls. `since`, `polls` and `latePolls` only record, for the
properties.

### StackFiles

A document is a tree of maps and lists. `Follow`, `FetchFails`, `Enter`, `Keep`, `Leave`
and `Unexpected` are the cases of `getFileContents` for one key, taken in any
order; a template that is fetched gets a frame of its own on the stack, and
`ChildDone` hands its files to the one above. `ReadEnvironment`, `RegistryDone`,
`NextResource` and `EnvironmentDone` do the same for the registry of the
environment, and panic at a `base_url` that is no string. The call may be repeated with the same options, after a failure or
after the files have changed.

## 3. The runs

Type invariants are proved (section 5) rather than run.

| Run | What it asks | States |
|---|---|---|
| `reauth` | Two requests, a forced reauthentication and a setter on one client. A future is resolved once, by its maker (`LeaderOwnsOngoing`); nobody waits for one that nobody will resolve (`NoLostWaiter`); success means another token (`SuccessReplacesToken`), fetched once (`TokenRenewedOnce`) and used by who was held back (`HeldRequestUsesNewToken`); the whole is a `SingleFlight`; every call returns if `ReauthFunc` does (`EveryCallReturns`), and a cancelled one that waits even if it never does (`CancelledWaiterLeaves`) | 854 k |
| `stale_join` (violation) | `FreshAfterReauth`, see section 6 | |
| `token_ops` | Six calls on two clients and a throw-away copy: they implement `TokenPairs`, and no call waits for ever | 9.8 k |
| `engine` | One request with all 384 combinations of hooks and options and every order of answers: attempts and remedies bounded, bodies closed once, the attempt after a reauthentication whole, `RetryFunc` asked last, after a reauthentication too, but in the cases of section 6 | 46 k |
| `retried_body` (violation) | `RetriedRequestCarriesBody`, see section 6 | |
| `login` | A login and two requests, or two logins and a request, with every known type of options: the authentication inside `ReauthFunc` asks for no other, its token reaches the user's client only when complete, the throw-away client has one user, every call returns | 127 k |
| `calls` | Three calls on two clients and two options objects: the client's headers are sent, what is omitted is not (nothing is asked of an omitted `X-Auth-Token`), and no call sends a body or fills a target that is not its own | 2.8 M |
| `search` | All documents of two identity values, all catalogs of up to three endpoints, eleven queries, all answers of the services: the identity version is the best, the endpoint fits the query and is the first that supports the version, nobody is asked without need, a microversion accepted is inside the published interval, and the deprecated search agrees where it applies | 96 k |
| `settings` | Options from a program, the environment or `clouds.yaml` with its companions, the login, changes by the application, the later login: the best source wins, certificates go unverified only if nobody objects, the scope is usable, a login has one user and all its secrets, a reauthentication repeats it | 736 k |
| `listing` | Two changes by other users anywhere in a listing of up to five items: what stays is listed, nothing is listed twice, the listing ends | 360 k |
| `polling` | Ten waits on a server that is built, rebooted, stopped, deleted or fails: nil is earned, at most one poll after the end of the context, a wait ends when its context does, and notices a final status if the service answers | 14 k |
| `files` | Two calls with the same options over files that may be missing, broken or replaced: what is uploaded is complete (of an environment with a `base_url` nothing is asked), and a call that failed leaves options that mean the same | 273 k |

Every property has a mutant of the code that breaks it, listed in `PROJECT.json`.

## 4. Bounds and fairness

*ProviderClient.* A reauthentication involves three roles (a leader, somebody who
joined, somebody held in `authenticatedHeaders`) and one disturber, the setter.
By the constraint `ThreeMeet` any three of the four calls meet, and the fourth is
made when at most one of them still runs; `stale_join` has a third request, which
renews the token that the leader complains of (a setter would do as well). A state constraint can hide a liveness counterexample;
this one only leaves calls unmade, which every fair behaviour may do too, since
the start of a call is not fair. The proofs of section 5 hold for any set of
calls.

*DoRequest* has two backoffs by default instead of 60, or one by
`MaxBackoffRetries`, and a `RetryFunc` that agrees up to three times: the limit is
reached before, at and after a reauthentication, and the counter passes the limit
of the backoffs by way of `RetryFunc`, which is where the shared counter could go
wrong. Again the proofs hold for any limits.

*AuthFlow* needs no bound on tokens: each call authenticates a bounded number of
times. *TokenStore* uses two mutexes and three clients, the pattern of the code:
a client, its throw-away copy, another client; its proofs hold for any pattern.

*ServiceClient.* Three calls: what one leaves in the options is found by a second,
while a third overlaps either of them or neither. Of the
verbs there is one for each way to write the options; one client has a forged
`X-Auth-Token` and a version header that its own microversion competes with, and
one options object has two headers in other spellings, one of them to be omitted.

*EndpointSearch.* Three endpoints: one passed, one found, one behind it; two of an
identity service of version 2. Path elements, service types and documents are
those that the loops distinguish, a nonstandard `dev1` among them, and a version
written without its "v", which one of the two expressions takes and the other
does not. The eleven
queries name every option and every contradiction between the options and the
function called. The proofs of section 5 hold for any documents, catalogs and
queries.

*Settings.* Up to five of thirteen fields at a time with eight scopes (a full set
of credentials has four), up to four environment variables, and eleven typical
entries of `clouds.yaml` with one disturbing key in `secure.yaml`, one in the
public profile and one option: each pair of sources disagrees about each key. The
public profile is named by `profile`, in one entry by `cloud`. The proofs hold
for any settings.

*Pager* has at most three pages of two items, one hidden, and two changes: a
change before and behind the marker, of the marker itself, and of the item at the
page boundary. The proofs hold for any numbers.

*Polling* has a lifecycle with a cycle (reboot), a branch (error), an end that is
final and one that is a 404. Nothing counts beyond two.

*StackFiles.* Two documents deep, one file that is reached by two paths and one
name that means two files; two calls with the same options; templates that lead
to each other would make the code recurse for ever and are not among the worlds.
The proofs hold for any documents, these among them.

*Symmetry.* Calls are permuted in `calls` only, a run of invariants; never in a
run with a liveness property.

*Fairness.* Weak fairness of each goroutine's steps: the Go scheduler runs every
goroutine that can run, and mutexes are not starved. The start of a call is not
fair: an application need not make it. `Cancel` and `Revoke` are never fair. In
`ProviderClient` nothing is assumed of `HTTPClient.Do` and of `ReauthFunc`, which
talk to a service; `EveryCallReturns` states its premises, `RequestsAreAnswered`
and `ReauthFuncReturns`, and
`CancelledWaiterLeaves` has none, since a call must get out of `Get` though
`ReauthFunc` hangs. In `AuthFlow` the services answer, with success, refusal or
failure. `TokenStore` and `Pager` are fair to every step of the client, and the
page walk ends whatever other users do, whose steps are not fair. `Polling` is
fair to the goroutine, to the ticker, and to a `Get` whose context is over, which
`net/http` gives up; it assumes nothing of the service, so that `WaitEnds` holds
though it never answers. `DecidedIsNoticed` states its premise, that it does.

*Deadlock.* It is checked wherever the model has an explicit final stutter.
`AuthFlow` and `TokenStore` switch it off: there a waiting goroutine is what the
liveness property is about, and it reports one as a call that does not return.
`Settings` switches it off since every path of it ends.

## 5. The proofs

All are checked by TLAPS with no axioms beyond the named assumptions of the
modules about their constants: `CallsAssumption` (the three kinds of call are
disjoint, `None` is no call), `DoRequestAssumption` (the limits are natural
numbers, the default one positive), `PagerAssumption`, `PollingAssumption`,
`ServiceClientAssumption`, `VersionsAssumption`, `EndpointSearchAssumption` and
`SettingsAssumption` (kinds and names are what they should be), and
`StackFilesAssumption` (relative paths lead from every directory to a URL, the
values of `get_file` are paths or URLs, and nested maps are there). Two modules
have a hypothesis in the theorems themselves. Those about `TokenStore`,
which is instantiated in `ProviderClientProofs`, have its `TokenStoreAssumption`.

**ProviderClientProofs**, for any set of calls. The invariant `IInv` has the
checked properties as conjuncts and the following strengthenings.
`WaitsOnFuture`: whoever waits, waits for a call's future and not for nil, without which
not even the types are inductive. `CallsOnce`: a call goes through
`Reauthenticate` at most once, so until then its own future is open, it has no
`err` and it has not run `ReauthFunc`; this is what makes `Publish` the only
resolution of a future. `TokensGrow`: nobody has sent, or complained of, a token
newer than the client's; it gives the argument for the skip, that a token that is
not the refused one is a newer one. `HeldIsOver`: past `authenticatedHeaders`
the future found there is resolved. `RunsForTheCurrentToken`: while a leader runs
`ReauthFunc` for a token, no earlier run for that token has succeeded; with
`LeaderOwnsOngoing`, which says there is one leader, this gives
`TokenRenewedOnce`. `LeadersJoinNobody` and `CtxErrorsAreEarned` carry the errors
from the leader to the followers. `SingleFlightImplemented` is the refinement: initial states map to
initial states, and each action to a step of `SingleFlight` or to a stutter,
the leader's `Publish` being its landing. Two invariants are theorems only:
`CtxErrorHasASource` and `RetryFollowsASuccess`.

From there on the module is about `SingleFlight`, with the parameters that
`Reauthenticate` gives it. `FlightInv`: whoever is in the air has joined nobody
and has not landed, and whoever was told something was told a verdict that is
there. `TheVerdictIsShared` (everyone who took part is told the verdict) and
`VerdictsAreFinal` are theorems about `Spec`, by the refinement.

The last part is about `TokenStore`, for any clients, mutexes, sharing of mutexes
and calls. `Locks`: a call holds what its place in the code says, and a mutex held for
writing is held by nobody else. `Torn`: a pair that does not belong together has a
writer between its two writes. `HalfWay`: such a writer has the result at hand
that the token came with. They give `NoTornPair`, that a reader sees a token and
the result it belongs to, and with `TokenPairsImplemented` that each call takes
effect at one moment, its write of the token.

**AuthFlowProofs**, for any number of goroutines, jobs and options. The
hypothesis is `KnownBuilders`, that the options are of a type `v3auth` knows;
without it the theorems are false, see section 6. A stack is a sequence of frames
of any height, so what holds of one is stated at constant level (`StackOK`) and
the lemmas about pushing, popping and changing the top frame are about one stack.
`Above` and `Borrowed`: what lies above a run of `ReauthFunc` works on the
throw-away client of that run, and nothing else does. `OneLeads`: of all stacks
one frame leads, and `ongoing` is set while it does. `ClientsOK`: only the user's
client has a hook. `Returned`: when `ReauthFunc` has succeeded, the
authentication it made got to its end. `TriedOnce`, `Exclusive` and
`TokenIsWhole` follow.

**DoRequestProofs**, for any `DefaultMaxBackoffRetries`, any set of
`MaxBackoffRetries` and any `RetryLimit`. The
properties follow from bookkeeping at each place of the loop: `Attempts` (an
attempt is the first, or follows a backoff or the reauthentication), `Backoffs`
(never ahead of the `retries` counter, nor of the limit), `Reauths`,
`Failures`, `OpenBodies` (open is deferred, plus one while a response is looked
at) and `Readers` (a reader that is in memory or is a file stands at the start
when the attempt follows a reauthentication). That `open` stays in `Nat` is the
statement that no body is closed twice. Since `result` keeps the error of the last
attempt beside the wrapping, `RetryFuncIsAlwaysAsked` is about the attempts after a
reauthentication too. `AttemptsBounded` and
`RetriesCountFailures` are theorems only.

**ServiceClientProofs**, for any calls, clients and options, under the hypothesis
`OptionsAreObjects` (what the application passes are records with the six fields
of an options object, whatever is in them). `CallOK` says of one call, from its place, its options and what it
has sent, that its body, its target and its headers are there unless another call
has overlapped with it; `Apart` that two calls running on one object have
overlapped. A step of one call changes the options of another only if they share
them, and then the other's claim is void; not so what is claimed of the headers that
are omitted, since no call changes `OmitHeaders`. `OneSpelling` is about the order
of a Go map: each name that is sent has the value of one of its spellings.

**PagerProofs**, for any number of items, limit, hidden items and number of
changes (`StableItemsListed` has fewer hidden items than the limit as a premise). `Order`: what has been listed lies before what will
be asked for, and of the items that stayed, all of `Walked` have been listed. A
page is the first `Limit` items behind a marker; `GoodPage` says what that
means without recursion, and that it exists needs the least element of a set of
numbers (`WFMin`) and the counting of a page with hidden items (`CutIsFull`).

The last part of the module is about `Polling`, for any statuses, lifecycle and
waits. `Seconds`: a poll begun in this second excludes a tick in the channel that would begin another; `Honest`:
an answer is a status the resource has had; `Late`: a late poll comes to nothing.
Besides `ResultIsEarned` and `AtMostOneLatePoll`, `PollsAreSpaced` says that ticks
do not pile up while an answer is slow.

**EndpointSearchProofs**, for any documents, catalogs, queries and answers.
The invariant has a part for each stretch of the code. `ChoiceInv`: of the values
that `ChooseVersion` has walked past none is exactly the endpoint given, and
`highest` is the first of the best among them (`BestSoFar`, and `BestInTheEnd` for
the moment nothing is left). `QueryInv`: the options are those of the query with
the defaults applied, and the version of the query and of its options agree.
`VerdictsInv`: a "yes" is vouched for by an answer the service can give, a "no"
is said of an endpoint that no answer could be trusted for, and only an endpoint
that must be asked is asked, once. `OrderInv`: whatever lies before the place of
the search has been passed for a reason, whatever lies behind it has not been looked
at, and an error ends the search where it happened. The first four theorems follow;
`DeprecatedCopiesAgree` compares two searches through one catalog and needs
`OrderInv` only. The lemmas they rest on are about version discovery: what the marks
of a URL are (`MarksOf`, `FirstElement`), which versions are unknown
(`UnknownVersion`), that an accepted microversion is inside the interval
(`SupportedIsInside`), and that where no document is needed the URL and the type
settle the version (`NoNeedToAsk`).

**SettingsProofs**, for any options, environments and configurations, with any
settings in them. Its first lemmas are about the tables: `BodyIsWhole` (what a
method sends is set and names one user), `BodyOfAlike` (the other fields make no
difference), `MergedFiles` (what three files become, and when `verify: false`
survives), `Coalescing` and `FieldsFromTheBest` (the nested lookup of `Parse`,
merge first and key after key, finds what the definition by the best pair of key
and file finds), `EnvScope` and `ParsedScopeFits`. The invariant is about time.
`Settled`: a login with these options would no longer work out a scope, so it
changes nothing. `KeptInv`: the copy for `ReauthFunc` is settled, and what it
would send is what the first login sent, its scope excepted once the application
has written into one that both point to; the scope of a `tokens.AuthOptions` is
another one than that of its copy. `UsedInv`: the options used for a login are
settled too, and would ask for the scope that was asked for. That a login settles
its options (`LoginStep`) is where the pointer and the value differ.

**StackFilesProofs**, for any documents at any URLs, however deep their maps and
however long the chain of templates, and for any number of calls between which
the files change as they like. The properties compare what a walk has collected
with `Reached`, the least set of what can be reached, which is defined without
recursion; so no induction over documents is needed, only the two halves of being
least (`ReachedStep`, `ReachedLeast`). The heart of the invariant is `FrameOK`, for
one template on the stack: every reference of the document is either still to come
(`Pending`: it is left in an open map, or below a map that is) or `Replaced`, a
URL under which `Files` has all that it leads to. `Stacked` says that below a
template that is being walked lies one that waits for it, at the reference it was
fetched for; with `ChildIsWhole`, that a child whose maps are all closed has its own
files complete, this carries a step of the topmost frame to the ones below.
`Partly` is the other direction: what has changed in a document are references
that have become URLs, which lead where they led before (`PartlySame`), so
that a walk may begin again on a document that an earlier call left half-way; this is
why the second call is no other than the first. `Rendered` says that the text of a
template is behind the parsed one only while a map that has been updated is open, and
`Own` that in the first call nothing is collected that is not needed. For the
environment `NoResources` is needed besides, that one without a registry never
gets files. When the last map is closed nothing is still to come, `IsWhole`
follows (`TemplateWalked`, `EnvironmentWalked`), and `WholeIsComplete` is about
putting the two halves of the upload together, the environment's on top. What
`UploadIsWhole` leaves out of an environment with a `base_url` the invariant has
all the same: it is `Cwd` to which its references are resolved.
`UploadsAreWhole` and `HalfDoneStaysUsable` are the two properties of the run. That a
walk ends is not claimed; with templates that include each other it does not.

*Only model-checked*: all liveness (`EveryCallReturns` of three modules,
`CancelledWaiterLeaves`, `ListingEnds`, `WaitEnds`, `DecidedIsNoticed`), which is
out of this prover's reach. Every safety property that a passing run checks has a
theorem.

## 6. Where the code and its comments part

Two runs are expected to find a counterexample.

* `stale_join`. A request that is refused while a reauthentication runs joins it
  (`provider_client.go:301`) without comparing its own token. The leader may be
  skipping `ReauthFunc` (309) because the token it complained of is older, while
  the one who joined was refused with the current token. It is told nil, sends
  the refused token again and fails with `ErrErrorAfterReauthentication`. By the
  same line, `Reauthenticate(ctx, "")` that joins a skipped one returns nil though
  nothing was reauthenticated.
* `retried_body`. A `RawBody` is rewound after a reauthentication only; a retry
  by `RetryFunc` or after a backoff sends what the failed attempt left of it.

The following are in the models as the code has them; the properties name them as
exceptions or exclude them by a hypothesis.

* *Reauthentication and tokens.* `v3auth` switches `AllowReauth` off in the
  options of the four types it knows. With another type the first
  reauthentication installs a `ReauthFunc` on the throw-away client, and a 401 in
  the next one waits for the reauthentication it is part of (hypothesis
  `KnownBuilders`). Two clients that copy from each other each hold the write
  lock of their own mutex and wait for the read lock of the other's; `token_ops`
  copies in one direction between mutexes.
* *Requests.* `RetryFunc` is documented to be called in the end whenever a request
  failed. It is not after an error of `RetryBackoffFunc`, a failed
  reauthentication, or a response that cannot be drained. The counter compared
  with `MaxBackoffRetries` also counts calls of `RetryFunc`, so that failures of
  other kinds use up backoffs.
* *Service client.* `X-Auth-Token` cannot be omitted, though the comments on
  `OmitHeaders` (`provider_client.go:337-340`, 402-404) make no exception and
  `identity/v3/tokens/requests.go:139-141` asks for just that: it is applied before
  the headers of the token are added (419). `OmittedIsNotSent` leaves that header
  out. Two spellings of one header in a map, the client's microversion and the
  caller's own say, are sent as one, in the random order of the map. A call without a body sends the one that an earlier
  call left in the options. `options == nil` is tested after the options have
  been dereferenced (`service_client.go:148`, 157).
* *Pagination.* A page whose items are all hidden ends a listing
  (`pagination/pager.go:127`), where the comment at 184 speaks of skipping it; `StableItemsListed`
  therefore supposes fewer hidden items than a page holds.
* *Endpoints.* The first endpoint that matches is returned, where the comment on
  the function calls several an error (`openstack/endpoint.go:182`). In
  `utils/discovery.go:153` the second look at the path takes the last element
  again rather than the one before it. The "v" is optional to `ParseVersion`
  (`discovery.go:318`) and required where the version is cut off a URL
  (`base_endpoint.go:18`), so that a numeric last element of an unversioned URL, a
  project's number say, is read as a major version. `IsSupported` compares the minor
  versions apart from the major ones. A version 2 entry that leaves a URL out
  becomes an endpoint "/".
* *Options and configuration.* `tokens.AuthOptions` sends a scope with an
  application credential, which a comment in `auth_options.go` (404) says is refused. A
  `verify: false` is not overridden by a `verify: true` in a better file
  (`clouds.go:386`). A public cloud that is not in `clouds-public.yaml` is passed
  over, where the file itself must exist. `Parse` dereferences a nil `AuthInfo` when no source has an
  `auth` section, and never uses `AllowReauth` and `DefaultDomain`. A project name given as an option loses to
  the project id of the cloud. A token or a user id together with a domain id from
  `clouds.yaml` is refused by `ToTokenV3CreateMap`. With a `TokenID` and no
  scope `v3auth` takes the token as it is and asks nobody.
* *Waits.* A status that the resource passes through between two polls is missed,
  and the wait goes on. `WaitForRouterInterfaceToDetach` in the acceptance tests
  ends also when the port is ACTIVE. The comment on the wait for a baremetal
  provision state speaks of seconds that it has no parameter for.
* *Stack files.* The comments in `environment.go` speak of a base URL of the
  registry and of resources looked at one by one; `base_url` is ignored,
  references of an environment are relative to the working directory even if it
  was fetched from elsewhere, and the first walk has already rewritten nested
  resources. What an environment names is not walked in turn and takes the place
  of the walked copy (`requests.go:71`). A `base_url` that is no string panics.
  `UploadIsWhole` asks nothing of an environment with a `base_url`, and takes either
  copy of a file that both name. Templates that
  include each other are not noticed. A root template that was
  fetched is kept, while its children are read again.

## 7. What is not modelled

* `results.go`, `params.go`, `errors.go`: reflection and wording, no state. In
  `params.go`, read but not modelled: the `xor` and `or` tags look through a
  pointer only at the other field, so that a pointer to a zero value counts as
  given on one side and as missing on the other; a nested struct that is zero is
  sent without a look at its required fields.
* The service packages, by far the most of the lines and the reason why the part
  of the lines these models stand for is small: some 45 directories of
  near-identical functions, each of which builds a URL and a body and calls the
  service client, and the acceptance tests' helpers around them. What they do
  beyond that (listings, waits, the files of stacks) is modelled.
* HTTP, JSON, the file system, YAML: external. What the models need of
  the transport is in `Spent` (a reader is consumed, a file closed), of the
  services in `Serve`, `Answered` and `Answers`, of contexts in `Cancel` and `ContextEnds`.
  The search for `clouds.yaml`, its certificates and endpoint options go with them.
* Version 2 login bodies, EC2 and OAuth1 options; the endpoint options of
  `AuthenticateV2` and `AuthenticateV3`.
* The sections that `Validate` of a template looks for, and the other operations
  on stacks.
* A client without `UseTokenLock`: the code does not claim it may be shared.
* A `ReauthFunc` that panics: the leader unlocks nothing in a deferred call, so
  the future would stay unresolved; a panic that the application recovers from is
  outside the model.
* `SetThrowaway` and `IsThrowaway`: a client's mark is set when the client is
  made, before anyone else knows it; `AuthFlow` has it as a field of the client.
* What a JSON decoder has stored before it fails, the random key of a page with
  two lists (`pager.go:189`), a later page of another type (200), the catalog an
  `EndpointLocator` keeps through reauthentications (`client.go:286`).

## 8. The plan

Done: `SingleFlight`, `ProviderClient`, `DoRequest`, `Pager`, `AuthFlow` and
`TokenStore` with `TokenPairs`; then `Versions` and `EndpointSearch`,
`ServiceClient`, `Polling`, `AuthOptions` and `Settings`, `StackFiles`; the
proofs of section 5.

Next, most important first:

1. `params.go`: `BuildRequestBody`, `BuildQueryString` and `BuildHeaders` over
   small trees of fields with tags, against a reference definition of what the
   tags promise. This is the one piece of code every service package uses.
2. Composition: the error classes of `DoRequest` as the failures `ProviderClient`
   abstracts, by a shared abstract specification of a call of `Request`.
3. The configuration's file search and certificates, the login bodies of version 2.
