# A verification of the OSLC adaptor for the Watson IoT Platform

The adaptor (`iotp-adaptor`) is a servlet application between OSLC consumers (Jazz
applications, LQE) and two services it has no hand in: the IoT Platform, which owns device types,
devices and logical interfaces, and Bluemix, which owns spaces and Node-RED applications.
It stores nothing. What it keeps in memory is static and shared by all request threads, and
most of what it does is a sequence of HTTP calls between which everything else may change. Its
dialogs and previews are scripts in the consumer's browser, where answers come in any order.
That is what these TLA+ modules model.

Java paths below are relative to `src/iotp-adaptor/src/main/java/com/ibm/oslc/adaptor/`, those of
scripts and pages (`webapp/...`) to `src/iotp-adaptor/src/main/`.

## 1. Inventory

| component | state | operations | status |
|---|---|---|---|
| TRS provider: `iotp/trs/TRSObject`, `TrackedResourceSetService` | static base, last snapshot, change log, change order, dates, a mutex | a scan per request: list, compare, append events, take the snapshot | modelled, with the session's clients in `CredentialsFilter`, but for Lyo's serialization of base and log |
| Service provider catalog: `iotp/servlet/ServiceProviderCatalogSingleton`, `impl/IoTAPIImplementation`, the catalog and provider services | static catalog, map and monitor | catalog, list and get requests that refresh both | modelled but for `deregister*`, which nothing calls |
| Authentication filter: `impl/CredentialsFilter`, `HttpUtils` | two LRU caches from tokens to clients, the session's attributes, the token strategy | filter a request, authorize and exchange tokens, log in | modelled but for credentials and the administrator flag |
| Platform clients: `impl/IoTPClient`, `bmx/impl/BluemixClient` | bearer token, connection pools | login, logoff, create, read, update, delete, list | modelled but for `BluemixClient.login` and the Node-RED hosts |
| Delegated dialogs: `webapp/delegatedUI.js`, `delegatedUItyped.js`, `delegatedIotBrowserUI.js` and the pages that load them | the global `xmlhttp`, the list, the URI and form of a type, `window.name` | search, create, select, cancel, respond | modelled |
| Preview popovers: `webapp/static/js/preview.js`, on Bootstrap's popovers (`bootstrap-4.0.0-beta.min.js`) | two attributes of each link, the state of its popover | parse a compact document, show, update, hide | modelled |
| Resource services: `services/IoTPlatformService`, `BluemixService`, `CE4IoTConnectorManager` | none | two-call sequences on the platform | planned (4) |
| JSON conversion: `resources/Resource`, `Device`, `DeviceType`, `LogicalInterface` | none | constructors from JSON, `toJson` | planned (5) |
| Generated resource classes and shapes, provider factories, start-up (`ServletListener`, `Application`, `RootServicesService`, `CORSFilter`), layout pages, vendored Swagger UI | none | | not modelled, see section 5 |

How they interact. A servlet container thread runs the authentication filter, which puts an
`IoTPClient` and a `BluemixClient` into the HTTP session, and then a service. Services take the
clients from the session. Reading, creating or updating a device or a device type asks the
catalog singleton for the organization's service provider, which may refresh the catalog, which
calls both platforms inside its monitor. The TRS service logs in with a fixed user, scans inside
its mutex and, for LQE, closes the session's clients. A consumer embeds a dialog in a frame: the
page's script sends requests to the services and tells the embedding window what was selected or
created, by `window.name` or by a posted message. The adaptor's own pages run the preview script.

What makes it hard, component by component:

- TRS provider. A scan is one synchronized block of many HTTP calls. The platform changes
  between them; each can fail and then the scan is abandoned in the middle with its static state
  half updated; the next scan starts from there. Correct means: base and change log together
  describe the last snapshot, the log is append-only and never speaks of a resource it does not
  track, orders grow, and polling catches up once the platform is quiet.
- Catalog. The map is checked with the monitor by some requests and without it by others, and
  three structures are updated one after the other. Correct means: an answer never lacks an
  organization its user has, the structures agree when nobody registers, nothing is listed twice.
- Authentication filter. Two unsynchronized caches that must agree on every token, and a token
  exchange that removes before it adds. Correct means: a service runs only with both clients, both
  of one user, and a token that was issued keeps its clients.
- Clients. All requests of a session share them. A token expires, a login is repeated while
  other calls are under way, and some answers leave their connection leased, of which
  there are two for a host. Correct means: no connection is used twice, one is lost only where the
  code forgets to close an answer, a call ends.
- Dialogs. Each search and each submission leaves the earlier requests running, and the handler of
  each inspects the one global `xmlhttp`. Correct means: list, message and response are those of
  the latest request, a response names only what the adaptor named, what was created is reported.
- Previews. Each hover sends a request, no request is aborted, and what it brings stays in
  the link. Correct means: a link shows its own resource, a popover that was left goes before the
  next one shows, none says it is loading for ever.
- Resource services. Check and act are two calls; the platform is shared with other writers.

The full list of hazards, each at its line, is in `PROJECT.json`.

## 2. Modules

| module | what it is |
|---|---|
| `TRSLog` | events, change logs, and what a consumer tracks after base and log |
| `TRSContract` | abstract specification: what a TRS provider promises |
| `TrackedResourceSet` | `TRSObject` and the requests that drive it, implements `TRSContract` |
| `MCTrackedResourceSet` | two device types of two organizations, one or two threads |
| `TRSLog_proofs`, `TrackedResourceSet_proofs` | theorems |
| `ServiceProviderCatalog` | `ServiceProviderCatalogSingleton` and the requests that fill it |
| `MCServiceProviderCatalog` | three organizations, two threads |
| `ServiceProviderCatalog_proofs` | theorems |
| `LRUCache` | Lyo's bounded cache, external |
| `CredentialsFilter` | `CredentialsFilter`, and `setClient` and `logOffClient` of `TRSObject`, which share the session with it |
| `MCCredentialsFilter` | one session, one or two threads |
| `CredentialsFilter_proofs` | theorems for any interleaving of requests |
| `FilterTokens_proofs` | when an access token keeps its clients, for requests that overlap |
| `PlatformClients` | `IoTPClient` and `BluemixClient` of one session |
| `MCPlatformClients` | two threads |
| `PlatformClients_proofs` | theorems |
| `DialogContract` | abstract specification: what a dialog promises the embedding application |
| `DelegatedUI` | `delegatedUI.js`: requests, handlers, buttons, responses |
| `DialogPages` | the four pages around it and the embedding application, implements `DialogContract` |
| `MCDialogPages` | three resources, two types |
| `DialogPages_proofs` | theorems |
| `Preview` | `preview.js` and Bootstrap's popovers |
| `MCPreview` | a link to a resource of the adaptor and one to another server's |
| `Preview_proofs` | theorems |

Operators named `<Action>_<Something>` after a comment `Mutant:` are variants of the action that
follows, each with a plausible mistake. They are in no next-state relation; putting one in the
place of its action makes TLC refute the property it is meant for.

### TrackedResourceSet

Variables `baseResources`, `lastSnapshot`, `changeLogs`, `changeOrder`, `lastUpdateDateTimes` and
`mutex` are the static fields of the same names. `lastUpdateDateTimes` is a total function; `NoDate` stands
for a missing entry and for a null date, which the code treats alike. `orgs`, `listed`, `todo` and
`resourcesToRemove` are the locals of `getBase` and `updateChangeLog`. `hung` are the threads whose call
never ends. `platform` and `clock` are
the IoT Platform: when each device type changed last; `Save` and `Remove` may happen before any
step of a scan. `calls` counts the synchronized calls a request makes: two for
`getTrackedResourceSet`, which lets go of the mutex in between, one for `getBasePage` and
`getChangeLogPage`. `phantoms` is a history variable, explained below.

| code | action |
|---|---|
| a request arrives / `synchronized (mutex)` | `Receive` / `Enter` |
| `getBase`: one organization's device types | `ListDeviceTypes`, `ListingFails` |
| `baseResources = getBase(client)`, then the loop over dates | `EstablishBase`, `SaveDate`, `SaveDateFails`, `DatesSaved` |
| `updateChangeLog`, first time | `StartChangeLog` |
| second `getBase`, `changeOrder++` | `Rescan`, `BeginSegment` |
| new member | `AppendCreation`, `AppendCreationFails` |
| known member | `Keep`, `KeepFails` (a 404, a failed call, or `after` on a null date) |
| members not found again, `lastSnapshot = latestSnapshot` | `Compared`, `AppendDeletion`, `TakeSnapshot` |
| an exception leaves the block | `Abort`, part of each `...Fails` |
| a call of a scan never ends: a re-login, or the wait for a connection | `CallHangs`; `Scan` is what other threads do |

A read and the update that follows it are one action, as nothing else touches the static state
while the mutex is held and the answer of a read is what the platform held at one moment. Members
are processed in any order: the code iterates over whatever order Lyo's collection has. The time
stamp and the URI of an event are left out. `changeOrder` is counted modulo `OrderRange` (2^32 for
the int), non-negative values first.

Hypothesis on the environment: each change of a device type has a later `updatedDateTime` than
the one before. A member may be `Undated` (its date does not parse, `getUpdated` returns null).

Abandoned scans are the core of the model. What an abandoned scan leaves behind is a Creation
whose member never got into a snapshot. `phantoms` collects those members until a scan completes
with them in its snapshot, and `LogMatchesSnapshot` says they are the only difference there ever
is. It is a weaker statement than the comment in the code makes; the stronger one
is `CreationsAreNew`, and it is refuted (section 3).

### ServiceProviderCatalog

`registered` are the keys of `serviceProviders`, `listed` counts an organization's entries in the
catalog (each registration adds a new `ServiceProvider` object, so that a set of objects
lists an organization twice), `domains` are the catalog's domains, `monitor` is the holder of
`synchronized (serviceProviders)`. A request is `catalog` (`getServiceProviderCatalog`, which takes the
monitor only to register), `list` (`getServiceProviders`) or `get` (`getIotpServiceProvider` and
`getBmxServiceProvider`, which refresh only when the map lacks the organization). The monitor is
reentrant: `EnterRegister` passes for its holder. `Read` answers with any set of organizations, as
users see different ones at different times and a failed call is only logged and looks like none.
`found` remembers what the request was told, for `AnswersAreComplete`. A read or the making of a
provider that throws ends the request with a 500 and gives the monitor back (`Fails`); a read
that never ends (`CallHangs`) keeps it, with its thread in `hung`.

The domain of a provider is abstracted to the kind of its platform: all providers of one factory
have the same services. `TreeMap.containsKey` without the monitor while another thread is in
`put` may miss a key (`MayMiss`); `MaxListed` bounds how often, so that `listed` stays finite. Other
than that the unsynchronized reads see writes in the order they were made, which the Java memory
model does not promise. Lyo's catalog keeps its providers in a list as far as this model goes.

### CredentialsFilter

`cache` is the pair of static caches, `session` the two client attributes of each HTTP session,
`closed` the logins with a client that was logged off. `granted` is what Lyo's token strategy knows of
a token and `held` what its consumer takes it for; both are external. A request is a thread's
`request`, `step`, `platform` and `client`. The code does everything twice, for the IoT Platform and
for Bluemix, and so does the model: each shared access is one action that is taken for `"iot"` and
then for `"bmx"` (`Then`), so that another request's access can come between.

| code | action |
|---|---|
| `validate` of an OAuth request, `TOKEN_REJECTED` as `invalid_expired_token` | `Validate`, `Rejected` |
| `get` from the caches, under the access token or the empty token | `Get` |
| `getAttribute`, in `doFilter` and `isAuthenticated` | `Read` |
| `login` of both clients, in `doFilter`, `Application.login` and `setClient` | `Login`, `LoginFails` |
| `put` into the caches, in `doFilter`, `markRequestTokenAuthorized`, `generateAccessToken` | `Put` |
| the calls of `super` in the token strategy | `Mark`, `Generate`, `GenerateFails` |
| `remove` from the caches | `Remove` |
| `setAttribute` | `Set` |
| `chain.doFilter` to a service; to `getTrackedResourceSet` | `Serve`; `ServeTRS` |
| `logOffClient` | `LogOff` |

A client is a name for the login that made it; names nothing refers to are used again (`NewLogin`,
`NewToken`). `LRUCache` gives each key its age, so that eviction is by recency in each cache on its
own. The caches are not synchronized: while two threads are in the same cache, either may miss its
key (`missed`) or lose its change (`lost`). Corruption of the map's chains is not modelled.
Requests that end in a challenge, or are refused for a bad signature, change nothing; a failed
login stands for the first, and the second is left out. Two-legged requests come from trusted
consumers. Credentials in the session are left out: whether a login succeeds does not depend on
state. The scan between `setClient` and `logOffClient` is the other module's; here nothing happens in
it but what other threads do.

### PlatformClients

A token is the number of the login that brought it: `access_token` is the client's, `issued` and
`expired` count the tokens the platform gave and takes no more. `lease` says for which operation each
connection is in use; `op`, `host`, `header`, `conn`, `again` and `token` are locals of the call.

| code | action |
|---|---|
| a method builds its request with `Authorization: access_token` | `Call` |
| `execute`: lease a connection, or wait for one without a timeout | `Connect` |
| the answer's body is read to its end | `Accepted` |
| `getOrganizations`: 200, and the parser throws | `Garbled` |
| another status: closed by reads, deletions and `getOrganizations`, left open by writes and by Bluemix calls | `Refused` |
| `getOrganizations`: 401, `login()` | `Unauthorized`, `Issue`, `LoginFails` |
| its request once more, with the header it had | `Repeat` |
| a timeout or a broken connection | `Fails` |
| `logoff` closes the `HttpClient`; calls that follow throw | `LogOff`, `ShutDown` |
| the platform's tokens expire, oldest first | `Expire` |

`createIoTResource` and `updateIoTResource` treat their connection alike: both are `"write"`. All calls of
`BluemixClient` are `"bluemix"`: its token is never renewed, so that any call may be refused.
The platform answers 401 if and only if the token has expired. The pool of `HttpClient` is external: two
connections for a host, given out first come first served. Closing the client closes its connections,
so that calls under way fail.

### DelegatedUI and DialogPages

Requests are numbered; `xmlhttp` is the latest. `readyState`, `status` and `responseText` are those of
each request. `list` counts how often an option is in the select element: the handler appends options
and does not replace them, and it runs once more for each event of an overtaken request. `Inspected`
is the request that a handler looks at, the global one.

| code | action |
|---|---|
| `search` clears the list and sends a request | `Search`, of `BmxSearch` and `TypedSearch` |
| `create`, on submitting a form | `Create`, of `Submit` |
| `onreadystatechange` of state 2 or 3, 4, 4 without an answer | `Receive`, `Finish`, `Fail`, each with `OnReadyStateChange` |
| its body in a search and in a creation | `HandleSearch`, `HandleCreate` |
| `select`, `cancel`, and those of the tree browser | `Select`, `Cancel`, `TreeSelect` |
| `respondWithWindowName`, `respondWithPostMessage` | operators of the same names |
| the page's type: `$(document).ready`, `selectType.click`, `.load` of a form | `Ready`, `Choose`, `FormArrives`, `FormFails` |
| `require` of the tree | `CreateTree` |
| the embedding application: message listener, the return URL's page | `HandleMessage`, `Navigate` |

A resource is a model value; its label and URI go together. `alone` is a history variable: the last form
was asked for when no other was loading, and came. `delegatedUItyped.js` is the same script but for
`&` in place of `?`; `Asked` gives the type that a search's URI then asks for.
`cancel` on the browser's page throws (there is no `sendCancelResponse` in its script) and changes
nothing. A search may answer with any resources; a creation answers with a new one.

### Preview

`ParsePreview` is `parsePreview` on documents that are records of a node's type, name, children
and value; `FirstChild` and `FirstChildNamed` give the node at the least of the positions their loops
look for, or `Undefined` where the loops fall through, a record whose type says that it is no node;
reading a property of it is the exception that the caller shows as a parse error. `attrs` are
`data-original-title` and `data-content`.

The popovers are those of the vendored Bootstrap. `hover` and `timer` are its `_hoverState` and
`_timeout`, `attached` and `classes` say whether a tip is in the document and which of the classes
`fade` and `show` it has, and `pending` which handlers wait for the end of its transition. In this
version `_TRANSITION_DURATION` is undefined, so that the transition of `show` ends in the next tick, while
the one of `hide` takes 150 ms; during those a popover is still in the document while another
one shows, or the same one is shown again.

| code | action |
|---|---|
| `_enter`, `_leave` | `Enter`, `Leave` |
| the timers, 120 ms to show, 60 ms to hide | `ShowTimer`, `HideTimer` |
| `show.bs.popover`: `$.ajax` | `Show`, part of `ShowTimer` and `ShownAgain` |
| the transition of `hide` ends; of `show`; both, with `_fixTransition` | `Hidden`; `Shown`; `ShownAgain` |
| `success`, `error` | `Success`, `Error`, each with `SetContent` |

`setContent` takes `fade` and `show` from the tip. `forgotten` is a history variable: in `_fixTransition`
the hover state is reset, and a pointer that has left meanwhile is not noticed. Time is left out but for
the order of two timers (the shorter one that was started first runs out first) and for what ends in the
next tick.

## 3. What is checked

Every bound is a guard named in the module. Each run's type invariant is `TypeOK`.

| run | bounds | shows |
|---|---|---|
| `TrsSafety` | 2 threads, 2 members in 2 organizations, one `Undated`, 3 platform changes, 1 failing call, order up to 3 | `LogMatchesSnapshot`, `SegmentsOrdered`, `DatelessOnlyFromBase`, `KeepsContract`: refinement of `TRSContract` |
| `TrsLiveness` | 1 thread that polls, 2 changes, 1 failing call, order wraps at 2 | `ScanEnds`, `EventuallySynced` |
| `TrsPhantom` | 1 thread | refutes `CreationsAreNew` |
| `CatalogRace` | 2 threads, organizations i1, i2, b1, all requests | `CatalogLeadsMap`, `AnswersAreComplete`, `CatalogMatchesMap`, `MonitorListsOnce`, `MonitorReleased`, `ListedOnceIfCatalogAlone` |
| `FilterSequential` | 1 thread, 3 tokens, capacity 2, one token held, 1 fault, every kind but the session's own | `CachesAgree`, `Recovers` |
| `FilterRace` | 2 threads in a session, 2 tokens, capacity 1, data races, every kind but LQE's | `ServedWithBoth` |
| `FilterExchange` | 2 threads that exchange one token | refutes `IssuedTokensUsable` |
| `Clients` | 2 threads, 1 organization, pools of 2, 3 tokens | `ConnectionsAccounted`, `CallsEnd` |
| `ClientsRetry` | as `Clients` | refutes `RetryCarriesNewToken` |
| `Dialogs` | 4 pages, 3 protocols, 3 resources, 2 types, 2 requests, 1 response on its way, 2 forms of a type on their way | `ListIsLatestAnswer`, `MessageTellsLatest`, `LatestCreationReported`, `FormSettles`, `SearchEnds`, `KeepsDialogContract`: refinement of `DialogContract` |
| `DialogCreations` | the creation page with posted messages, 2 resources, 2 requests | refutes `CreationsReported` |
| `Previews` | 2 links, one the adaptor's own, 4 requests, 200 shapes of a document | `OwnPreview`, `PopoverShowsAttributes`, `LeftPopoversGo`, `OnePopover`, `AdaptorPreviewParses`, `PreviewComes` |

Why the bounds are enough. In the TRS provider all threads go through one mutex and leave no
local state behind, so a second thread shows everything more threads would. Two members suffice
for an abandoned loop with one member done and one not, and for a member that is created, deleted
and created again while the other is untouched; three changes reach that. One failure abandons
one scan; further ones are reached without it, through reads of device types that have just been
removed and through missing dates, which are not counted. In the catalog a race has two parties, and
two IoT organizations and one of Bluemix exercise both loops and each domain. In the filter a capacity of 2 holds the functional user's
entry and one token, so that entries of forgotten tokens are evicted; 1 makes every put of two
requests evict the other's. `Recovers` needs the capacity to exceed the tokens in use by one: with less,
two-legged requests can evict each token between authorization and exchange. Eviction of tokens in use
is left to the theorem `TokensUsableIfExchangesFind`, which is about any capacity. In the clients, 2 is
the size of `HttpClient`'s pools; two threads are one call that loses connections and one that waits for
them, and three tokens let two logins overlap, so that the older token is set last. In the dialogs two
requests are the latest and one it has overtaken, and handlers look at no other; two responses
of the window-name protocol show what a second one finds in `window.name`. Four preview requests are
two for each link, and every document another server may send is one of the shapes: title there or not,
each preview absent, empty, or with any of its three parts.

Deadlock is checked in `FilterSequential`, `Clients`, `Previews` and the runs that refute something of the
last two. In the TRS runs it is not, as clients stop asking when a bound is reached, nor in the catalog's, where
reads that never end may hold every thread up, nor in the other filter runs, where the
names for clients and tokens can all be in use, nor in the dialogs', where the browser leaves the dialog.

What holds of the filter, and what does not. `CachesAgree` is about requests that do not overlap: with
two threads a `put` of one request comes between the two of another and the caches order their
keys differently. It is model-checked only. `IssuedTokensUsable` fails when two exchanges of one token overlap
(`FilterExchange`), and by the same lines when a request token's clients are evicted before its only exchange; the
theorem `TokensUsableIfExchangesFind` says that an exchange that does not find its clients is the only way. Closed
clients are handed out: LQE's log-off leaves them in the session, whose next request passes with them, and
approvals and overlapping two-legged requests bring them into the caches. The module has all of this, and no
property forbids it.

Fairness. `TrackedResourceSet!Fairness`: consumers keep polling (LQE does so periodically), a
free mutex lets some waiting thread in (no thread is promised to be the one), and a scan goes on
unless one of its calls never ends. `IoTPClient` sets connect and socket timeouts of 30 s, but neither
the client that logs in again (`IoTPClient.java:226`) nor the wait for a pooled connection
(`IoTPClient.java:174`) has one: `CallHangs` may hold any scan up at any call, `ScanEnds` says that nothing
else keeps the mutex, and `EventuallySynced` has it as a premise that no call hangs. The platform's changes and
the failures are not fair: they may never happen. `EventuallySynced` has `[]~Wedged` as its other premise: a
tracked member without a date makes each scan that finds it abort, so without the premise the
property is false: `TRSObject.java:156` sets the base before the loop that saves the dates, and when
that loop fails it is never run again. `ServiceProviderCatalog!Fairness`: a
request goes on unless one of its reads never ends (`CallHangs`: Bluemix calls have no timeout at all,
and refused ones use up their pool); whether a thread ever gets the monitor is not assumed. `CredentialsFilter!Fairness`: each
step of a request is taken, consumers ask for a token when they have none, and each kind of request
that can be made again and again is made (strong fairness, as kinds compete for a thread). Failing
logins and forgotten tokens are bounded by `MaxFaults`. That a login ends is an assumption there, which
`Recovers` needs: a login that hangs holds up only its own request, and the consumer must make another. `PlatformClients!Fairness`: a call to the IoT
Platform ends, by its timeouts if not before, and a thread that waits for a connection gets one
if connections come free again and again (strong fairness: the pool serves threads in the order they
came). No call to Bluemix and no login is fair, as neither has a timeout: `CallsEnd` names the login as
a place where a call may stay. `DelegatedUI` and `Preview`: each request ends, as the browser sees to
it; users and their pointers do nothing they need not.

### Disagreements between the code and its comments

- `TrsPhantom`. `TRSObject.java:253` appends a Creation before the read that can fail; the next
  scan appends it again, or never retracts it when the device type is gone by then.
- `FilterExchange`. `CredentialsFilter.java:335` removes the clients before it is known whose exchange
  succeeds, and 339 caches what it got without a check for null.
- `ClientsRetry`. `IoTPClient.java:423` executes the request it has, with the old token, after a login
  whose Javadoc says that what it brings authenticates the other calls.
- `DialogCreations`. `delegatedUI.js:60`: the handler of the first submission inspects the second, whose
  answer is not there yet, and what the first created is never sent to the embedding application.

Other behaviour that the properties are worded around, each described as it is in its module: the base is kept
when the loop over its dates fails (`TRSObject.java:156`); two catalog requests that overlap list an
organization twice, as `ServiceProviderCatalogSingleton.java:399` checks without the monitor what 410 registers
with it; calls may never end (`IoTPClient.java:226`, `BluemixClient.java:400`); writes that are refused lose their
connection (`IoTPClient.java:284`); closed clients stay in the session (`TRSObject.java:323`); a second response of
a dialog with window names takes the first one for the return URL, and the dialog stays open
(`delegatedUI.js:136`); a failed search leaves the user standing by (`delegatedUI.js:45`); forms of several clicks
may come in any order; a compact document without a small preview is a parse error, as `preview.js:33` compares with
null what is undefined, so that the fallback to the large preview is never taken.

## 4. What is proved

Proofs hold for all values of the constants under the modules' `ConstantsAssumption` (every
organization function, any numbers of threads, members and organizations, any bounds). Every invariant
and every action property of a passing run but `CachesAgree` is a theorem. Those that the code keeps only under some
circumstance have it as a hypothesis, on the constants or as `[]H` beside `Spec`; each is listed
below with what it stands for, and is met by the runs that check the property.

- `TrackedResourceSet_proofs!TypeCorrect`: `Spec => []TypeOK`. The invariant `Typed` adds
  that the static fields are set in the order base, log and snapshot: without it `Append` to a null log
  and the comparison with a null snapshot could not be excluded.
- `LogMatches`: `Spec => []LogMatchesSnapshot`. `LogMatchesSnapshot` speaks only of states in
  which the mutex is free, so it is not inductive. `Control` says that only the holder
  of the mutex is inside a scan, and what its locals are worth at each point; `Logged` says at
  each point of a scan what base and log track: the last snapshot and the phantoms, the Creations
  of this scan, less the Deletions already appended. Each event's effect comes from the lemma
  `TrackedAppend` of `TRSLog_proofs`.
- `ContractKept`: `Spec => KeepsContract`, the refinement of `TRSContract`. From `Logged`: when a
  Modification or a Deletion is appended, its member is tracked. Each step is `Publish`, `Change` or a
  stutter.
- `SegmentsInOrder`: `Spec /\ [](changeOrder < OrderRange - 1) => []SegmentsOrdered`. The hypothesis: the
  order has not come to the last of its values; after that older events do have larger orders. The int
  first goes back when it turns negative, after 2^31 scans, and the theorem is about any `OrderRange`, that
  one included. `Ordered` adds that no event is ahead of the counter, and that the running scan has no event
  about a member it is not done with.
- `DatelessAreFromBase`: `Spec => []DatelessOnlyFromBase`. `Dated` counts, in a scan that may still
  abort, the members it is done with to those of the last snapshot, and leaves out, in one that can no
  longer abort, those it is about to drop.
- `CreationsNewUnlessAborted`: `Spec /\ [](phantoms = {}) => []CreationsAreNew`. What `TrsPhantom` refutes
  holds as long as no aborted scan has left a Creation in the log: phantoms are the whole of
  the disagreement. From `LogMatchesSnapshot` and `PrefixAppend` of `TRSLog_proofs`: what is tracked after a
  prefix of the log does not change when the log grows.
- `ServiceProviderCatalog_proofs`: `CatalogTypeCorrect`, `CatalogNeverBehind`,
  `CompleteAnswers`, `CatalogAgrees`. The inductive invariant adds that
  registrations hold the monitor, that a provider listed and not yet in the map is the one
  being registered, and that what a refresh has gone through is registered.
  `MonitorRegistersOnce`: `Spec => []MonitorListsOnce`. `Unlisted` adds that from finding an
  organization missing to registering it, what a request that holds the monitor works on is not listed.
  `CatalogAloneListsOnce`: `Spec => ListedOnceIfCatalogAlone`, for any number of list and get requests at a
  time: no organization is listed twice as long as no request runs beside one for the catalog.
- `CredentialsFilter_proofs`: `FilterTypeCorrect`, `BothClients`. Neither is inductive alone. `HasClients`
  says at which steps a request has its clients, `SessionFilled` that what it saw in or put into its
  session is still there, which holds since nothing removes an attribute. The proofs cover data
  races and any capacity.
- `FilterTokens_proofs!TokensUsableIfExchangesFind`: `Spec /\ []ExchangesFind => []IssuedTokensUsable`, for any
  threads, tokens and capacity. Requests may overlap, but not race inside a cache (`~DataRaces`: a `LinkedHashMap` behaves
  under concurrent access). `Full` says at each step of a request which of its clients are not null: the missing
  check for null in `CredentialsFilter.java:339` is the only way to a token without clients.
- `PlatformClients_proofs`: `ClientsTypeCorrect` and `NoConnectionLostByReads`
  (`ConnectionsAccounted`) from `ClientInv`, which adds that a call under way has its operation and host
  (`Busy`). `RepeatingIsFutile`: what `ClientsRetry` finds
  happens in every schedule, as the request that is repeated never carries the client's token. From `TokenInv`: no token is above `issued`
  (`Numbered`), a call that logs in carries an expired token (`Renewing`), and what a login has
  brought and not yet set is in no header, in no other thread and not the client's (`Fresh`). Without
  `Fresh` another thread's login could give the client the very token the request carries.
- `DialogPages_proofs`: `DialogTypeCorrect`; `ListShowsLatestAnswer` and `MessageFollowsLatest` from
  `SearchInv`, both properties and that nothing is listed before the first search; `FormAgreesWithUri`
  from `FormInv`: the form that was asked for alone is shown, or is the only one on its way; `LatestCreationIsReported`
  from its two halves, `PostedLatest` and `ReturnedFirst`, which says besides that nothing is sent before the
  first submission is answered;
  `CreationsAreReported`: `Spec /\ []OneSubmission => []CreationsReported`, where `OneSubmission` says that all
  earlier submissions have been answered: what `DialogCreations` refutes needs two at a time;
  `DialogContractKept`, the refinement of `DialogContract`, from `Sourced`: whatever is posted or
  in `window.name` comes from one answer, and answers stay. Each step is `Name`, `Link`,
  `Cancelled` or a stutter.
- `Preview_proofs`: `PopoversGo`, `OnlyOnePopover` and `PopoversAreCurrent` from `PopoverInv`. `Popovers` says
  which classes, timers and handlers go together, `Hovers` that only the link under the pointer has
  the hover state `"show"` or a timer to show its popover that will find it so. That hiding takes less
  time than showing matters.
  `Parsed` evaluates `ParsePreview` on a compact document of any shape: a search by name in two lists of
  nodes one after the other finds what it finds in the first, or else in the second (`FindInBoth`), so
  that each child is found in its own part of the document. From it, with `Contents` (attributes and popover of a link hold what its own
  requests may bring), `TypeCorrect`, `LinksShowTheirOwn` (`OwnPreview`) and `AdaptorPreviewsParse`.

Only model-checked: the liveness properties `ScanEnds`, `EventuallySynced`, `MonitorReleased`,
`Recovers`, `CallsEnd`, `SearchEnds` and `PreviewComes`, as fairness is beyond the prover.

## 5. Plan

1. `TrackedResourceSet` with `TRSContract` and proofs: done.
2. `ServiceProviderCatalog` with proofs: done.
3. `CredentialsFilter` with proofs: done, with the session's clients and LQE's log-off. Then
   `PlatformClients`, `DialogPages` with `DialogContract`, and `Preview`, with proofs: done.
4. `ResourceService`: create, read, update, delete as two-call sequences against a platform other
   clients change. Abstract specification: each answer was true at some moment of the request.
5. `ResourceJson`: constructors and `toJson` as pure operators over records; what a read followed
   by an update preserves.
6. Composition: `CredentialsFilter` with `PlatformClients`, so that a closed client fails its calls.
7. More theorems: `CachesAgree` for requests that do not overlap; how many tokens may be forgotten while one
   waits for its exchange, so that it is not evicted.

Not modelled, and not in the plan:

- The resource classes and shapes are generated beans; the provider factories construct one object;
  start-up and `CORSFilter` do the same thing once, or for each answer: no state and no order.
- The pages that lay out one resource read it and print it. Swagger UI is vendored and minified.
- `BluemixClient.login` makes a client that is thrown away when it fails; its calls to Node-RED
  applications go to a host each. When one's login page does not answer 200 the adaptor ends
  (`System.exit`), which a model could only restate.
- The serialization of base, log and catalog is Lyo's.
