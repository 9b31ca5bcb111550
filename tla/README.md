# Verification of LAMBDA-CLOVR

LAMBDA-CLOVR acquires video streams over Kafka, analyses them on Spark and stores
the results in HBase; its web application shows an operator the REST interface and
lets him try it. This directory holds TLA+ models of the two parts with the most
concurrency and state, what TLC checks about them, and proofs for TLAPS:

- the monitors of Zookeeper and Kafka, Java, in
  `DSL/data/acquisition/streaming/operations/client`;
- the web console, JavaScript, in `webapp/`: `index.html`, `swagger-ui.js`,
  `lib/swagger-oauth.js` and `o2c.html`. `swagger-ui.js` is a bundle of Swagger
  UI 2.2.10: the client (swagger-js) and the views are modelled, the libraries in
  it are not.

## The system

Paths of Java are relative to `src/src/main/java/lambdaclovr`; `client/` stands for
`DSL/data/acquisition/streaming/operations/client/`. Functions of the console are
in `src/src/main/webapp/swagger-ui.js`.

| part | state | operations | hard behaviour | should hold |
|---|---|---|---|---|
| `client/zookeeper/ZKNodeWatcher` | status (atomic), executor, periodic task | start, stop, poll, updateStatus | poller and update threads overtake each other; callbacks throw; tasks outlive stop | the listener hears each change once and in order; statuses settle |
| `client/zookeeper/ZKClusterWatcher`, `ZKConnection` | connection, session, cluster status, node watchers | start, stop, process(event), getCluster, getHealth | restart on the event thread against start and stop; stale events of closed sessions; a failing connect | no session is lost; status and callbacks follow the session; a dead session is replaced; the health told was true |
| `client/kafka/KFBrokerWatcher` | status and metadata (atomic), executor, periodic task | start, stop, poll, updateStatusAsync | as the node watcher, and a metadata lookup between probe and set | as the node watcher; status agrees with reachability and registration |
| `client/kafka/KFClusterWatcher` | zkClient, broker watchers, a one-shot watch | start, stop, process(event), getCluster, getHealth | the watch must be set again; threads that set it read a field others assign; restart against start and stop | the watch is set again and acted upon; no session is lost; the health told was true |
| `client/ZookeeperMonitor`, `KafkaMonitor` | - | forward to the cluster watchers | - | - |
| `client/TopicService`, `kafka/topic/TopicManager`, `DSL/service/kafka/KafkaTopicService`, `DSL/.../KafkaHandler` | a connection per service, a static flag `isDeleted` | create, delete, list, describe topics | check then act over the network; the flag is shared by all threads and survives exceptions | a call returns its own result; connections are closed once |
| `client/kafka/producer`, `VideoStream`, `client/kafka/consumer` | a static producer, consumer offsets, the background model of a camera | generate, send, poll, detect motion, store anomalies | offsets committed by time, exceptions swallowed, a producer shared by streams | an anomaly that was sent is stored at least once |
| `DSL/phoenix` (`Crud`, `SchemaHandler`, `ModelHandler`) | one connection and one statement per object | upsert, select, delete, create and drop schema | the statement is shared; DDL stops half-way | a schema can be deployed, dropped and deployed again |
| `DSL/dao`, `DSL/service/hbase` | none, or objects kept between calls | one SQL statement each | update writes the wrong row or inserts | reading returns what was written |
| `Index`, `Service/IndexService`, `WebService` | index in memory, per feature | load, query | duplicates and ranks in merged results | the best matches, each once |
| `Analytics`, `Dataset`, `IPCam` | none | numerical functions of frames | - | - |
| console: `SwaggerUi`, `SwaggerClient`, `SwaggerAuthorizations` | the client of the last load, its authorizations, the page | load, enter or withdraw an authorization, render, fail | loads overlap, and every change of an authorization is one; all callbacks go to one page | the page is that of the last load; keys survive; a load ends |
| console: `SwaggerSpecConverter` | the description under construction, two counters | convert, declaration, models, operations | one request per resource, answered in any order, some not at all | the result has all that was declared |
| console: `Resolver` | references, locks, a cache, two counters, definitions | resolve, resolveItem, finish, retainRoot, resolveAllOf | requests and timers of a round in any order; rounds after rounds; names that clash | one request per document; the callback once, at the end; no definition lost |
| console: `Operation`, `OperationView`, `ParameterView`, `SwaggerHttp` | the fields of a form, `this.map`, requests under way | submit, execute, asCurl, showStatus | submissions overlap; timeouts, blobs, throwing callbacks; two HTTP clients | what is entered is sent, and said to be what it is; answers are shown |
| console: `buildFromSpec`, `MainView`, `ResourceView`, `SignatureView`, `StatusCodeView`, `Docs` | groups of operations, what is open, the fragment of the address | group, name, show, click, follow the fragment | names made of tags and ids; recursive models; a timer after the rendering | each operation and model is shown once; a link opens what it was made for |
| console: `AuthButtonView`, `PopupView`, `AuthsCollection`, `AuthView`, `Oauth2Model`, `swagger-oauth.js` | forms in popups, globals of a login | open, type, check, authorize, log out, receive a token | tokens arrive at popups and pages made before; logins share globals | forms tell what is in force; a server is asked for what was checked; tokens are filed where they belong |

How they interact: the client's thread calls the monitors. Each ZooKeeper object
has an event thread that calls `process` of the cluster watcher, which asks the
node or broker watchers for an update; each of these starts a thread for it. The
watchers also poll from an executor of their own. All of these threads call the
client's listener. The other parts reach each other through Kafka topics and
HBase tables only.

In the console one function runs at a time, to its end. What makes it hard is
between the functions: answers of servers, timers and clicks come in any order,
and what they find is shared by all of them (`SwaggerUi.api`, the authorizations,
`this.map`, the globals of OAuth, the models of a page). `SwaggerUi.load` makes a
`SwaggerClient`, which fetches the description, has it converted if it is of
version 1, has its references resolved, and calls `success`, upon which the page is
rendered: groups, operations, their forms, models and answers. Entering or
withdrawing an authorization, or a token that arrives, ends in another `load`.

## Modules

| module | models |
|---|---|
| `EndpointStatus` | what a watcher promises of one endpoint: its status changes and the listener is told, change by change |
| `ZKNodeWatcher` | node watchers: every thread, the monitor of `synchronized`, the executor |
| `KFBrokerWatcher` | broker watchers: as above, and probe, lookup and set as separate steps |
| `ZKClusterWatcher` | the Zookeeper monitor: sessions, queued events, restart, start and stop, with its node watchers as an `INSTANCE` of `ZKNodeWatcher` |
| `KFClusterWatcher` | the Kafka monitor: sessions, queued events, the watch on `/brokers/ids` and the threads that set it, restart, start and stop |
| `HealthCall`, `ZKHealth`, `KFHealth` | `getHealth` of the two monitors: what a caller sees of it, and the two loops, one read at a time, while statuses change, sessions are replaced and watchers are stopped |
| `SpecResolver`, `SchemaComposition` | references resolved round after round, with locks, timers and a cache; definitions for schemas without a name, and schemas composed by `allOf` |
| `SpecConverter` | descriptions of version 1, converted as their declarations are answered |
| `Console` | loads, authorizations, callbacks and the page, with `SpecConverter` as an `INSTANCE` for each client and the resolver as one that calls back at once or later |
| `OperationParameter`, `OperationRequest` | from a declaration to a field of the form, from what is in the field to a part of a request; types, headers, body, address, authorizations, the curl command: operators |
| `Callbacks`, `HttpClient` | requests over superagent and over jQuery: answers, failures, timeouts, aborts, blobs, and the callbacks |
| `OperationView` | a form filled in and submitted again and again, with `OperationRequest` and `HttpClient` as `INSTANCE`s |
| `OperationConverter`, `OperationModel` | the responses of an operation, from version 1 and 2, and the schemas and views it gets: operators |
| `SchemaSamples`, `SchemaOptions`, `FormatXml` | one view of a schema, step by step: samples in JSON and XML, the models listed and the limits told of their values, in both copies of that code |
| `Page` | groups and operations with their names and elements, each schema in turn (`EXTENDS SchemaSamples`), clicks, loads, and the fragment of the address |
| `Authorizations` | definitions, buttons, popups and forms, logins by every flow, tokens and refusals |
| `MCHealth`, `MCSpecResolver`, `MCConsole`, `MCOperationView`, `MCPage`, `MCAuthorizations` | the endpoints, descriptions, operations and answers of the runs; `MCHealth` takes the two health modules side by side |
| `ZKNodeWatcherProofs`, `KFBrokerWatcherProofs`, `HealthProofs`, `ZKClusterWatcherProofs`, `KFClusterWatcherProofs`, `SpecResolverProofs`, `ConsoleProofs`, `AuthorizationsProofs` | the theorems and their proofs, each for the module it is named after; `HealthProofs` for `KFHealth` and `ZKHealth`, `ConsoleProofs` also for the requests of `OperationView` |

State of the monitors. A variable has the name of the field it models (`zkNodeStatus`,
`zkConnection`, `zkClient`). `pc`, `op` and `todo` say where a thread is, so that
every access to a shared field is a step of its own: a restart is
close, clear, open, connect, and any other thread may run in between. A
`ZooKeeper` object is a member of `Session` with a state, a queue of events and
an event thread; it is created before the field that is to hold it is assigned.
Steps of code that touch no shared state are merged with the next one that does.

State of the console. A variable has the name of the field or variable it models
(`resolverCache`, `processedCalls`, `apisArray` as `groups`, `modelsToIgnore`,
`swaggerUiAuth`); those that stand for something of the browser (an open request, a
timer, an element that is displayed) are named for it. A function is one action,
or one operator when it only computes. Data is abstract: a media type, a name,
what is typed and what a server answers are members of small sets; a list in a
request is the sequence of its values and separators, a schema a record of its
kind and its parts, an id a sequence of tokens, since ids are compared and joined.
Where the bundle has the same code twice, in swagger-js and in the views, the model
has it once, with what differs made explicit (`copy`).

Actions. Each has the name of the method it models, or says which half of one it
is. The ensemble and the network are actions too (`SessionConnects`,
`SessionDisconnects`, `SessionExpires`, `BrokersChange`, `ReachabilityChanges`);
they are modelled from how the code uses the ZooKeeper library: events of a
session are delivered in order by one thread, also those queued when the session
is closed, an expired session never comes back, a watch fires once, and one that
was due while its session was disconnected fires when it is connected again.

History variables record what was told and asked: `notified`, `beat`, `told`, `seen`,
`disturbed`, `overlap` and `failed` in the monitors; `bad`, `taken` and `fresh` in the
resolver;
`granted` in `Console`; `entered`, `args`, `sent` and `heard` in `OperationView`;
`followed` and `fresh` in `Page`; `entered`, `overlapped`, `lost` and what is
`typed` in `Authorizations`. The code does not read them, nor does any guard.

Data of the monitors is reduced to what the properties need: a status is a name; the statistics
of a node and the text of an answer are left out; broker metadata is "empty" or
the broker's.

## What TLC checks

Each module with a run has one for all its properties, except
`ZKClusterWatcher`, whose nodes and whose third session TLC cannot afford together,
and `KFBrokerWatcher`, one of whose promises is broken; the two health modules
share a run.

| run | instance | shows |
|---|---|---|
| `zknode` | 1 node, 2 updaters, up to 2 periodic tasks | `ListenerUpToDate`: outside the monitor the listener knows the status. `ImplementsEndpointStatus`: each change is told once, in order. `StatusConverges`: a polled node that stays up or down is reported so. `QuietAfterStop`: a stopped watcher falls silent |
| `kfbroker` | 1 broker, 2 updaters | the first three for broker watchers, where `StatusConverges` says no more than on which side of DOWN the status settles |
| `kfbroker_registered` | 1 broker, 1 updater, Zookeeper always answers | a violation, see below: `RegisteredIsUp` fails |
| `zkcluster_safety` | 1 node, 1 updater, 2 sessions, connecting may fail | `QuorumFollowsSession`: when all events are processed, status and last quorum callback are those of the session, although events of closed sessions are processed late and an expired session tells the listener nothing |
| `zkcluster_sessions` | 3 sessions, no node, callbacks throw, connecting may fail | `SessionsOwned`, `ExpiredIsReplaced` |
| `kfcluster` | 3 sessions, 2 watch threads, connecting may fail | `SessionsOwned`, `ExpiredIsReplaced`, `WatchRearmed`, `ChangesReported`, `SetupsEnd` |
| `health` | 3 nodes, 3 brokers | `AnswerWasTrue`: a health told was true at some instant of the call, if nothing improved (Zookeeper: nodes first, cluster last) or nothing worsened (Kafka: two passes) meanwhile |
| `resolver` | 13 references into 3 documents, 5 definitions, 5 schemas without a name, one object with a null | `OneRequestPerUrl`: the lock works. `NothingUnderWay`: the last handler, and only that, calls `finish`. `LeftoversExplained`: what is left unresolved was given up for a reason. `HandedBack`: the callback is called, if no authorization changes URLs and no definition holds a null. `DefinitionsKept`: no definition takes the place of another of the description, and a composed schema has all of its parts |
| `console` | 6 addresses, 3 loads | `ShownIffBuilt`: the page is complete exactly when the last load has succeeded, and it is that one's. `KeysAsEntered`: keys survive every load. `DeclarationsKept`: a converted description has what its declarations say, whatever their order. `LoadsEnd`: a load of a well-formed description ends |
| `operation` | 8 operations, 2 submissions | `EnteredIsSent`: values go where their parameters say, each once. `FormsDeclared`: a form is declared as it is encoded. `HeardOnce`: a callback is called once, even if it throws. `AnswersShown`: every end of a request is shown. `CurlRepeats`: the command repeats the request beside which it is shown, without the passwords that were entered |
| `page` | models and operations that refer to each other in the ways `MCPage` lists; 3 operations that share tags and names | `OperationsListed`: each operation is under each of its tags, once, under a name of its own. `ResponsesShown`: each response is shown once. `LinksLead`: a link opens again what was opened when it was made. `SamplesReadable`: samples end, and say what they leave out. `ModelsListed`: models are listed once, none is missing, with the limits of their values |
| `auth` | 2 buttons and one that may be left behind, 2 popups, 2 logins, 1 late answer | `FormsTell`: the buttons of the page and the forms of every popup tell what is in force. `CredentialsAsTyped`: so are credentials. `AskedAsTyped`: servers are asked for what was checked. `TokensFiled`: a token goes to its scheme |

Bounds. The threads of one watcher share nothing with another watcher, so one
endpoint is enough; two updaters and the poller let a thread overtake two others.
`MaxTasks = 2` allows the second periodic task that a repeated `startMonitoring`
of a node watcher adds. Three sessions allow two restarts in a row, or a restart
and a second `start()`; `Start` and `SessionExpires` wait when the sessions left
are all spoken for, so that no thread is ever short of one. A queue of two events
holds the two that a reconnection brings. Two watch threads can wait at the same
time; `setupWatcherAsync` waits when there are two already. Three endpoints let
`getHealth` have read one, be at one and miss one.

For the console, a third load lets an answer of the first arrive after one of the
second, while a token loads the page again. Two submissions are enough for an
answer to meet an older one. The resolver's references are one for each way a
reference can fail or clash: two objects of one name in two documents, two
references into one document, an object that refers to itself, one to nothing, one where nobody looks, one into the description brought in by
another, two objects that refer to each other (which uses up the rounds too, since each
`finish` that gives one its object writes the reference in it anew), one that holds
a null and a path to another document. One late answer is enough to leave a button in
the header. The descriptions of `page` have every shape of reference among models (to
itself, to each other, through arrays and properties, by title), operations that
share ids, tags or both, and those of version 1. Two popups, because the page and
an operation have a button each; two logins, because a second one is all it takes to
change the globals of the first. `IterationLimit` is the 5 of the code.

`SessionsOwned` and `QuorumFollowsSession` exclude histories in which two threads
replaced the session at the same time (`overlap`): there the code does lose
sessions: a `stop()` that meets a restart closes nothing and leaves the new one
open, a second `start()` opens one of its own.
`ExpiredIsReplaced` and `ChangesReported` of `KFClusterWatcher` are about events
queued once `zkClient` points to their session; `process` drops earlier ones.
`ExpiredIsReplaced` accepts, in place of a new session, that a connect that was tried after
the expiry failed (`failed`) or that the monitor was stopped, and nothing else: the run
has a mutant that closes the session and opens none. `StatusConverges` is about an
endpoint whose periodic task is scheduled; a callback that throws ends that of a broker.

Premises in the console, where the code does otherwise:

- `HandedBack`: no authorization appends its key to URLs (it would keep a lock closed for
  ever), and no definition holds a null (`resolveAllOf` throws on one before the callback);
- `LeftoversExplained` is about the document that a reference is written to point into
  when it is given up. Where two documents have an object of one key, `finish` may have
  taken the object of one and written its references with the root of the other, and
  the model does the same: such a reference leads to a document that may lack the object;
- `DefinitionsKept` leaves out names that an object of another document has taken;
- `LoadsEnd`: declarations have a base path (one that has none throws after it was counted);
- `OperationsListed`: tags do not share a field of the client, no three operations share an id;
- `LinksLead`: ids are distinct once escaped;
- `ModelsListed`: titles are no other model's name (`NoClash`), and the older copy of the code is
  not held to the references that have a title, which it loses (`TitlesFollowed`);
- `FormsTell`: of buttons, those of the page that is shown. An answer to an earlier load
  renders the page once more and appends a second button to the header; `load` removes
  the last one only, and what the other says of its forms is out of date until it
  is clicked. The forms of the popups it opens are rendered for what is in force, and are covered;
- `TokensFiled`: logins do not overlap;
- `CurlRepeats`: the answer is shown before the form is submitted again. `isPassword` is never
  reset in the loops over the parameters, so the command masks what is declared after
  a password as well; the property compares the two requests apart from these, and says that
  a password is never shown;
- `AnswersShown` leaves out blobs, images, and a page that was left.

What the code disagrees with itself about: `KFBrokerStatusName` calls a broker UP that is
reachable, and WARNING one that is reachable but not registered. The lookup of the
metadata no longer looks at the endpoints of the registered brokers (that loop is commented
out), so one that is reachable and registered is WARNING. `kfbroker_registered` shows it with
the liveness property `RegisteredIsUp`: a broker that is polled, stays reachable and is listed
by a Zookeeper that answers would become UP and stay so. `NeverUpCorrect` proves that none ever is.

What the models show of the code, and no property states because it fails: a callback that throws ends the polling of a broker, and
`startMonitoring` does not bring it back; after a `start()` that failed to connect, `start()`
does nothing; a broker that goes from WARNING to DOWN between the two passes makes a
cluster OK that never was; an older answer replaces a newer one in the console; a
token that comes late undoes a logout. They are listed as hazards.

Fairness. Threads that the program has started go on (weak fairness of their next
step): the JVM schedules them and none of their steps waits for another thread
for ever, except in the monitor of `synchronized`, which is left in finitely many
steps. A periodic task comes back as long as the executor lives. Probes return,
because they have timeouts. Nothing is assumed of the client, of the
endpoints, of the sessions or of the brokers. In the console a function that is due
is run and a request that is open ends, with an error if need be; nothing is assumed
of its user, nor of servers beyond that.
Deadlock is checked except in the cluster watchers, where all sessions may be
used up and the client may be done, and in the console, where a user may do nothing
more, or has no load, submission or login left.

## What is proved

Every theorem is about the specification of a module, for all values of its
constants that satisfy the assumptions the module names. Types (`TypeCorrect`) are
proved of every module below but `OperationView` and `Authorizations`, whose data has
no types apart from what their invariants say of it; the other theorems are these.

- `ZKNodeWatcherProofs`, `KFBrokerWatcherProofs`, for any number of endpoints and
  threads: `IInvCorrect`, `ListenerUpToDateCorrect` and `Refinement`.
  `ListenerUpToDate` is not inductive: between the set and the callback the listener
  is behind. `IInv` adds that at most one thread is in the monitor, and that one that
  has set and not yet compared holds the status the listener knows, so the two differ
  by exactly the change about to be told. A set then maps to a change of
  `EndpointStatus`, a callback to its notification, and every other step to a stutter.
- `KFBrokerWatcherProofs`: `NeverUpCorrect`. No broker ever becomes UP.
- `HealthProofs`, for any number of brokers and nodes: `AnswerWasTrueCorrect` (Kafka)
  and `ZKAnswerWasTrueCorrect`. While nothing worsens, what a pass has read is a
  bound for what is still so: a broker that was not counted is at least as good
  now, and a broker that was counted DOWN was DOWN from the beginning of the
  call. The invariant `CallInv` says this of each pass.
- `ZKClusterWatcherProofs`, `KFClusterWatcherProofs`, for any number of sessions,
  queued events, nodes and threads: `SessionsOwnedCorrect`, and from it
  `OneOpenSessionCorrect`, that restarts do not pile up sessions. `SessionsOwned` says
  nothing of what a thread in the middle of a restart will do to the field: one that
  assigns could overwrite another session that is open. The invariant (`IOwned`;
  `IInv` for Kafka) adds, while no two threads have met, that only one is in a
  restart, that what it is about to clear is closed, and that one that opens finds
  the field cleared.
- `ZKClusterWatcherProofs`: `QuorumFollowsSessionCorrect`. The property speaks of quiet
  states, in which no event is queued and no thread under way; `IInv` says of every
  state what those that are will do: the status after the last queued event is that of
  the session, Expired is the last event of a session and follows Disconnected, a
  session that was replaced has none left, and the listener is behind only while a
  thread is on its way to tell it. It holds until the monitor is first stopped, which
  the executors of the nodes remember; with no server at all nothing would remember it,
  so the theorem has the hypothesis `Node # {}` (the servers are a required
  property of its configuration).
- `SpecResolverProofs`, for any references, documents and limit of rounds:
  `OneRequestPerUrlCorrect`, `NothingUnderWayCorrect`, `LeftoversExplainedCorrect` and
  `HandedBackOnce` (once the callback was called, or the composition threw, nothing of the
  resolver runs). The
  invariant adds that the document of each request under way is locked, whose handler
  therefore opens no other request's lock; that an item waits for its timer or for its
  answer, not for both, so that the counters differ by what is under way; and that in
  each round a reference to another document is under way, has something filed
  under its key, or has a reason not to (`Accounted`), which is what `finish` finds.
  `SomeoneGoesOnCorrect` is the safety part of `HandedBack`: in a round that waits a request is
  under way or a timer will find its document unlocked, because every lock is held by a
  request under way, as long as no authorization changes URLs.
  `LeftoversExplained` holds for whatever `finish` rewrites: a reference that it writes
  anew, with whichever root, belongs to those of the last round (`fresh`), and of the others
  none has moved. That the first of the places that write a reference is one of them
  rests on the well-foundedness of finite subsets, from the library.
- `SpecResolverProofs`, of the definitions: `DefinitionsFollowCorrect`. However many
  rounds there are, in whichever order they end and their tables are walked through, the
  definitions are those that the schemas had when they got their names, composed once at
  the end, except in places that the object of another document has taken (`taken`); none
  comes or goes. `DefinitionsKeptCorrect` follows for
  every description whose names and composition are right by themselves (`SchemasKept`).
  That hypothesis is about constants only, says nothing of rounds, and is
  what the folds and the recursion over schemas compute; TLC finds it true of the
  description of the run.
- `ConsoleProofs`, for any number of loads, descriptions, authorizations and
  declarations: `ShownIffBuiltCorrect`, `KeysAsEnteredCorrect` and
  `DeclarationsKeptCorrect`. `IInv` adds that a client that is not made yet does nothing
  and is authorized for nothing, that a complete page has a view to be cleared by the
  next load, and of every conversion (`Kept`), finished or not: that the requests counted
  and those under way are all there were, so the last one to be answered finds
  the counters equal and only that one; and that the endpoints and models are those of
  the declarations read so far.
- `ConsoleProofs`, of an operation on the page, for any operations, answers and number
  of submissions: `HeardOnceCorrect`. `Heard` adds that nothing was heard of a
  request that is not over, and that what ends one finds it open; so a timer that an
  exception left behind, and an exception of the callback itself, call nobody again.
- `AuthorizationsProofs`, for any descriptions, inputs, popups and logins:
  `FormsTellCorrect`, `CredentialsAsTypedCorrect`, `AskedAsTypedCorrect` and
  `TokensFiledCorrect`. `FormsTell` is about what is shown, and forms are made before
  the authorizations change; `IInv` (`PageInv`) says that every change clears the page with
  its popups, so what is shown was rendered for what is in force; that an answer to an
  earlier load renders it for the same authorizations again; of a button that is left
  behind, only that its forms are well formed, since they may be out of date until its popup is
  opened (`ForgottenOK`); and of each open
  popup (`PopupOK`, `EntryOK`) that it differs from what was typed only where the user
  cannot type: keys that are authorized. This is also why what is sent of a
  form is what was typed and checked there. A form of several schemes is sent
  scheme by scheme, and the globals are left to the last; that there is a last one needs the
  least-number principle of the library. For tokens, `SoleInv` says that while
  logins never overlapped there is one at most and the globals are its own, in each stage of
  each flow.

The assumptions say that names are distinct (the poller is not an updater, `Null` is
no session, the root document is none of the others, no scheme is named like a missing
value), that sets counted are finite, that the objects of documents hold references only
where they stay when they get objects of their own or where the resolver does not look
(`InnerAssumption`), and that constants have the types the comments
give them (the alternatives of an operation's `security` are sequences). TLC evaluates them in
every run.

All inductive invariants were checked by TLC on the instances of the runs before they
were proved. To make the operators total, for constants the runs do not use, two
guards of `ZKClusterWatcher` say that a connection or session is left to be made
(`created # Connection`, `Unused # {}`); the bound on starts and expiries keeps them true.

Only model-checked:

- every liveness property: fairness and ENABLED are out of the prover's reach;
- what `SchemasKept` says of a description: schemas get their names by folds over sequences
  and are composed by a function that is recursive in schemas, and what these
  compute for every schema needs an induction over data, for which the provers have no
  theorem they can use;
- the same in `OperationView` and `Page`: `EnteredIsSent`, `FormsDeclared`,
  `CurlRepeats` and the properties of `Page` are about sequences built by folds and by
  recursion (requests, samples, ids, listings of models). `FormsDeclared` would moreover need a
  hypothesis for each way in which a description can name a header of the
  request or mix a body with a form.

## Not modelled, and the plan

Monitors: `updateMetadataAsync`, `onZKQuorum` and `onZKNotQuorum` of `KFBrokerWatcher` and
`zkClusterStatus` of `KFClusterWatcher`, which nothing uses; the builders and the
validation of arguments; `getCluster` of the Kafka monitor, which repeats the
reads of `getHealth`.

Console: the libraries in the bundle, which are not specific to it and are relied
upon (es5-shim, lodash, Q, js-yaml, base64, cookiejar, Handlebars and its runtime, the
sanitizer): about half of `swagger-ui.js`; the translations, which `index.html`
does not include; `collapseAll` and the like, which nothing calls; promises,
which `index.html` does not use; macros; markdown, highlighting and wording; the
display of an answer as XML; references to a whole file, without `#`, where a
loop uses its index for a second one (`swagger-ui.js:4789, 4853`). Minified
libraries under `lib/` likewise.

In this order:

1. `TopicManager`: create and delete by several threads, the flag `isDeleted`,
   connections. Bounds: 2 threads, 2 topics, Zookeeper may fail.
2. `AlertPipeline`: motion detector, topic, consumer with automatic commits,
   anomaly table, crashes. The abstract specification is a log of which every
   entry is stored; how far the code implements it is the question.
3. `Schema` and `Crud`: deploy and drop interrupted at every statement;
   two threads on one statement.
4. `VideoStreams`: the static producer shared by streams.
5. `Query`: merge and deduplication of `Index.query` as operators, against a
   reference definition.

Not planned: `Analytics`, `Dataset` and `IPCam` are numerical functions of images
on Spark, OpenCV and TensorFlow; `APIsManager` and the cluster configurations are
generated, vendored or data; DAOs are one SQL statement per call.
