# TLA+ verification of kubernetes-development

This directory holds TLA+ models of the programs in this repository, the TLC
configurations that check them on small instances, and TLAPS proofs of what
matters most for all instances. All paths below are relative to the
repository; "the controller" is
`devenv-operator/internal/controller/developerenvironment_controller.go`.

- [Inventory](#inventory)
- [Modules](#modules)
- [The devenv-operator](#the-devenv-operator)
- [The Kafka bootstrap](#the-kafka-bootstrap)
- [The IPFS bootstrap](#the-ipfs-bootstrap)
- [Pods: the webhook and the notify-controller](#pods-the-webhook-and-the-notify-controller)
- [The logging application](#the-logging-application)
- [Runs](#runs)
- [Proofs](#proofs)
- [Where the code and its documentation disagree](#where-the-code-and-its-documentation-disagree)
- [Not modelled](#not-modelled)

## Inventory

The repository is a collection of programs around Kubernetes. Most of its lines
are manifests, dashboards and generated code. These parts have logic of their
own, the largest by far being the devenv-operator.

| Component | State it keeps | Operations | Works with | What is hard |
|---|---|---|---|---|
| **devenv-operator controller** | none of its own: environments (CRs), their finalizer and status, and twelve kinds of objects, all in the API server; informer caches; work queue | `Reconcile`: add the finalizer (with one refetch on a conflict), two status updates, provisioning, finalization | API server by calls that fail or whose answer is lost; informers that lag; users who edit at any time; shared objects | interleavings, optimistic locking, stale reads, crashes and failover, partial failure, convergence although only environments are watched |
| devenv-operator process (`cmd/main.go`) | leader lease | start, leader election, restart | controller-runtime | failover with a list that is old |
| DeveloperEnvironment types and CRD | schema | validation | API server | `database` is optional but the Go type always writes it |
| **Kafka KRaft bootstrap** (`kafka-kraft-mode/kubernetes`) | file `cluster_id` and a directory for each node on a shared volume | the commands of `entrypoint.sh` | pods through the volume | pods start together, read too early, are killed between two commands |
| Kafka producer, consumer | connections | a timer sends a reading every two seconds | broker | calls overlap, producers are never closed, chained comparisons |
| **IPFS cluster bootstrap** (`ipfs`) | the repository of a node on one volume, `service.json` on another | `configure-ipfs.sh` in an init container, `entrypoint.sh` | kubelet, StatefulSet | killed between two commands, half a configuration that the next run takes for a whole one, pods that wait for each other |
| **notify-controller** (`k8-go-client`) | informer store | a deleted pod is sent to a queue | API server by a watch, AMQP broker | gaps in the watch, lists that are old, names used again, broker away, process ended by an error, controller down when a pod goes |
| **mutating webhook** | none | patch pods without limits | API server | a call that fails, paths by index, requests against limits |
| **logging application** (`logging/app`) | connections, one goroutine for each | middleware, handlers, shutdown | HTTP clients, kubelet | requests in flight at shutdown, slow clients against the shutdown's deadline |
| user service (`testcontainers-examples/nodejs-app`) | table of users | list, get, create | PostgreSQL | concurrent creates of one email |
| k8-client, minio client, kubectl plugins | none | one-shot commands | API server, MinIO | - |
| monitoring, terraform, other manifests | - | declarative | - | - |

What makes each correct:

- *controller*: nothing it has created stays behind when an environment goes;
  nothing of a live environment is deleted; a user's edit or delete is never
  undone; what one call writes comes from one version of the spec; a deletion
  comes to its end and a live environment to its specification.
- *Kafka bootstrap*: one cluster id for all nodes, and once it is chosen every
  node comes up with it.
- *IPFS bootstrap*: a node that runs has the whole configuration, or a run of its script was
  cut short; a running peer is open to the others; the cluster comes up.
- *notify-controller*: a deleted pod is announced, by one process once, and no other pod.
- *webhook*: an admitted pod has limits, its own where it came with some; no valid pod
  is refused because of the patch.
- *logging application*: a whole request that Shutdown can see is answered, the process
  stops in time, the log tells what clients saw.
- *producer*: every kind of reading is sent; a bounded number of connections.
- *user service*: no two users with one email; an error is answered.

## Modules

| Module | What it is |
|---|---|
| `DevEnvResources` | constants of the operator: names and sharing of objects, orders of provisioning and finalization, how each kind is provisioned, what depends on the spec |
| `DevEnvOperator` | state machine of the controller, its caches and queue, the API server and its users; properties; the inductive invariant |
| `OwnedObjects` | abstract: owners take hold, are asked to go, and go when nothing is left that they alone hold |
| `MCDevEnvOperator` | instances for TLC; the `DevEnv*.cfg` |
| `DevEnvOperatorProofs` | theorems about `DevEnvOperator` |
| `DevEnvObjectsProofs` | theorems about what one call of `Reconcile` writes and deletes |
| `DevEnvOwnershipProofs` | `DevEnvOperator` implements `OwnedObjects` |
| `ClusterIdAgreement` | abstract: one id is chosen, every node adopts it |
| `KafkaBootstrap` | `entrypoint.sh` in every pod of the StatefulSet; refines `ClusterIdAgreement` |
| `KafkaBootstrapProofs` | theorems about `KafkaBootstrap` |
| `IpfsBootstrap` | the two scripts of each peer, over the StatefulSet that creates the peers |
| `IpfsBootstrapProofs` | theorems about `IpfsBootstrap` |
| `MutatingWebhook` | `addResourceLimits` as operators on the containers of a pod |
| `NotifyController` | API server's watch, informer, delete handler, `Send`, broker and consumers |
| `PodSystem` | composes the two: a pod passes the webhook on its way in, and is announced on its way out |
| `MCPodSystem` | manifests for TLC |
| `PodSystemProofs` | theorems about the admission of pods in `PodSystem` |
| `NotifyProofs` | theorems about the announcements in `PodSystem` |
| `LoggingApp` | the server's connections, middleware, handlers, `main`, and time |
| `LoggingAppProofs` | theorems about `LoggingApp` |

`DevEnvOperator` extends `DevEnvResources` and instantiates `OwnedObjects` with
environments as owners and the objects of finalized kinds as what they own;
`KafkaBootstrap` instantiates `ClusterIdAgreement` with the file as the chosen id
and the formatted directories as the adopted ones; `PodSystem` extends
`MutatingWebhook` and `NotifyController` and gives the latter's pods their way
into the cluster. The other systems do not interact. Operators
named in a comment as a *mutant* are variants of the definition below them with
a plausible bug; no specification uses them, they document which mistake a
property would catch.

## The devenv-operator

**Granularity.** One action is one API call of `Reconcile` together with the
code up to the next call. Users, informers, timers, other controllers and a
restart may act between any two calls. `reconcileDeveloperEnvironment` and
`finalizeDeveloperEnvironment` visit kinds in a fixed order; `todo` holds the
kinds that are left and `IsNext` names the one whose turn it is.

| In the code | In the model |
|---|---|
| environments in the API server | `stored`: existence, deletion timestamp, how often the operator's finalizer is in the list, spec, phase |
| informer cache of environments | `cache`, with `fresh`: its resourceVersion is the stored one |
| an old list after a restart | `past`: one earlier version, and what `seen` says of an object, only if `ListMayLag` |
| namespaces, deployments, ... | `objects`: absent, live, terminating, or a claim that was deleted while a running pod mounted it (`held`), and the content |
| informer cache of those | `seen`: current, or what the cache still shows (`present`, `absent`) |
| the call in progress, its local `devEnv` | `worker` |
| work queue; back-off and `RequeueAfter` | `due`; `timers` |
| `Reconcile`, lines 63-90 | `StartReconcile`, `FirstStep` |
| adding the finalizer, 89-106 | `AddFinalizer`, `RefetchFinalizer` |
| `updateStatus` | `UpdateStatus` |
| get, then create or update (namespace, certificates, claim, ConfigMap) | `EnsureByGet` |
| create, then get and update on AlreadyExists (deployments, services, ingress) or leave (secret, workspace claim) | `EnsureByCreate`, `UpdateExisting` |
| `containerPorts[0]` without a database | `DatabasePanic` (controller-runtime recovers it: an error) |
| `finalizeDeveloperEnvironment` | `FinalizeObject` |
| removing the finalizer | `RemoveFinalizer` |
| a failed call; a lost answer | `APIError`; the second disjunct of `Answered` |
| crash, restart, new leader | `Restart` |

**Abstractions.** A resourceVersion is only ever compared for equality, so a copy
just says whether it is the stored version. The content of an object is the spec
it was computed from (`Render`), "fixed" if it does not depend on the spec, or
"tampered". Of a spec only its identity counts and whether it leaves out the
database. `LastUpdated` has a resolution of one second, so a status update may
or may not change the stored version: both are allowed.

**Facts the model keeps.** The Namespace `devenv-<name>` is cluster-scoped, so
environments of one name in two namespaces share it; the Issuer
`selfsigned-cluster-issuer` belongs to everybody in a namespace (`Sharers`). The
database claim is not in the finalization. The refetch after a conflict appends
the finalizer whatever the new copy says, so it may be in the list twice;
`removeString` drops all. Only environments are watched: a changed deployment
starts no call. A call that ends well comes back after ten minutes, one that
fails after a back-off; the `RequeueAfter` next to the error is ignored by
controller-runtime.

**Assumptions.** One worker (`MaxConcurrentReconciles` is 1) and one active leader:
a call of an operator that has lost its lease does not take effect after the new
one has started. Nobody else removes the operator's finalizer or adds a finalizer
of their own to an environment. The API server is linearizable. The objects of
an instance start absent.

**Fairness** (`FairSpec`), for the runs with liveness only: `WF(ReconcileStep)`: the
worker goes on. `SF(StartReconcile(e))` for each environment: the work queue is first in,
first out and free of duplicates, so a request that is due again and again while others
are served is taken some day; weak fairness would not say so, as the action is disabled
whenever the worker is busy. `WF` of `SyncCR`, `SyncObject`: watches deliver.
`WF(TimerFires)`: timers fire. `WF(TerminationCompletes /\ ~HeldBack)`: the namespace
controller and the claim protection come to an end, but not for a claim that a pod mounts.
The pods of the two Deployments mount the claims of the environment (lines 499 to 505, and
the volumes of the database); a claim that is deleted while its Deployment is live is
`held`, and it is not promised to go before the Deployment does. It may go earlier: the
pod may be evicted, and no new one is scheduled on a claim that is to go. Users, faults
and other controllers are not fair, and their bounds make them stop.

## The Kafka bootstrap

One action is one command of `entrypoint.sh`, and the redirection
`echo $CLUSTER_ID > cluster_id` is two: the shell creates the file, then echo
writes it. There is no `set -e`, so each failure goes on to the next command:
`random-uuid` may print nothing, `cat` of a missing file gives an empty id,
`format` with an empty id or on a formatted directory does nothing, and the server
exits from an unformatted directory, which starts the container again. `Kill`
restarts a container at any point; what is on the volume stays. The StatefulSet
creates pods in order, but without a readiness probe it waits for no script.

Assumed: the claim is one directory shared by all pods with the consistency of
one file system; no two containers of one pod run at a time. The `sed` into
`server.properties` is local to the container and idempotent and has no part in
the agreement. Fairness: each pod's script goes on (`WF(Script(n))`).

## The IPFS bootstrap

One action is one command of a script, and a container is killed (`KillContainer`) or
its pod evicted (`EvictPod`) between any two. `repo` is the set of commands of
`configure-ipfs.sh` that the ipfs volume shows, `service` what there is of
`service.json`; both outlive the pod.

`configure-ipfs.sh` runs with `set -e`: a failing command ends it, and the kubelet runs it
again. `ipfs init` makes the config file, and the five `ipfs config` after it edit it, so
from `ipfs init` on every later run finds the file and exits with success (`FindConfig`).
The `chown` before the test and the `rm` of a lock after it may fail and end the script as
well; a failing `mkdir` does not, being the first of an `&&` list, and leaves the test and
`ipfs init` as they are. `entrypoint.sh` has no `set -e` and goes on after a failing
`ipfs-cluster-service init` or `sed`; the `sed`s are outside of the test for the file, so
each run makes them again. A daemon without a file ends, which starts the container again.
The StatefulSet creates a pod when those before it are ready (`OrderedReady`); there is no
probe, so a pod is ready when its containers run.

Assumed: a single command, `ipfs init` too, is atomic on the volume; the `ipfs` container, whose
command is its image's and not in the repository, runs when the init container is done, so that
a pod is ready when the `ipfs-cluster` container is; an init container that fails is
run again (`restartPolicy: Always`). Fairness: `WF(PeerStep(p))` for each peer, the
controller of the StatefulSet and the scripts go on; kills and failures are not fair
and bounded.

## Pods: the webhook and the notify-controller

A creation is a request of three stages: it is submitted and selected by the label of
the webhook's configuration (`Submit`), the webhook answers (`HandleMutate`) or the call
fails (`CallFails`: no answer, or the answer without a body that the handler gives for
a review it cannot read; the configuration has the default policy, `Fail`), and the API
server validates and stores it (`StorePod`). A container's requests and limits are one
number each; what the webhook gives is 1 and 2, which keeps the order of 150m and 300m.
Init containers, which `addResourceLimits` does not look at, are left out.

A pod in the cluster is its uid, and `nameOf` gives its name: the informer keeps pods by
name, and a name is used again. `versions` is the history of the API server's pods, one
entry for each change, and what the informer has is one of them, `known`: the watch brings
it from each version to the next (`DeliverEvent`). `WatchExpires` makes the informer list:
what is not in the list by its name goes to the handler as a tombstone, a pod replaced by
another of its name as an update, of which the handler says nothing. A list is not older
than what the informer has; the first one of a process asks for resourceVersion "0" and
may be any version (`Listed`), also one with pods whose deletion an earlier process has
announced. `Send` is `Dial`, `DeclareQueue` and `Publish`: a failing `Dial` is dropped, a
failing channel or declaration ends the process (a nil channel panics, `log.Fatalf`), and
the result of `Publish` is not looked at. The connection of a `Send` dies with the broker
(`up`), also when a new broker is there by the next call: then the declaration fails, or
`Publish` is without effect. A new process knows nothing; `starts` counts them, and a
message says which one has sent it. The queue is durable, its messages are not: a broker
that stops loses them.

Assumed: the broker keeps the order and hands out each message once. A broker that goes
away between `Publish` and the consumer has lost the message, which is what the client
cannot see. Fairness: `WF` of the informer's and the handler's steps, of the consumers
and of `BrokerStarts`. Users, crashes, expiring watches and outages are not fair, and
bounded.

## The logging application

The server's side of each connection is a record: its `state` as net/http has it (new,
active, idle, or closed by `Shutdown` under a request), the `stage` its goroutine is at in
middleware and handler, whether the client has sent the whole request, and what is left of
its read and write deadlines. `main` is starting, waiting for a signal, draining in
`Shutdown`, or gone.

| In the code | In the model |
|---|---|
| `ListenAndServe` in a goroutine | `Listening`, from the start; `ListenFails` (`logger.Fatal`) only before any connection |
| `signal.Notify` | `Notify`; SIGTERM before it ends the process (`Terminate`) |
| the header of a request (net/http) | `ReadHeader`; the connection is still new or idle |
| `loggingMiddleware` before and after `next` | `Enter`, with which the connection is active; `Complete` |
| handlers, `time.Sleep` | `Handle`, `Reply` |
| `responseWriter.WriteHeader` | `WriteHeader` |
| buffered answer, rest of the body, keep-alive (net/http) | `Flush` |
| `ReadTimeout`, `WriteTimeout` | `Timeouts`, `ReadTimesOut` |
| `Shutdown` | for each connection `SeeIdle`, then `CloseSeen`; `ShutdownReturns` |
| the kubelet's grace period; liveness probe | `timers.kill`, which must not run out; the probe begins with SIGTERM like any other stop |

Time goes in ticks. A tick waits for everything that the process does on its own, but
a handler's sleep may last into the next one and a client may be slow for as long
as its deadlines allow. The 30 s of the shutdown and of the kubelet run from the same
tick. In the run a tick is 5 s, so all of the code's numbers are whole ticks, except
the `IdleTimeout` of 60 s, which closes a connection as `HangUp` does.

Assumed from net/http (Go 1.21): `Shutdown` closes the listener, then idle connections and
those new for more than five seconds, until none is left; a connection's first request has
its read deadline from the accept, the others from their header, which is taken to come at
once; a finished handler's answer is flushed after the rest of the request has been read
or its deadline has passed. `Shutdown` reads the state of a connection and closes it in
two steps, and a connection becomes active only after its header has been read: a request
may be read in between, and then it is served and logged, but not answered, and `Shutdown`
does not wait for it. Answers are small, so no client is slow to read one. The statuses
are those of the handlers, 200 and 500, and ServeMux's redirect of a path that is not
clean, 301 (route `unclean`); the 400 for `*` is left out. Fairness (`Fairness`): the
goroutines of connections and `main` go on, timers fire, time passes. Clients are not
fair.

## Runs

| Run | Configuration | Instance | Checks |
|---|---|---|---|
| `lifecycle` | `DevEnvLifecycle` | 1 environment, all 12 kinds, 2 specs, 3 edits, 1 fault | `TypeOK`, `WritesOneSnapshot`, `NoLostEdit` |
| `shared_issuer` | `DevEnvSharedIssuer` | 2 environments of a namespace, 4 edits, 1 fault | `NoOrphans`, `NeverDeletesFromLive`, `OwnershipSpec` |
| `stale_list` | `DevEnvStaleList` | old lists, 2 kinds, 2 specs, one without a database, 4 edits, 1 fault, caches behind with 2 objects | `NoOrphansInv`, `WritesOneSnapshot`, `GoesWhenAsked` |
| `converges` | `DevEnvConverges` | fair; 3 edits, 1 fault, 1 object changed or deleted by others | `DeletionCompletes`, `Converges` |
| `shared_namespace` | `DevEnvSharedNamespace` | fair; 2 environments of a name, 3 edits | `NoOrphans`, `DeletionCompletes`, `Converges` |
| `kafka_bootstrap` | `KafkaBootstrap` | 3 pods, 2 ids, 2 faults | `SameClusterId`, `BootstrapInv`, `AgreementSpec`, `JoinsOnceWritten`, `BootsUndisturbed` |
| `pod_system` | `PodSystem` | fair; 2 names, 2 pods, 1 crash, 1 outage, 1 expired watch | `TypeOK`, `NoFalseAlarm`, `OptedInHaveLimits`, `ValidNotRefused`, `DeletionsAnnounced` |
| `logging_app` | `LoggingApp` | fair; 2 connections, 2 requests, a redirect and an error, the code's timeouts | `TypeOK`, `StopsGracefully`, `LogMatchesAnswers`, `WholeRequestsAnswered` |
| `ipfs_bootstrap` | `IpfsBootstrap` | fair; 3 peers, 2 kills, 1 failure | `TypeOK`, `LacksSettingsOnlyIfCut`, `OpensAddresses`, `ComesUp` |
| `secret_follows_spec` | `DevEnvSecret` | fair; 2 edits | `SecretFollowsSpec` is violated |
| `optional_database` | `DevEnvOptionalDatabase` | fair; 1 edit | `DatabaseIsOptional` is violated |
| `logging_ids` | `LoggingIds` | 1 request | `OneIdPerRequest` is violated |

What they show:

- `NoOrphans`: every finalized kind that is live has an environment that exists and
  has the finalizer, among those that share the object. The hazard is a call that
  began with an old copy and creates an object after another has cleaned up. What
  rules it out is not the finalizer but the first status update: with an old copy it
  conflicts, so provisioning starts only from the stored version, and an
  environment whose stored version has the finalizer cannot go until this very
  worker has removed it.
- `OwnershipSpec`: the same as a whole, against the abstract `OwnedObjects`: environments go
  through the stages absent, present, holding, leaving in this order, an object is made
  only for a holder, and an environment is released only when all that is left of its
  objects has another holder.
- `WritesOneSnapshot`: an edit in the middle of provisioning does not leave the objects
  half old, half new: at the end of a call every object that is rewritten at all
  is what one copy of the spec says, in spite of the lagging object caches, of
  updates rejected for a missing database section, and of the panic.
- `NoLostEdit`: adding and removing the finalizer write the whole environment back;
  they undo no edit of the spec and no deletion.
- `NeverDeletesFromLive`: objects that are not shared are deleted only for an
  environment that is being deleted. It is checked with `ListMayLag = FALSE`: a
  restarted operator that is given an old list may take a new environment for the
  deleted one of the same name and delete the new one's objects, workspace claim
  included (the environment itself survives: `GoesWhenAsked`).
- `DeletionCompletes`: finalization ends, although its deletes are repeated after a fault
  and then meet objects that have gone.
- `Converges`: once users and faults are quiet, live environments have all their
  objects with the contents of the last spec, for good; also an object that
  somebody has deleted, and a Namespace that another environment's finalization took
  and that is still terminating when it is asked for again. The exception it names is a
  workspace claim that somebody has deleted and the environment's own pod holds
  (`HeldBack`): this the code does not repair.
- Kafka: no two directories with different ids, and the bootstrap implements
  `ClusterIdAgreement`; once the id is written, all nodes come up with it, and if
  nothing fails, it is written. A node 0 that is killed between creating the file
  and writing it, or whose `random-uuid` fails, leaves an empty file for ever:
  `BootsUndisturbed` speaks of the undisturbed case for that reason.
- IPFS: `LacksSettingsOnlyIfCut`: a node that runs has all of its settings unless a run of
  `configure-ipfs.sh` was stopped between `ipfs init` and the last of them; in that
  case it never gets the rest, since the next run finds the file. One failing
  `ipfs config` is enough: under `set -e` it ends the script, and the retry, which
  should repair it, hides it. `OpensAddresses`: the addresses of a running peer are open
  unless an edit of this very run failed, wherever earlier runs were stopped.
  `ComesUp`: after the last kill and failure all peers come up.
- Pods: `NoFalseAlarm`: consumers hear only of pods that are gone, and from one process of
  each at most once, across restarts, old and new lists, outages and names used again. Two
  processes may announce one deletion, as the first list of the second may still have the
  pod: the code does so, and the property says no more. `DeletionsAnnounced`:
  the deletion of a pod that the informer knew is announced, also when it falls into a
  gap of the watch. It says when not: after a restart of the controller, an outage of
  the broker, or when a new pod has the name, which hides the deletion from the
  list; the code loses all three. `OptedInHaveLimits` and `ValidNotRefused`: no
  opted-in pod is stored without limits, whichever calls fail, and none is refused
  because the webhook's limits do not go with requests it came with.
- Logging: `StopsGracefully`: neither the 30 s of `Shutdown` nor those of the kubelet run out
  while a request is served, as every client is cut off by its 15 s; so the line
  "Server stopped gracefully", which is also logged after an error, is true.
  `WholeRequestsAnswered`: a request that has been received as a whole on an active connection is
  answered, also while the process stops. It leaves out a request that has just been read on a
  connection that `Shutdown` has found idle, and a SIGTERM before `signal.Notify`: these are lost.
  `LogMatchesAnswers`: each answer has its completed line with the status that was
  answered, and each completed line its one incoming line.

Some type invariants are tight enough to say more than types: `TypeOK` of `IpfsBootstrap` says
that past the init container there is a config file, that of `LoggingApp` that only 200,
301 and 500 are answered, that of `PodSystem` that the handler never sends what is not a pod.

**Bounds.** `MaxEdits` bounds create, edit and delete by users: 3 suffice for create,
edit, delete; 4 for using the name again, or for two environments that are created and
deleted. `MaxFaults` counts failed calls, lost answers and restarts: one fault at any
place of a call. `MaxTampers` bounds what others do to the objects. `MaxLag` is the number
of objects whose last write is not yet in the caches; a write that would exceed it waits
for a cache to catch up. It is 1 where the run is about something else and 2 in
`stale_list`. Kafka's `MaxFaults` counts kills and failures of `random-uuid`. IPFS: 2
kills allow one that cuts a script and one of the run after it, besides a failing command.
`PodSystem`: 2 pods and 2 names allow a name to be used again, and two deletions in one list or
one after the other in the handler; each fault happens once. `LoggingApp`: 2 connections and 2
requests allow a request in flight next to an idle or a slow connection, and two requests
on one. The proofs have no such bounds: their constants are arbitrary.

**Symmetry.** `lifecycle` permutes the two specs, `shared_issuer` the two environments,
whose names are only compared. Runs with liveness use none.

**Deadlock.** All runs say `CHECK_DEADLOCK FALSE`: a system whose environments are
gone, a cluster whose servers run, a controller without pods and a process that has
ended have nothing left to do.

## Proofs

All by TLAPS with SMT, Zenon and PTL, for arbitrary constants: sets of
environments, names, kinds and specs, nodes and ids, connections and routes, peers, pods and
manifests, all bounds, and, but for two theorems that say so, with or without old lists.
Assumptions: `EnvAssumption`
(an environment is named by its namespace and name; at least one kind of the
instance is finalized), `SpecAssumption`, `KafkaAssumption`, `LoggingAssumption`
(`ReadTimeout` is below the timeouts of the shutdown and the kubelet),
`IpfsAssumption`, `NotifyAssumption`, `ManifestsAssumption`. TLC evaluates them in the runs.

| Theorem | Says |
|---|---|
| `TypeCorrect` | `Spec => []TypeOK` |
| `CopiesCorrect` | `Spec => []FreshCopies` |
| `InvCorrect` | `Spec => []NoOrphansInv` |
| `NoOrphansCorrect` | `Spec => []NoOrphans` |
| `NoLostEditCorrect` | `Spec => NoLostEdit` |
| `GoesWhenAskedCorrect` | `Spec => GoesWhenAsked` |
| `SnapshotInvCorrect`, `WritesOneSnapshotCorrect` | `Spec => []SnapshotInv`, `[]WritesOneSnapshot` |
| `DeletionsAskedCorrect`, `NeverDeletesFromLiveCorrect` | without `ListMayLag`: `Spec => []DeletionsAsked`, `NeverDeletesFromLive` |
| `BootstrapInvCorrect` | `Spec => []BootstrapInv` |
| `SameClusterIdCorrect` | `Spec => []SameClusterId` |
| `ImplementsAgreement` | `Spec => AgreementSpec` |
| `ImplementsOwnership` | `Spec => OwnershipSpec` |
| `LoggingTypeCorrect`, `StopsInvCorrect`, `StopsGracefullyCorrect` | `Spec => []TypeOK`, `[]StopsInv`, `[]StopsGracefully` |
| `LogInvCorrect`, `LogMatchesAnswersCorrect` | `Spec => []LogInv`, `[]LogMatchesAnswers` |
| `IpfsInvCorrect`, `IpfsTypeCorrect` | `Spec => []IpfsInv`, `[]TypeOK` |
| `LacksSettingsOnlyIfCutCorrect`, `OpensAddressesCorrect` | `Spec =>` each of them always |
| `AdmissionInvCorrect` | `Spec => []AdmissionIInv` |
| `OptedInHaveLimitsCorrect`, `ValidNotRefusedCorrect` | `Spec => []OptedInHaveLimits`, `ValidNotRefused` |
| `AlarmInvCorrect`, `NoFalseAlarmCorrect`, `PodTypeCorrect` | `Spec => []AlarmInv`, `[]NoFalseAlarm`, `[]TypeOK` |

Every safety property of the runs that pass is a theorem, as is each refinement. The
inductive invariants were checked by TLC, with the constants of the runs, before they were
proved; `NoOrphansInv` and `BootstrapInv` are checked by the runs themselves.

*The operator.* `NoOrphans` is not inductive: a step that creates an object must know that
the environment is still held, and the step that removes the finalizer must know
that the objects are gone. `NoOrphansInv` adds what the argument needs:

1. `FreshCopies`: a copy with the stored version equals the stored environment.
   Every write of an environment makes all other copies out of date.
2. `ReadsExisting`: a call works on an environment that existed when it was read, and
   finalizes only one that was being deleted.
3. `ProvisionsHeld`: past the first status update the *stored* environment has the
   finalizer. It was accepted only with a fresh copy, which has it; then only
   this worker could take it away.
4. `DeletedStaysDeleted`: while a call finalizes, what it has deleted stays
   deleted, since only this worker creates objects.
5. With 4, when the finalizer is removed nothing finalized of the environment is live.

For shared objects lemmas say that `Sharers` is symmetric and that two environments
resolve to the same object iff they share it, so a provisioning worker's own
environment is a holder for every sharer. The proof goes action by action with one lemma
for each group of actions. `NoLostEdit` and `GoesWhenAsked` follow from 1 and 2: an accepted update
carries a fresh copy, whose spec and deletion are the stored ones.

*One call's writes.* `WritesOneSnapshot` speaks of the end of a call. `DoneAsSpecified` says
the same of each kind when it is done, so that a step only has to add one kind and
leave the others alone: they are other objects (`ObjInjective`), and only this worker
writes. The kinds that are created and then left as they are need `NeverTerminating`: an
existing object that does not linger is live. Edits do not matter, since the worker's copy
does not change while it provisions.

*Deletions.* `NeverDeletesFromLive` is about a stale copy: an environment is deleted, another
is created under its name, and the worker or the cache still shows the old one as being
deleted. `CacheAsked` and `WorkerAsked` say that the new one is then not held. It comes to be
held only by an update that adds the finalizer, which is accepted only with a copy of the
new environment; `FirstTryCached` and optimistic locking put that copy in the cache
too, so the old one is nowhere any more. `NoOrphans` gives the rest: a live object that
is not shared has its environment held. The two theorems have the hypothesis `~ListMayLag`:
a restart with an old list brings the old copy back after the new environment has
become held, and its deletion is then carried out on the new one's objects. That is
why `NeverDeletesFromLive` is checked by `shared_issuer`, which excludes such lists, and not
by `stale_list`.

*Kafka.* `BootstrapInv`: only node 0 is ever where the file is written (`OneWriter`); it
gets there only while there is no file (`WriteOnce`), so the file is written once; ids in
variables and directories come from it (`FromFile`). `ImplementsAgreement` maps
`WriteFile` to `Choose`, or a stutter if the id is empty, `Format` to `Adopt` or a
stutter, all else to a stutter.

*Ownership.* `ImplementsOwnership` maps every write of an environment to a move of one owner
or a stutter, every write of an object to `Make` or `Destroy`. Two facts carry it:
`DeletingKept`, an environment is marked as being deleted only while a finalizer keeps it
(without one it goes at once), so that holding precedes leaving; and `NoOrphansInv`, by
which nothing is left that the released environment alone holds, and whoever
creates an object is a holder.

*Logging.* `StopsGracefully` is not inductive: it needs to know that clients are cut off
before the timers run out. `StopsInv` adds `AheadOfClients`: while the server drains,
what is left to every client is behind what is left to `Shutdown` and to the container
by at least the difference of the timeouts; and `StagesInv`: how the state of a
connection, closed by `Shutdown` included, goes with its stage, and which goroutine may let
time pass. When a timer reached zero, every connection would have no time left, hence
nobody could wait for the tick.

*The log.* `LogMatchesAnswers` relates answers and lines that were written at different
times by requests that overlap. `LogInv` says of each request where it is (`RequestOK`):
since it came in its line is there; while it is served no line says that it is completed
and nobody has answered it; when it is logged as completed, the status it will be
answered with is the one logged. `OneConnection` keeps two connections from serving one
request, and ids count up, so a line of the request coming in is the only one with its id.

*IPFS.* `IpfsInv`: while the script is at a command, the repository has exactly the
commands before it; at any other time it is empty, whole, or cut (`RepoOK`). An
entrypoint past an edit has made it or missed it in this run (`AddressesOK`).

*Admission.* `AdmissionIInv`: a request past the webhook has limits in every container, and
is valid if it was asked for as valid (`RequestOK`). It rests on a lemma of what `Apply` of
`Patch` gives: the defaults for a container without limits, the container itself
otherwise.

*Announcements.* A uid that a consumer heard must be gone, and not be heard again from the same
process, although gaps of the watch and new lists come between. `AlarmInv` follows a
deletion from the informer to the consumer: it is in one place (`InOnePlace`), and the pod it
is about has gone from the API server (`Past`). `VersionsInOrder`: in the history of the pods
a name stands for the pod that was created with it, and a pod that has gone is in no later
version; the same name used again is another uid. Hence a pod that a process has announced is
in no version that the process can still come to (`Gone`), since neither the watch nor a
list takes it back. Only the first list of a process may go back, and before it the
process has announced nothing.

Only model-checked: all liveness (`DeletionCompletes`, `Converges`, `JoinsOnceWritten`,
`BootsUndisturbed`, `DeletionsAnnounced`, `WholeRequestsAnswered`, `ComesUp`), which is out of
the prover's reach, since it needs fairness and `ENABLED`.

## Where the code and its documentation disagree

- **The password secret does not follow the spec** (`secret_follows_spec`): line 608 creates
  it and leaves an existing one as it is; the operator's README promises
  synchronization "until the desired state is reached".
- **The optional database is not optional** (`optional_database`): the CRD accepts an
  environment without `database`, but the Go type writes an empty one back in every
  update, with a type that the CRD's enum rejects. The finalizer is never added, nothing is
  provisioned.
- **Two ids for one request** (`logging_ids`): the handlers of `/api` generate an id of their
  own (`logging/app/main.go`, lines 185, 218, 250) instead of the middleware's: its README
  says that each request gets a unique id for tracing.

Besides, and not shown by a run:

- for the reason that makes the database not optional, an environment whose database
  section is taken out later can never lose its finalizer: its deletion hangs;
- a workspace claim that somebody deletes while the environment runs is never replaced: the
  pod of the VscodeDeployment mounts it (lines 499 to 505) and keeps it terminating, the
  operator keeps the Deployment and leaves an existing claim as it is (line 383);
- the status is set to Ready by the first `updateStatus` (line 108) before anything has
  been created, and stays so when creating fails; the types call it "the observed state";
- the manager role lacks the rights on most kinds the controller creates, and
  `LastUpdated` makes every call trigger the next one;
- the comparisons in `producer.js` are chained (`0 <= rnd < 0.20`), so only flow readings
  are sent, and no producer is ever closed;
- the peers of the IPFS cluster look for `ipfs-cluster-0.ipfs-cluster`, but the Service of
  that name is not headless.

## Not modelled

- *Generated code* (`zz_generated.deepcopy.go`), flags, environment variables, probes and
  metrics: configuration without state.
- *The rendering of objects* beyond what of it depends on the spec.
- *Validation of environments* other than that of the database section: the API server's.
- *IPFS*: what the daemons do once they run, so how peers find each other; `repo.lock`, which
  alone stops nobody, since kubo holds its lock by the process; an `ipfs init` cut short in
  the middle; the readiness of the `ipfs` container.
- *The init containers of pods*: the webhook leaves them alone, and nothing in the repository
  speaks of them.
- *The rights of the operator*: the models grant them all.
- *Kafka producer and consumer*: the calls of the timer share nothing, so there is nothing to
  interleave; what grows is the number of connections.
- *User service*: every request is one call of an ORM, and what concurrent calls do is
  the database's business; neither is in the repository.
- *k8-client, minio client, kubectl plugins*: one-shot commands that end on the first error.
- *Monitoring, terraform and other manifests*: declarative, and mostly vendored.
- *Logging*: the format of lines, and that ids generated at one instant by
  different requests differ (time and eight random letters): in the model each
  generated id is new.
