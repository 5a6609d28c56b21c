# A TLA+ verification of oidc-apps

oidc-apps is a Kubernetes controller that puts authentication (oauth2-proxy) and
authorization (kube-rbac-proxy) side-cars in front of selected deployments and
stateful sets. This directory models the parts of it that keep state over time
and react to concurrent events, checks them with TLC on small instances and
proves the central safety properties with TLAPS for all instances.

## 1. Inventory

| Component | State it keeps | Operations | Talks to |
|---|---|---|---|
| Certificate manager (`pkg/certificates`), one per replica | CA and TLS bundle in memory; `ca.crt`, `ca.key`, `tls.crt`, `tls.key` on disk | load or generate at start; rotate CA; rotate TLS; sync every minute; clean up at shutdown | the one `MutatingWebhookConfiguration` all replicas share; the webhook server through the files |
| Watcher (`cmd/watcher`, `pkg/watcher`), inside the kube-rbac-proxy container | the child process, the last hash, `procLock`, a hash channel and a done channel | hash the directory every 3 s; restart the child; handle a signal | the child (signals, exit), the mounted directory |
| Deployment and stateful-set reconcilers (`pkg/controllers`) | none of their own: work queues, and objects at the API server seen through informer caches | reconcile a workload: create, update or prune secrets, services, HTTP routes; propagate the registry secret | API server, cache, garbage collector, each other through shared objects |
| Image-pull-secret reconciler (`pkg/controllers`) | a finalizer on the source secret | update the copies on rotation; delete them with the source | the copies that the workload reconcilers create |
| Controller wiring (`pkg/oidc-apps/cmd.go`) | the manager's caches, selectors, event filters | decide which events queue which workload | all controllers |
| Pod and VPA webhooks (`pkg/webhook`) | none of their own: the pods and VPAs they have admitted | inject the side-cars into a pod; switch off the autoscaling of the side-cars | the API server calls them; owners from the cache; the reconcilers write the secrets and routes that the pod relies on |
| Managed gateway reconciler (`gateway_reconciler.go`) | one `Gateway` object | create, update, every 60 s again; clean up an orphan | API server and cache; the HTTP routes refer to its gateway |
| Configuration (`pkg/configuration`) | read once at start, another one after a restart | match objects to targets, resolve values | used by all |

What is hard here, and why tests hardly reach it:

* several replicas and four goroutines per replica edit one object through lagging
  caches, with optimistic concurrency as the only guard;
* certificates go to disk file by file, and a process may die between two files;
* trust (CA bundle) and use (served certificate) must change in the right order;
* the watcher has a lock, two channels and a kill timeout racing the child's exit;
* three controllers share the copies of one secret, each acting on what its cache
  shows, with a list and a write as two separate steps;
* which event reaches a reconciler depends on predicates that filter most updates;
* a pod is fixed at admission, while the secrets, the checksum and the route it depends
  on are computed again, elsewhere and later, perhaps under another configuration;
* a webhook is called again on its own output, or not at all;
* a name may be reused by a new object with another UID while the old one's
  dependents are being collected.

`PROJECT.json` lists these hazards line by line with the properties that cover them.

## 2. Modules

Each component has a module; `MC...` modules only give values to constants;
`...Proofs` modules hold the theorems. The map in `PROJECT.json` names the source
lines of every definition. A definition marked "Mutant" in its comment is a
deliberately wrong variant of the definition that follows it: no specification uses
it; it shows that a property is able to fail.

### CertManager

Per replica: `disk`, `ca` (key and certificate, assigned in two steps as in the
code), `tls`, a program counter for each of `main`, `sync`, `rotateCA`, `rotateTLS`,
and for each an object it has read and will write (`upd`). Shared: `config`, the
webhook configuration with a resource version; `cache`, each replica's informer copy.

* `Boot`, `generateCACert`, `writeBundle`, `LoadTLS`, `generateTLSCert`, `SetTLS` are
  `New` and the generation functions, one step per file written.
* `rotateCACert`, `rotateTLSCert` are the checks at a tick; `SetCAKey`, `SetCACert` the
  two assignments to the shared bundle; `SignFails` the failing signature when the
  TLS rotation reads between them (the code then dereferences nil and the process ends).
* `GetWebhook`, `FillWebhook`, `UpdateWebhook`, `RetryOnConflict`, `UpdateFails` are the three
  callers of `RetryOnConflict`: the callback reads the object, gives each webhook in turn the
  CA that is in memory at that moment, and puts it. Nothing guards `c.ca`, so a sync pass may
  give the old CA to one webhook and the new one to the next. The clean-up changes all
  webhooks in one step (`Got`), since nothing of its process runs beside it.
* `SyncTick`, `SyncNext` are `syncWebhookCaBundle`: the object is read once and the loop
  over its webhooks goes on with it, calling the update again for each one missing.
* `Cancel`, `LeaveLoop`, `WaitGroupDone` and the clean-up are `Start`'s shutdown.
* `CacheSync`, `Crash`, `Replace`, `Reapply`, `Tick` are the environment.

A certificate is its serial, its issuer's serial and NotAfter; a private key is
represented by the certificate it belongs to. A serial is the pair of the replica and a
number (`generateSerial` draws 63 random bits; collisions are not modelled). Bundles
hold parseable certificates only. Time is a counter whose unit is longer than the
tickers and any pass of a handler; comparisons are those of the code, and the loop's
ticks happen at any moment of a unit. A failing write of a file is subsumed under
`Crash`, since the loops dereference the nil bundle. `Update` and its response are one
step, and a request of a cancelled context fails, stored or not; a request that the
server stores some time after its caller has returned is not modelled. The certificate and
key of `c.tls` are assigned in one step: only `c.tls.cert.NotAfter` is ever read.
`UpdateLost` is an `Update` that the server stores while its caller sees an error.
`behind` is a history variable, a set of serials per replica: CAs that were loaded from disk, wiped by
`Reapply`, or whose update was given up, and that this replica has not published since. It is a set and not a flag,
since a later CA may be published while the served certificate is still issued by the one before.

`CABundle` is what all replicas together promise: a set of CAs per webhook, published and
withdrawn by replicas that join and leave, in atomic steps without versions or caches. A
step publishes for each webhook a CA of the replica's own, not the same one for all.
CertManager implements it with `trusted` the certificates of the CABundles and `active`
the replicas that have not stopped.

### Watcher

`main` and the signal handler are program counters over `procLock`; the producer is
`hashing` and the bounded `queue`. `children` records every child ever started, with its
state and the contents it read; `cur` is `proc.Process`. `StopBegins`, `StopWaited`,
`StopTimeout` are `Stop`: SIGINT, wait in a goroutine, timeout, SIGKILL, drain;
`StopReturns` what either caller does with the result. A child ends whenever it likes,
also because of SIGINT, and is reaped only by the waiting goroutine. `abandoned` (a restart
was given up) and `unseen` (the signal was handled while there was no child) are
history variables. A hash of contents is the contents' version; "" is 0. Equal
contents with different file names, and files changing during the hashing, are not
told apart.

`Supervisor` is the abstract specification: one child at a time, started with the
contents of that moment, no end of its own accord while a child lives. Watcher implements it;
that a watcher which is told to end does is `SignalEndsWatcher`.

### RegistrySecret

Several workloads in several namespaces; the source secret with its finalizer; one copy
per namespace. `copies` and `source` are the API server, `view` and `seen` the cache,
`stale` and `seenFresh` say where the cache lags. `job` holds the two workload workers,
`sec` the image-pull-secret worker, each with what it has read and not yet written. The
actions follow `ensureRegistrySecret`, `cleanupRegistrySecretIfLastTarget` and the two
phases of `ImagePullSecretReconciler.Reconcile`, one API write per action.
`outdated` are the listed copies that have changed since: their Update conflicts.

### Workload

One workload of either kind, its pods, and the resources it needs. A resource is a
kind and an owner; an object is the UID of its owner, contents and (oauth2 secret only)
a cookie secret. `Reconcile` chooses between pruning and applying and fixes the list of
calls in the order of the code; `Prune` and `Apply` do one call each against a lagging
cache. `PassesFilter`, `Mapped`, `ChangeWorkload` and `ChangePod` are the event filter and the map
functions: an event that is filtered (an update that leaves the generation alone) or does not lead to
the workload queues nothing. `owners` is the workload, by UID, that each pod belongs to, and `unmapped`
are the pods whose replica set is not in the cache yet: such a pod does not count
(`hasOidcAppsPods`), its event is dropped (`latePod`), and nothing watches replica sets
(`CacheReplicaSet`). With one process a pod is injected only after the webhook has found its owner
in the same cache; with several replicas another one's webhook may have. `missed` is a history variable: the reconciler
came too early for something that no event announces, such a replica set or an update that puts the
live owner's reference on an object.
The pods of a stateful set are taken in any order (`PodLists`), since the list of the cache has none.
`Garbage` is the garbage collector, by UID. In both controller modules a worker is one
goroutine (the default `MaxConcurrentReconciles`), a failed reconcile is queued again,
the informer delivers the latest version, and the read and the write of
`CreateOrUpdate` are one step (another writer in between makes the write conflict, which
`Conflict` covers). Workloads and pods are modelled as the cache shows them, since no
controller writes them.

Workload leaves out the registry secret (the reconcilers run without
`--registry-secret`; RegistrySecret models those steps) and VPA support (`patchVpa`, in Admission).
A deployment and a stateful set with the same name and namespace would share the
names of their secrets; that is not modelled.

Users act at any moment in Workload. In RegistrySecret `Pace` says when they may: "free" is at any
moment; "idle" once the controllers have caught up; "settled" once, in addition, no deletion is under way. The settled run
is not a weaker version of the free one: it states what the code does promise when one change is dealt
with before the next, and the violation runs show which promises need that.

### Targets

Operators only: `Match`, `FetchTarget`, and the fallback from the target's value to the global one to
the default (`Setting`, with the defaults of each getter), `GetHost`, `GetRedirectURL`, and the fields
that the oauth2-proxy template renders (`Parse`). Labels are atoms; a host name is the
sequence of its parts between dots, each the sequence of its parts between dashes, which
is what the code's cutting and joining depends on. `In` and `NotIn` expressions are left out.

### Admission

Composes the two webhooks with what the reconcilers add to their work, for one workload
of either kind with one pod, over a cache (`seen`) that lags behind the workload (`wl`).
`PodDefault` is `PodMutator.Default` with its helpers under their names: a container is its
settings, further arguments, ports, mounts and memory request; a projected volume is the
sequence of its secrets. `MutatingAdmission` is the API server at a creation: another
webhook adds a container before or after this one, which is then called again
(`reinvocationPolicy: IfNeeded`); `UpdatePod` calls it for an update and refuses the result
if it differs in what is immutable. While the controller is down objects are admitted unchanged
(`failurePolicy: Ignore`). `VpaDefault` and `patchVpa` are the VPA webhook and the empty patch by which
a reconcile brings a VPA past it. `Reconcile` is one step that may fail after each of its calls
(`Steps`); a call that can never succeed is `Blocked`. `Stop` and `Start` restart the controller, with any
configuration. Client-ID flags, security contexts, probes and limits that the code writes
as constants are left out. `pod.from` is history: what the side-cars were made from.

### Gateway

`gws` are the gateways at the API server, `view` the cached ones (labelled ones only, `Shown`),
`fresh` the names whose cached version is current. `Reconcile` is the reconciler, whatever
request it is given, `Tick` the sync interval, `ReconcileRoute` the parents that a target's
reconcile writes into its route. `Start` is `addManagedGateway`: without a managed gateway
there is no reconciler. `Desired` and the `build` functions translate the gateway section;
optional pointers are sets of at most one element. `Defaulted` is what the resource
definition fills in, so the comparison of `CreateOrUpdate` sees a difference on each pass, as
in the code. Ports, protocols, selectors of namespaces and annotations are left out. The request's
name carries no information, since the reconciler ignores it.

## 3. Runs

Passing runs (distinct states in brackets):

| Run | Instance | Shows |
|---|---|---|
| `cert_rotation` (2.4M) | 1 replica, 2 webhooks, 10 units of time, two rotations of the CA, the chart applied again once | `ServedCertTrusted`, `ServedPairMatches`, `ImplementsCABundle` |
| `cert_replicas` (915k) | 2 replicas, both may be stopped and boot again, symmetric | `NoForeignCARemoved`, `StoppedCAWithdrawn`, `ImplementsCABundle`, `TypeOK` |
| `cert_repair` (621k) | 1 replica, one disruption of any kind, a rotation of the CA and then of the TLS certificate, one attempt per update | `CAEventuallyPublished`, `StoppedCAWithdrawn` |
| `watcher` (29k) | 2 versions of the contents, one read and one start error | `AtMostOneChild`, `NoOrphan`, `NewConfigServed`, `SignalEndsWatcher`, `ImplementsSupervisor`, `TypeOK` |
| `registry_settled` (69k) | 2 deployments, 1 stateful set, 2 namespaces, 8 changes, 1 failing call | the five promises about copies |
| `registry_deletion` (62k) | 2 workloads in 1 namespace, 4 changes of any kind at any moment, 1 failing call | `SourceDeletionCompletes`, `TypeOK` |
| `workload_deployment` (3.7M) | a deployment with one pod, 2 configurations, 6 changes of any kind but edits, relabelling and deletions in the foreground, 1 failing call | `DependenciesReady`, `NotExposedUnlessTarget` |
| `workload_statefulset` (324k) | a stateful set with 2 pods, 4 changes (creation, pods, removed resources, restarts), 1 failing call | `DependenciesReady`, `TargetServed` |
| `workload_free` (230k) | a stateful set with one pod, 4 changes of any kind, 1 failing call | `CookieStable`, `NothingLeftBehind`, `TypeOK` |
| `admission` (78k) | 1 workload of either kind, 3 configurations, 4 changes, 1 failing call, another webhook before or after | `InjectedPodUpdatable`, `MountsProvided`, `RedirectRouted`, `ChecksumsAgree`, `SidecarsPinned`, `TypeOK` |
| `gateway` (35k) | 2 names, 5 configurations, gateways of others, 3 changes, failing calls | `ForeignGatewaysKept`, `GatewayConverges`, `RouteAttached`, `TypeOK` |

Why the bounds are enough to be interesting. Rotation: the CA lives long enough for two TLS
rotations before its own, and the old CA expires and is dropped before or after the second one; the
periods keep the code's relation, in which the two rotations do not fall together (TLS
every 23 h, CA after 158 h). Replicas: two suffice for every pair of reader and writer, and
each goes through boot, publication, sync and shutdown; two attempts let a conflict be
retried and be given up. Repair: a crash may fall between the two files of the rotated CA, and
the TLS rotation after the restart then fails to sign and ends the process (`SignFails`); retries are the
matter of the other two runs. Watcher: the contents change once, at
any point of a start, restart or Stop; `AtMostOneChild` and `NoOrphan` are proved for any
number of changes. Registry: one namespace is shared by workloads of
both kinds, another has one of its own. Workload: two pods of a stateful set, so that a pass can
be between them and one of them replaced; for a deployment, whose pods only matter as being there or not, one
pod and six changes, enough to serve, delete, create again under the same name and de-target, with the old
object's resources still there; all of them at any moment of a pass. Admission: the
three configurations differ in what they refer to or have the controller write, in hosts
and domains, and in which target a label set reaches first; four changes are enough for a pod admitted under one
of them, a restart under another and back, and an update. Gateway: three changes let an edit
fall before, between and after the two starts of a restart with another name.

One run expects a violation: `workload_relabel` checks `NotExposedUnlessTarget` when the matching labels
of a deployment are removed. The removal of labels alone changes no generation and is filtered; the
finding in `PROJECT.json` quotes the comment that says otherwise.

Further divergences. The following configurations are kept beside the listed runs. Each
shows a counterexample to the named property in a case that the passing runs leave out
(through `Changes`, `Pace`, `FailingCalls`, `SourceLabelled`, `Sizes`, `OwnerSuffixes` or the configurations given)
or that the checked property excepts:

| Configuration | Property | Where | What TLC finds |
|---|---|---|---|
| `CertManager_load.cfg` | `LoadedCAIsValid` | `generate.go:118` | a crash between `ca.crt` and `ca.key` leaves a pair that does not match and is loaded ("Check if there is valid CA bundle", `manager.go:97`) |
| `CertManager_duplicate.cfg` | `OneCopyOfEachCA` | `manager.go:364` | the sync loop appends the same CA once for each webhook that lacked it at the tick ("Clean up expired certs or the cert with the currently generated CN", `manager.go:352`) |
| `RegistrySecret_background.cfg` | `NoCopyWithoutTarget` | `deployment-reconciler.go:38` | a target deleted in the background is gone when its event is handled, and its copy stays ("created and removed on demand ... as targets appear and leave their namespaces", `cmd.go:397`) |
| `RegistrySecret_unlabelled.cfg` | `TargetGetsCopy` | `cmd.go:97` | the chart's source secret has no label, so the cache never shows it ("creates a labeled copy ... when a matched target lives there", `registry-secret.go:20`) |
| `RegistrySecret_terminating.cfg` | `NoCopyWithoutTarget` | `registry-secret.go:110` | two targets deleted together keep the copy for each other ("a still-cached terminating object does not keep the copy alive", `registry-secret.go:65`) |
| `RegistrySecret_update.cfg` | `CopiesCurrent` | `image-pull-secret-reconciler.go:97` | a failed Update of a copy is not retried ("keeps the propagated registry-secret copies in sync", `cmd.go:395`) |
| `RegistrySecret_finalizer.cfg` | `NoCopyOfReleasedSource` | `registry-secret.go:44` | a copy created after the list survives the source ("blocks deletion ... until the propagated copies ... have been removed", `const.go:69`) |
| `RegistrySecret_cleanup.cfg` | `CopyForEveryTarget` | `registry-secret.go:86` | a Delete decided before a new target came removes the copy it relies on ("once no matched target remains there", `registry-secret.go:64`) |
| `RegistrySecret_rotation.cfg` | `CopiesCurrent` | `registry-secret.go:44` | a rotation delivered between the read of the source and its copying, or before the cache shows the new copy, never reaches that copy ("keeps the propagated registry-secret copies in sync", `cmd.go:395`) |
| `Workload_detarget.cfg` | `PrunedCompletely` | `modifiers.go:112` | secrets other than the oauth2 one are not pruned ("Prune the previously created owned resources explicitly", `deployment-reconciler.go:51`) |
| `Workload_podowned.cfg` | `NotExposedUnlessTarget` | `modifiers.go:295` | pod-owned services and routes are not found by the stateful set's UID (same sentence, `statefulset-reconciler.go:51`) |
| `Workload_latepod.cfg` | `ServedAfterEveryPod` | `cmd.go:490` | the only pod event of a deployment comes before its replica set is in the cache and is dropped: the target is not served until another event ("triggered on changes of the owned pods", `cmd.go:469`) |
| `Workload_adopted.cfg` | `NeverExposedUnlessTarget` | `owned.go:35` | a re-created deployment adopts its predecessor's service and is de-targeted before the cache shows the new owner: the service is not found as its own, and the update that made it so passes no filter |
| `Workload_nsonly.cfg` | `TargetServed` | `modifiers.go:160` | a target without label selector: nil dereference on every reconcile ("labels and/or namespace selectors", `README.md:17`) |
| `Admission_ownsuffix.cfg` | `MountsProvided` | `modifiers.go:248` (webhook) | a workload with a suffix annotation: the pod mounts secrets under that suffix, the reconciler writes them under the hash |
| `Admission_suffix.cfg` | `SuffixAnnotated` | `modifiers.go:49` (webhook) | the annotation on the pod is the hash of the pod's own name ("holds the name suffix of the mounted configuration secrets", `const.go:13`) |
| `Admission_reference.cfg` | `ChecksumOfSecret` | `modifiers.go:58` (webhook) | with `clientSecretRef` the checksum is that of another text than the secret's (`const.go:15`) |
| `Admission_nodomain.cfg` | `RedirectRouted` | `oidc-apps-httproutes.go:92` | without a domain name the route's host gets an index and a trailing dot, the redirect URL does not |
| `Admission_resize.cfg` | `InjectedPodUpdatable` | `modifiers.go:411` (webhook) | a side-car resized to at most 100Mi is reset by the next call of the webhook, and the update is refused |
| `Admission_lag.cfg` | `NoTargetWithoutSidecars` | `pod-webhook.go:190` | a pod created before the cache shows its owner is admitted without side-cars |
| `Admission_nilpolicy.cfg` | `QueueDrains` | `modifiers.go:363` (controllers) | a VPA without resource policy: nil dereference on every reconcile |
| `Gateway_orphan.cfg` | `OrphansRemoved` | `gateway_reconciler.go:37` | the clean-up is never reached: without a managed gateway there is no reconciler |
| `Gateway_labels.cfg` | `GatewayConvergesAlways` | `gateway_reconciler.go:90` | a gateway of that name without the controller's label, also through the configured labels, is invisible to the cache: its creation is refused for ever |

So the passing runs of RegistrySecret and Workload say what the code promises outside these
cases: the source carries the label, no Update of a copy fails, changes around a copy do not overtake each
other and its targets leave in the foreground; deployments are de-targeted by a change of their spec, and targets have a label
selector.
Those of Admission and Gateway: hosts have a domain, workloads carry no suffix annotation, VPAs have a resource policy,
and in-place resizes go above 100Mi.

Deadlock is checked in CertManager, whose replicas can always do something. In the
other modules the system may stop: the watcher exits, and controllers have nothing to do
once users stop changing things.

## 4. Fairness

CertManager: weak fairness for every goroutine and for the informer. Tickers fire again,
the Go scheduler runs what can run, a watch delivers. No fairness for disruptions, boots
or time. Watcher: weak fairness for the goroutines and timers; strong fairness for
`DoneReceived`, because a Go `select` chooses uniformly among ready cases, so done is not
passed over for ever by hashes; a killed child dies; nothing obliges a child to heed
SIGINT. Controllers: weak fairness for informers, for taking what is queued and for the next call of a
worker; for the garbage collector and for objects whose deletion has begun. None for users. The
errors of the API server are bounded (`MaxErrors`), so a retry finally succeeds.

Admission: weak fairness for the informer, the worker and `Start` (a controller that is down is started
again by its deployment). Gateway: the same, and the sync interval elapses. `SidecarsPinned`, `GatewayConverges` and `RouteAttached`
are of the form "if from some point on ..., then from some point on ...": they ask nothing while users keep changing things.

## 5. Proofs

TLAPS proves the theorems below for all values of the constants that satisfy the named
assumptions of the modules, and under the hypotheses that a theorem states. A theorem
with a hypothesis is about the case of the passing run of its property; section 3 lists the
counterexamples outside it.

**CertManagerProofs.** `TypeCorrect`, and `NoForeignCARemovedHolds` for any number of replicas
and webhooks. The property is about a step, and follows from what holds before it: the
object a goroutine is about to put was computed from the version it carries. `VersionInv`
says so: a cache with the current version has the current contents and no version is
ahead of the server's (`CacheInv`); an object to be put that carries the current version
lacks nothing of the current bundle but expired certificates or, in the clean-up, the
writer's own CA (`PutInv`); the clean-up runs only when every loop has ended
(`DrainInv`), which keeps "the writer's own CA" the same between its read and its write.
Each action of a goroutine either leaves config, caches and pending objects alone
(`FrameStep`) or is one of the few that do not (`GetStep`, `AfterUpdateStep`, `ExitStep`,
`StartStep`).

**CABundleProofs.** `CABundleImplemented`: every step of CertManager is a step of CABundle, or
a stutter; `StoppedCAWithdrawnHolds`: a replica whose Start has returned is trusted by no webhook
until it boots again. `TrustInv` adds to `VersionInv`: the loops run only while main is past `New` (`LoopInv`);
what a replica has generated, stored and signs with is its own (`OwnInv`); a serial belongs to one certificate
and was drawn (`SerialInv`); and, exactly, what an object that the server would accept makes of
the server's: for each webhook that has had its turn the unexpired certificates and one CA of the writer's, or the same without the
writer's CA (`ExactInv`). `SerialInv` is needed since the clean-up removes by serial, `OwnInv` since a stopped replica's CA
must not come back through another's write. The CAs of two webhooks need not be the same (`Exact`). The steps are grouped by what they move
(`Moves`, `Ends`, `Starts`) and by what they do to the server's object (`ServerStep`).

**CertRotationProofs.** `ServedPairMatchesHolds` and `ServedCertTrustedHolds`, for any number of webhooks, any validities and
margins, any lag of the cache and any interleaving with the sync loop. The two rotation loops share `c.ca`,
`tls.crt` and `tls.key` without a lock, so no order that the code keeps makes these properties true: they hold because both loops
are never due in the same unit of time. `RotationInv` says why. After each rotation of the CA, which renews TLS as well, both count from
the same moment; the distance between the two dates stays a multiple of the TLS period (`PhaseInv`), and the CA's period is none (`RotationsApart`; the code's
periods are 158 h and 23 h). So a loop that writes is alone, what it holds was made now and by the CA in memory (`MemoryInv`), the files agree with the
memory but for what it has written already (`DiskInv`), and the CA that a rotation is about to sign with has been
put into every bundle (`PublishInv`: `c.ca` stays as it is while New and a rotation fill theirs, which a sync need not). `CoverInv` adds that the issuer of the served certificate is in every bundle, or known not to be, and
does not expire before the certificate is replaced, so no update drops it. Hypotheses besides `RotationsApart`, in `Undisturbed`: one replica,
and no disruption but the chart being applied again. A process that dies comes back with a CA and a TLS certificate of
different ages and the two loops may then meet, at its boot if both are due; what is true with crashes and several replicas is `StoppedCAWithdrawn`, `NoForeignCARemoved` and `CAEventuallyPublished`.

**WatcherProofs.** `TypeCorrect`, `AtMostOneChildHolds`, `NoOrphanHolds`, `SupervisorImplemented`.
`WatcherInv` adds to the types: who is
in a critical section holds `procLock` (`LockInv`); every child but the current one has
been reaped, and there is no current one while main is about to start a child
(`ChildInv`); a Stop under way has called Wait, and when nobody is stopping any more a
child that was waited for has been reaped (`WaitInv`); once the signal is handled with
a child in place, that child stays the current one and waited for, so every later Stop
fails at once and no restart makes another (`SigInv`). `AtMostOneChild` alone is not
inductive: a restart needs to know that the child it forgets is dead, which rests on
Stop having waited for it under the lock. In the refinement a start is `Launch` only because
of `ChildInv`, and a return of main is `Quit` because of `SigInv`.

**RegistrySecretProofs.** `TypeCorrect` without hypotheses. Under `Settled` (each change is
dealt with before the next, the source has the label, no Update of a copy fails, targets leave by a change of their spec or a
deletion in the foreground): `CopyForEveryTargetHolds`, `NoCopyWithoutTargetHolds`,
`CopiesCurrentHolds` and the action property `NoCopyOfReleasedSourceHolds`, for any workloads and
namespaces and with failing creations, deletions and finalizer updates. `SettledInv` says who is still going to
do what is not done yet: only one of the three workers is busy at a time (`SecInv`,
`WorkInv`); a copy with old contents is listed by the image-pull-secret worker or will be, one of a
deleted source too (`ListInv`); a target without copy is queued or about to create it (`TargetInv`); a copy without
target has a workload that is about to delete it, and no other one that leaves (`OrphanInv`). `RegistrySecret_background`,
`_unlabelled`, `_terminating`, `_update`, `_rotation`, `_finalizer` and `_cleanup` show what each hypothesis is for.

**WorkloadProofs.** `TypeCorrect` and `CookieStableHolds`, for both kinds, any pods,
configurations and changes. `CookieInv`: a cached object that is not stale is the one at
the API server (`CacheOK`), and an oauth2 secret that exists, there or in the cache, has a
cookie (`CookieOK`). A write needs either that there is no secret or that the cached one is
not stale, and then the cookie it keeps is the one that is there: the property rests
not on the freshness of the cache but on the API server's refusal of a Create of an existing
and an Update of an outdated object.

Under `Announced` (owned resources are not edited and labels not changed alone, since those changes queue
nothing): `DependenciesReadyHolds` for both kinds, and
`NotExposedUnlessTargetHolds` for deployments (`Workload_podowned` refutes it for stateful sets), both for changes at any
moment. `WorkloadInv`: whatever exists or is being worked on has an owner with a UID, and the pods of a pass are listed once (`UidInv`); unless the
workload is queued again, the worker is about the workload and the pods as they are now (`JobInv`); each resource that is not as it should be
is still on the worker's list, or the workload is queued, or an event that will queue it is pending, or the garbage
collector is about to take it (`ReadyInv`, `ExposedInv`); an
update that is not delivered yet queues nothing, but is this process's own and has the contents of its configuration (`UpdateInv`). What the properties
except by `missed` is what `Workload_latepod` and `Workload_adopted` show. Assumed is that no pod has the name of the workload's own entry
(`Self`).

**AdmissionProofs.** For any configurations, labels, VPAs, other webhooks and changes: `TypeCorrect`, which
says that a pod never gets two containers of one name; `ChecksumsAgreeHolds`; `MountsProvidedHolds`; `InjectedPodUpdatableHolds`; `RedirectRoutedHolds`;
and, about the configuration, `FirstTargetFetched`: `Match` and `FetchTarget` agree, and the first target wins.
`AdmissionInv`: a pod was made as its history says (`Sane`: different names, the checksum of the configuration it was made from), and
an idle controller has written the oauth2 secret of the configuration in force (`WrittenInv`). That rests on an accepted
update never being the first injection (`UpdateInjectsNothing`): it would add two containers, so no pod is injected without
its owner being queued. `MountsProvided` needs more, `MountInv`: an update under another configuration may be accepted and changes what the
pod counts as made from, while its volumes stay. Such an update adds no source and changes no argument, so the other
configuration has the same kinds of secrets (`ArgumentsTell`), and the name it would have added is there already. `Suitable` says which references can be
there, so that the name is not a mere coincidence. Hypotheses: no workload has a suffix annotation (`Admission_ownsuffix`),
and no secret is referred to both as an OIDC CA and as a kubeconfig (`ReferencesApart`). The second is needed: let one
configuration have an inline kubeconfig and the CA reference `x`, another one the CA reference `x` and the kubeconfig reference `x`; a pod admitted
under the first, not reconciled before a restart with the second and then updated mounts a kubeconfig secret that nobody writes.

`InjectedPodUpdatable` asks that a call of the webhook be idempotent, for any labels, configurations and calls before it. `ShapeInv` says what the last call left
behind: the two side-cars are the last two containers (`Formed`), made of what the resolved configuration gives, with memory that a call keeps, and the volumes and pull secrets have
what a call would add (`Provided`). `addProxyContainer` removes and appends, so a call on such a pod puts every container where it was (`AddBoth`), and a named upstream port leads to
the same container with the side-cars in the list as without (`UpstreamKept`). That needs the first hypothesis, no target is proxied to a port of its own side-cars
(`UpstreamOfOthers`); the second, sizes above 100Mi, is what `Admission_resize` shows. A pod whose owner has a suffix annotation is included.

`RedirectRouted` relates the arguments of a pod, its annotation and the route. The redirect URL that counts is the last one among
the arguments of oauth2-proxy, else the one in its file; for a stateful set the webhook appends it (`AppendedIsLast`), for a deployment an extra
argument of the configuration may override the file. A redirect URL that is configured, so or for the target (`OwnRedirect`), need not be routed here and
is left out. `DirectInv`: host and redirect argument of a pod come from the same configuration
(`Directed`), and the route of an idle controller is that of the annotated host (`RouteInv`). An accepted update annotates the pod anew while nothing is queued; its arguments being the
same, so is the redirect URL (`RedirectIsLast`, `PodHostTells`) and, by the hypothesis `RedirectTellsHost`, the host. TLC shows that this hypothesis is needed: let one
configuration have the redirect URL `login.d1` for its target and another one, started later, the host `login.d1`; a pod of a stateful set admitted and routed under
the first is annotated with the other host by an update, while its route stays. The other hypotheses say that hosts have a domain (`HostsDotted`, see `Admission_nodomain`) and that
extra arguments are a list (`ArgumentsListed`).

**GatewayProofs.** `TypeCorrect`, `ForeignGatewaysKeptHolds`, for any names and configurations, and
`CleanupUnreachable`: whenever the reconciler can take a request the gateway is managed, so the clean-up of orphans
is dead code (what `Gateway_orphan` shows on an instance). `GatewayInv`: what counts as fresh in the cache is what the API server has,
and a request exists only in a process that was started with a managed gateway (`RequestInv`).

Only model-checked. Everything under fairness, which is out of the prover's reach: `CAEventuallyPublished`, `NewConfigServed`,
`SignalEndsWatcher`, `SourceDeletionCompletes`, `TargetGetsCopy`, `TargetServed`,
`NothingLeftBehind`, `SidecarsPinned`, `GatewayConverges`, `RouteAttached`. Every invariant and action property of the
passing runs is stated by a theorem.

## 6. Plan

Done: CertManager, Watcher, RegistrySecret, Workload, Targets, Admission, Gateway, the abstract
specifications CABundle and Supervisor with their refinements, the runs and the proofs above.

Nothing is left of the plan; the liveness properties stay with TLC.

## 7. Not modelled

Command-line parsing, options, scheme and index registration, health checks, hashing and
random utilities, the chart and the end-to-end tests have no state over time worth a
model, or are data. Of the configuration: reading the file, the validation of the default path and the
redirect rule made from it, labels and annotations of routes; of the templates: the resource
attributes. Requests to the API server that are stored after their caller has returned. Leader election is taken as given: one
active instance of the controllers, while every replica runs a certificate manager
(`NeedLeaderElection` is false).

Modelled, but without a property, since nothing in the repository says what should happen: a TLS rotation that
reads `c.ca` between its two assignments fails to sign and ends the process (`manager.go:304`); a child that dies by itself is
not restarted before the directory changes (`cmd/watcher/main.go:127`); a source secret that is created again does not bring its
copies back by itself (`image-pull-secret-reconciler.go:61`); edits of owned secrets and services are filtered and stay
until another event (`cmd.go:327`).
