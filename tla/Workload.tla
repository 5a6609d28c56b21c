------------------------------ MODULE Workload ------------------------------
(***************************************************************************)
(* The deployment and stateful-set reconcilers (pkg/controllers): for one  *)
(* workload, of kind Kind, the secrets, services and HTTP routes that the  *)
(* controller creates, updates and prunes, one API call at a time, reading *)
(* an informer cache that lags behind; the predicates that decide which    *)
(* events reach the work queue; and the garbage collector.                 *)
(*                                                                         *)
(* The controllers never write workloads or pods, so those are modelled as *)
(* the cache shows them.  RegistrySecret models what the same reconcilers  *)
(* do for the private registry secret.                                     *)
(***************************************************************************)
EXTENDS Integers, Sequences, FiniteSets

CONSTANTS
  Kind,                     \* "Deployment" or "StatefulSet"
  Pods,                     \* names of its pods
  Configs,                  \* the configurations that may be installed
  Changes,                  \* what users and operators may do
  MaxChanges,               \* bound on it
  MaxErrors                 \* bound on failing API calls

ChangeKinds == {"create", "pod", "latePod", "respec", "relabel", "deleteForeground", "deleteBackground",
                "edit", "remove", "restart"}

\* Who owns a resource: the workload, or one of the pods of a stateful set.
Self == "workload"

ASSUME WorkloadAssumption ==
  /\ Kind \in {"Deployment", "StatefulSet"}
  /\ IsFiniteSet(Pods) /\ Self \notin Pods

ASSUME ConfigAssumption ==
  Configs \subseteq [labelSelector : BOOLEAN, optional : SUBSET {"kubeconfig", "oidc-ca", "route"},
                     content : Nat \ {0}]

ASSUME BoundAssumption ==
  /\ Changes \subseteq ChangeKinds
  /\ MaxChanges \in Nat /\ MaxErrors \in Nat

Oauth2 == <<"oauth2", Self>>
Rbac == <<"rbac", Self>>
ServiceOf(o) == <<"service", o>>
RouteOf(o) == <<"route", o>>
Fronts == IF Kind = "Deployment" THEN {Self} ELSE Pods
Resources ==
  {Oauth2, Rbac, <<"kubeconfig", Self>>, <<"oidc-ca", Self>>}
    \cup {ServiceOf(o) : o \in Fronts} \cup {RouteOf(o) : o \in Fronts}

\* An object has the UID of its owner, contents, and a cookie secret (oauth2 only).
Absent == [uid |-> 0, content |-> 0, cookie |-> 0]
Drifted == 0   \* contents after a user's edit

VARIABLES
  wl,          \* the workload: its state and its UID
  pods,        \* the UIDs of its injected pods, 0 for no pod
  owners,      \* the UID of the workload that each pod belongs to
  unmapped,    \* pods whose replica set is not in the cache yet
  uids,        \* the last UID given out
  config,      \* the configuration of this controller process
  res,         \* the resources at the API server
  view,        \* the resources in the cache
  stale,       \* the resources for which the cache lags
  pending,     \* those with a change not delivered yet that passes the event filter
  queued,      \* the workload is in the work queue
  job,         \* the worker
  missed,      \* history: the last reconcile came too early for what the cache showed later
  cookies,     \* cookie secrets generated so far
  changes, errors

vars == <<wl, pods, owners, unmapped, uids, config, res, view, stale, pending, queued, job,
          missed, cookies, changes, errors>>

podVars == <<pods, owners, unmapped>>

IdleJob == [pc |-> "idle", uid |-> 0, pods |-> [p \in Pods |-> 0], todo |-> <<>>]

Init ==
  /\ wl = [state |-> "absent", uid |-> 0]
  /\ pods = [p \in Pods |-> 0] /\ owners = pods /\ unmapped = {}
  /\ uids = 0
  /\ config \in Configs
  /\ res = [r \in Resources |-> Absent] /\ view = res
  /\ stale = {} /\ pending = {}
  /\ queued = FALSE /\ job = IdleJob /\ missed = FALSE
  /\ cookies = 0 /\ changes = 0 /\ errors = 0

Exists == wl.state # "absent"
LiveUid(o) == IF o = Self THEN (IF Exists THEN wl.uid ELSE 0) ELSE pods[o]

-----------------------------------------------------------------------------
(* The API server and the cache.                                           *)

\* The event filter of both controllers drops updates that leave the generation
\* alone: only routes have one, and it counts changes of the contents.
PassesFilter(r, obj) ==
  res[r] # obj /\ (\/ res[r] = Absent \/ obj = Absent
                   \/ r[1] = "route" /\ res[r].content # obj.content)

\* A write: the cache lags.
Write(r, obj) ==
  /\ res' = [res EXCEPT ![r] = obj]
  /\ stale' = IF res[r] = obj THEN stale ELSE stale \cup {r}
  /\ pending' = IF PassesFilter(r, obj) THEN pending \cup {r} ELSE pending

NoWrite == UNCHANGED <<res, stale, pending>>

\* Mutant: events on resources do not lead to the workload.
MappedNever(r) == FALSE

\* The event leads to the workload: directly by owner reference, or through the
\* owning pod while that is in the cache.
Mapped(r) == r[2] = Self \/ pods[r[2]] # 0

\* The informer delivers a resource.
CacheResource(r) ==
  /\ r \in stale
  /\ view' = [view EXCEPT ![r] = res[r]]
  /\ stale' = stale \ {r} /\ pending' = pending \ {r}
  /\ queued' = (queued \/ (r \in pending /\ Mapped(r)))
  /\ UNCHANGED <<wl, podVars, uids, config, res, job, missed, cookies, changes, errors>>

\* Objects whose owner, by its UID, is gone or is deleted in the foreground.
Garbage ==
  {r \in Resources : /\ res[r].uid # 0
                     /\ res[r].uid = LiveUid(r[2]) => r[2] = Self /\ wl.state = "terminating"}

GarbageCollect(r) ==
  /\ r \in Garbage
  /\ Write(r, Absent)
  /\ UNCHANGED <<wl, podVars, uids, config, view, queued, job, missed, cookies, changes, errors>>

-----------------------------------------------------------------------------
(* Reconcile.                                                              *)

\* The optional secrets: needsKubeconfigSecret, needsOidcCaBundleSecret.
OptionalSecrets ==
  (IF "kubeconfig" \in config.optional THEN << <<"kubeconfig", Self>> >> ELSE <<>>)
    \o (IF "oidc-ca" \in config.optional THEN << <<"oidc-ca", Self>> >> ELSE <<>>)

\* ShallCreateHTTPRoute.
RouteIfWanted(o) == IF "route" \in config.optional THEN <<RouteOf(o)>> ELSE <<>>

\* reconcileDeploymentDependencies
reconcileDeploymentDependencies ==
  <<Oauth2, ServiceOf(Self), Rbac>> \o OptionalSecrets \o RouteIfWanted(Self)

\* reconcileStatefulSetDependencies, the loop over the pods: they are listed, in any
\* order, after the first secret; a pod's service is followed by its route.
PodLists ==
  LET live == {p \in Pods : pods[p] # 0}
  IN {l \in [1..Cardinality(live) -> live] : \A p \in live : \E i \in DOMAIN l : l[i] = p}
PodLoop(r, list) ==
  IF r = Oauth2 THEN [i \in DOMAIN list |-> ServiceOf(list[i])]
  ELSE IF r[1] = "service" THEN RouteIfWanted(r[2]) ELSE <<>>
reconcileStatefulSetDependencies == <<Oauth2, Rbac>> \o OptionalSecrets

Dependencies == IF Kind = "Deployment" THEN reconcileDeploymentDependencies
                ELSE reconcileStatefulSetDependencies

\* Mutant: the service stays.
deleteOwnedResourcesNoService == <<Oauth2, RouteOf(Self)>>

\* deleteOwnedResources: only oauth2 secrets, routes and services are looked for,
\* and only those that the workload itself owns.
deleteOwnedResources == <<Oauth2, RouteOf(Self), ServiceOf(Self)>>

\* hasOidcAppsPods: an injected pod whose owner, for a deployment through a replica
\* set in the cache, has the UID of the workload.
hasOidcAppsPods == \E p \in Pods : pods[p] # 0 /\ owners[p] = wl.uid /\ p \notin unmapped

\* Reconcile up to the first call: gone, not matched, being deleted (owner
\* references do the rest), without injected pods, or a target.
Reconcile ==
  /\ queued /\ job.pc = "idle"
  /\ queued' = FALSE
  /\ \/ /\ wl.state = "other"
        /\ job' = [IdleJob EXCEPT !.pc = "prune", !.uid = wl.uid, !.todo = deleteOwnedResources]
     \/ /\ wl.state = "target" /\ hasOidcAppsPods
        /\ job' = [IdleJob EXCEPT !.pc = "apply", !.uid = wl.uid, !.todo = Dependencies]
     \/ /\ wl.state \in {"absent", "terminating"} \/ (wl.state = "target" /\ ~hasOidcAppsPods)
        /\ UNCHANGED job
  /\ missed' = FALSE
  /\ UNCHANGED <<wl, podVars, uids, config, res, view, stale, pending, cookies, changes, errors>>

\* Mutant: the end is not noticed.
ContinueForEver(more, snapshot) == job' = [job EXCEPT !.todo = more, !.pods = snapshot]

\* Go on with the next call, or return.
Continue(more, snapshot) ==
  job' = IF more = <<>> THEN IdleJob
         ELSE [job EXCEPT !.todo = more, !.pods = snapshot]

\* Mutant: the error is logged and the worker returns.
ReturnErrorLogged == job' = IdleJob /\ UNCHANGED queued

\* Return an error: the workload is queued again.
ReturnError == job' = IdleJob /\ queued' = TRUE

Fails ==
  /\ errors < MaxErrors
  /\ errors' = errors + 1

\* One kind of owned resource: list from the cache, delete what is owned.  The
\* cache may still show the owner before the last update, and no event follows
\* that update.
Prune ==
  /\ job.pc = "prune"
  /\ LET r == Head(job.todo)
         owned == r \in Resources /\ view[r] # Absent /\ view[r].uid = job.uid
     IN \/ /\ IF owned THEN Write(r, Absent) ELSE NoWrite
           /\ Continue(Tail(job.todo), job.pods)
           /\ missed' = (missed \/ (/\ r \in Resources \ pending /\ ~owned
                                    /\ res[r].uid = job.uid))
           /\ UNCHANGED <<queued, errors>>
        \/ owned /\ Fails /\ ReturnError /\ NoWrite /\ UNCHANGED missed
  /\ UNCHANGED <<wl, podVars, uids, config, view, cookies, changes>>

\* Mutant: no owner reference is written.
OwnerUidNone(r) == 0

\* The owner reference that SetOwnerReference writes: the object as Reconcile
\* read it.
OwnerUid(r) == IF r[2] = Self THEN job.uid ELSE job.pods[r[2]]

\* mutateOauth2Secret keeps a cookie secret that is there and generates one else.
CookieOf(r) ==
  IF r # Oauth2 THEN 0 ELSE IF view[r].cookie # 0 THEN view[r].cookie ELSE cookies + 1

Desired(r) == [uid |-> OwnerUid(r), content |-> config.content, cookie |-> CookieOf(r)]

\* Mutant: a creation replaces an object that the cache does not show.
CreateOrUpdateForced(r) ==
  /\ Write(r, Desired(r))
  /\ cookies' = IF Desired(r).cookie > cookies THEN cookies + 1 ELSE cookies

\* CreateOrUpdate as it succeeds.  Create needs that there is no such object,
\* Update that the cached one is the latest; an unchanged oauth2 secret is not
\* written.
CreateOrUpdate(r) ==
  /\ \/ view[r] = Absent /\ res[r] = Absent
     \/ view[r] # Absent /\ (r \notin stale \/ (r = Oauth2 /\ view[r] = Desired(r)))
  /\ IF view[r] = Desired(r) THEN NoWrite ELSE Write(r, Desired(r))
  /\ cookies' = IF Desired(r).cookie > cookies THEN cookies + 1 ELSE cookies

\* It fails: the object exists, or is not the latest.
Conflict(r) ==
  \/ view[r] = Absent /\ res[r] # Absent
  \/ view[r] # Absent /\ r \in stale /\ ~(r = Oauth2 /\ view[r] = Desired(r))

\* The service of a deployment takes the label selector of the target, which is
\* nil when the target has none: the panic is recovered into an error.
Panics(r) == Kind = "Deployment" /\ r = ServiceOf(Self) /\ ~config.labelSelector

\* reconcileOwnedResource for the next resource.
Apply ==
  /\ job.pc = "apply"
  /\ LET r == Head(job.todo)
         podsListed == Kind = "StatefulSet" /\ r = Oauth2
     IN \/ /\ ~Panics(r) /\ CreateOrUpdate(r)
           /\ \E list \in IF podsListed THEN PodLists ELSE {<<>>} :
                Continue((IF Kind = "StatefulSet" THEN PodLoop(r, list) ELSE <<>>)
                           \o Tail(job.todo),
                         IF podsListed THEN pods ELSE job.pods)
           /\ UNCHANGED <<queued, errors>>
        \/ /\ Panics(r) \/ Conflict(r)
           /\ ReturnError /\ NoWrite /\ UNCHANGED <<cookies, errors>>
        \/ /\ ~Panics(r) /\ Fails
           /\ ReturnError /\ NoWrite /\ UNCHANGED cookies
  /\ UNCHANGED <<wl, podVars, uids, config, view, missed, changes>>

-----------------------------------------------------------------------------
(* Users, operators and the controllers of Kubernetes.                     *)

Change(c) ==
  /\ c \in Changes
  /\ changes < MaxChanges
  /\ changes' = changes + 1
  /\ UNCHANGED <<errors, cookies>>

\* The workload changes in the cache.  Creations and changes of the generation
\* pass the event filter, a change of the labels alone does not.
ChangeWorkload ==
  /\ \/ /\ Change("create") /\ ~Exists
        /\ wl' = [state |-> "target", uid |-> uids + 1] /\ uids' = uids + 1
        /\ queued' = TRUE
     \/ /\ wl.state \in {"target", "other"}
        /\ wl' = [wl EXCEPT !.state = IF @ = "target" THEN "other" ELSE "target"]
        /\ UNCHANGED uids
        /\ \/ Change("respec") /\ queued' = TRUE
           \/ Change("relabel") /\ UNCHANGED queued
     \/ /\ Change("deleteForeground") /\ wl.state \in {"target", "other"}
        /\ wl' = [wl EXCEPT !.state = "terminating"] /\ queued' = TRUE /\ UNCHANGED uids
     \/ /\ Change("deleteBackground") /\ wl.state \in {"target", "other"}
        /\ wl' = [wl EXCEPT !.state = "absent"] /\ UNCHANGED <<uids, queued>>
  /\ UNCHANGED <<podVars, config, res, view, stale, pending, job, missed>>

\* A pod leaves the cache, or its replica set does.  A stateful set is queued by
\* the owner reference; PodMapFuncForDeployment needs the replica set.
PodGoes(p) ==
  /\ pods' = [pods EXCEPT ![p] = 0] /\ owners' = [owners EXCEPT ![p] = 0]
  /\ unmapped' = unmapped \ {p}
  /\ queued' \in (IF Kind = "Deployment" THEN {queued, TRUE} ELSE {TRUE})
  /\ UNCHANGED uids

\* A pod with the injected containers appears, or goes: a pod of a workload that
\* is no longer a target is replaced by one without them.  A pod that the webhook of
\* another replica has injected may be in the cache before its replica set: then
\* PodMapFuncForDeployment returns nothing.  (A pod that is there before its
\* workload is as good as one that follows it: the workload's own event is to come.)
ChangePod(p) ==
  /\ \/ /\ wl.state = "target" /\ pods[p] = 0
        /\ pods' = [pods EXCEPT ![p] = uids + 1] /\ uids' = uids + 1
        /\ owners' = [owners EXCEPT ![p] = wl.uid]
        /\ \/ Change("pod") /\ queued' = TRUE /\ UNCHANGED unmapped
           \/ /\ Change("latePod") /\ Kind = "Deployment"
              /\ unmapped' = unmapped \cup {p} /\ UNCHANGED queued
     \/ Change("pod") /\ pods[p] # 0 /\ PodGoes(p)
  /\ UNCHANGED <<wl, config, res, view, stale, pending, job, missed>>

\* The informer delivers the replica set of a pod.  Nothing watches replica sets.
CacheReplicaSet(p) ==
  /\ p \in unmapped
  /\ unmapped' = unmapped \ {p}
  /\ missed' = (missed \/ ~(queued \/ hasOidcAppsPods))
  /\ UNCHANGED <<wl, pods, owners, uids, config, res, view, stale, pending, queued, job, cookies,
                 changes, errors>>

\* A user edits or deletes a resource.
ChangeResource(r) ==
  /\ res[r] # Absent
  /\ \/ Change("edit") /\ Write(r, [res[r] EXCEPT !.content = Drifted])
     \/ Change("remove") /\ Write(r, Absent)
  /\ UNCHANGED <<wl, podVars, uids, config, view, queued, job, missed>>

\* The workload is gone after a deletion in the foreground, and the pods of a
\* workload that is gone, be there a new one of its name or not.
Gone ==
  /\ \/ /\ wl.state = "terminating"
        /\ wl' = [wl EXCEPT !.state = "absent"] /\ UNCHANGED <<podVars, uids, queued>>
     \/ /\ \E p \in Pods : pods[p] # 0 /\ (Exists => owners[p] # wl.uid) /\ PodGoes(p)
        /\ UNCHANGED wl
  /\ UNCHANGED <<config, res, view, stale, pending, job, missed, cookies, changes, errors>>

\* The manager starts again, perhaps with another configuration.  Its caches are
\* filled before its workers run; the creation events of workloads that match,
\* of their pods and of the labelled resources queue the workload.
Restart ==
  /\ Change("restart")
  /\ config' \in Configs
  /\ view' = res /\ stale' = {} /\ pending' = {} /\ unmapped' = {}
  /\ job' = IdleJob /\ missed' = FALSE
  /\ queued' = (\/ wl.state \in {"target", "terminating"}
                \/ \E r \in Resources : res[r] # Absent /\ Mapped(r))
  /\ UNCHANGED <<wl, pods, owners, uids, res>>

-----------------------------------------------------------------------------
Next ==
  \/ \E r \in Resources : CacheResource(r) \/ GarbageCollect(r) \/ ChangeResource(r)
  \/ Reconcile \/ Prune \/ Apply
  \/ ChangeWorkload \/ (\E p \in Pods : ChangePod(p) \/ CacheReplicaSet(p)) \/ Gone \/ Restart

Spec == Init /\ [][Next]_vars

\* Informers, the worker and the garbage collector make progress, and what
\* Kubernetes has begun to delete goes.  No fairness for what users do.
Fairness ==
  /\ \A r \in Resources : WF_vars(CacheResource(r)) /\ WF_vars(GarbageCollect(r))
  /\ \A p \in Pods : WF_vars(CacheReplicaSet(p))
  /\ WF_vars(Reconcile) /\ WF_vars(Prune) /\ WF_vars(Apply) /\ WF_vars(Gone)

FairSpec == Spec /\ Fairness

-----------------------------------------------------------------------------
(* Properties.                                                             *)

Objects == [uid : Nat, content : Nat, cookie : Nat]

\* Type invariant.
TypeOK ==
  /\ wl \in [state : {"absent", "target", "other", "terminating"}, uid : Nat]
  /\ pods \in [Pods -> Nat] /\ owners \in [Pods -> Nat] /\ unmapped \subseteq Pods
  /\ uids \in Nat /\ config \in Configs
  /\ res \in [Resources -> Objects] /\ view \in [Resources -> Objects]
  /\ stale \subseteq Resources /\ pending \subseteq stale
  /\ queued \in BOOLEAN /\ missed \in BOOLEAN
  /\ job.pc \in {"idle", "prune", "apply"} /\ job.uid \in Nat
  /\ job.pods \in [Pods -> Nat]
  /\ job.pc # "idle" => job.todo # <<>>
  /\ cookies \in Nat /\ changes \in Nat /\ errors \in Nat

\* The controller is idle: all caches are current and there is nothing to do.
Quiet == ~queued /\ job.pc = "idle" /\ stale = {} /\ unmapped = {} /\ Garbage = {}

\* The resources a target needs: one service, and route if configured, for the
\* deployment or for each of the pods of the stateful set.
WantedFor(o) == {ServiceOf(o)} \cup (IF "route" \in config.optional THEN {RouteOf(o)} ELSE {})
Wanted ==
  {Oauth2, Rbac} \cup {<<k, Self>> : k \in config.optional \ {"route"}}
    \cup UNION {WantedFor(o) : o \in {f \in Fronts : LiveUid(f) # 0}}
Served == wl.state = "target" /\ hasOidcAppsPods
Ready(r) == res[r].uid = LiveUid(r[2]) /\ res[r].content = config.content

\* Once the controller is idle, every resource of a target is there, belongs to
\* the workload or pod that lives now (not to one of the same name that is gone)
\* and has the contents of the configuration in force; unless the last pod event
\* of a deployment was dropped because its replica set was not in the cache.
DependenciesReady == Quiet /\ Served /\ ~missed => \A r \in Wanted : Ready(r)

\* The same without the exception: what the owned-pod watch is there for.
ServedAfterEveryPod == Quiet /\ Served => \A r \in Wanted : Ready(r)

\* A target gets its resources, again after whatever users and operators do,
\* unless it stops being one or its pod event is dropped.
TargetServed == Served ~> ~Served \/ missed \/ \A r \in Wanted : Ready(r)

\* The cookie secret is generated once: as long as the oauth2 secret exists, no
\* reconcile, from whatever cache, replaces it.
CookieStable ==
  [][ res[Oauth2] # Absent /\ res'[Oauth2] # Absent
        => res'[Oauth2].cookie = res[Oauth2].cookie ]_vars

Unexposed == \A o \in Fronts : res[ServiceOf(o)] = Absent /\ res[RouteOf(o)] = Absent

\* Once the controller is idle, a workload that is no longer a target is no
\* longer exposed: it has no service and no route; unless the cache showed those
\* as the predecessor's of the same name when they were looked for.
NotExposedUnlessTarget == Quiet /\ wl.state = "other" /\ ~missed => Unexposed

\* The same without the exception.
NeverExposedUnlessTarget == Quiet /\ wl.state = "other" => Unexposed

\* Once the controller is idle, nothing it created is left to a workload that is
\* no longer a target.
PrunedCompletely == Quiet /\ wl.state = "other" => \A r \in Resources : res[r] = Absent

\* Nothing is left of a workload that is gone, whatever the reconciler was doing
\* when it went.
NothingLeftBehind ==
  ~Exists ~> Exists \/ \A r \in Resources : res[r] = Absent
=============================================================================
