--------------------------- MODULE WorkloadProofs ---------------------------
(***************************************************************************)
(* Proofs about Workload, for both kinds of workload, every set of pods    *)
(* and of configurations, any number of changes and errors.                *)
(*                                                                         *)
(* Type correctness, and that the cookie secret is never replaced while    *)
(* the oauth2 secret exists.  What makes that true is optimistic           *)
(* concurrency: a cached object that is not stale is the one at the API    *)
(* server, and an existing secret always holds a cookie.                   *)
(*                                                                         *)
(* If every change leads to an event, but for those a history variable     *)
(* notes: whenever the controller is idle, the resources of a target are   *)
(* ready, and a deployment that is no target is not exposed.  What makes   *)
(* that true is that whatever is not as it should be is in the worker's    *)
(* hands, or an event about it or the garbage collector is on its way; and *)
(* that a worker which is about an earlier workload or pod is followed by  *)
(* another one.                                                            *)
(***************************************************************************)
EXTENDS Workload, FiniteSetTheorems, TLAPS

JobOK ==
  /\ job = [pc |-> job.pc, uid |-> job.uid, pods |-> job.pods, todo |-> job.todo]
  /\ job.uid \in Nat

OwnerOK ==
  /\ wl \in [state : {"absent", "target", "other", "terminating"}, uid : Nat]
  /\ uids \in Nat /\ config \in Configs /\ cookies \in Nat

\* The cache shows what is at the API server unless it is stale.
CacheOK ==
  /\ res = [r \in Resources |-> res[r]] /\ view = [r \in Resources |-> view[r]]
  /\ \A r \in Resources : r \notin stale => view[r] = res[r]

\* A secret that exists, in the cache or at the API server, has a cookie.
HasCookie(obj) == obj \in Objects /\ (obj # Absent => obj.cookie # 0)
CookieOK == HasCookie(res[Oauth2]) /\ HasCookie(view[Oauth2])

CookieInv == JobOK /\ OwnerOK /\ CacheOK /\ CookieOK

\* The oauth2 secret is one of the resources of either kind.
LEMMA Oauth2Resource == Oauth2 \in Resources
  BY DEF Resources

\* A write keeps the cache honest; the oauth2 secret changes only if it is written.
LEMMA WriteFacts ==
  ASSUME CacheOK, NEW r, NEW obj, Write(r, obj), UNCHANGED view
  PROVE  /\ CacheOK'
         /\ r = Oauth2 => res'[Oauth2] = obj
         /\ r # Oauth2 => res'[Oauth2] = res[Oauth2]
<1>1. res' = [res EXCEPT ![r] = obj] /\ view' = view
      /\ stale' = IF res[r] = obj THEN stale ELSE stale \cup {r}
  BY DEF Write
<1>2. res = [x \in Resources |-> res[x]]
  BY DEF CacheOK
<1>3. res' = [x \in Resources |-> IF x = r THEN obj ELSE res[x]]
  BY <1>1, <1>2
<1>4. res' = [x \in Resources |-> res'[x]]
  BY <1>3
<1>5. \A x \in Resources : x \notin stale' => view'[x] = res'[x]
  BY <1>1, <1>3 DEF CacheOK
<1>6. CacheOK'
  BY <1>1, <1>4, <1>5 DEF CacheOK
<1>7. QED
  BY <1>3, <1>6, Oauth2Resource

LEMMA InitInv == Init => CookieInv
<1> SUFFICES ASSUME Init PROVE CookieInv
  OBVIOUS
<1>1. JobOK
  BY DEF Init, JobOK, IdleJob
<1>2. OwnerOK
  BY DEF Init, OwnerOK
<1>3. CacheOK
  BY DEF Init, CacheOK
<1>4. CookieOK
  BY Oauth2Resource DEF Init, CookieOK, HasCookie, Objects, Absent
<1>5. QED
  BY <1>1, <1>2, <1>3, <1>4 DEF CookieInv

\* The cookie of an object that is written in place of res[Oauth2].
SameCookie(obj) == res[Oauth2] # Absent /\ obj # Absent => obj.cookie = res[Oauth2].cookie

\* What every step must show: the invariant again, and the cookie kept.
Kept == CookieInv' /\ SameCookie(res'[Oauth2])

\* A write of the oauth2 secret that has a cookie, and the same one if the
\* secret exists, or of anything else.
LEMMA WriteKeeps ==
  ASSUME CookieInv, NEW r, NEW obj, Write(r, obj), UNCHANGED view, (JobOK /\ OwnerOK)',
         r = Oauth2 => HasCookie(obj) /\ SameCookie(obj)
  PROVE  Kept
<1>1. /\ CacheOK' /\ view'[Oauth2] = view[Oauth2]
      /\ r = Oauth2 => res'[Oauth2] = obj
      /\ r # Oauth2 => res'[Oauth2] = res[Oauth2]
  BY WriteFacts DEF CookieInv
<1>2. HasCookie(res'[Oauth2]) /\ SameCookie(res'[Oauth2])
  BY <1>1 DEF CookieInv, CookieOK, SameCookie
<1>3. CookieOK'
  BY <1>1, <1>2 DEF CookieInv, CookieOK, HasCookie
<1>4. QED
  BY <1>1, <1>2, <1>3 DEF Kept, CookieInv

\* A step that leaves the resources and the cache alone.
LEMMA NoWriteKeeps ==
  ASSUME CookieInv, UNCHANGED <<res, view, stale>>, (JobOK /\ OwnerOK)'
  PROVE  Kept
  BY DEF Kept, CookieInv, CacheOK, CookieOK, HasCookie, SameCookie

\* An absent object may be written at any time.
LEMMA AbsentFacts == HasCookie(Absent) /\ SameCookie(Absent)
  BY DEF HasCookie, SameCookie, Absent, Objects

-----------------------------------------------------------------------------
(* The worker.                                                             *)

\* Returning, with or without an error, and going on keep the job well formed.
LEMMA JobFacts ==
  ASSUME JobOK, ReturnError \/ \E more, snapshot : Continue(more, snapshot)
  PROVE  JobOK'
<1>1. CASE job' = IdleJob
  BY <1>1 DEF JobOK, IdleJob
<1>2. ASSUME NEW more, NEW snapshot, job' = [job EXCEPT !.todo = more, !.pods = snapshot]
      PROVE  JobOK'
  BY <1>2 DEF JobOK
<1>3. QED
  BY <1>1, <1>2 DEF ReturnError, Continue

\* The object CreateOrUpdate writes for the oauth2 secret: it has a cookie, a new
\* one only where there was no secret.
LEMMA CreateOrUpdateFacts ==
  ASSUME CookieInv, CreateOrUpdate(Oauth2)
  PROVE  /\ HasCookie(Desired(Oauth2))
         /\ view[Oauth2] = Desired(Oauth2) \/ SameCookie(Desired(Oauth2))
<1>1. /\ view[Oauth2] \in Objects /\ res[Oauth2] \in Objects
      /\ view[Oauth2] # Absent => view[Oauth2].cookie # 0
      /\ cookies \in Nat /\ job.uid \in Nat
  BY DEF CookieInv, CookieOK, HasCookie, OwnerOK, JobOK
<1>2. config.content \in Nat
  BY ConfigAssumption DEF CookieInv, OwnerOK
<1>3. OwnerUid(Oauth2) = job.uid
  BY DEF OwnerUid, Oauth2
<1>4. CookieOf(Oauth2) = IF view[Oauth2].cookie # 0 THEN view[Oauth2].cookie ELSE cookies + 1
  BY DEF CookieOf
<1>5. CookieOf(Oauth2) \in Nat /\ CookieOf(Oauth2) # 0
  BY <1>1, <1>4 DEF Objects
<1>6. Desired(Oauth2) \in Objects /\ Desired(Oauth2).cookie = CookieOf(Oauth2)
  BY <1>1, <1>2, <1>3, <1>5 DEF Desired, Objects
<1>7. HasCookie(Desired(Oauth2))
  BY <1>5, <1>6 DEF HasCookie
<1>8. view[Oauth2] = Desired(Oauth2) \/ SameCookie(Desired(Oauth2))
  <2>1. CASE view[Oauth2] = Absent
    BY <2>1 DEF CreateOrUpdate, SameCookie
  <2>2. CASE view[Oauth2] # Absent /\ Oauth2 \notin stale
    <3>1. view[Oauth2] = res[Oauth2]
      BY <2>2, Oauth2Resource DEF CookieInv, CacheOK
    <3>2. QED
      BY <1>1, <1>4, <1>6, <2>2, <3>1 DEF SameCookie
  <2>3. QED
    BY <2>1, <2>2 DEF CreateOrUpdate
<1>9. QED
  BY <1>7, <1>8

\* reconcileOwnedResource.
LEMMA ApplyKeeps ==
  ASSUME CookieInv, Apply
  PROVE  Kept
<1> DEFINE r == Head(job.todo)
<1>1. UNCHANGED <<wl, uids, config, view>>
  BY DEF Apply
<1>2. \/ CreateOrUpdate(r) /\ \E more, snapshot : Continue(more, snapshot)
      \/ ReturnError /\ NoWrite /\ UNCHANGED cookies
  BY DEF Apply
<1> HIDE DEF r
<1>3. JobOK'
  BY <1>2, JobFacts DEF CookieInv
<1>4. OwnerOK'
  <2>1. cookies' \in Nat
    BY <1>2 DEF CreateOrUpdate, CookieInv, OwnerOK
  <2>2. QED
    BY <1>1, <2>1 DEF CookieInv, OwnerOK
<1>5. CASE NoWrite
  BY <1>1, <1>3, <1>4, <1>5, NoWriteKeeps DEF NoWrite
<1>6. CASE CreateOrUpdate(r) /\ ~NoWrite
  <2>1. Write(r, Desired(r)) /\ view[r] # Desired(r)
    BY <1>6 DEF CreateOrUpdate
  <2>2. r = Oauth2 => HasCookie(Desired(r)) /\ SameCookie(Desired(r))
    BY <1>6, <2>1, CreateOrUpdateFacts
  <2>3. QED
    BY <1>1, <1>3, <1>4, <2>1, <2>2, WriteKeeps
<1>7. QED
  BY <1>2, <1>5, <1>6

\* deleteOwnedResources.
LEMMA PruneKeeps ==
  ASSUME CookieInv, Prune
  PROVE  Kept
<1>1. UNCHANGED <<wl, uids, config, view, cookies>>
  BY DEF Prune
<1>2. ReturnError \/ \E more, snapshot : Continue(more, snapshot)
  BY DEF Prune
<1>3. JobOK' /\ OwnerOK'
  BY <1>1, <1>2, JobFacts DEF CookieInv, OwnerOK
<1>4. NoWrite \/ Write(Head(job.todo), Absent)
  BY DEF Prune
<1>5. CASE NoWrite
  BY <1>1, <1>3, <1>5, NoWriteKeeps DEF NoWrite
<1>6. CASE Write(Head(job.todo), Absent)
  BY <1>1, <1>3, <1>6, AbsentFacts, WriteKeeps
<1>7. QED
  BY <1>4, <1>5, <1>6

\* Reconcile up to its first call.
LEMMA ReconcileKeeps ==
  ASSUME CookieInv, Reconcile
  PROVE  Kept
<1>1. UNCHANGED <<wl, uids, config, res, view, stale, cookies>>
  BY DEF Reconcile
<1>2. JobOK'
  <2>1. CASE UNCHANGED job
    BY <2>1 DEF CookieInv, JobOK
  <2>2. ASSUME NEW c, NEW todo,
               job' = [IdleJob EXCEPT !.pc = c, !.uid = wl.uid, !.todo = todo]
        PROVE  JobOK'
    BY <2>2 DEF CookieInv, OwnerOK, JobOK, IdleJob
  <2>3. QED
    BY <2>1, <2>2 DEF Reconcile
<1>3. OwnerOK'
  BY <1>1 DEF CookieInv, OwnerOK
<1>4. QED
  BY <1>1, <1>2, <1>3, NoWriteKeeps

-----------------------------------------------------------------------------
(* The cache, the garbage collector and the environment.                   *)

\* The informer makes the cache current.
LEMMA CacheKeeps ==
  ASSUME CookieInv, NEW r \in Resources, CacheResource(r)
  PROVE  Kept
<1>1. /\ view' = [view EXCEPT ![r] = res[r]] /\ stale' = stale \ {r} /\ res' = res
      /\ UNCHANGED <<wl, uids, config, job, cookies>>
  BY DEF CacheResource
<1>2. view = [x \in Resources |-> view[x]]
  BY DEF CookieInv, CacheOK
<1>3. view' = [x \in Resources |-> IF x = r THEN res[x] ELSE view[x]]
  BY <1>1, <1>2
<1>4. CacheOK'
  <2>1. view' = [x \in Resources |-> view'[x]]
    BY <1>3
  <2>2. \A x \in Resources : x \notin stale' => view'[x] = res'[x]
    BY <1>1, <1>3 DEF CookieInv, CacheOK
  <2>3. QED
    BY <1>1, <2>1, <2>2 DEF CookieInv, CacheOK
<1>5. CookieOK'
  BY <1>1, <1>3, Oauth2Resource DEF CookieInv, CookieOK, HasCookie
<1>6. JobOK' /\ OwnerOK'
  BY <1>1 DEF CookieInv, JobOK, OwnerOK
<1>7. QED
  BY <1>1, <1>4, <1>5, <1>6 DEF Kept, CookieInv, SameCookie

\* The garbage collector, and users' edits and deletions.
LEMMA ResourceKeeps ==
  ASSUME CookieInv, NEW r \in Resources, GarbageCollect(r) \/ ChangeResource(r)
  PROVE  Kept
<1>1. UNCHANGED <<wl, uids, config, view, job, cookies>>
  BY DEF GarbageCollect, ChangeResource, Change
<1>2. JobOK' /\ OwnerOK'
  BY <1>1 DEF CookieInv, JobOK, OwnerOK
<1>3. CASE Write(r, Absent)
  BY <1>1, <1>2, <1>3, AbsentFacts, WriteKeeps
<1>4. CASE Write(r, [res[r] EXCEPT !.content = Drifted]) /\ res[r] # Absent
  <2> DEFINE obj == [res[r] EXCEPT !.content = Drifted]
  <2>1. r = Oauth2 => HasCookie(obj) /\ SameCookie(obj)
    <3> SUFFICES ASSUME r = Oauth2 PROVE HasCookie(obj) /\ SameCookie(obj)
      OBVIOUS
    <3>1. res[r] \in Objects /\ res[r].cookie # 0
      BY <1>4 DEF CookieInv, CookieOK, HasCookie
    <3>2. obj \in Objects /\ obj.cookie = res[r].cookie
      BY <3>1 DEF Objects, Drifted
    <3>3. QED
      BY <3>1, <3>2 DEF HasCookie, SameCookie
  <2> HIDE DEF obj
  <2>2. Write(r, obj)
    BY <1>4 DEF obj
  <2>3. QED
    BY <1>1, <1>2, <2>1, <2>2, WriteKeeps
<1>5. QED
  BY <1>3, <1>4 DEF GarbageCollect, ChangeResource

\* Pods and replica sets in the cache.
PodStep == \E p \in Pods : ChangePod(p) \/ CacheReplicaSet(p)

\* Workloads and pods come and go.
LEMMA WorkloadKeeps ==
  ASSUME CookieInv, ChangeWorkload \/ PodStep \/ Gone
  PROVE  Kept
<1>1. UNCHANGED <<config, res, view, stale, job, cookies>>
  BY DEF ChangeWorkload, PodStep, ChangePod, CacheReplicaSet, Gone, Change
<1>2. wl' \in [state : {"absent", "target", "other", "terminating"}, uid : Nat]
  BY DEF ChangeWorkload, PodStep, ChangePod, CacheReplicaSet, Gone, CookieInv, OwnerOK
<1>3. uids' \in Nat
  <2>1. uids' = uids \/ uids' = uids + 1
    <3>1. CASE ChangeWorkload
      BY <3>1 DEF ChangeWorkload
    <3>2. ASSUME NEW p \in Pods, ChangePod(p) \/ CacheReplicaSet(p)
          PROVE  uids' = uids \/ uids' = uids + 1
      BY <3>2 DEF ChangePod, CacheReplicaSet, PodGoes
    <3>3. CASE Gone
      BY <3>3 DEF Gone, PodGoes
    <3>4. QED
      BY <3>1, <3>2, <3>3 DEF PodStep
  <2>2. QED
    BY <2>1 DEF CookieInv, OwnerOK
<1>4. JobOK' /\ OwnerOK'
  BY <1>1, <1>2, <1>3 DEF CookieInv, JobOK, OwnerOK
<1>5. QED
  BY <1>1, <1>4, NoWriteKeeps

\* A restart fills the cache.
LEMMA RestartKeeps ==
  ASSUME CookieInv, Restart
  PROVE  Kept
<1>1. /\ view' = res /\ res' = res /\ stale' = {} /\ job' = IdleJob
      /\ config' \in Configs /\ UNCHANGED <<wl, uids, cookies>>
  BY DEF Restart, Change
<1>2. JobOK'
  BY <1>1 DEF JobOK, IdleJob
<1>3. OwnerOK'
  BY <1>1 DEF CookieInv, OwnerOK
<1>4. CacheOK' /\ CookieOK'
  BY <1>1 DEF CookieInv, CacheOK, CookieOK, HasCookie
<1>5. QED
  BY <1>1, <1>2, <1>3, <1>4 DEF Kept, CookieInv, SameCookie

-----------------------------------------------------------------------------
(* The theorem.                                                            *)

\* The cookie secret of an oauth2 secret that exists is never replaced, however
\* the cache lags and wherever a restart falls.
THEOREM CookieStableHolds == Spec => CookieStable
<1>1. CookieInv /\ [Next]_vars => Kept
  <2> SUFFICES ASSUME CookieInv, [Next]_vars PROVE Kept
    OBVIOUS
  <2>1. ASSUME NEW r \in Resources, CacheResource(r) PROVE Kept
    BY <2>1, CacheKeeps
  <2>2. ASSUME NEW r \in Resources, GarbageCollect(r) \/ ChangeResource(r) PROVE Kept
    BY <2>2, ResourceKeeps
  <2>3. CASE Reconcile
    BY <2>3, ReconcileKeeps
  <2>4. CASE Prune
    BY <2>4, PruneKeeps
  <2>5. CASE Apply
    BY <2>5, ApplyKeeps
  <2>6. CASE ChangeWorkload \/ PodStep \/ Gone
    BY <2>6, WorkloadKeeps
  <2>7. CASE Restart
    BY <2>7, RestartKeeps
  <2>8. CASE UNCHANGED vars
    <3>1. UNCHANGED <<res, view, stale>> /\ JobOK' /\ OwnerOK'
      BY <2>8 DEF vars, CookieInv, JobOK, OwnerOK
    <3>2. QED
      BY <3>1, NoWriteKeeps
  <2>9. QED
    BY <2>1, <2>2, <2>3, <2>4, <2>5, <2>6, <2>7, <2>8 DEF Next, PodStep
<1>2. Kept => [res[Oauth2] # Absent /\ res'[Oauth2] # Absent
                 => res'[Oauth2].cookie = res[Oauth2].cookie]_vars
  BY DEF Kept, SameCookie
<1>3. Kept => CookieInv'
  BY DEF Kept
<1>4. QED
  BY InitInv, <1>1, <1>2, <1>3, PTL DEF Spec, CookieStable

-----------------------------------------------------------------------------
(* Type correctness.                                                       *)

\* What the worker may have to do: pruning looks for kinds of resources that a
\* stateful set does not own itself.
Calls == Resources \cup {ServiceOf(Self), RouteOf(Self)}
JobType == [pc : {"idle", "prune", "apply"}, uid : Nat, pods : [Pods -> Nat], todo : Seq(Calls)]

WorkerTypeOK == job \in JobType /\ (job.pc = "apply" => job.todo \in Seq(Resources))
TypeInv == TypeOK /\ WorkerTypeOK

-----------------------------------------------------------------------------
(* The invariant behind DependenciesReady and NotExposedUnlessTarget.      *)

\* Every change leads to an event: users do not edit resources and do not change
\* only the labels of a workload.  They do not wait for the controller.
Announced == Changes \cap {"edit", "relabel"} = {}

Elements(s) == {s[i] : i \in DOMAIN s}

\* Whatever exists, and whatever the worker writes, has an owner.
UidInv ==
  /\ Exists => wl.uid # 0
  /\ \A r \in Resources : res[r] # Absent => res[r].uid # 0
  /\ job.pc # "idle" => job.uid # 0
  /\ job.pc = "apply" => \A r \in Elements(job.todo) : r[2] # Self => job.pods[r[2]] # 0
  /\ job.pc = "apply" =>   \* The pods are listed once, after the first call.
       \/ Oauth2 \notin Elements(job.todo)
       \/ /\ Oauth2 \notin Elements(Tail(job.todo))
          /\ \A r \in Elements(job.todo) : r[2] = Self

\* Unless it is about to be reconciled again, the worker is about the workload and
\* the pods as they are now.
JobInv ==
  ~queued /\ Exists /\ job.pc # "idle" =>
    /\ job.uid = wl.uid
    /\ job.pc = "prune" => wl.state = "other"
    /\ job.pc = "apply" =>
         /\ wl.state = "target"
         /\ \/ Kind = "Deployment" \/ job.pods = pods
            \/ \A r \in Elements(job.todo) : r[2] = Self

\* The resource is still to be reconciled by the worker.
ToDo(r) ==
  /\ job.pc = "apply"
  /\ \/ r \in Elements(job.todo)
     \/ /\ Kind = "StatefulSet" /\ r[2] # Self
        /\ \/ Head(job.todo) = Oauth2
           \/ r[1] = "route" /\ ServiceOf(r[2]) \in Elements(job.todo)

\* An update that the cache does not show yet, and that leads to no event, is this
\* process's own.
UpdateInv == \A r \in stale \ pending : res[r].content = config.content

\* Something will make the worker look at the resource, or has.
Noticed(r) == queued \/ r \in pending \/ r \in Garbage

\* A resource of a target is ready, or it is noticed.
ReadyInv == Served /\ ~missed => \A r \in Wanted : Ready(r) \/ Noticed(r) \/ ToDo(r)

\* What exposes a workload that is no target is gone, or it is noticed.
ExposedInv ==
  wl.state = "other" /\ ~missed /\ Kind = "Deployment" =>
    \A r \in {ServiceOf(Self), RouteOf(Self)} :
      res[r] = Absent \/ Noticed(r) \/ (job.pc = "prune" /\ r \in Elements(job.todo))

WorkloadInv ==
  TypeInv /\ CacheOK /\ UidInv /\ JobInv /\ UpdateInv /\ ReadyInv /\ ExposedInv

-----------------------------------------------------------------------------
(* Sequences and resources.                                                *)

LEMMA ElementsOfTail ==
  ASSUME NEW S, NEW s \in Seq(S), s # <<>>
  PROVE  /\ Head(s) \in S /\ Tail(s) \in Seq(S) /\ Head(s) \in Elements(s)
         /\ Elements(s) = {Head(s)} \cup Elements(Tail(s))
<1>1. Len(s) \in Nat /\ Len(s) # 0 /\ DOMAIN s = 1..Len(s)
  OBVIOUS
<1>2. Head(s) = s[1] /\ Tail(s) \in Seq(S) /\ DOMAIN Tail(s) = 1..(Len(s) - 1)
  OBVIOUS
<1>3. \A i \in 1..(Len(s) - 1) : Tail(s)[i] = s[i + 1]
  OBVIOUS
<1>4. \A i \in DOMAIN s : i # 1 => i - 1 \in DOMAIN Tail(s) /\ s[i] = Tail(s)[i - 1]
  BY <1>1, <1>2, <1>3
<1>5. \A i \in DOMAIN Tail(s) : i + 1 \in DOMAIN s /\ Tail(s)[i] = s[i + 1]
  BY <1>1, <1>2, <1>3
<1>6. Head(s) \in Elements(s)
  BY <1>1, <1>2 DEF Elements
<1> DEFINE t == Tail(s)
<1> HIDE DEF t
<1>7. ASSUME NEW x \in Elements(s) PROVE x = Head(s) \/ x \in Elements(t)
  <2>1. PICK i \in DOMAIN s : x = s[i]
    BY <1>7 DEF Elements
  <2>2. i # 1 => i - 1 \in DOMAIN t /\ x = t[i - 1]
    BY <1>4, <2>1 DEF t
  <2>3. QED
    BY <1>2, <2>1, <2>2 DEF Elements
<1>8. ASSUME NEW x \in Elements(t) PROVE x \in Elements(s)
  <2>1. PICK i \in DOMAIN t : x = t[i]
    BY <1>8 DEF Elements
  <2>2. i + 1 \in DOMAIN s /\ x = s[i + 1]
    BY <1>5, <2>1 DEF t
  <2>3. QED
    BY <2>2 DEF Elements
<1>9. Head(s) \in S
  BY <1>1, <1>2
<1>10. QED
  BY <1>2, <1>6, <1>7, <1>8, <1>9 DEF t

LEMMA ElementsOfConcat ==
  ASSUME NEW S, NEW s \in Seq(S), NEW t \in Seq(S)
  PROVE  s \o t \in Seq(S) /\ Elements(s \o t) = Elements(s) \cup Elements(t)
<1>1. /\ s \o t \in Seq(S) /\ DOMAIN (s \o t) = 1..(Len(s) + Len(t))
      /\ DOMAIN s = 1..Len(s) /\ DOMAIN t = 1..Len(t) /\ Len(s) \in Nat /\ Len(t) \in Nat
  OBVIOUS
<1>2. \A i \in DOMAIN s : i \in DOMAIN (s \o t) /\ (s \o t)[i] = s[i]
  BY <1>1
<1>3. \A i \in DOMAIN t : i + Len(s) \in DOMAIN (s \o t) /\ (s \o t)[i + Len(s)] = t[i]
  BY <1>1
<1>4. \A i \in DOMAIN (s \o t) : i \notin DOMAIN s =>
        i - Len(s) \in DOMAIN t /\ (s \o t)[i] = t[i - Len(s)]
  BY <1>1
<1> DEFINE u == s \o t
<1> HIDE DEF u
<1>5. ASSUME NEW x \in Elements(s) PROVE x \in Elements(u)
  BY <1>2, <1>5 DEF Elements, u
<1>6. ASSUME NEW x \in Elements(t) PROVE x \in Elements(u)
  <2>1. PICK i \in DOMAIN t : x = t[i]
    BY <1>6 DEF Elements
  <2>2. i + Len(s) \in DOMAIN u /\ u[i + Len(s)] = x
    BY <1>3, <2>1 DEF u
  <2>3. QED
    BY <2>2 DEF Elements
<1>7. ASSUME NEW x \in Elements(u) PROVE x \in Elements(s) \/ x \in Elements(t)
  <2>1. PICK i \in DOMAIN u : x = u[i]
    BY <1>7 DEF Elements
  <2>2. i \in DOMAIN s => x = s[i]
    BY <1>2, <2>1 DEF u
  <2>3. i \notin DOMAIN s => i - Len(s) \in DOMAIN t /\ x = t[i - Len(s)]
    BY <1>4, <2>1 DEF u
  <2>4. QED
    BY <2>2, <2>3 DEF Elements
<1>8. QED
  BY <1>1, <1>5, <1>6, <1>7 DEF u

LEMMA HeadOfConcat ==
  ASSUME NEW S, NEW s \in Seq(S), NEW t \in Seq(S), s # <<>>
  PROVE  s \o t # <<>> /\ Head(s \o t) = Head(s)
<1>1. Len(s) \in Nat /\ Len(s) # 0 /\ Len(t) \in Nat
  OBVIOUS
<1>2. Len(s \o t) = Len(s) + Len(t) /\ (s \o t)[1] = s[1] /\ s \o t \in Seq(S)
  BY <1>1
<1>3. Len(s \o t) # 0
  BY <1>1, <1>2
<1>4. QED
  BY <1>2, <1>3

LEMMA TailOfConcat ==
  ASSUME NEW S, NEW s \in Seq(S), NEW t \in Seq(S), s # <<>>
  PROVE  Elements(Tail(s \o t)) \subseteq Elements(Tail(s)) \cup Elements(t)
<1>1. /\ Len(s) \in Nat /\ Len(s) # 0 /\ Len(t) \in Nat
      /\ DOMAIN t = 1..Len(t) /\ DOMAIN Tail(s) = 1..(Len(s) - 1)
  OBVIOUS
<1>2. s \o t \in Seq(S) /\ Len(s \o t) = Len(s) + Len(t)
  OBVIOUS
<1>3. DOMAIN Tail(s \o t) = 1..(Len(s) + Len(t) - 1)
  BY <1>1, <1>2
<1>4. \A i \in 1..(Len(s) + Len(t) - 1) :
        Tail(s \o t)[i] = IF i < Len(s) THEN Tail(s)[i] ELSE t[i + 1 - Len(s)]
  BY <1>1, <1>2
<1> DEFINE u == Tail(s \o t)
           v == Tail(s)
<1>5. \A i \in DOMAIN u :
        \/ i \in DOMAIN v /\ u[i] = v[i]
        \/ i + 1 - Len(s) \in DOMAIN t /\ u[i] = t[i + 1 - Len(s)]
  BY <1>1, <1>3, <1>4
<1> HIDE DEF u, v
<1>6. Elements(u) \subseteq Elements(v) \cup Elements(t)
  BY <1>5 DEF Elements
<1>7. QED
  BY <1>6 DEF u, v

LEMMA ElementsOfFew ==
  /\ Elements(<<>>) = {}
  /\ \A a : Elements(<<a>>) = {a}
  /\ \A a, b : Elements(<<a, b>>) = {a, b}
  /\ \A a, b, c : Elements(<<a, b, c>>) = {a, b, c}
<1>1. Elements(<<>>) = {}
  BY DEF Elements
<1>2. \A a : Elements(<<a>>) = {a}
  BY DEF Elements
<1>3. \A a, b : Elements(<<a, b>>) = {a, b}
  BY DEF Elements
<1>4. \A a, b, c : Elements(<<a, b, c>>) = {a, b, c}
  BY DEF Elements
<1>5. QED
  BY <1>1, <1>2, <1>3, <1>4

\* Who owns the resources of either kind.
LEMMA ResourceFacts ==
  /\ Oauth2 \in Resources /\ Rbac \in Resources
  /\ <<"kubeconfig", Self>> \in Resources /\ <<"oidc-ca", Self>> \in Resources
  /\ \A o \in Fronts : ServiceOf(o) \in Resources /\ RouteOf(o) \in Resources
  /\ \A r \in Resources : r[2] = Self \/ (Kind = "StatefulSet" /\ r[2] \in Pods)
  /\ Kind = "Deployment" => Calls = Resources
<1>1. \A r \in Resources : r[2] = Self \/ r[2] \in Fronts
  BY DEF Resources, Oauth2, Rbac, ServiceOf, RouteOf
<1>2. Kind = "Deployment" => Calls = Resources
  BY DEF Calls, Resources, Fronts
<1>3. QED
  BY <1>1, <1>2, WorkloadAssumption DEF Resources, Fronts

\* The pods that List returns.
LEMMA PodListFacts ==
  ASSUME TypeOK, NEW l \in PodLists
  PROVE  /\ l \in Seq({p \in Pods : pods[p] # 0})
         /\ Elements(l) = {p \in Pods : pods[p] # 0}
<1> DEFINE live == {p \in Pods : pods[p] # 0}
<1>1. IsFiniteSet(live)
  <2>1. live \subseteq Pods
    OBVIOUS
  <2>2. QED
    BY <2>1, WorkloadAssumption, FS_Subset
<1>2. Cardinality(live) \in Nat
  BY <1>1, FS_CardinalityType
<1>3. l \in [1..Cardinality(live) -> live] /\ \A p \in live : \E i \in DOMAIN l : l[i] = p
  BY DEF PodLists
<1> HIDE DEF live
<1>4. l \in Seq(live)
  BY <1>2, <1>3
<1>5. Elements(l) = live
  BY <1>3 DEF Elements
<1>6. QED
  BY <1>4, <1>5 DEF live

\* What follows a call of the loop over the pods.
LEMMA PodLoopFacts ==
  ASSUME TypeOK, Kind = "StatefulSet", NEW r \in Resources,
         NEW l, IF r = Oauth2 THEN l \in PodLists ELSE l = <<>>
  PROVE  /\ PodLoop(r, l) \in Seq(Resources)
         /\ r = Oauth2 =>
              Elements(PodLoop(r, l)) = {ServiceOf(p) : p \in {q \in Pods : pods[q] # 0}}
         /\ r # Oauth2 => Elements(PodLoop(r, l)) =
              IF r[1] = "service" /\ "route" \in config.optional THEN {RouteOf(r[2])} ELSE {}
<1>0. Fronts = Pods
  BY DEF Fronts
<1>1. CASE r = Oauth2
  <2> DEFINE f == [i \in DOMAIN l |-> ServiceOf(l[i])]
             live == {p \in Pods : pods[p] # 0}
  <2>1. l \in Seq(live) /\ Elements(l) = live
    BY <1>1, PodListFacts
  <2>2. \A i \in DOMAIN l : l[i] \in live
    BY <2>1 DEF Elements
  <2>3. \A p \in live : ServiceOf(p) \in Resources
    BY <1>0, ResourceFacts
  <2>4. f \in Seq(Resources)
    <3>1. Len(l) \in Nat /\ DOMAIN l = 1..Len(l)
      BY <2>1
    <3>2. f \in [1..Len(l) -> Resources]
      BY <2>2, <2>3, <3>1
    <3>3. QED
      BY <3>1, <3>2
  <2>5. Elements(f) = {ServiceOf(p) : p \in live}
    <3>1. live = {l[i] : i \in DOMAIN l}
      BY <2>1 DEF Elements
    <3>2. QED
      BY <3>1 DEF Elements
  <2>6. PodLoop(r, l) = f
    BY <1>1 DEF PodLoop
  <2>7. QED
    BY <1>1, <2>4, <2>5, <2>6
<1>2. CASE r # Oauth2
  <2>1. CASE r[1] = "service" /\ "route" \in config.optional
    <3>1. PodLoop(r, l) = <<RouteOf(r[2])>>
      BY <1>2, <2>1 DEF PodLoop, RouteIfWanted
    <3>2. r[2] \in Pods
      <4>1. r \in {ServiceOf(o) : o \in Fronts}
        BY <2>1 DEF Resources, Oauth2, Rbac, ServiceOf, RouteOf
      <4>2. QED
        BY <1>0, <4>1 DEF ServiceOf
    <3>3. RouteOf(r[2]) \in Resources
      BY <1>0, <3>2, ResourceFacts
    <3>4. QED
      BY <1>2, <2>1, <3>1, <3>3, ElementsOfFew
  <2>2. CASE ~(r[1] = "service" /\ "route" \in config.optional)
    <3>1. PodLoop(r, l) = <<>>
      BY <1>2, <2>2 DEF PodLoop, RouteIfWanted
    <3>2. QED
      BY <1>2, <2>2, <3>1, ElementsOfFew
  <2>3. QED
    BY <2>1, <2>2
<1>3. QED
  BY <1>1, <1>2

\* What Reconcile hands to the worker.
LEMMA OptionalSecretsFacts ==
  ASSUME config \in Configs
  PROVE  /\ OptionalSecrets \in Seq(Resources)
         /\ Elements(OptionalSecrets) = {<<k, Self>> : k \in config.optional \ {"route"}}
<1> DEFINE a == IF "kubeconfig" \in config.optional THEN << <<"kubeconfig", Self>> >> ELSE <<>>
           b == IF "oidc-ca" \in config.optional THEN << <<"oidc-ca", Self>> >> ELSE <<>>
<1>1. a \in Seq(Resources) /\ b \in Seq(Resources)
  BY ResourceFacts
<1>2. /\ Elements(a) = IF "kubeconfig" \in config.optional THEN {<<"kubeconfig", Self>>} ELSE {}
      /\ Elements(b) = IF "oidc-ca" \in config.optional THEN {<<"oidc-ca", Self>>} ELSE {}
  BY ElementsOfFew
<1>3. OptionalSecrets = a \o b
  BY DEF OptionalSecrets
<1>4. config.optional \subseteq {"kubeconfig", "oidc-ca", "route"}
  BY ConfigAssumption
<1> HIDE DEF a, b
<1>5. OptionalSecrets \in Seq(Resources) /\ Elements(OptionalSecrets) = Elements(a) \cup Elements(b)
  BY <1>1, <1>3, ElementsOfConcat
<1>6. QED
  BY <1>2, <1>4, <1>5

LEMMA DependenciesFacts ==
  ASSUME config \in Configs
  PROVE  /\ Dependencies \in Seq(Resources) /\ Dependencies # <<>>
         /\ Head(Dependencies) = Oauth2 /\ Oauth2 \notin Elements(Tail(Dependencies))
         /\ Elements(Dependencies) =
              {Oauth2, Rbac} \cup {<<k, Self>> : k \in config.optional \ {"route"}}
                \cup (IF Kind = "Deployment" THEN WantedFor(Self) ELSE {})
<1> DEFINE opt == {<<k, Self>> : k \in config.optional \ {"route"}}
<1>1. OptionalSecrets \in Seq(Resources) /\ Elements(OptionalSecrets) = opt
  BY OptionalSecretsFacts
<1>4. config.optional \subseteq {"kubeconfig", "oidc-ca", "route"}
  BY ConfigAssumption
<1> HIDE DEF opt
<1>2. CASE Kind = "Deployment"
  <2> DEFINE a == <<Oauth2, ServiceOf(Self), Rbac>>
             c == RouteIfWanted(Self)
             ab == a \o OptionalSecrets
  <2>1. Self \in Fronts
    BY <1>2 DEF Fronts
  <2>2. a \in Seq(Resources) /\ c \in Seq(Resources)
    BY <2>1, ResourceFacts DEF RouteIfWanted
  <2>3. Elements(a) = {Oauth2, ServiceOf(Self), Rbac}
    BY ElementsOfFew
  <2>4. Elements(c) = IF "route" \in config.optional THEN {RouteOf(Self)} ELSE {}
    BY ElementsOfFew DEF RouteIfWanted
  <2>5. Head(a) = Oauth2 /\ Len(a) = 3
    OBVIOUS
  <2>6. Dependencies = ab \o c
    BY <1>2 DEF Dependencies, reconcileDeploymentDependencies
  <2> HIDE DEF a, c
  <2>7. ab \in Seq(Resources) /\ Elements(ab) = Elements(a) \cup opt
        /\ ab # <<>> /\ Head(ab) = Oauth2
    <3>1. ab \in Seq(Resources) /\ Elements(ab) = Elements(a) \cup opt
      BY <1>1, <2>2, ElementsOfConcat
    <3>2. a # <<>>
      BY DEF a
    <3>3. ab # <<>> /\ Head(ab) = Oauth2
      BY <1>1, <2>2, <2>5, <3>2, HeadOfConcat
    <3>4. QED
      BY <3>1, <3>3
  <2> HIDE DEF ab
  <2>8. Dependencies \in Seq(Resources) /\ Elements(Dependencies) = Elements(ab) \cup Elements(c)
    BY <2>2, <2>6, <2>7, ElementsOfConcat
  <2>9. Dependencies # <<>> /\ Head(Dependencies) = Oauth2
    BY <2>2, <2>5, <2>6, <2>7
  <2>10. Oauth2 \notin Elements(Tail(Dependencies))
    <3>1. Elements(Tail(a)) = {ServiceOf(Self), Rbac} /\ a # <<>>
      <4>1. Tail(a) = <<ServiceOf(Self), Rbac>> /\ a # <<>>
        BY DEF a
      <4>2. QED
        BY <4>1, ElementsOfFew
    <3>2. Oauth2 \notin {ServiceOf(Self), Rbac} \cup opt \cup Elements(c)
      BY <1>4, <2>4 DEF opt, Oauth2, Rbac, ServiceOf, RouteOf
    <3>3. Elements(Tail(ab)) \subseteq Elements(Tail(a)) \cup opt
      BY <1>1, <2>2, <3>1, TailOfConcat DEF ab
    <3>4. Elements(Tail(ab \o c)) \subseteq Elements(Tail(ab)) \cup Elements(c)
      BY <2>2, <2>7, TailOfConcat
    <3>5. QED
      BY <2>6, <3>1, <3>2, <3>3, <3>4
  <2>11. QED
    BY <1>2, <2>3, <2>4, <2>7, <2>8, <2>9, <2>10 DEF WantedFor, opt
<1>3. CASE Kind = "StatefulSet"
  <2> DEFINE a == <<Oauth2, Rbac>>
  <2>1. a \in Seq(Resources) /\ Elements(a) = {Oauth2, Rbac} /\ Head(a) = Oauth2 /\ Len(a) = 2
    BY ResourceFacts, ElementsOfFew
  <2>2. Dependencies = a \o OptionalSecrets
    BY <1>3 DEF Dependencies, reconcileStatefulSetDependencies
  <2> HIDE DEF a
  <2>3. Dependencies \in Seq(Resources) /\ Elements(Dependencies) = Elements(a) \cup opt
    BY <1>1, <2>1, <2>2, ElementsOfConcat
  <2>4. Dependencies # <<>> /\ Head(Dependencies) = Oauth2
    BY <1>1, <2>1, <2>2
  <2>5. Oauth2 \notin Elements(Tail(Dependencies))
    <3>1. Elements(Tail(a)) = {Rbac} /\ a # <<>>
      <4>1. Tail(a) = <<Rbac>> /\ a # <<>>
        BY DEF a
      <4>2. QED
        BY <4>1, ElementsOfFew
    <3>2. Oauth2 \notin {Rbac} \cup opt
      BY <1>4 DEF opt, Oauth2, Rbac
    <3>3. Elements(Tail(a \o OptionalSecrets)) \subseteq Elements(Tail(a)) \cup opt
      BY <1>1, <2>1, <3>1, TailOfConcat
    <3>4. QED
      BY <2>2, <3>1, <3>2, <3>3
  <2>6. QED
    BY <1>3, <2>1, <2>3, <2>4, <2>5 DEF opt
<1>5. QED
  BY <1>2, <1>3, WorkloadAssumption

LEMMA deleteOwnedResourcesFacts ==
  /\ deleteOwnedResources \in Seq(Calls) /\ deleteOwnedResources # <<>>
  /\ Elements(deleteOwnedResources) = {Oauth2, RouteOf(Self), ServiceOf(Self)}
  BY ResourceFacts, ElementsOfFew DEF deleteOwnedResources, Calls

-----------------------------------------------------------------------------
(* Type correctness, step by step.                                         *)

LEMMA IdleJobType == IdleJob \in JobType /\ IdleJob.pc = "idle"
  BY DEF IdleJob, JobType

LEMMA WriteType ==
  ASSUME TypeOK, NEW r \in Resources, NEW obj \in Objects, Write(r, obj)
  PROVE  /\ res' \in [Resources -> Objects]
         /\ stale' \subseteq Resources /\ pending' \subseteq stale'
<1>1. res' \in [Resources -> Objects]
  BY DEF TypeOK, Write
<1>2. stale' \subseteq Resources /\ pending' \subseteq stale'
  BY DEF TypeOK, Write, PassesFilter
<1>3. QED
  BY <1>1, <1>2

LEMMA AbsentType == Absent \in Objects
  BY DEF Absent, Objects

LEMMA DesiredType ==
  ASSUME TypeOK, NEW r \in Resources PROVE Desired(r) \in Objects
<1>1. OwnerUid(r) \in Nat
  <2>1. job.uid \in Nat /\ \A p \in Pods : job.pods[p] \in Nat
    BY DEF TypeOK
  <2>2. r[2] = Self \/ r[2] \in Pods
    BY ResourceFacts
  <2>3. QED
    BY <2>1, <2>2 DEF OwnerUid
<1>2. CookieOf(r) \in Nat
  <2>1. view[r].cookie \in Nat /\ cookies + 1 \in Nat
    BY DEF TypeOK, Objects
  <2>2. QED
    BY <2>1 DEF CookieOf
<1>3. config.content \in Nat
  BY ConfigAssumption DEF TypeOK
<1>4. QED
  BY <1>1, <1>2, <1>3 DEF Desired, Objects

LEMMA ContinueType ==
  ASSUME TypeInv, job.pc # "idle", NEW more \in Seq(Calls), NEW snapshot \in [Pods -> Nat],
         job.pc = "apply" => more \in Seq(Resources), Continue(more, snapshot)
  PROVE  WorkerTypeOK' /\ (job'.pc # "idle" => job'.todo # <<>>)
<1>1. CASE more = <<>>
  BY <1>1, IdleJobType DEF Continue, WorkerTypeOK
<1>2. CASE more # <<>>
  <2>1. job' = [job EXCEPT !.todo = more, !.pods = snapshot] /\ job \in JobType
    BY <1>2 DEF Continue, TypeInv, WorkerTypeOK
  <2>2. job' \in JobType /\ job'.pc = job.pc /\ job'.todo = more
    BY <2>1 DEF JobType
  <2>3. QED
    BY <1>2, <2>2 DEF WorkerTypeOK
<1>3. QED
  BY <1>1, <1>2

\* The worker part of TypeOK follows from the stronger one.
LEMMA JobParts ==
  ASSUME job \in JobType
  PROVE  /\ job.pc \in {"idle", "prune", "apply"} /\ job.uid \in Nat /\ job.pods \in [Pods -> Nat]
         /\ job.todo \in Seq(Calls)
  BY DEF JobType

LEMMA JobPartsNext ==
  ASSUME job' \in JobType
  PROVE  job'.pc \in {"idle", "prune", "apply"} /\ job'.uid \in Nat /\ job'.pods \in [Pods -> Nat]
  BY DEF JobType

\* While it works, the worker has a next call.
LEMMA NextCall ==
  ASSUME TypeInv, job.pc # "idle"
  PROVE  /\ job \in JobType /\ job.todo \in Seq(Calls) /\ job.todo # <<>>
         /\ job.pc = "apply" => job.todo \in Seq(Resources)
<1>1. WorkerTypeOK /\ job.todo # <<>>
  BY DEF TypeInv, TypeOK
<1>2. QED
  BY <1>1, JobParts DEF WorkerTypeOK

LEMMA InitTypeInv == ASSUME Init PROVE TypeInv
<1>1. WorkerTypeOK
  BY IdleJobType DEF Init, WorkerTypeOK
<1>2. job.pc = "idle"
  BY IdleJobType DEF Init
<1>3. res \in [Resources -> Objects] /\ view = res
  BY AbsentType DEF Init
<1>4. QED
  BY <1>1, <1>2, <1>3, JobParts DEF Init, TypeInv, TypeOK, WorkerTypeOK

LEMMA ReconcileTypeInv ==
  ASSUME TypeInv, Reconcile
  PROVE  TypeInv'
<1>0. wl.uid \in Nat /\ config \in Configs
  BY DEF TypeInv, TypeOK
<1>1. WorkerTypeOK' /\ (job'.pc # "idle" => job'.todo # <<>>)
  <2>1. CASE UNCHANGED job
    <3>1. WorkerTypeOK /\ (job.pc # "idle" => job.todo # <<>>)
      BY DEF TypeInv, TypeOK
    <3>2. QED
      BY <2>1, <3>1 DEF WorkerTypeOK
  <2>2. CASE job' = [IdleJob EXCEPT !.pc = "prune", !.uid = wl.uid, !.todo = deleteOwnedResources]
    <3>1. job' \in JobType /\ job'.pc = "prune" /\ job'.todo = deleteOwnedResources
      BY <1>0, <2>2, deleteOwnedResourcesFacts DEF IdleJob, JobType
    <3>2. QED
      BY <3>1, deleteOwnedResourcesFacts DEF WorkerTypeOK
  <2>3. CASE job' = [IdleJob EXCEPT !.pc = "apply", !.uid = wl.uid, !.todo = Dependencies]
    <3>1. Dependencies \in Seq(Resources) /\ Dependencies \in Seq(Calls) /\ Dependencies # <<>>
      <4>1. Dependencies \in Seq(Resources) /\ Dependencies # <<>>
        BY <1>0, DependenciesFacts
      <4>2. QED
        BY <4>1 DEF Calls
    <3>2. job' \in JobType /\ job'.pc = "apply" /\ job'.todo = Dependencies
      BY <1>0, <2>3, <3>1 DEF IdleJob, JobType
    <3>3. QED
      BY <3>1, <3>2 DEF WorkerTypeOK
  <2>4. QED
    BY <2>1, <2>2, <2>3 DEF Reconcile
<1>2. missed' \in BOOLEAN /\ UNCHANGED <<pods, owners, unmapped>>
  BY DEF Reconcile, podVars
<1>3. QED
  BY <1>1, <1>2, JobPartsNext DEF Reconcile, TypeInv, TypeOK, WorkerTypeOK

LEMMA PruneTypeInv ==
  ASSUME TypeInv, Prune
  PROVE  TypeInv'
<1> DEFINE r == Head(job.todo)
<1>0. job \in JobType /\ job.todo \in Seq(Calls) /\ job.todo # <<>> /\ job.pods \in [Pods -> Nat]
      /\ job.pc = "prune"
  BY JobParts DEF TypeInv, TypeOK, WorkerTypeOK, Prune
<1>1. WorkerTypeOK' /\ (job'.pc # "idle" => job'.todo # <<>>)
  <2>1. CASE job' = IdleJob
    BY <2>1, IdleJobType DEF WorkerTypeOK
  <2>2. CASE Continue(Tail(job.todo), job.pods)
    <3>1. Tail(job.todo) \in Seq(Calls)
      BY <1>0, ElementsOfTail
    <3>2. QED
      BY <1>0, <2>2, <3>1, ContinueType
  <2>3. QED
    BY <2>1, <2>2 DEF Prune, ReturnError
<1>2. /\ res' \in [Resources -> Objects]
      /\ stale' \subseteq Resources /\ pending' \subseteq stale'
  <2>1. CASE NoWrite
    BY <2>1 DEF NoWrite, TypeInv, TypeOK
  <2>2. CASE r \in Resources /\ Write(r, Absent)
    BY <2>2, AbsentType, WriteType DEF TypeInv
  <2>3. QED
    BY <2>1, <2>2 DEF Prune
<1>3. queued' \in BOOLEAN
  BY DEF Prune, ReturnError, TypeInv, TypeOK
<1>4. errors' \in Nat
  BY DEF Prune, Fails, TypeInv, TypeOK
<1>5. missed' \in BOOLEAN
  BY DEF Prune, TypeInv, TypeOK
<1>6. UNCHANGED <<wl, pods, owners, unmapped, uids, config, view, cookies, changes>>
  BY DEF Prune, podVars
<1>7. QED
  BY <1>1, <1>2, <1>3, <1>4, <1>5, <1>6, JobPartsNext DEF TypeInv, TypeOK, WorkerTypeOK

\* The next call of the worker, and what is left to it when the call succeeds.
LEMMA ApplyFacts ==
  ASSUME TypeInv, job.pc = "apply", NEW r, r = Head(job.todo),
         NEW list, IF Kind = "StatefulSet" /\ r = Oauth2 THEN list \in PodLists ELSE list = <<>>
  PROVE  LET first == IF Kind = "StatefulSet" THEN PodLoop(r, list) ELSE <<>>
             more == first \o Tail(job.todo)
         IN /\ r \in Resources /\ job.todo \in Seq(Resources) /\ job.todo # <<>>
            /\ Elements(job.todo) = {r} \cup Elements(Tail(job.todo))
            /\ first \in Seq(Resources)
            /\ more \in Seq(Resources) /\ more \in Seq(Calls)
            /\ Elements(more) = Elements(first) \cup Elements(Tail(job.todo))
<1> DEFINE first == IF Kind = "StatefulSet" THEN PodLoop(r, list) ELSE <<>>
<1>1. job.todo \in Seq(Resources) /\ job.todo # <<>>
  BY NextCall
<1>2. /\ r \in Resources /\ Tail(job.todo) \in Seq(Resources)
      /\ Elements(job.todo) = {r} \cup Elements(Tail(job.todo))
  BY <1>1, ElementsOfTail
<1>3. first \in Seq(Resources)
  <2>1. CASE Kind = "StatefulSet"
    BY <1>2, <2>1, PodLoopFacts DEF TypeInv
  <2>2. CASE Kind # "StatefulSet"
    BY <2>2
  <2>3. QED
    BY <2>1, <2>2
<1> DEFINE rest == Tail(job.todo)
<1> HIDE DEF first, rest
<1>4. first \o rest \in Seq(Resources) /\ Elements(first \o rest) = Elements(first) \cup Elements(rest)
  <2>1. rest \in Seq(Resources)
    BY <1>2 DEF rest
  <2>2. QED
    BY <1>3, <2>1, ElementsOfConcat
<1>5. \A s \in Seq(Resources) : s \in Seq(Calls)
  BY DEF Calls
<1>6. QED
  BY <1>1, <1>2, <1>3, <1>4, <1>5 DEF first, rest

LEMMA ApplyTypeInv ==
  ASSUME TypeInv, Apply
  PROVE  TypeInv'
<1> DEFINE r == Head(job.todo)
           podsListed == Kind = "StatefulSet" /\ r = Oauth2
<1>0. job.pc = "apply" /\ job.pods \in [Pods -> Nat] /\ pods \in [Pods -> Nat] /\ r \in Resources
  <2>1. job.todo \in Seq(Resources) /\ job.todo # <<>>
    BY NextCall DEF Apply
  <2>2. QED
    BY <2>1, ElementsOfTail, JobParts DEF TypeInv, WorkerTypeOK, TypeOK, Apply
<1>1. WorkerTypeOK' /\ (job'.pc # "idle" => job'.todo # <<>>)
  <2>1. CASE job' = IdleJob
    BY <2>1, IdleJobType DEF WorkerTypeOK
  <2>2. ASSUME NEW list \in IF podsListed THEN PodLists ELSE {<<>>},
               Continue((IF Kind = "StatefulSet" THEN PodLoop(r, list) ELSE <<>>)
                          \o Tail(job.todo),
                        IF podsListed THEN pods ELSE job.pods)
        PROVE  WorkerTypeOK' /\ (job'.pc # "idle" => job'.todo # <<>>)
    <3> DEFINE more == (IF Kind = "StatefulSet" THEN PodLoop(r, list) ELSE <<>>) \o Tail(job.todo)
               snapshot == IF podsListed THEN pods ELSE job.pods
    <3>1. more \in Seq(Resources) /\ more \in Seq(Calls)
      BY <1>0, <2>2, ApplyFacts
    <3>2. snapshot \in [Pods -> Nat]
      BY <1>0
    <3>3. Continue(more, snapshot)
      BY <2>2
    <3> HIDE DEF more, snapshot
    <3>4. QED
      BY <1>0, <3>1, <3>2, <3>3, ContinueType
  <2>3. QED
    BY <2>1, <2>2 DEF Apply, ReturnError
<1>2. /\ res' \in [Resources -> Objects]
      /\ stale' \subseteq Resources /\ pending' \subseteq stale'
  <2>1. CASE NoWrite
    BY <2>1 DEF NoWrite, TypeInv, TypeOK
  <2>2. CASE Write(r, Desired(r))
    BY <1>0, <2>2, DesiredType, WriteType DEF TypeInv
  <2>3. QED
    BY <2>1, <2>2 DEF Apply, CreateOrUpdate
<1>3. queued' \in BOOLEAN
  BY DEF Apply, ReturnError, TypeInv, TypeOK
<1>4. errors' \in Nat
  BY DEF Apply, Fails, TypeInv, TypeOK
<1>5. cookies' \in Nat
  BY DEF Apply, CreateOrUpdate, TypeInv, TypeOK
<1>6. UNCHANGED <<wl, pods, owners, unmapped, uids, config, view, missed, changes>>
  BY DEF Apply, podVars
<1>7. QED
  BY <1>1, <1>2, <1>3, <1>4, <1>5, <1>6, JobPartsNext DEF TypeInv, TypeOK, WorkerTypeOK

LEMMA ResourceTypeInv ==
  ASSUME TypeInv, NEW r \in Resources,
         CacheResource(r) \/ GarbageCollect(r) \/ ChangeResource(r)
  PROVE  TypeInv'
<1>1. CASE CacheResource(r)
  <2>1. view' \in [Resources -> Objects]
    BY <1>1 DEF CacheResource, TypeInv, TypeOK
  <2>2. stale' \subseteq Resources /\ pending' \subseteq stale'
    BY <1>1 DEF CacheResource, TypeInv, TypeOK
  <2>3. queued' \in BOOLEAN
    BY <1>1 DEF CacheResource
  <2>4. QED
    BY <1>1, <2>1, <2>2, <2>3 DEF CacheResource, podVars, TypeInv, TypeOK, WorkerTypeOK
<1>2. CASE GarbageCollect(r) \/ ChangeResource(r)
  <2>1. [res[r] EXCEPT !.content = Drifted] \in Objects
    BY DEF TypeInv, TypeOK, Objects, Drifted
  <2>2. PICK obj \in Objects : Write(r, obj)
    BY <1>2, <2>1, AbsentType DEF GarbageCollect, ChangeResource
  <2>3. /\ res' \in [Resources -> Objects]
        /\ stale' \subseteq Resources /\ pending' \subseteq stale'
    BY <2>2, WriteType DEF TypeInv
  <2>4. changes' \in Nat /\ UNCHANGED <<errors, cookies>>
    BY <1>2 DEF GarbageCollect, ChangeResource, Change, TypeInv, TypeOK
  <2>5. UNCHANGED <<wl, pods, owners, unmapped, uids, config, view, queued, job, missed>>
    BY <1>2 DEF GarbageCollect, ChangeResource, podVars
  <2>6. QED
    BY <2>3, <2>4, <2>5 DEF TypeInv, TypeOK, WorkerTypeOK
<1>3. QED
  BY <1>1, <1>2

\* A pod that goes leaves well-formed caches.
LEMMA PodGoesType ==
  ASSUME TypeOK, NEW p \in Pods, PodGoes(p)
  PROVE  /\ pods' \in [Pods -> Nat] /\ owners' \in [Pods -> Nat] /\ unmapped' \subseteq Pods
         /\ queued' \in BOOLEAN /\ uids' \in Nat
<1>1. pods' \in [Pods -> Nat] /\ owners' \in [Pods -> Nat]
  BY DEF PodGoes, TypeOK
<1>2. unmapped' \subseteq Pods /\ uids' \in Nat
  BY DEF PodGoes, TypeOK
<1>3. queued' \in BOOLEAN
  BY DEF PodGoes, TypeOK
<1>4. QED
  BY <1>1, <1>2, <1>3

LEMMA ClusterTypeInv ==
  ASSUME TypeInv, ChangeWorkload \/ PodStep \/ Gone
  PROVE  TypeInv'
<1>0. TypeOK
  BY DEF TypeInv
<1>1. UNCHANGED <<config, res, view, stale, pending, job, cookies, errors>>
  BY DEF ChangeWorkload, PodStep, ChangePod, CacheReplicaSet, Gone, Change
<1>2. wl' \in [state : {"absent", "target", "other", "terminating"}, uid : Nat]
  BY DEF ChangeWorkload, PodStep, ChangePod, CacheReplicaSet, Gone, TypeInv, TypeOK
<1>3. changes' \in Nat /\ missed' \in BOOLEAN
  <2>1. changes' = changes \/ changes' = changes + 1
    BY DEF ChangeWorkload, PodStep, ChangePod, CacheReplicaSet, Gone, Change
  <2>2. changes' \in Nat
    BY <2>1 DEF TypeInv, TypeOK
  <2>3. missed \in BOOLEAN
    BY DEF TypeInv, TypeOK
  <2>4. missed' \in BOOLEAN
    BY <2>3 DEF ChangeWorkload, PodStep, ChangePod, CacheReplicaSet, Gone
  <2>5. QED
    BY <2>2, <2>4
<1>4. /\ pods' \in [Pods -> Nat] /\ owners' \in [Pods -> Nat] /\ unmapped' \subseteq Pods
      /\ queued' \in BOOLEAN /\ uids' \in Nat
  <2>1. ASSUME NEW p \in Pods, PodGoes(p) PROVE (pods' \in [Pods -> Nat] /\ owners' \in [Pods -> Nat] /\ unmapped' \subseteq Pods
                 /\ queued' \in BOOLEAN /\ uids' \in Nat)
    BY <1>0, <2>1, PodGoesType
  <2>2. CASE ChangeWorkload
    <3>1. /\ UNCHANGED <<pods, owners, unmapped>> /\ queued' \in {queued, TRUE}
          /\ uids' = uids \/ uids' = uids + 1
      BY <2>2 DEF ChangeWorkload, podVars
    <3>2. uids' \in Nat
      BY <3>1 DEF TypeInv, TypeOK
    <3>3. QED
      BY <3>1, <3>2 DEF TypeInv, TypeOK
  <2>3. ASSUME NEW p \in Pods, ChangePod(p), ~PodGoes(p) PROVE (pods' \in [Pods -> Nat] /\ owners' \in [Pods -> Nat] /\ unmapped' \subseteq Pods
                 /\ queued' \in BOOLEAN /\ uids' \in Nat)
    <3>1. /\ pods' = [pods EXCEPT ![p] = uids + 1] /\ uids' = uids + 1
          /\ owners' = [owners EXCEPT ![p] = wl.uid]
          /\ unmapped' \in {unmapped, unmapped \cup {p}} /\ queued' \in {queued, TRUE}
      BY <2>3 DEF ChangePod
    <3>2. uids + 1 \in Nat /\ wl.uid \in Nat
      BY DEF TypeInv, TypeOK
    <3>3. pods' \in [Pods -> Nat] /\ owners' \in [Pods -> Nat]
      BY <3>1, <3>2 DEF TypeInv, TypeOK
    <3>4. unmapped' \subseteq Pods /\ queued' \in BOOLEAN
      BY <3>1 DEF TypeInv, TypeOK
    <3>5. QED
      BY <3>1, <3>2, <3>3, <3>4
  <2>4. ASSUME NEW p \in Pods, CacheReplicaSet(p) PROVE (pods' \in [Pods -> Nat] /\ owners' \in [Pods -> Nat] /\ unmapped' \subseteq Pods
                 /\ queued' \in BOOLEAN /\ uids' \in Nat)
    BY <2>4 DEF CacheReplicaSet, TypeInv, TypeOK
  <2>5. CASE Gone
    BY <2>1, <2>5 DEF Gone, podVars, TypeInv, TypeOK
  <2>6. QED
    BY <2>1, <2>2, <2>3, <2>4, <2>5 DEF PodStep
<1>5. QED
  BY <1>1, <1>2, <1>3, <1>4 DEF TypeInv, TypeOK, WorkerTypeOK

LEMMA RestartTypeInv ==
  ASSUME TypeInv, Restart
  PROVE  TypeInv'
<1>1. WorkerTypeOK' /\ job'.pc = "idle"
  BY IdleJobType DEF Restart, WorkerTypeOK
<1>2. changes' \in Nat /\ UNCHANGED <<errors, cookies>>
  BY DEF Restart, Change, TypeInv, TypeOK
<1>3. queued' \in BOOLEAN
  BY DEF Restart
<1>4. QED
  BY <1>1, <1>2, <1>3, JobPartsNext DEF Restart, TypeInv, TypeOK, WorkerTypeOK

LEMMA StepTypeInv ==
  ASSUME TypeInv, [Next]_vars PROVE TypeInv'
<1>1. CASE UNCHANGED vars
  BY <1>1 DEF vars, TypeInv, TypeOK, WorkerTypeOK
<1>2. CASE Next
  BY <1>2, ResourceTypeInv, ReconcileTypeInv, PruneTypeInv, ApplyTypeInv, ClusterTypeInv,
     RestartTypeInv DEF Next, PodStep
<1>3. QED
  BY <1>1, <1>2

\* Every state is well formed, at any pace of users and with any errors: the worker
\* of reconcileDeploymentDependencies, reconcileStatefulSetDependencies or
\* deleteOwnedResources always has a next call until it returns, and an event that is
\* still to be delivered is about a resource the cache has not caught up with.
THEOREM TypeCorrect == Spec => []TypeOK
<1>1. Init => TypeInv
  BY InitTypeInv
<1>2. TypeInv /\ [Next]_vars => TypeInv'
  BY StepTypeInv
<1>3. TypeInv => TypeOK
  BY DEF TypeInv
<1>4. QED
  BY <1>1, <1>2, <1>3, PTL DEF Spec

-----------------------------------------------------------------------------
(* The invariant: the cache and the API server.                            *)

\* The wanted resources have a live owner.
LEMMA WantedFacts ==
  ASSUME TypeInv, NEW r \in Wanted
  PROVE  /\ r \in Resources
         /\ r[2] = Self \/ (r[2] \in Pods /\ r[2] # Self /\ pods[r[2]] # 0 /\ Kind = "StatefulSet")
         /\ r[2] # Self => r \in {ServiceOf(r[2]), RouteOf(r[2])}
         /\ r[2] = Self =>
              r \in {Oauth2, Rbac} \cup {<<k, Self>> : k \in config.optional \ {"route"}}
                      \cup (IF Kind = "Deployment" THEN WantedFor(Self) ELSE {})
         /\ r[1] = "route" => "route" \in config.optional
<1>0. config \in Configs /\ config.optional \subseteq {"kubeconfig", "oidc-ca", "route"}
  BY ConfigAssumption DEF TypeInv, TypeOK
<1>1. CASE r \in {Oauth2, Rbac} \cup {<<k, Self>> : k \in config.optional \ {"route"}}
  <2>1. r[2] = Self /\ r[1] # "route"
    BY <1>1 DEF Oauth2, Rbac
  <2>2. r \in Resources
    BY <1>0, <1>1, ResourceFacts
  <2>3. QED
    BY <1>1, <2>1, <2>2
<1>2. ASSUME NEW o \in Fronts, LiveUid(o) # 0, r \in WantedFor(o)
      PROVE  /\ r \in Resources
             /\ r[2] = o /\ r \in {ServiceOf(o), RouteOf(o)}
             /\ r[1] = "route" => "route" \in config.optional
  <2>1. r = ServiceOf(o) \/ (r = RouteOf(o) /\ "route" \in config.optional)
    BY <1>2 DEF WantedFor
  <2>2. r \in Resources
    BY <2>1, ResourceFacts
  <2>3. ServiceOf(o)[1] = "service" /\ ServiceOf(o)[2] = o /\ RouteOf(o)[2] = o
    BY DEF ServiceOf, RouteOf
  <2>4. QED
    BY <2>1, <2>2, <2>3
<1>3. ASSUME NEW o \in Fronts, LiveUid(o) # 0, r \in WantedFor(o)
      PROVE  \/ Kind = "Deployment" /\ o = Self
             \/ Kind = "StatefulSet" /\ o \in Pods /\ o # Self /\ pods[o] # 0
  BY <1>3, WorkloadAssumption DEF Fronts, LiveUid
<1>4. CASE r \notin {Oauth2, Rbac} \cup {<<k, Self>> : k \in config.optional \ {"route"}}
  <2>1. PICK o \in Fronts : LiveUid(o) # 0 /\ r \in WantedFor(o)
    BY <1>4 DEF Wanted
  <2>2. /\ r \in Resources /\ r[2] = o /\ r \in {ServiceOf(o), RouteOf(o)}
        /\ r[1] = "route" => "route" \in config.optional
    BY <1>2, <2>1
  <2>3. CASE Kind = "Deployment" /\ o = Self
    BY <2>1, <2>2, <2>3
  <2>4. CASE Kind = "StatefulSet" /\ o \in Pods /\ o # Self /\ pods[o] # 0
    BY <2>2, <2>4
  <2>5. QED
    BY <1>3, <2>1, <2>3, <2>4
<1>5. QED
  BY <1>1, <1>4

\* What depends on the workload, its pods and the configuration only.
LEMMA OwnersFrame ==
  ASSUME UNCHANGED <<wl, pods, owners, unmapped, config>>
  PROVE  /\ Exists' <=> Exists
         /\ Served' <=> Served
         /\ Wanted' = Wanted
         /\ \A o : LiveUid(o)' = LiveUid(o)
<1>1. Exists' <=> Exists
  BY DEF Exists
<1>2. \A o : LiveUid(o)' = LiveUid(o)
  BY DEF LiveUid, Exists
<1>3. Served' <=> Served
  BY DEF Served, hasOidcAppsPods
<1>4. Wanted' = Wanted
  BY <1>2 DEF Wanted, WantedFor
<1>5. QED
  BY <1>1, <1>2, <1>3, <1>4

\* A resource that is not written, with the same owner.
LEMMA SameResource ==
  ASSUME UNCHANGED <<wl, config>>, NEW r \in Resources, res'[r] = res[r],
         pods' = pods \/ r[2] = Self
  PROVE  (Ready(r)' <=> Ready(r)) /\ (r \in Garbage' <=> r \in Garbage)
<1>1. LiveUid(r[2])' = LiveUid(r[2])
  BY DEF LiveUid, Exists
<1>2. Ready(r)' <=> Ready(r)
  BY <1>1 DEF Ready
<1>3. r \in Garbage' <=> r \in Garbage
  BY <1>1 DEF Garbage
<1>4. QED
  BY <1>2, <1>3

\* What pruning looks for belongs to a deployment.
LEMMA ExposedResource ==
  ASSUME Kind = "Deployment", NEW r \in {ServiceOf(Self), RouteOf(Self)}
  PROVE  r \in Resources /\ r[2] = Self /\ Mapped(r)
<1>1. r[2] = Self
  BY DEF ServiceOf, RouteOf
<1>2. r \in Resources
  BY ResourceFacts DEF Calls
<1>3. QED
  BY <1>1, <1>2 DEF Mapped

\* The two invariants, opened for a resource that some other fact is known of.
LEMMA ReadyOf ==
  ASSUME WorkloadInv, Served, ~missed, NEW r \in Wanted
  PROVE  Ready(r) \/ Noticed(r) \/ ToDo(r)
  BY DEF WorkloadInv, ReadyInv

LEMMA ExposedOf ==
  ASSUME WorkloadInv, wl.state = "other", ~missed, Kind = "Deployment",
         NEW r \in {ServiceOf(Self), RouteOf(Self)}
  PROVE  res[r] = Absent \/ Noticed(r) \/ (job.pc = "prune" /\ r \in Elements(job.todo))
  BY DEF WorkloadInv, ExposedInv

LEMMA CacheResourceStep ==
  ASSUME WorkloadInv, TypeInv', NEW r0 \in Resources, CacheResource(r0)
  PROVE  WorkloadInv'
<1>1. /\ view' = [view EXCEPT ![r0] = res[r0]] /\ stale' = stale \ {r0}
      /\ pending' = pending \ {r0} /\ queued \in BOOLEAN
      /\ UNCHANGED <<wl, pods, owners, unmapped, config, res, job, missed>>
      /\ queued' = (queued \/ (r0 \in pending /\ Mapped(r0)))
  BY DEF CacheResource, podVars, WorkloadInv, TypeInv, TypeOK
<1>2. CacheOK'
  <2>1. view' = [x \in Resources |-> IF x = r0 THEN res[x] ELSE view[x]]
    BY <1>1 DEF WorkloadInv, CacheOK
  <2>2. view' = [x \in Resources |-> view'[x]]
    BY <2>1
  <2>3. \A x \in Resources : x \notin stale' => view'[x] = res'[x]
    BY <1>1, <2>1 DEF WorkloadInv, CacheOK
  <2>4. QED
    BY <1>1, <2>2, <2>3 DEF WorkloadInv, CacheOK
<1>3. queued => queued'
  BY <1>1
<1>4. UidInv' /\ JobInv'
  BY <1>1, <1>3 DEF WorkloadInv, UidInv, JobInv, Exists
<1>5. UpdateInv'
  BY <1>1 DEF WorkloadInv, UpdateInv
<1>6. /\ Served' <=> Served
      /\ Wanted' = Wanted
  BY <1>1, OwnersFrame
<1>7. ASSUME NEW r \in Resources, Mapped(r), Noticed(r) PROVE Noticed(r)'
  <2>1. r \in Garbage => r \in Garbage'
    BY <1>1, SameResource
  <2>2. r \in pending => queued' \/ r \in pending'
    BY <1>1, <1>7
  <2>3. QED
    BY <1>3, <1>7, <2>1, <2>2 DEF Noticed
<1>8. ReadyInv'
  <2> SUFFICES ASSUME Served, ~missed, NEW r \in Wanted
               PROVE  (Ready(r) \/ Noticed(r) \/ ToDo(r))'
    BY <1>1, <1>6 DEF ReadyInv
  <2>1. r \in Resources /\ Mapped(r)
    BY WantedFacts DEF WorkloadInv, Mapped
  <2>2. Ready(r) => Ready(r)'
    BY <1>1, <2>1, SameResource
  <2>3. ToDo(r) => ToDo(r)'
    BY <1>1 DEF ToDo
  <2>4. QED
    BY <1>7, <2>1, <2>2, <2>3, ReadyOf
<1>9. ExposedInv'
  <2> SUFFICES ASSUME wl.state = "other", ~missed, Kind = "Deployment",
                      NEW r \in {ServiceOf(Self), RouteOf(Self)}
               PROVE  (res[r] = Absent \/ Noticed(r) \/ (job.pc = "prune" /\ r \in Elements(job.todo)))'
    BY <1>1 DEF ExposedInv
  <2>1. r \in Resources /\ Mapped(r)
    BY ExposedResource
  <2>2. QED
    BY <1>1, <1>7, <2>1, ExposedOf
<1>10. QED
  BY <1>2, <1>4, <1>5, <1>8, <1>9 DEF WorkloadInv

\* What a write does: it is pending when it creates or deletes.
LEMMA WriteEffect ==
  ASSUME CacheOK, NEW r \in Resources, NEW obj, Write(r, obj), UNCHANGED view
  PROVE  /\ CacheOK' /\ res'[r] = obj
         /\ \A x \in Resources : x # r => res'[x] = res[x]
         /\ pending \subseteq pending' /\ pending' \subseteq pending \cup {r}
         /\ stale' \subseteq stale \cup {r}
         /\ res[r] = obj => stale' = stale
         /\ res[r] # obj /\ (res[r] = Absent \/ obj = Absent) => r \in pending'
<1>1. CacheOK'
  BY WriteFacts
<1>2. res'[r] = obj /\ \A x \in Resources : x # r => res'[x] = res[x]
  <2>1. res = [x \in Resources |-> res[x]] /\ res' = [res EXCEPT ![r] = obj]
    BY DEF CacheOK, Write
  <2>2. QED
    BY <2>1
<1>3. QED
  BY <1>1, <1>2 DEF Write, PassesFilter

\* A write by this process, or a deletion, is the cause of an update without event.
LEMMA WriteUpdates ==
  ASSUME WorkloadInv, TypeInv', UNCHANGED <<view, config>>, NEW r \in Resources, NEW obj,
         Write(r, obj), obj = Absent \/ obj.content = config.content
  PROVE  UpdateInv'
<1>1. /\ res'[r] = obj /\ \A x \in Resources : x # r => res'[x] = res[x]
      /\ pending \subseteq pending' /\ stale' \subseteq stale \cup {r}
      /\ res[r] = obj => stale' = stale
      /\ res[r] # obj /\ (res[r] = Absent \/ obj = Absent) => r \in pending'
  BY WriteEffect DEF WorkloadInv
<1> SUFFICES ASSUME NEW x \in stale' \ pending' PROVE res'[x].content = config.content
  BY DEF UpdateInv
<1>2. x \in Resources
  BY DEF TypeInv, TypeOK
<1>3. CASE x # r \/ res[r] = obj
  <2>1. x \in stale \ pending /\ res'[x] = res[x]
    BY <1>1, <1>2, <1>3
  <2>2. QED
    BY <2>1 DEF WorkloadInv, UpdateInv
<1>4. CASE x = r /\ res[r] # obj
  BY <1>1, <1>4
<1>5. QED
  BY <1>3, <1>4

\* The garbage collector or a user deletes a resource: that is an event.
LEMMA DeletionStep ==
  ASSUME WorkloadInv, TypeInv', NEW r0 \in Resources, Write(r0, Absent), res[r0] # Absent,
         UNCHANGED <<wl, pods, owners, unmapped, config, view, queued, job, missed>>
  PROVE  WorkloadInv'
<1>1. /\ CacheOK' /\ res'[r0] = Absent
      /\ \A x \in Resources : x # r0 => res'[x] = res[x]
      /\ pending' = pending \cup {r0}
  BY WriteEffect DEF WorkloadInv
<1>2. UidInv' /\ JobInv'
  BY <1>1 DEF WorkloadInv, UidInv, JobInv, Exists
<1>3. /\ Served' <=> Served
      /\ Wanted' = Wanted
  BY OwnersFrame
<1>4. UpdateInv'
  BY WriteUpdates
<1>5. ASSUME NEW r \in Resources, Noticed(r) PROVE Noticed(r)'
  <2>1. r # r0 /\ r \in Garbage => r \in Garbage'
    BY <1>1, SameResource
  <2>2. QED
    BY <1>1, <1>5, <2>1 DEF Noticed
<1>6. ReadyInv'
  <2> SUFFICES ASSUME Served, ~missed, NEW r \in Wanted
               PROVE  (Ready(r) \/ Noticed(r) \/ ToDo(r))'
    BY <1>3 DEF ReadyInv
  <2>1. r \in Resources
    BY WantedFacts DEF WorkloadInv
  <2>2. r # r0 /\ Ready(r) => Ready(r)'
    BY <1>1, <2>1, SameResource
  <2>3. r = r0 => Noticed(r)'
    BY <1>1 DEF Noticed
  <2>4. ToDo(r) => ToDo(r)'
    BY DEF ToDo
  <2>5. QED
    BY <1>5, <2>1, <2>2, <2>3, <2>4, ReadyOf
<1>7. ExposedInv'
  <2> SUFFICES ASSUME wl.state = "other", ~missed, Kind = "Deployment",
                      NEW r \in {ServiceOf(Self), RouteOf(Self)}
               PROVE  (res[r] = Absent \/ Noticed(r) \/ (job.pc = "prune" /\ r \in Elements(job.todo)))'
    BY DEF ExposedInv
  <2>1. r \in Resources
    BY ExposedResource
  <2>2. QED
    BY <1>1, <1>5, <2>1, ExposedOf
<1>8. QED
  BY <1>1, <1>2, <1>4, <1>6, <1>7 DEF WorkloadInv

LEMMA ChangeAnnounced ==
  ASSUME Announced PROVE ~Change("edit") /\ ~Change("relabel")
  BY DEF Announced, Change

LEMMA ResourceStep ==
  ASSUME Announced, WorkloadInv, TypeInv', NEW r \in Resources,
         GarbageCollect(r) \/ ChangeResource(r)
  PROVE  WorkloadInv'
<1>1. UNCHANGED <<wl, pods, owners, unmapped, config, view, queued, job, missed>>
  BY DEF GarbageCollect, ChangeResource, podVars
<1>2. Write(r, Absent)
  BY ChangeAnnounced DEF GarbageCollect, ChangeResource
<1>3. res[r] # Absent
  BY DEF GarbageCollect, ChangeResource, Garbage, Absent
<1>4. QED
  BY <1>1, <1>2, <1>3, DeletionStep

-----------------------------------------------------------------------------
(* The worker.                                                             *)

LEMMA ReconcileStep ==
  ASSUME WorkloadInv, TypeInv', Reconcile
  PROVE  WorkloadInv'
<1>1. /\ UNCHANGED <<wl, pods, owners, unmapped, config, res, view, stale, pending>>
      /\ job.pc = "idle" /\ queued' = FALSE
  BY DEF Reconcile, podVars
<1>2. CacheOK' /\ UpdateInv'
  BY <1>1 DEF WorkloadInv, CacheOK, UpdateInv
<1>3. (Exists' => wl'.uid # 0) /\ \A r \in Resources : res'[r] # Absent => res'[r].uid # 0
  BY <1>1 DEF WorkloadInv, UidInv, Exists
<1>4. /\ Served' <=> Served
      /\ Wanted' = Wanted
  BY <1>1, OwnersFrame
<1>5. CASE /\ wl.state = "other"
           /\ job' = [IdleJob EXCEPT !.pc = "prune", !.uid = wl.uid, !.todo = deleteOwnedResources]
  <2>1. job'.pc = "prune" /\ job'.uid = wl.uid /\ job'.todo = deleteOwnedResources
    BY <1>5 DEF IdleJob
  <2>2. ~Served' /\ Exists /\ wl.uid # 0
    BY <1>4, <1>5 DEF Served, Exists, WorkloadInv, UidInv
  <2>3. JobInv' /\ UidInv'
    BY <1>1, <1>3, <1>5, <2>1, <2>2 DEF JobInv, UidInv
  <2>4. ReadyInv'
    BY <2>2 DEF ReadyInv
  <2>5. ExposedInv'
    BY <2>1, deleteOwnedResourcesFacts DEF ExposedInv
  <2>6. QED
    BY <1>2, <2>3, <2>4, <2>5 DEF WorkloadInv
<1>6. CASE /\ wl.state = "target" /\ hasOidcAppsPods
           /\ job' = [IdleJob EXCEPT !.pc = "apply", !.uid = wl.uid, !.todo = Dependencies]
  <2> DEFINE opt == {<<k, Self>> : k \in config.optional \ {"route"}}
             own == IF Kind = "Deployment" THEN WantedFor(Self) ELSE {}
  <2>1. job'.pc = "apply" /\ job'.uid = wl.uid /\ job'.todo = Dependencies
    BY <1>6 DEF IdleJob
  <2>2. /\ Head(Dependencies) = Oauth2 /\ Oauth2 \notin Elements(Tail(Dependencies))
        /\ Elements(Dependencies) = {Oauth2, Rbac} \cup opt \cup own
    BY DependenciesFacts DEF WorkloadInv, TypeInv, TypeOK
  <2>3. \A r \in Elements(Dependencies) : r[2] = Self
    BY <2>2 DEF WantedFor, Oauth2, Rbac, ServiceOf, RouteOf
  <2>4. wl.uid # 0
    BY <1>6 DEF Exists, WorkloadInv, UidInv
  <2>5. \A r \in Elements(job'.todo) : r[2] = Self
    BY <2>1, <2>3
  <2>6. JobInv' /\ UidInv'
    BY <1>1, <1>3, <1>6, <2>1, <2>2, <2>4, <2>5 DEF JobInv, UidInv
  <2>7. ReadyInv'
    <3> SUFFICES ASSUME NEW r \in Wanted PROVE ToDo(r)'
      BY <1>4 DEF ReadyInv
    <3>1. CASE r[2] = Self
      <4>1. r \in {Oauth2, Rbac} \cup opt \cup own
        BY <3>1, WantedFacts DEF WorkloadInv
      <4>2. QED
        BY <2>1, <2>2, <4>1 DEF ToDo
    <3>2. CASE r[2] # Self
      BY <2>1, <2>2, <3>2, WantedFacts DEF WorkloadInv, ToDo
    <3>3. QED
      BY <3>1, <3>2
  <2>8. ExposedInv'
    BY <1>1, <1>6 DEF ExposedInv
  <2>9. QED
    BY <1>2, <2>6, <2>7, <2>8 DEF WorkloadInv
<1>7. CASE /\ wl.state \in {"absent", "terminating"} \/ (wl.state = "target" /\ ~hasOidcAppsPods)
           /\ UNCHANGED job
  <2>1. ~Served' /\ wl'.state # "other"
    BY <1>1, <1>4, <1>7 DEF Served
  <2>2. JobInv' /\ UidInv'
    BY <1>1, <1>3, <1>7 DEF JobInv, UidInv
  <2>3. ReadyInv' /\ ExposedInv'
    BY <2>1 DEF ReadyInv, ExposedInv
  <2>4. QED
    BY <1>2, <2>2, <2>3 DEF WorkloadInv
<1>8. QED
  BY <1>5, <1>6, <1>7 DEF Reconcile

\* How the worker goes on.
LEMMA ContinueEffect ==
  ASSUME job \in JobType, NEW more, NEW snapshot, Continue(more, snapshot)
  PROVE  \/ more = <<>> /\ job'.pc = "idle"
         \/ /\ more # <<>> /\ job'.pc = job.pc /\ job'.uid = job.uid
            /\ job'.todo = more /\ job'.pods = snapshot
<1>1. CASE more = <<>>
  BY <1>1, IdleJobType DEF Continue
<1>2. CASE more # <<>>
  BY <1>2 DEF Continue, JobType
<1>3. QED
  BY <1>1, <1>2

\* A worker that returns an error leaves the workload in the queue.
LEMMA ErrorStep ==
  ASSUME WorkloadInv, TypeInv', job.pc # "idle", ReturnError, NoWrite,
         UNCHANGED <<wl, config, view>>
  PROVE  WorkloadInv'
<1>1. queued' = TRUE /\ job'.pc = "idle" /\ UNCHANGED <<res, stale, pending>>
  BY IdleJobType DEF ReturnError, NoWrite
<1>2. CacheOK' /\ UidInv' /\ JobInv'
  BY <1>1 DEF WorkloadInv, CacheOK, UidInv, Exists, JobInv
<1>3. UpdateInv'
  BY <1>1 DEF WorkloadInv, UpdateInv
<1>4. ReadyInv' /\ ExposedInv'
  BY <1>1 DEF ReadyInv, ExposedInv, Noticed
<1>5. QED
  BY <1>2, <1>3, <1>4 DEF WorkloadInv

LEMMA PruneStep ==
  ASSUME WorkloadInv, TypeInv', Prune
  PROVE  WorkloadInv'
<1> DEFINE r0 == Head(job.todo)
           owned == r0 \in Resources /\ view[r0] # Absent /\ view[r0].uid = job.uid
           overlooked == r0 \in Resources \ pending /\ ~owned /\ res[r0].uid = job.uid
<1>0. /\ job.pc = "prune" /\ job.pc # "idle"
      /\ UNCHANGED <<wl, pods, owners, unmapped, config, view>>
  BY DEF Prune, podVars
<1>1. CASE /\ IF owned THEN Write(r0, Absent) ELSE NoWrite
           /\ Continue(Tail(job.todo), job.pods)
           /\ missed' = (missed \/ overlooked)
           /\ UNCHANGED queued
  <2>1. /\ job \in JobType
        /\ Elements(job.todo) = {r0} \cup Elements(Tail(job.todo))
    BY <1>0, NextCall, ElementsOfTail DEF WorkloadInv
  <2>2. \/ Tail(job.todo) = <<>> /\ job'.pc = "idle"
        \/ job'.pc = "prune" /\ job'.uid = job.uid /\ job'.todo = Tail(job.todo)
    BY <1>0, <1>1, <2>1, ContinueEffect
  <2>3. \A r \in Elements(job.todo) : r # r0 => job'.pc = "prune" /\ r \in Elements(job'.todo)
    <3>1. Elements(<<>>) = {}
      BY ElementsOfFew
    <3>2. QED
      BY <2>1, <2>2, <3>1
  <2>4. /\ CacheOK' /\ pending \subseteq pending' /\ UpdateInv'
        /\ \A x \in Resources : x # r0 => res'[x] = res[x]
        /\ \A x \in Resources : res'[x] = res[x] \/ res'[x] = Absent
        /\ owned => res'[r0] = Absent
    <3>1. CASE owned /\ Write(r0, Absent)
      <4>1. r0 \in Resources
        BY <3>1
      <4> HIDE DEF r0
      <4>2. UpdateInv'
        BY <1>0, <3>1, <4>1, WriteUpdates
      <4>3. QED
        BY <1>0, <3>1, <4>1, <4>2, WriteEffect DEF WorkloadInv
    <3>2. CASE ~owned /\ NoWrite
      BY <1>0, <3>2 DEF NoWrite, WorkloadInv, CacheOK, UpdateInv
    <3>3. QED
      BY <1>1, <3>1, <3>2
  <2> HIDE DEF r0
  <2>5. UidInv'
    BY <1>0, <2>2, <2>4 DEF WorkloadInv, UidInv, Exists
  <2>6. JobInv'
    BY <1>0, <1>1, <2>2 DEF WorkloadInv, JobInv, Exists
  <2>7. ReadyInv'
    <3>1. CASE queued \/ ~Exists
      BY <1>0, <1>1, <3>1 DEF ReadyInv, Noticed, Served, Exists
    <3>2. CASE ~queued /\ Exists
      <4>1. wl.state = "other"
        BY <1>0, <3>2 DEF WorkloadInv, JobInv
      <4>2. QED
        BY <1>0, <4>1 DEF ReadyInv, Served
    <3>3. QED
      BY <3>1, <3>2
  <2>8. ExposedInv'
    <3> SUFFICES ASSUME wl.state = "other", ~missed', Kind = "Deployment", ~queued,
                        NEW r \in {ServiceOf(Self), RouteOf(Self)}
                 PROVE  (res[r] = Absent \/ Noticed(r) \/ (job.pc = "prune" /\ r \in Elements(job.todo)))'
      BY <1>0, <1>1 DEF ExposedInv, Noticed
    <3>0. r \in Resources /\ r[2] = Self
      BY ExposedResource
    <3>1. ~missed /\ ~overlooked
      BY <1>1
    <3>2. res[r] = Absent \/ Noticed(r) \/ (job.pc = "prune" /\ r \in Elements(job.todo))
      BY <3>1, ExposedOf
    <3>3. res[r] = Absent => res'[r] = Absent
      BY <2>4, <3>0
    <3>4. r \in Garbage => res'[r] = Absent \/ r \in Garbage'
      BY <1>0, <2>4, <3>0, SameResource
    <3>5. CASE r = r0 /\ r \notin pending
      <4>1. job.uid = wl.uid
        BY <1>0 DEF WorkloadInv, JobInv, Exists
      <4>2. CASE owned
        BY <2>4, <3>5, <4>2
      <4>3. CASE res[r] = Absent
        BY <3>3, <4>3
      <4>4. CASE ~owned /\ res[r] # Absent
        <5>1. res[r].uid # wl.uid
          BY <3>0, <3>1, <3>5, <4>1, <4>4
        <5>2. res[r].uid # 0
          BY <3>0, <4>4 DEF WorkloadInv, UidInv
        <5>3. r \in Garbage
          BY <3>0, <5>1, <5>2 DEF Garbage, LiveUid, Exists
        <5>4. QED
          BY <3>4, <5>3 DEF Noticed
      <4>5. QED
        BY <4>2, <4>3, <4>4
    <3>6. CASE r # r0 \/ r \in pending
      BY <2>3, <2>4, <3>2, <3>3, <3>4, <3>6 DEF Noticed
    <3>7. QED
      BY <3>5, <3>6
  <2>9. QED
    BY <2>4, <2>5, <2>6, <2>7, <2>8 DEF WorkloadInv
<1>2. CASE ReturnError /\ NoWrite
  BY <1>0, <1>2, ErrorStep
<1>3. QED
  BY <1>1, <1>2 DEF Prune

\* The object CreateOrUpdate writes has an owner, and unless the workload is about
\* to be reconciled again it is the one that lives.
LEMMA DesiredReady ==
  ASSUME WorkloadInv, job.pc = "apply", NEW r \in Elements(job.todo), r \in Resources
  PROVE  /\ Desired(r).content = config.content
         /\ Desired(r).uid # 0
         /\ ~queued /\ Exists => Desired(r).uid = LiveUid(r[2])
<1>1. Desired(r).uid = OwnerUid(r) /\ Desired(r).content = config.content
  BY DEF Desired
<1>2. OwnerUid(r) # 0
  BY DEF OwnerUid, WorkloadInv, UidInv
<1>3. ASSUME ~queued, Exists PROVE OwnerUid(r) = LiveUid(r[2])
  <2>1. /\ job.uid = wl.uid
        /\ \/ Kind = "Deployment" \/ job.pods = pods
           \/ \A x \in Elements(job.todo) : x[2] = Self
    BY <1>3 DEF WorkloadInv, JobInv
  <2>2. CASE r[2] = Self
    BY <1>3, <2>1, <2>2 DEF OwnerUid, LiveUid
  <2>3. CASE r[2] # Self
    <3>1. job.pods = pods
      BY <2>1, <2>3, ResourceFacts
    <3>2. QED
      BY <2>3, <3>1 DEF OwnerUid, LiveUid
  <2>4. QED
    BY <2>2, <2>3
<1>4. QED
  BY <1>1, <1>2, <1>3

LEMMA CreateOrUpdateEffect ==
  ASSUME WorkloadInv, TypeInv', job.pc = "apply", NEW r0 \in Elements(job.todo),
         r0 \in Resources, CreateOrUpdate(r0), UNCHANGED <<wl, pods, config, view>>
  PROVE  /\ CacheOK' /\ pending \subseteq pending' /\ UpdateInv'
         /\ \A x \in Resources : x # r0 => res'[x] = res[x]
         /\ res'[r0] = res[r0] \/ res'[r0].uid # 0
         /\ ~queued /\ Exists => Ready(r0)' \/ r0 \in pending' \/ r0 \in Garbage'
<1>0. /\ Desired(r0).content = config.content
      /\ Desired(r0).uid # 0
      /\ ~queued /\ Exists => Desired(r0).uid = LiveUid(r0[2])
  BY DesiredReady
<1>1. CASE NoWrite /\ view[r0] = Desired(r0)
  <2>1. CacheOK' /\ UpdateInv' /\ UNCHANGED <<res, stale, pending>>
    BY <1>1 DEF NoWrite, WorkloadInv, CacheOK, UpdateInv
  <2>2. (Ready(r0)' <=> Ready(r0)) /\ (r0 \in Garbage' <=> r0 \in Garbage)
    BY <2>1, SameResource
  <2>3. ASSUME ~queued, Exists, r0 \notin pending PROVE Ready(r0) \/ r0 \in Garbage
    <3>1. CASE r0 \notin stale
      <4>1. res[r0] = Desired(r0)
        BY <1>1, <3>1 DEF WorkloadInv, CacheOK
      <4>2. QED
        BY <1>0, <2>3, <4>1 DEF Ready
    <3>2. CASE r0 \in stale
      <4>1. res[r0].content = config.content
        BY <2>3, <3>2 DEF WorkloadInv, UpdateInv
      <4>2. config.content # 0
        BY ConfigAssumption DEF WorkloadInv, TypeInv, TypeOK
      <4>3. res[r0].uid # 0
        BY <4>1, <4>2 DEF Absent, WorkloadInv, UidInv
      <4>4. QED
        BY <4>1, <4>3 DEF Ready, Garbage
    <3>3. QED
      BY <3>1, <3>2
  <2>4. QED
    BY <2>1, <2>2, <2>3
<1>2. CASE Write(r0, Desired(r0))
  <2>1. /\ CacheOK' /\ res'[r0] = Desired(r0) /\ pending \subseteq pending'
        /\ \A x \in Resources : x # r0 => res'[x] = res[x]
    BY <1>2, WriteEffect DEF WorkloadInv
  <2>2. UpdateInv'
    BY <1>0, <1>2, WriteUpdates
  <2>3. ~queued /\ Exists => Ready(r0)'
    BY <1>0, <2>1 DEF Ready, LiveUid, Exists
  <2>4. res'[r0].uid # 0
    BY <1>0, <2>1
  <2>5. QED
    BY <2>1, <2>2, <2>3, <2>4
<1>3. QED
  BY <1>1, <1>2 DEF CreateOrUpdate

LEMMA ApplyStep ==
  ASSUME WorkloadInv, TypeInv', Apply
  PROVE  WorkloadInv'
<1>0. PICK r0 : r0 = Head(job.todo)
  OBVIOUS
<1> DEFINE podsListed == Kind = "StatefulSet" /\ r0 = Oauth2
<1>1. /\ job.pc = "apply" /\ job.pc # "idle"
      /\ UNCHANGED <<wl, pods, owners, unmapped, config, view, missed>>
  BY DEF Apply, podVars
<1>2. CASE ReturnError /\ NoWrite
  BY <1>1, <1>2, ErrorStep
<1>3. ASSUME CreateOrUpdate(r0), UNCHANGED queued,
             NEW list \in IF podsListed THEN PodLists ELSE {<<>>},
             Continue((IF Kind = "StatefulSet" THEN PodLoop(r0, list) ELSE <<>>) \o Tail(job.todo),
                      IF podsListed THEN pods ELSE job.pods)
      PROVE  WorkloadInv'
  <2> DEFINE first == IF Kind = "StatefulSet" THEN PodLoop(r0, list) ELSE <<>>
             more == first \o Tail(job.todo)
             snapshot == IF podsListed THEN pods ELSE job.pods
  <2>1. /\ r0 \in Resources /\ first \in Seq(Resources)
        /\ Elements(job.todo) = {r0} \cup Elements(Tail(job.todo))
        /\ Elements(more) = Elements(first) \cup Elements(Tail(job.todo))
    BY <1>0, <1>1, <1>3, ApplyFacts DEF WorkloadInv
  <2>2. /\ Kind = "Deployment" => Elements(first) = {}
        /\ podsListed => Elements(first) = {ServiceOf(p) : p \in {q \in Pods : pods[q] # 0}}
        /\ Kind = "StatefulSet" /\ ~podsListed => Elements(first) =
             IF r0[1] = "service" /\ "route" \in config.optional THEN {RouteOf(r0[2])} ELSE {}
    <3>1. CASE Kind = "StatefulSet"
      BY <1>3, <2>1, <3>1, PodLoopFacts DEF WorkloadInv, TypeInv
    <3>2. CASE Kind = "Deployment"
      BY <3>2, ElementsOfFew
    <3>3. QED
      BY <3>1, <3>2, WorkloadAssumption
  <2>3. job \in JobType /\ Continue(more, snapshot)
    BY <1>3 DEF WorkloadInv, TypeInv, WorkerTypeOK
  <2> HIDE DEF first
  <2> DEFINE rest == Elements(Tail(job.todo))
  <2>4. Elements(more) = Elements(first) \cup rest /\ Elements(job.todo) = {r0} \cup rest
    BY <2>1
  <2> HIDE DEF more, snapshot, rest
  <2>5. \/ more = <<>> /\ job'.pc = "idle"
        \/ /\ more # <<>> /\ job'.pc = "apply" /\ job'.uid = job.uid
           /\ job'.todo = more /\ job'.pods = snapshot
    BY <1>1, <2>3, ContinueEffect
  <2>6. \A r \in Elements(more) : job'.pc = "apply" /\ job'.todo = more
    BY <2>5, ElementsOfFew
  <2>7. /\ CacheOK' /\ pending \subseteq pending' /\ UpdateInv'
        /\ \A x \in Resources : x # r0 => res'[x] = res[x]
        /\ res'[r0] = res[r0] \/ res'[r0].uid # 0
        /\ ~queued /\ Exists => Ready(r0)' \/ r0 \in pending' \/ r0 \in Garbage'
    <3>1. r0 \in Elements(job.todo)
      BY <2>4
    <3>2. QED
      BY <1>1, <1>3, <2>1, <3>1, CreateOrUpdateEffect
  <2>8. /\ Served' <=> Served
        /\ Exists' <=> Exists
        /\ Wanted' = Wanted
    BY <1>1, OwnersFrame
  <2>9. \A p \in Pods : p # Self /\ ServiceOf(p)[2] = p
    BY WorkloadAssumption DEF ServiceOf
  <2>10. RouteOf(r0[2])[2] = r0[2] /\ r0 \in Elements(job.todo)
    BY <2>4 DEF RouteOf
  <2>11. UidInv'
    <3>1. /\ job.uid # 0
          /\ \A r \in Elements(job.todo) : r[2] # Self => job.pods[r[2]] # 0
      BY <1>1 DEF WorkloadInv, UidInv
    <3>2. \A r \in Elements(more) : r[2] # Self => snapshot[r[2]] # 0
      <4>1. CASE podsListed
        <5>1. snapshot = pods
          BY <4>1 DEF snapshot
        <5>2. \A r \in Elements(first) : r[2] # Self => pods[r[2]] # 0
          BY <2>2, <2>9, <4>1
        <5>3. Elements(job.todo) = {Oauth2} \cup rest
          BY <2>4, <4>1
        <5>4. \A r \in rest : r[2] = Self
          BY <1>1, <2>4, <4>1, <5>3 DEF WorkloadInv, UidInv
        <5>5. QED
          BY <2>4, <5>1, <5>2, <5>4
      <4>2. CASE ~podsListed
        <5>1. snapshot = job.pods
          BY <4>2 DEF snapshot
        <5>2. QED
          BY <2>2, <2>4, <2>10, <3>1, <4>2, <5>1, WorkloadAssumption
      <4>3. QED
        BY <4>1, <4>2
    <3>3. \A r \in Resources : res'[r] # Absent => res'[r].uid # 0
      BY <2>7 DEF WorkloadInv, UidInv
    <3>4. Oauth2 \notin Elements(more)
      <4>1. Oauth2 \notin rest
        BY <1>1, <2>4 DEF WorkloadInv, UidInv, rest
      <4>2. Oauth2 \notin Elements(first)
        BY <2>2, WorkloadAssumption DEF Oauth2, ServiceOf, RouteOf
      <4>3. QED
        BY <2>4, <4>1, <4>2
    <3>5. QED
      BY <1>1, <2>5, <2>8, <3>1, <3>2, <3>3, <3>4 DEF WorkloadInv, UidInv
  <2>12. JobInv'
    <3>1. ASSUME ~queued, Exists
          PROVE  \/ Kind = "Deployment" \/ snapshot = pods
                 \/ \A r \in Elements(more) : r[2] = Self
      <4>1. CASE podsListed
        BY <4>1 DEF snapshot
      <4>2. CASE ~podsListed
        <5>1. snapshot = job.pods
          BY <4>2 DEF snapshot
        <5>2. \/ Kind = "Deployment" \/ job.pods = pods
              \/ \A r \in Elements(job.todo) : r[2] = Self
          BY <1>1, <3>1 DEF WorkloadInv, JobInv
        <5>3. QED
          BY <2>2, <2>4, <2>10, <4>2, <5>1, <5>2, WorkloadAssumption
      <4>3. QED
        BY <4>1, <4>2
    <3>2. ~queued /\ Exists => job.uid = wl.uid /\ wl.state = "target"
      BY <1>1 DEF WorkloadInv, JobInv
    <3>3. QED
      BY <1>1, <1>3, <2>5, <2>8, <3>1, <3>2 DEF JobInv
  <2>13. ReadyInv'
    <3> SUFFICES ASSUME Served, ~missed, ~queued, NEW r \in Wanted
                 PROVE  (Ready(r) \/ Noticed(r) \/ ToDo(r))'
      BY <1>1, <1>3, <2>8 DEF ReadyInv, Noticed
    <3>0. /\ r \in Resources
          /\ r[2] = Self \/ (r[2] \in Pods /\ r[2] # Self /\ pods[r[2]] # 0 /\ Kind = "StatefulSet")
          /\ r[2] # Self => r \in {ServiceOf(r[2]), RouteOf(r[2])}
          /\ r[1] = "route" => "route" \in config.optional
      BY WantedFacts DEF WorkloadInv
    <3>1. CASE r = r0
      <4>1. Exists
        BY DEF Served, Exists
      <4>2. QED
        BY <2>7, <3>1, <4>1 DEF Noticed
    <3>2. ASSUME r # r0, ToDo(r) PROVE ToDo(r)'
      <4>1. CASE r \in Elements(job.todo)
        BY <2>4, <2>6, <3>2, <4>1 DEF ToDo
      <4>2. CASE Kind = "StatefulSet" /\ r[2] # Self /\ r0 = Oauth2
        <5>1. ServiceOf(r[2]) \in Elements(more)
          BY <2>2, <2>4, <3>0, <4>2
        <5>2. r = ServiceOf(r[2]) \/ r[1] = "route"
          BY <3>0, <4>2 DEF RouteOf
        <5>3. QED
          BY <2>6, <4>2, <5>1, <5>2 DEF ToDo
      <4>3. CASE /\ Kind = "StatefulSet" /\ r[2] # Self /\ r[1] = "route"
                 /\ ServiceOf(r[2]) \in Elements(job.todo) /\ r0 # Oauth2
        <5>1. CASE ServiceOf(r[2]) = r0
          <6>1. r0[1] = "service" /\ r0[2] = r[2] /\ r = RouteOf(r[2])
            BY <3>0, <4>3, <5>1 DEF ServiceOf
          <6>2. r \in Elements(first)
            BY <2>2, <3>0, <4>3, <6>1
          <6>3. QED
            BY <2>4, <2>6, <6>2 DEF ToDo
        <5>2. CASE ServiceOf(r[2]) # r0
          BY <2>4, <2>6, <4>3, <5>2 DEF ToDo
        <5>3. QED
          BY <5>1, <5>2
      <4>4. QED
        BY <1>0, <3>2, <4>1, <4>2, <4>3 DEF ToDo
    <3>3. CASE r # r0
      <4>1. (Ready(r)' <=> Ready(r)) /\ (r \in Garbage' <=> r \in Garbage)
        BY <1>1, <2>7, <3>0, <3>3, SameResource
      <4>2. QED
        BY <2>7, <3>2, <3>3, <4>1, ReadyOf DEF Noticed
    <3>4. QED
      BY <3>1, <3>3
  <2>14. ExposedInv'
    <3>1. CASE queued
      BY <1>3, <3>1 DEF ExposedInv, Noticed
    <3>2. CASE ~queued
      <4>1. wl'.state # "other"
        BY <1>1, <3>2 DEF WorkloadInv, JobInv, Exists
      <4>2. QED
        BY <4>1 DEF ExposedInv
    <3>3. QED
      BY <3>1, <3>2
  <2>15. QED
    BY <2>7, <2>11, <2>12, <2>13, <2>14 DEF WorkloadInv
<1>4. QED
  BY <1>0, <1>2, <1>3 DEF Apply

-----------------------------------------------------------------------------
(* Users, operators and the controllers of Kubernetes.                     *)

\* A change that queues the workload, or after which there is none.
LEMMA AnnouncedStep ==
  ASSUME WorkloadInv, TypeInv', UNCHANGED <<config, res, view, stale, pending, job>>,
         queued' = TRUE \/ wl'.state = "absent", wl'.state # "absent" => wl'.uid # 0
  PROVE  WorkloadInv'
<1>1. CacheOK' /\ UpdateInv'
  BY DEF WorkloadInv, CacheOK, UpdateInv
<1>2. UidInv'
  BY DEF WorkloadInv, UidInv, Exists
<1>3. JobInv' /\ ReadyInv' /\ ExposedInv'
  BY DEF JobInv, ReadyInv, ExposedInv, Noticed, Served, Exists
<1>4. QED
  BY <1>1, <1>2, <1>3 DEF WorkloadInv

LEMMA ChangeWorkloadStep ==
  ASSUME Announced, WorkloadInv, TypeInv', ChangeWorkload
  PROVE  WorkloadInv'
<1>1. UNCHANGED <<config, res, view, stale, pending, job>>
  BY DEF ChangeWorkload
<1>2. wl \in [state : {"absent", "target", "other", "terminating"}, uid : Nat] /\ uids \in Nat
  BY DEF WorkloadInv, TypeInv, TypeOK
<1>3. queued' = TRUE \/ wl'.state = "absent"
  BY <1>2, ChangeAnnounced DEF ChangeWorkload
<1>4. wl'.uid = uids + 1 \/ (wl.state # "absent" /\ wl'.uid = wl.uid)
  BY <1>2 DEF ChangeWorkload
<1>5. Exists => wl.uid # 0
  BY DEF WorkloadInv, UidInv
<1>6. wl'.uid # 0
  BY <1>2, <1>4, <1>5 DEF Exists
<1>7. QED
  BY <1>1, <1>3, <1>6, AnnouncedStep

\* The pods of a deployment change, or a replica set is cached, without an event: the
\* resources do not depend on that, and the workload does not come to be served.
LEMMA QuietPodStep ==
  ASSUME WorkloadInv, TypeInv', Kind = "Deployment" \/ pods' = pods,
         UNCHANGED <<wl, config, res, view, stale, pending, queued, job>>,
         missed => missed', hasOidcAppsPods' => hasOidcAppsPods \/ queued' \/ missed'
  PROVE  WorkloadInv'
<1>1. CacheOK' /\ UpdateInv'
  BY DEF WorkloadInv, CacheOK, UpdateInv
<1>2. UidInv' /\ JobInv'
  BY DEF WorkloadInv, UidInv, JobInv, Exists
<1>3. ASSUME NEW r \in Resources
      PROVE  /\ Ready(r)' <=> Ready(r)
             /\ Noticed(r)' <=> Noticed(r)
             /\ ToDo(r)' <=> ToDo(r)
  <2>1. pods' = pods \/ r[2] = Self
    BY ResourceFacts
  <2>2. (Ready(r)' <=> Ready(r)) /\ (r \in Garbage' <=> r \in Garbage)
    BY <2>1, SameResource
  <2>3. QED
    BY <2>2 DEF Noticed, ToDo
<1>4. Wanted' = Wanted
  <2>1. \A o \in Fronts : LiveUid(o)' = LiveUid(o)
    BY DEF Fronts, LiveUid, Exists
  <2>2. QED
    BY <2>1 DEF Wanted, WantedFor
<1>5. ReadyInv'
  <2> SUFFICES ASSUME Served', ~missed', ~queued, NEW r \in Wanted
               PROVE  (Ready(r) \/ Noticed(r) \/ ToDo(r))'
    BY <1>4 DEF ReadyInv, Noticed
  <2>1. Served /\ ~missed
    BY DEF Served
  <2>2. r \in Resources
    BY WantedFacts DEF WorkloadInv
  <2>3. QED
    BY <1>3, <2>1, <2>2, ReadyOf
<1>6. ExposedInv'
  <2> SUFFICES ASSUME wl.state = "other", ~missed', Kind = "Deployment",
                      NEW r \in {ServiceOf(Self), RouteOf(Self)}
               PROVE  (res[r] = Absent \/ Noticed(r) \/ (job.pc = "prune" /\ r \in Elements(job.todo)))'
    BY DEF ExposedInv
  <2>1. r \in Resources
    BY ExposedResource
  <2>2. QED
    BY <1>3, <2>1, ExposedOf
<1>7. QED
  BY <1>1, <1>2, <1>5, <1>6 DEF WorkloadInv

LEMMA PodGoesStep ==
  ASSUME WorkloadInv, TypeInv', NEW p \in Pods, PodGoes(p),
         UNCHANGED <<wl, config, res, view, stale, pending, job, missed>>
  PROVE  WorkloadInv'
<1>1. CASE queued' = TRUE
  BY <1>1, AnnouncedStep DEF WorkloadInv, UidInv, Exists
<1>2. CASE queued' # TRUE
  <2>1. Kind = "Deployment" /\ queued' = queued
    BY <1>2 DEF PodGoes
  <2>2. hasOidcAppsPods' => hasOidcAppsPods
    <3>1. /\ pods' = [pods EXCEPT ![p] = 0] /\ owners' = [owners EXCEPT ![p] = 0]
          /\ unmapped' = unmapped \ {p}
      BY DEF PodGoes
    <3>2. pods \in [Pods -> Nat] /\ owners \in [Pods -> Nat]
      BY DEF WorkloadInv, TypeInv, TypeOK
    <3>3. \A q \in Pods : pods'[q] # 0 /\ q \notin unmapped' =>
            pods[q] # 0 /\ owners'[q] = owners[q] /\ q \notin unmapped
      BY <3>1, <3>2
    <3>4. QED
      BY <3>3 DEF hasOidcAppsPods
  <2>3. QED
    BY <2>1, <2>2, QuietPodStep
<1>3. QED
  BY <1>1, <1>2

LEMMA ChangePodStep ==
  ASSUME WorkloadInv, TypeInv', NEW p \in Pods, ChangePod(p)
  PROVE  WorkloadInv'
<1>1. UNCHANGED <<wl, config, res, view, stale, pending, job, missed>>
  BY DEF ChangePod
<1>2. CASE PodGoes(p)
  BY <1>1, <1>2, PodGoesStep
<1>3. CASE queued' = TRUE
  BY <1>1, <1>3, AnnouncedStep DEF WorkloadInv, UidInv, Exists
<1>4. CASE ~PodGoes(p) /\ queued' # TRUE
  <2>1. /\ Kind = "Deployment" /\ queued' = queued
        /\ pods' = [pods EXCEPT ![p] = uids + 1] /\ owners' = [owners EXCEPT ![p] = wl.uid]
        /\ unmapped' = unmapped \cup {p}
    BY <1>4 DEF ChangePod
  <2>2. pods \in [Pods -> Nat] /\ owners \in [Pods -> Nat]
    BY DEF WorkloadInv, TypeInv, TypeOK
  <2>3. \A q \in Pods : q \notin unmapped' =>
          pods'[q] = pods[q] /\ owners'[q] = owners[q] /\ q \notin unmapped
    BY <2>1, <2>2
  <2>4. hasOidcAppsPods' => hasOidcAppsPods
    BY <1>1, <2>3 DEF hasOidcAppsPods
  <2>5. QED
    BY <1>1, <2>1, <2>4, QuietPodStep
<1>5. QED
  BY <1>2, <1>3, <1>4

LEMMA CacheReplicaSetStep ==
  ASSUME WorkloadInv, TypeInv', NEW p \in Pods, CacheReplicaSet(p)
  PROVE  WorkloadInv'
<1>1. /\ UNCHANGED <<wl, pods, config, res, view, stale, pending, queued, job>>
      /\ missed' = (missed \/ ~(queued \/ hasOidcAppsPods))
  BY DEF CacheReplicaSet
<1>2. QED
  BY <1>1, QuietPodStep

LEMMA GoneStep ==
  ASSUME WorkloadInv, TypeInv', Gone
  PROVE  WorkloadInv'
<1>1. UNCHANGED <<config, res, view, stale, pending, job, missed>>
  BY DEF Gone
<1>2. CASE wl' = [wl EXCEPT !.state = "absent"]
  <2>1. wl'.state = "absent"
    BY <1>2 DEF WorkloadInv, TypeInv, TypeOK
  <2>2. QED
    BY <1>1, <2>1, AnnouncedStep
<1>3. ASSUME NEW p \in Pods, PodGoes(p), UNCHANGED wl PROVE WorkloadInv'
  BY <1>1, <1>3, PodGoesStep
<1>4. QED
  BY <1>2, <1>3 DEF Gone

LEMMA RestartStep ==
  ASSUME WorkloadInv, TypeInv', Restart
  PROVE  WorkloadInv'
<1>1. /\ view' = res /\ res' = res /\ stale' = {} /\ job'.pc = "idle" /\ UNCHANGED wl
      /\ queued' = (\/ wl.state \in {"target", "terminating"}
                    \/ \E r \in Resources : res[r] # Absent /\ Mapped(r))
  BY IdleJobType DEF Restart
<1>2. UidInv' /\ CacheOK'
  BY <1>1 DEF WorkloadInv, UidInv, CacheOK, Exists
<1>3. JobInv' /\ UpdateInv'
  BY <1>1 DEF JobInv, UpdateInv
<1>4. ReadyInv'
  BY <1>1 DEF ReadyInv, Served, Noticed
<1>5. ExposedInv'
  <2> SUFFICES ASSUME Kind = "Deployment", NEW r \in {ServiceOf(Self), RouteOf(Self)}
               PROVE  res[r] = Absent \/ queued'
    BY <1>1 DEF ExposedInv, Noticed
  <2>1. r \in Resources /\ Mapped(r)
    BY ExposedResource
  <2>2. QED
    BY <1>1, <2>1
<1>6. QED
  BY <1>2, <1>3, <1>4, <1>5 DEF WorkloadInv

-----------------------------------------------------------------------------
(* The invariant, and what follows from it.                                *)

LEMMA InitWorkload == ASSUME Init PROVE WorkloadInv
<1>1. TypeInv
  BY InitTypeInv
<1>2. wl.state = "absent" /\ job.pc = "idle" /\ stale = {}
  BY IdleJobType DEF Init
<1>3. CacheOK /\ UidInv
  BY <1>2 DEF Init, CacheOK, UidInv, Exists
<1>4. JobInv /\ UpdateInv /\ ReadyInv /\ ExposedInv
  BY <1>2 DEF JobInv, UpdateInv, ReadyInv, ExposedInv, Served
<1>5. QED
  BY <1>1, <1>3, <1>4 DEF WorkloadInv

LEMMA StepWorkload ==
  ASSUME Announced, WorkloadInv, [Next]_vars PROVE WorkloadInv'
<1>0. TypeInv'
  BY StepTypeInv DEF WorkloadInv
<1>1. CASE UNCHANGED vars
  <2>1. /\ UNCHANGED <<wl, pods, owners, unmapped, config>>
        /\ UNCHANGED <<res, view, stale, pending, queued, job, missed>>
    BY <1>1 DEF vars
  <2>2. CacheOK' /\ UidInv' /\ JobInv' /\ UpdateInv'
    BY <2>1 DEF WorkloadInv, CacheOK, UidInv, JobInv, UpdateInv, Exists
  <2>3. (Served' <=> Served) /\ Wanted' = Wanted /\ Garbage' = Garbage
    BY <2>1, OwnersFrame DEF Garbage, LiveUid, Exists
  <2>4. \A r : (Ready(r)' <=> Ready(r)) /\ (Noticed(r)' <=> Noticed(r)) /\ (ToDo(r)' <=> ToDo(r))
    BY <2>1, <2>3 DEF Ready, Noticed, ToDo, LiveUid, Exists
  <2>5. ReadyInv' /\ ExposedInv'
    BY <2>1, <2>3, <2>4 DEF WorkloadInv, ReadyInv, ExposedInv
  <2>6. QED
    BY <1>0, <2>2, <2>5 DEF WorkloadInv
<1>2. CASE Next
  BY <1>0, <1>2, CacheResourceStep, ResourceStep, ReconcileStep, PruneStep, ApplyStep,
     ChangeWorkloadStep, ChangePodStep, CacheReplicaSetStep, GoneStep, RestartStep DEF Next
<1>3. QED
  BY <1>1, <1>2

LEMMA WorkloadInvariant ==
  ASSUME Announced PROVE Spec => []WorkloadInv
<1>1. Init => WorkloadInv
  BY InitWorkload
<1>2. WorkloadInv /\ [Next]_vars => WorkloadInv'
  BY StepWorkload
<1>3. QED
  BY <1>1, <1>2, PTL DEF Spec

\* When the controller is idle, every secret, service and route of a target is there,
\* belongs to the workload or the pod that lives now and has the contents of the
\* configuration in force: for deployments and stateful sets, any pods and
\* configurations, whichever calls failed, whatever the reconciler was doing when the
\* workload was deleted, created again under its name, when resources were removed or
\* the manager restarted; unless the event of a deployment's pod was dropped.
THEOREM DependenciesReadyHolds ==
  ASSUME Announced PROVE Spec => []DependenciesReady
<1>1. WorkloadInv => DependenciesReady
  <2> SUFFICES ASSUME WorkloadInv, Quiet, Served, ~missed, NEW r \in Wanted PROVE Ready(r)
    BY DEF DependenciesReady
  <2>1. ~queued /\ job.pc = "idle" /\ pending = {} /\ Garbage = {}
    BY DEF Quiet, WorkloadInv, TypeInv, TypeOK
  <2>2. QED
    BY <2>1, ReadyOf DEF ToDo, Noticed
<1>2. QED
  BY <1>1, WorkloadInvariant, PTL

\* When the controller is idle, a deployment that is no longer a target has no service
\* and no route, whenever the change fell: deleteOwnedResources has found what it must
\* delete, or the garbage collector has; unless the cache showed a resource as that of
\* an earlier deployment of the same name.
THEOREM NotExposedUnlessTargetHolds ==
  ASSUME Announced, Kind = "Deployment" PROVE Spec => []NotExposedUnlessTarget
<1>1. WorkloadInv => NotExposedUnlessTarget
  <2> SUFFICES ASSUME WorkloadInv, Quiet, wl.state = "other", ~missed,
                      NEW r \in {ServiceOf(Self), RouteOf(Self)}
               PROVE  res[r] = Absent
    BY DEF NotExposedUnlessTarget, Unexposed, Fronts
  <2>1. ~queued /\ job.pc = "idle" /\ pending = {} /\ Garbage = {}
    BY DEF Quiet, WorkloadInv, TypeInv, TypeOK
  <2>2. QED
    BY <2>1, ExposedOf DEF Noticed
<1>2. QED
  BY <1>1, WorkloadInvariant, PTL
=============================================================================
