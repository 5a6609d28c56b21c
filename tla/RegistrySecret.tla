--------------------------- MODULE RegistrySecret ---------------------------
(***************************************************************************)
(* Propagation of the private registry secret (pkg/controllers): the       *)
(* deployment and the stateful-set reconcilers copy the source secret into *)
(* a namespace when a target with injected pods lives there and delete the *)
(* copy when the last target leaves; the image-pull-secret reconciler      *)
(* keeps the copies up to date and, by a finalizer on the source, deletes  *)
(* them with it.  Three controllers with one worker each; they read an     *)
(* informer cache that lags behind and write to the API server.            *)
(*                                                                         *)
(* No controller writes workloads or pods, so those are modelled as the    *)
(* cache shows them.                                                       *)
(***************************************************************************)
EXTENDS Integers, FiniteSets

CONSTANTS
  Deployments, StatefulSets,   \* names of workloads, disjoint
  Namespaces,                  \* target namespaces: not the controller's own
  NsOf,                        \* the namespace of each workload
  MaxData,                     \* bound: contents of the source are 1..MaxData
  SourceLabelled,              \* the source carries the label the cache selects
  Changes,                     \* what users and operators may do
  MaxChanges,                  \* bound on it
  Pace,                        \* when they may: at any time ("free"), when the
                               \* controllers are "idle", or "settled": idle with
                               \* no deletion of a workload under way
  FailingCalls, MaxErrors      \* API calls that may fail, and how often

Workloads == Deployments \cup StatefulSets
ChangeKinds == {"rotate", "deleteSource", "recreateSource", "create", "pods", "respec",
                "relabel", "deleteForeground", "deleteBackground", "restart"}

ASSUME WorkloadAssumption ==
  /\ IsFiniteSet(Workloads) /\ IsFiniteSet(Namespaces)
  /\ Deployments \cap StatefulSets = {}
  /\ NsOf \in [Workloads -> Namespaces]

ASSUME BoundAssumption ==
  /\ MaxData \in Nat \ {0} /\ MaxChanges \in Nat /\ MaxErrors \in Nat
  /\ SourceLabelled \in BOOLEAN /\ Pace \in {"free", "idle", "settled"}
  /\ Changes \subseteq ChangeKinds
  /\ FailingCalls \subseteq {"create", "delete", "update", "finalizer"}

VARIABLES
  source,        \* the source secret at the API server
  seen,          \* the source secret in the cache
  seenFresh,     \* the cache has the latest version of it
  copies,        \* the copies at the API server: their data, 0 for none
  view,          \* the copies in the cache
  stale,         \* the namespaces for which view lags
  wl,            \* the workloads
  pods,          \* the workloads that have an injected pod
  queue,         \* the work queues of the two workload controllers
  job,           \* their workers
  secretQueued,  \* the work queue of the image-pull-secret controller
  sec,           \* its worker
  outdated,      \* namespaces whose copy is newer than the one sec has listed
  changes, errors

apiVars == <<source, copies>>
cacheVars == <<seen, seenFresh, view, stale, wl, pods>>
workVars == <<queue, job, secretQueued, sec, outdated>>
boundVars == <<changes, errors>>
vars == <<apiVars, cacheVars, workVars, boundVars>>

Workers == {"deployments", "statefulsets"}
WorkerOf(w) == IF w \in Deployments THEN "deployments" ELSE "statefulsets"

\* Contents 0 stand for an absent secret.
Source == [data : 0..MaxData, deleting : BOOLEAN, finalizer : BOOLEAN]
NoSource == [data |-> 0, deleting |-> FALSE, finalizer |-> FALSE]
NewSource(d) == [data |-> d, deleting |-> FALSE, finalizer |-> FALSE]

IdleJob == [pc |-> "idle"]
IdleSec == [pc |-> "idle", data |-> 0, current |-> FALSE, todo |-> {}]

\* The chart creates the source before the controller starts; the cache selects
\* secrets by label, so a source without it is never seen.
Cached(s) == IF SourceLabelled THEN s ELSE NoSource

Init ==
  /\ source = NewSource(1)
  /\ seen = Cached(source) /\ seenFresh = TRUE
  /\ copies = [n \in Namespaces |-> 0]
  /\ view = copies /\ stale = {}
  /\ wl = [w \in Workloads |-> "absent"] /\ pods = {}
  /\ queue = {} /\ job = [k \in Workers |-> IdleJob]
  /\ secretQueued = SourceLabelled /\ sec = IdleSec /\ outdated = {}
  /\ changes = 0 /\ errors = 0

-----------------------------------------------------------------------------
(* The API server and the cache.                                           *)

\* A write of a copy: the cache lags, and a listed object is outdated.
SetCopy(n, d) ==
  IF copies[n] = d
  THEN UNCHANGED <<copies, stale, outdated>>
  ELSE /\ copies' = [copies EXCEPT ![n] = d]
       /\ stale' = stale \cup {n}
       /\ outdated' = outdated \cup {n}

\* A write of the source: what the worker has read is no longer current.
SetSource(s, secNext) ==
  /\ source' = s
  /\ seenFresh' = ~SourceLabelled
  /\ sec' = [secNext EXCEPT !.current = FALSE]

\* A call of this kind fails for a reason of the API server's.
Fails(call) ==
  /\ call \in FailingCalls
  /\ errors < MaxErrors
  /\ errors' = errors + 1

\* The informer delivers the copy in n.  No controller reconciles on it.
CacheCopy(n) ==
  /\ n \in stale
  /\ view' = [view EXCEPT ![n] = copies[n]]
  /\ stale' = stale \ {n}
  /\ UNCHANGED <<apiVars, seen, seenFresh, wl, pods, workVars, boundVars>>

\* The informer delivers the source; the predicates let every event on it pass.
CacheSource ==
  /\ ~seenFresh
  /\ seen' = Cached(source)
  /\ seenFresh' = TRUE
  /\ secretQueued' = TRUE
  /\ UNCHANGED <<apiVars, view, stale, wl, pods, queue, job, sec, outdated, boundVars>>

-----------------------------------------------------------------------------
(* The deployment and stateful-set reconcilers.                            *)

\* Mutant: the object being removed counts as a remaining target.
hasMatchedTargetSelf(w) ==
  \E v \in Workloads : NsOf[v] = NsOf[w] /\ wl[v] \in {"target", "terminating"}

\* Mutant: only targets of the same kind are looked for.
hasMatchedTargetSameKind(w) ==
  \E v \in Workloads \ {w} : /\ NsOf[v] = NsOf[w] /\ WorkerOf(v) = WorkerOf(w)
                             /\ wl[v] \in {"target", "terminating"}

\* A workload other than w that matches the configuration is in its namespace.
hasMatchedTargetInNamespace(w) ==
  \E v \in Workloads \ {w} : NsOf[v] = NsOf[w] /\ wl[v] \in {"target", "terminating"}

\* cleanupRegistrySecretIfLastTarget up to its Delete.
cleanupRegistrySecretIfLastTarget(w) ==
  /\ IF hasMatchedTargetInNamespace(w)
     THEN UNCHANGED job
     ELSE job' = [job EXCEPT ![WorkerOf(w)] = [pc |-> "delete", w |-> w]]
  /\ queue' = queue \ {w}

\* Mutant: the source is copied without looking whether it was found.
ensureRegistrySecretUnchecked(w) ==
  /\ queue' = queue \ {w}
  /\ IF view[NsOf[w]] # 0
     THEN UNCHANGED job
     ELSE job' = [job EXCEPT ![WorkerOf(w)] = [pc |-> "create", w |-> w, data |-> seen.data]]

\* ensureRegistrySecret up to its Create.  A source that is not found is an
\* error, and the workload is retried; its deletion timestamp is not looked at.
ensureRegistrySecret(w) ==
  \/ /\ view[NsOf[w]] # 0
     /\ queue' = queue \ {w} /\ UNCHANGED job
  \/ /\ view[NsOf[w]] = 0 /\ seen.data = 0
     /\ UNCHANGED <<queue, job>>
  \/ /\ view[NsOf[w]] = 0 /\ seen.data # 0
     /\ queue' = queue \ {w}
     /\ job' = [job EXCEPT ![WorkerOf(w)] = [pc |-> "create", w |-> w, data |-> seen.data]]

\* Reconcile: gone, no longer matched or being deleted, without injected pods, or
\* a target.
Reconcile(w) ==
  /\ w \in queue
  /\ job[WorkerOf(w)].pc = "idle"
  /\ \/ wl[w] = "absent" /\ queue' = queue \ {w} /\ UNCHANGED job
     \/ wl[w] \in {"other", "terminating"} /\ cleanupRegistrySecretIfLastTarget(w)
     \/ wl[w] = "target" /\ w \notin pods /\ queue' = queue \ {w} /\ UNCHANGED job
     \/ wl[w] = "target" /\ w \in pods /\ ensureRegistrySecret(w)
  /\ UNCHANGED <<apiVars, cacheVars, secretQueued, sec, outdated, boundVars>>

\* The worker returns: nil, or an error that queues the workload again.
Return(k) == job' = [job EXCEPT ![k] = IdleJob] /\ UNCHANGED queue

\* Mutant: the error is logged, not returned.
ReturnErrorLogged(k) == job' = [job EXCEPT ![k] = IdleJob] /\ UNCHANGED queue

ReturnError(k) == job' = [job EXCEPT ![k] = IdleJob] /\ queue' = queue \cup {job[k].w}

\* Create; that the copy exists already is no error.
CreateCopy(k) ==
  /\ job[k].pc = "create"
  /\ LET n == NsOf[job[k].w] IN
     \/ /\ IF copies[n] = 0 THEN SetCopy(n, job[k].data)
           ELSE UNCHANGED <<copies, stale, outdated>>
        /\ Return(k)
        /\ UNCHANGED errors
     \/ /\ Fails("create")
        /\ ReturnError(k)
        /\ UNCHANGED <<copies, stale, outdated>>
  /\ UNCHANGED <<source, seen, seenFresh, view, wl, pods, secretQueued, sec, changes>>

\* Delete, by name; that there is no copy is no error.
DeleteCopy(k) ==
  /\ job[k].pc = "delete"
  /\ \/ /\ SetCopy(NsOf[job[k].w], 0)
        /\ Return(k)
        /\ UNCHANGED errors
     \/ /\ Fails("delete")
        /\ ReturnError(k)
        /\ UNCHANGED <<copies, stale, outdated>>
  /\ UNCHANGED <<source, seen, seenFresh, view, wl, pods, secretQueued, sec, changes>>

-----------------------------------------------------------------------------
(* The image-pull-secret reconciler.                                       *)

\* The labelled copies as the cache has them.
Listed == {n \in Namespaces : view[n] # 0}

\* Listing the copies: those for which the cache lags are outdated already.
StartUpdating(d) ==
  /\ sec' = [pc |-> IF Listed = {} THEN "idle" ELSE "update", data |-> d,
             current |-> FALSE, todo |-> Listed]
  /\ outdated' = stale

StartDeleting ==
  /\ sec' = [pc |-> IF Listed = {} THEN "removeFinalizer" ELSE "delete", data |-> 0,
             current |-> seenFresh, todo |-> Listed]
  /\ outdated' = stale

\* Reconcile up to its first write.
SecretReconcile ==
  /\ secretQueued /\ sec.pc = "idle"
  /\ secretQueued' = FALSE
  /\ \/ /\ seen.data = 0 \/ (seen.deleting /\ ~seen.finalizer)
        /\ UNCHANGED <<sec, outdated>>
     \/ /\ seen.data # 0 /\ seen.deleting /\ seen.finalizer
        /\ StartDeleting
     \/ /\ seen.data # 0 /\ ~seen.deleting /\ ~seen.finalizer
        /\ sec' = [pc |-> "addFinalizer", data |-> seen.data, current |-> seenFresh,
                   todo |-> {}]
        /\ UNCHANGED outdated
     \/ /\ seen.data # 0 /\ ~seen.deleting /\ seen.finalizer
        /\ StartUpdating(seen.data)
  /\ UNCHANGED <<apiVars, cacheVars, queue, job, boundVars>>

\* Mutant: the error is logged, not returned.
SecretErrorLogged == sec' = IdleSec /\ UNCHANGED secretQueued

\* An error of the reconciler: the source is retried.
SecretError == sec' = IdleSec /\ secretQueued' = TRUE

\* Update of the source: a conflict when it has changed since it was cached.
UpdateSource(s, secNext) ==
  \/ /\ sec.current
     /\ SetSource(s, secNext)
     /\ UNCHANGED <<secretQueued, errors>>
  \/ /\ ~sec.current \/ "finalizer" \in FailingCalls
     /\ IF sec.current THEN Fails("finalizer") ELSE UNCHANGED errors
     /\ SecretError
     /\ UNCHANGED <<source, seenFresh>>

\* AddFinalizer and Update, then the list of copies.
AddFinalizer ==
  /\ sec.pc = "addFinalizer"
  /\ UpdateSource([source EXCEPT !.finalizer = TRUE],
                  [pc |-> IF Listed = {} THEN "idle" ELSE "update", data |-> sec.data,
                   current |-> FALSE, todo |-> Listed])
  /\ outdated' = stale
  /\ UNCHANGED <<copies, seen, view, stale, wl, pods, queue, job, changes>>

\* The loop over the listed copies goes on, or ends.
NextListed(n, last) ==
  sec' = [sec EXCEPT !.todo = @ \ {n}, !.pc = IF sec.todo = {n} THEN last ELSE @]

\* Mutant: the loop ends at the first copy.
UpdateCopyOnce(n) ==
  /\ sec.pc = "update" /\ n \in sec.todo
  /\ IF n \in outdated THEN UNCHANGED <<copies, stale, outdated>> ELSE SetCopy(n, sec.data)
  /\ sec' = IdleSec
  /\ UNCHANGED <<source, seen, seenFresh, view, wl, pods, queue, job, secretQueued, changes,
                 errors>>

\* Update of one copy: a conflict or an error is logged and the loop goes on.
UpdateCopy(n) ==
  /\ sec.pc = "update" /\ n \in sec.todo
  /\ \/ n \notin outdated /\ SetCopy(n, sec.data) /\ UNCHANGED errors
     \/ n \in outdated /\ UNCHANGED <<copies, stale, outdated, errors>>
     \/ Fails("update") /\ UNCHANGED <<copies, stale, outdated>>
  /\ NextListed(n, "idle")
  /\ UNCHANGED <<source, seen, seenFresh, view, wl, pods, queue, job, secretQueued, changes>>

\* Mutant: errors are ignored like those of the updates.
DeleteListedIgnored(n) ==
  /\ sec.pc = "delete" /\ n \in sec.todo
  /\ \/ SetCopy(n, 0) /\ UNCHANGED errors
     \/ Fails("delete") /\ UNCHANGED <<copies, stale, outdated>>
  /\ NextListed(n, "removeFinalizer")
  /\ UNCHANGED <<source, seen, seenFresh, view, wl, pods, queue, job, secretQueued, changes>>

\* deletePropagatedSecrets: an error leaves the finalizer in place.
DeleteListed(n) ==
  /\ sec.pc = "delete" /\ n \in sec.todo
  /\ \/ SetCopy(n, 0) /\ NextListed(n, "removeFinalizer") /\ UNCHANGED <<secretQueued, errors>>
     \/ Fails("delete") /\ SecretError /\ UNCHANGED <<copies, stale, outdated>>
  /\ UNCHANGED <<source, seen, seenFresh, view, wl, pods, queue, job, changes>>

\* RemoveFinalizer and Update: the API server then removes the source.
RemoveFinalizer ==
  /\ sec.pc = "removeFinalizer"
  /\ UpdateSource(NoSource, IdleSec)
  /\ UNCHANGED <<copies, seen, view, stale, outdated, wl, pods, queue, job, changes>>

-----------------------------------------------------------------------------
(* Users, operators and the controllers of Kubernetes.                     *)

\* The controllers have nothing left to do and the caches are up to date.
Quiet ==
  /\ queue = {} /\ ~secretQueued
  /\ \A k \in Workers : job[k].pc = "idle"
  /\ sec.pc = "idle"
  /\ seenFresh /\ stale = {}

Change(c) ==
  /\ c \in Changes
  /\ changes < MaxChanges
  /\ Pace # "free" => Quiet
  /\ Pace = "settled" => \A w \in Workloads : wl[w] # "terminating"
  /\ changes' = changes + 1
  /\ UNCHANGED errors

\* The source is rotated, deleted (at once, or held by the finalizer) and created
\* again.
ChangeSource ==
  /\ \/ /\ Change("rotate")
        /\ source.data # 0 /\ source.data < MaxData
        /\ SetSource([source EXCEPT !.data = @ + 1], sec)
     \/ /\ Change("deleteSource")
        /\ source.data # 0 /\ ~source.deleting
        /\ SetSource(IF source.finalizer THEN [source EXCEPT !.deleting = TRUE]
                     ELSE NoSource, sec)
     \/ /\ Change("recreateSource")
        /\ source.data = 0
        /\ \E d \in 1..MaxData : SetSource(NewSource(d), sec)
  /\ UNCHANGED <<copies, seen, view, stale, outdated, wl, pods, queue, job, secretQueued>>

\* A workload changes in the cache.  The predicates let creations and changes of
\* its generation pass, but not a change of its labels only; the event for a
\* workload that is gone leads to a Reconcile that finds nothing.
ChangeWorkload(w) ==
  /\ \/ /\ Change("create") /\ wl[w] = "absent"
        /\ wl' = [wl EXCEPT ![w] = "target"]
        /\ queue' = queue \cup {w} /\ UNCHANGED pods
     \/ /\ Change("pods") /\ wl[w] = "target"
        /\ pods' = IF w \in pods THEN pods \ {w} ELSE pods \cup {w}
        /\ queue' = queue \cup {w} /\ UNCHANGED wl
     \/ /\ \/ Change("respec") /\ queue' = queue \cup {w}
           \/ Change("relabel") /\ UNCHANGED queue
        /\ wl[w] \in {"target", "other"}
        /\ wl' = [wl EXCEPT ![w] = IF @ = "target" THEN "other" ELSE "target"]
        /\ UNCHANGED pods
     \/ /\ Change("deleteForeground") /\ wl[w] = "target"
        /\ wl' = [wl EXCEPT ![w] = "terminating"]
        /\ queue' = queue \cup {w} /\ UNCHANGED pods
     \/ /\ Change("deleteBackground") /\ wl[w] \in {"target", "other"}
        /\ wl' = [wl EXCEPT ![w] = "absent"] /\ pods' = pods \ {w}
        /\ queue' = IF wl[w] = "target" THEN queue \cup {w} ELSE queue
  /\ UNCHANGED <<apiVars, seen, seenFresh, view, stale, job, secretQueued, sec, outdated>>

\* An event on a pod, secret, service or route that the workload owns.
OwnedEvent(w) ==
  /\ wl[w] # "absent" /\ w \notin queue
  /\ Pace # "free" => Quiet
  /\ queue' = queue \cup {w}
  /\ UNCHANGED <<apiVars, cacheVars, job, secretQueued, sec, outdated, boundVars>>

\* The last dependent of a workload deleted in the foreground is gone.
Gone(w) ==
  /\ wl[w] = "terminating"
  /\ Pace # "free" => Quiet
  /\ wl' = [wl EXCEPT ![w] = "absent"] /\ pods' = pods \ {w}
  /\ queue' = queue \cup {w}
  /\ UNCHANGED <<apiVars, seen, seenFresh, view, stale, job, secretQueued, sec, outdated,
                 boundVars>>

\* The manager restarts with fresh caches: the workloads that match are queued;
\* others only by the events on labelled objects they own.
Restart ==
  /\ Change("restart")
  /\ \E owners \in SUBSET {w \in Workloads : wl[w] = "other"} :
       queue' = {w \in Workloads : wl[w] \in {"target", "terminating"}} \cup owners
  /\ job' = [k \in Workers |-> IdleJob]
  /\ seen' = Cached(source) /\ seenFresh' = TRUE
  /\ view' = copies /\ stale' = {}
  /\ secretQueued' = (Cached(source) # NoSource)
  /\ sec' = IdleSec /\ outdated' = {}
  /\ UNCHANGED <<apiVars, wl, pods>>

-----------------------------------------------------------------------------
Next ==
  \/ \E n \in Namespaces : CacheCopy(n) \/ UpdateCopy(n) \/ DeleteListed(n)
  \/ \E w \in Workloads : Reconcile(w) \/ ChangeWorkload(w) \/ OwnedEvent(w) \/ Gone(w)
  \/ \E k \in Workers : CreateCopy(k) \/ DeleteCopy(k)
  \/ CacheSource \/ SecretReconcile \/ AddFinalizer \/ RemoveFinalizer
  \/ ChangeSource \/ Restart

Spec == Init /\ [][Next]_vars

\* Informers deliver, workers take what is queued and finish what they began.
\* No fairness for what users do.
Fairness ==
  /\ \A n \in Namespaces :
       WF_vars(CacheCopy(n)) /\ WF_vars(UpdateCopy(n)) /\ WF_vars(DeleteListed(n))
  /\ \A w \in Workloads : WF_vars(Reconcile(w))
  /\ \A k \in Workers : WF_vars(CreateCopy(k)) /\ WF_vars(DeleteCopy(k))
  /\ WF_vars(CacheSource) /\ WF_vars(SecretReconcile)
  /\ WF_vars(AddFinalizer) /\ WF_vars(RemoveFinalizer)

FairSpec == Spec /\ Fairness

-----------------------------------------------------------------------------
(* Properties.                                                             *)

Jobs == {IdleJob} \cup [pc : {"delete"}, w : Workloads]
          \cup [pc : {"create"}, w : Workloads, data : 1..MaxData]
Secs == [pc : {"idle", "addFinalizer", "update", "delete", "removeFinalizer"},
         data : 0..MaxData, current : BOOLEAN, todo : SUBSET Namespaces]

\* Type invariant.
TypeOK ==
  /\ source \in Source /\ seen \in Source /\ seenFresh \in BOOLEAN
  /\ copies \in [Namespaces -> 0..MaxData] /\ view \in [Namespaces -> 0..MaxData]
  /\ stale \subseteq Namespaces /\ outdated \subseteq Namespaces
  /\ wl \in [Workloads -> {"absent", "target", "other", "terminating"}]
  /\ pods \subseteq Workloads /\ queue \subseteq Workloads
  /\ job \in [Workers -> Jobs]
  /\ secretQueued \in BOOLEAN /\ sec \in Secs
  /\ changes \in Nat /\ errors \in Nat

Served(w) == wl[w] = "target" /\ w \in pods

\* A copy is there for every target with injected pods once the controllers are
\* idle, as long as the source is: it survives the departure of the other targets of
\* either kind in its namespace, and a create or delete that fails is made up for.
\* At a settled pace, one change being dealt with before the next: a Delete that is
\* overtaken by a new target removes its copy, which nothing puts back.
CopyForEveryTarget ==
  Quiet /\ source.data # 0 => \A w \in Workloads : Served(w) => copies[NsOf[w]] # 0

\* When the controllers are idle, a copy is only where a workload still matches.
NoCopyWithoutTarget ==
  Quiet => \A n \in Namespaces :
    copies[n] # 0 => \E w \in Workloads : NsOf[w] = n /\ wl[w] \in {"target", "terminating"}

\* When the controllers are idle every copy holds the contents of the source: a
\* rotation has reached them all.
CopiesCurrent ==
  Quiet /\ source.data # 0 =>
    \A n \in Namespaces : copies[n] \in {0, source.data}

\* The finalizer holds the source until its copies are gone: a source that the
\* reconciler has released leaves none behind.
NoCopyOfReleasedSource ==
  [][ RemoveFinalizer /\ source'.data = 0 => \A n \in Namespaces : copies'[n] = 0 ]_vars

\* The finalizer does not hold the source for ever, whatever conflicts, restarts
\* and changes of workloads there are.
SourceDeletionCompletes == source.deleting ~> ~source.deleting

\* A target with injected pods gets a copy, unless it stops being one or the
\* source is deleted.
TargetGetsCopy ==
  \A w \in Workloads :
    Served(w) /\ source.data # 0 ~>
      ~Served(w) \/ source.data = 0 \/ source.deleting \/ copies[NsOf[w]] # 0
=============================================================================
