------------------------ MODULE RegistrySecretProofs ------------------------
(***************************************************************************)
(* Proofs about RegistrySecret, for any sets of workloads and namespaces:  *)
(* type correctness always, and, when users make one change at a time and  *)
(* let the controllers settle, that copies are where they are needed, are  *)
(* nowhere else, are up to date, and go before the source does.            *)
(***************************************************************************)
EXTENDS RegistrySecret, TLAPS

-----------------------------------------------------------------------------
(* The invariant.                                                          *)

\* The conditions of the settled run.  Each is needed: rotations whose update of a
\* copy fails, changes of labels only, deletions in the background, sources that
\* are created again or lack the label leave copies that are missing, old or not
\* wanted.
Settled ==
  /\ Pace = "settled" /\ SourceLabelled = TRUE /\ "update" \notin FailingCalls
  /\ Changes \subseteq {"rotate", "deleteSource", "create", "pods", "respec", "deleteForeground"}

SecIdle == seenFresh /\ ~secretQueued /\ sec.pc = "idle"
WorkIdle == queue = {} /\ \A k \in Workers : job[k].pc = "idle"

\* The source goes through its life with the finalizer on it.
SourceInv ==
  /\ seenFresh => seen = source
  /\ source.data = 0 => ~source.finalizer
  /\ source.deleting => source.finalizer
  /\ SecIdle /\ source.data # 0 => source.finalizer /\ ~source.deleting

\* An event of the source is under way, or queued, or worked on.
SecInv ==
  /\ ~seenFresh => ~secretQueued /\ sec.pc = "idle"
  /\ secretQueued => sec.pc = "idle"
  /\ sec.pc = "addFinalizer" => ~source.deleting /\ ~source.finalizer /\ source.data # 0
  /\ sec.pc = "update" => source.finalizer /\ ~source.deleting /\ sec.data = source.data
  /\ sec.pc \in {"delete", "removeFinalizer"} => source.deleting

\* One workload at a time is queued or worked on, and nobody else works then.
WorkInv ==
  /\ WorkIdle \/ (SecIdle /\ stale = {})
  /\ \A u, v \in queue : u = v
  /\ \A k \in Workers : job[k].pc # "idle" =>
       /\ queue = {} /\ \A l \in Workers : l # k => job[l].pc = "idle"
  /\ \A k \in Workers : job[k].pc = "create" =>
       wl[job[k].w] = "target" /\ job[k].data = source.data
  /\ \A k \in Workers : job[k].pc = "delete" =>
       /\ wl[job[k].w] \in {"other", "terminating"}
       /\ ~hasMatchedTargetInNamespace(job[k].w)

ViewInv == \A n \in Namespaces : n \notin stale => view[n] = copies[n]

\* What the image-pull-secret reconciler does with a copy: an old one is listed and
\* will be updated, one of a source that is being deleted is listed and will go.
ListInv ==
  \A n \in Namespaces :
    /\ ~source.finalizer => copies[n] = 0 /\ (source.data # 0 => view[n] = 0)
    /\ ~source.deleting /\ copies[n] \notin {0, source.data} =>
         IF sec.pc = "update" THEN n \in sec.todo \ outdated ELSE ~SecIdle /\ n \notin stale
    /\ sec.pc = "update" /\ n \in sec.todo \ outdated => copies[n] # 0
    /\ source.deleting /\ copies[n] # 0 =>
         /\ view[n] # 0 /\ sec.pc # "removeFinalizer"
         /\ sec.pc = "delete" => n \in sec.todo

\* A target has its copy, or will have it.
TargetInv ==
  \A w \in Workloads :
    Served(w) /\ source.data # 0 /\ ~source.deleting =>
      \/ copies[NsOf[w]] # 0
      \/ w \in queue
      \/ job[WorkerOf(w)].pc = "create" /\ job[WorkerOf(w)].w = w

\* A copy has a target, or the workload that will delete it.
Leaving(w) ==
  /\ wl[w] \in {"other", "terminating"}
  /\ w \in queue \/ (job[WorkerOf(w)].pc = "delete" /\ job[WorkerOf(w)].w = w)
  /\ \A v \in Workloads : v # w /\ NsOf[v] = NsOf[w] => wl[v] # "terminating"
OrphanInv ==
  \A n \in Namespaces :
    copies[n] # 0 => \E w \in Workloads : NsOf[w] = n /\ (wl[w] = "target" \/ Leaving(w))

SettledInv ==
  /\ TypeOK /\ SourceInv /\ SecInv /\ WorkInv /\ ViewInv
  /\ ListInv /\ TargetInv /\ OrphanInv

-----------------------------------------------------------------------------
(* Type correctness.                                                       *)

LEMMA JobTypes ==
  ASSUME NEW j \in Jobs
  PROVE  /\ j.pc \in {"idle", "create", "delete"}
         /\ j.pc # "idle" => j.w \in Workloads
         /\ j.pc = "create" => j.data \in 1..MaxData
  BY DEF Jobs, IdleJob

LEMMA JobMade ==
  ASSUME NEW w \in Workloads
  PROVE  /\ [pc |-> "delete", w |-> w] \in Jobs
         /\ \A d \in 1..MaxData : [pc |-> "create", w |-> w, data |-> d] \in Jobs
         /\ IdleJob \in Jobs
  BY DEF Jobs

LEMMA WorkerOfType == \A w \in Workloads : WorkerOf(w) \in Workers
  BY DEF WorkerOf, Workers

LEMMA CachedType ==
  ASSUME NEW s \in Source PROVE Cached(s) \in Source
  BY BoundAssumption DEF Cached, Source, NoSource

LEMMA SetCopyType ==
  ASSUME TypeOK, NEW n \in Namespaces, NEW d \in 0..MaxData, SetCopy(n, d)
  PROVE  /\ copies' \in [Namespaces -> 0..MaxData]
         /\ stale' \subseteq Namespaces /\ outdated' \subseteq Namespaces
  BY DEF TypeOK, SetCopy

LEMMA IdleSecType == IdleSec \in Secs
  BY BoundAssumption DEF IdleSec, Secs

LEMMA ListedType == Listed \subseteq Namespaces
  BY DEF Listed

LEMMA NextListedType ==
  ASSUME TypeOK, NEW n, NEW last \in {"idle", "removeFinalizer"}, NextListed(n, last)
  PROVE  sec' \in Secs
  <1>1. sec \in Secs
    BY DEF TypeOK
  <1> QED
    BY <1>1 DEF NextListed, Secs

LEMMA SetSourceType ==
  ASSUME TypeOK, NEW s \in Source, NEW t \in Secs, SetSource(s, t)
  PROVE  source' \in Source /\ seenFresh' \in BOOLEAN /\ sec' \in Secs
  <1>1. sec' = [t EXCEPT !.current = FALSE]
    BY DEF SetSource
  <1>2. sec' \in Secs
    BY <1>1 DEF Secs
  <1> QED
    BY <1>2, BoundAssumption DEF SetSource

LEMMA FailsType ==
  ASSUME TypeOK, NEW c, Fails(c) PROVE errors' \in Nat
  BY DEF TypeOK, Fails

LEMMA SecretErrorType ==
  ASSUME SecretError PROVE sec' \in Secs /\ secretQueued' \in BOOLEAN
  BY IdleSecType DEF SecretError

LEMMA UpdateSourceType ==
  ASSUME TypeOK, NEW s \in Source, NEW t \in Secs, UpdateSource(s, t)
  PROVE  /\ source' \in Source /\ seenFresh' \in BOOLEAN /\ sec' \in Secs
         /\ secretQueued' \in BOOLEAN /\ errors' \in Nat
  <1>1. CASE sec.current /\ SetSource(s, t) /\ UNCHANGED <<secretQueued, errors>>
    BY <1>1, SetSourceType DEF TypeOK
  <1>2. CASE /\ IF sec.current THEN Fails("finalizer") ELSE UNCHANGED errors
             /\ SecretError
             /\ UNCHANGED <<source, seenFresh>>
    <2>1. errors' \in Nat
      BY <1>2, FailsType DEF TypeOK
    <2> QED
      BY <1>2, <2>1, SecretErrorType DEF TypeOK
  <1> QED
    BY <1>1, <1>2 DEF UpdateSource

LEMMA InitType == ASSUME Init PROVE TypeOK
  <1>1. source \in Source /\ seen \in Source
    <2>1. NewSource(1) \in Source
      BY BoundAssumption DEF NewSource, Source
    <2> QED
      BY <2>1, CachedType DEF Init
  <1>2. secretQueued \in BOOLEAN /\ seenFresh \in BOOLEAN
    BY BoundAssumption DEF Init
  <1>3. sec \in Secs
    BY IdleSecType DEF Init
  <1>4. job \in [Workers -> Jobs]
    BY DEF Init, Jobs
  <1> QED
    BY <1>1, <1>2, <1>3, <1>4, BoundAssumption DEF Init, TypeOK

LEMMA CacheType ==
  ASSUME TypeOK, CacheSource \/ \E n \in Namespaces : CacheCopy(n)
  PROVE  TypeOK'
  <1>1. CASE CacheSource
    BY <1>1, CachedType DEF CacheSource, TypeOK, apiVars, boundVars
  <1>2. ASSUME NEW n \in Namespaces, CacheCopy(n) PROVE TypeOK'
    BY <1>2 DEF CacheCopy, TypeOK, apiVars, boundVars, workVars
  <1> QED
    BY <1>1, <1>2

LEMMA ReconcileType ==
  ASSUME TypeOK, NEW w \in Workloads, Reconcile(w)
  PROVE  TypeOK'
  <1>1. queue' \subseteq Workloads
    BY DEF Reconcile, TypeOK, cleanupRegistrySecretIfLastTarget, ensureRegistrySecret
  <1>2. job' \in [Workers -> Jobs]
    <2> WorkerOf(w) \in Workers
      BY WorkerOfType
    <2>1. CASE UNCHANGED job
      BY <2>1 DEF TypeOK
    <2>2. CASE job' = [job EXCEPT ![WorkerOf(w)] = [pc |-> "delete", w |-> w]]
      BY <2>2, JobMade DEF TypeOK
    <2>3. CASE /\ seen.data # 0
               /\ job' = [job EXCEPT ![WorkerOf(w)] = [pc |-> "create", w |-> w, data |-> seen.data]]
      <3>1. seen.data \in 1..MaxData
        BY <2>3, BoundAssumption DEF TypeOK, Source
      <3> QED
        BY <2>3, <3>1, JobMade DEF TypeOK
    <2> QED
      BY <2>1, <2>2, <2>3 DEF Reconcile, cleanupRegistrySecretIfLastTarget, ensureRegistrySecret
  <1> QED
    BY <1>1, <1>2 DEF Reconcile, TypeOK, apiVars, cacheVars, boundVars

LEMMA WorkerType ==
  ASSUME TypeOK, NEW k \in Workers, CreateCopy(k) \/ DeleteCopy(k)
  PROVE  TypeOK'
  <1> DEFINE n == NsOf[job[k].w]
  <1>0. job[k] \in Jobs /\ job[k].pc \in {"create", "delete"}
    BY DEF TypeOK, CreateCopy, DeleteCopy
  <1>1. job[k].w \in Workloads /\ n \in Namespaces
    BY <1>0, JobTypes, WorkloadAssumption
  <1>2. job' \in [Workers -> Jobs] /\ queue' \subseteq Workloads
    BY <1>1, JobMade DEF CreateCopy, DeleteCopy, Return, ReturnError, TypeOK
  <1>3. errors' \in Nat
    BY FailsType DEF CreateCopy, DeleteCopy, TypeOK
  <1>4. /\ copies' \in [Namespaces -> 0..MaxData]
        /\ stale' \subseteq Namespaces /\ outdated' \subseteq Namespaces
    <2>1. CASE UNCHANGED <<copies, stale, outdated>>
      BY <2>1 DEF TypeOK
    <2>2. CASE job[k].pc = "create" /\ SetCopy(n, job[k].data)
      <3>1. job[k].data \in 0..MaxData
        BY <1>0, <2>2, JobTypes, BoundAssumption
      <3> HIDE DEF n
      <3> QED
        BY <1>1, <2>2, <3>1, SetCopyType
    <2>3. CASE SetCopy(n, 0)
      <3>1. 0 \in 0..MaxData
        BY BoundAssumption
      <3> HIDE DEF n
      <3> QED
        BY <1>1, <2>3, <3>1, SetCopyType
    <2> QED
      BY <2>1, <2>2, <2>3 DEF CreateCopy, DeleteCopy
  <1> QED
    BY <1>2, <1>3, <1>4 DEF TypeOK, CreateCopy, DeleteCopy

LEMMA SecretReconcileType ==
  ASSUME TypeOK, SecretReconcile PROVE TypeOK'
  <1>1. Listed \in SUBSET Namespaces /\ seen.data \in 0..MaxData /\ 0 \in 0..MaxData
    BY ListedType, BoundAssumption DEF TypeOK, Source
  <1>2. sec' \in Secs
    <2>1. CASE UNCHANGED sec
      BY <2>1 DEF TypeOK
    <2>2. CASE StartDeleting
      BY <2>2, <1>1 DEF StartDeleting, Secs, TypeOK
    <2>3. CASE sec' = [pc |-> "addFinalizer", data |-> seen.data, current |-> seenFresh,
                       todo |-> {}]
      BY <2>3, <1>1 DEF Secs, TypeOK
    <2>4. CASE StartUpdating(seen.data)
      BY <2>4, <1>1 DEF StartUpdating, Secs, TypeOK
    <2> QED
      BY <2>1, <2>2, <2>3, <2>4 DEF SecretReconcile
  <1>3. outdated' \subseteq Namespaces
    BY DEF SecretReconcile, StartDeleting, StartUpdating, TypeOK
  <1> QED
    BY <1>2, <1>3 DEF SecretReconcile, TypeOK, apiVars, cacheVars, boundVars

LEMMA FinalizerType ==
  ASSUME TypeOK, AddFinalizer \/ RemoveFinalizer PROVE TypeOK'
  <1>1. /\ source' \in Source /\ seenFresh' \in BOOLEAN /\ sec' \in Secs
        /\ secretQueued' \in BOOLEAN /\ errors' \in Nat
    <2>1. CASE AddFinalizer
      <3> DEFINE s == [source EXCEPT !.finalizer = TRUE]
                 t == [pc |-> IF Listed = {} THEN "idle" ELSE "update", data |-> sec.data,
                       current |-> FALSE, todo |-> Listed]
      <3>1. s \in Source
        BY DEF TypeOK, Source
      <3>2. t \in Secs
        BY ListedType DEF TypeOK, Secs
      <3>3. UpdateSource(s, t)
        BY <2>1 DEF AddFinalizer
      <3> HIDE DEF s, t
      <3> QED
        BY <3>1, <3>2, <3>3, UpdateSourceType
    <2>2. CASE RemoveFinalizer
      <3>1. NoSource \in Source
        BY BoundAssumption DEF NoSource, Source
      <3> QED
        BY <2>2, <3>1, IdleSecType, UpdateSourceType DEF RemoveFinalizer
    <2> QED
      BY <2>1, <2>2
  <1> QED
    BY <1>1 DEF AddFinalizer, RemoveFinalizer, TypeOK

LEMMA ListedCopyType ==
  ASSUME TypeOK, NEW n \in Namespaces, UpdateCopy(n) \/ DeleteListed(n) PROVE TypeOK'
  <1>0. sec.data \in 0..MaxData /\ 0 \in 0..MaxData
    BY BoundAssumption DEF TypeOK, Secs
  <1>1. /\ copies' \in [Namespaces -> 0..MaxData]
        /\ stale' \subseteq Namespaces /\ outdated' \subseteq Namespaces
    <2>1. CASE UNCHANGED <<copies, stale, outdated>>
      BY <2>1 DEF TypeOK
    <2>2. CASE SetCopy(n, sec.data) \/ SetCopy(n, 0)
      BY <2>2, <1>0, SetCopyType
    <2> QED
      BY <2>1, <2>2 DEF UpdateCopy, DeleteListed
  <1>2. sec' \in Secs /\ secretQueued' \in BOOLEAN
    BY NextListedType, SecretErrorType DEF UpdateCopy, DeleteListed, TypeOK
  <1>3. errors' \in Nat
    BY FailsType DEF UpdateCopy, DeleteListed, TypeOK
  <1> QED
    BY <1>1, <1>2, <1>3 DEF UpdateCopy, DeleteListed, TypeOK

LEMMA ChangeSourceType ==
  ASSUME TypeOK, ChangeSource PROVE TypeOK'
  <1>1. PICK s \in Source : SetSource(s, sec)
    <2>1. CASE /\ source.data # 0 /\ source.data < MaxData
               /\ SetSource([source EXCEPT !.data = @ + 1], sec)
      <3>1. source.data + 1 \in 0..MaxData
        BY <2>1, BoundAssumption DEF TypeOK, Source
      <3>2. [source EXCEPT !.data = @ + 1] \in Source
        BY <3>1 DEF TypeOK, Source
      <3> QED
        BY <2>1, <3>2
    <2>2. CASE SetSource(IF source.finalizer THEN [source EXCEPT !.deleting = TRUE]
                         ELSE NoSource, sec)
      <3>1. [source EXCEPT !.deleting = TRUE] \in Source
        BY DEF TypeOK, Source
      <3>2. NoSource \in Source
        BY BoundAssumption DEF Source, NoSource
      <3> QED
        BY <2>2, <3>1, <3>2
    <2>3. CASE \E d \in 1..MaxData : SetSource(NewSource(d), sec)
      <3>1. \A d \in 1..MaxData : NewSource(d) \in Source
        BY BoundAssumption DEF Source, NewSource
      <3> QED
        BY <2>3, <3>1
    <2> QED
      BY <2>1, <2>2, <2>3 DEF ChangeSource
  <1>2. source' \in Source /\ seenFresh' \in BOOLEAN /\ sec' \in Secs
    BY <1>1, SetSourceType DEF TypeOK
  <1>3. changes' \in Nat /\ errors' = errors
    BY DEF ChangeSource, Change, TypeOK
  <1> QED
    BY <1>2, <1>3 DEF ChangeSource, TypeOK

LEMMA ChangeWorkloadType ==
  ASSUME TypeOK, NEW w \in Workloads, ChangeWorkload(w) PROVE TypeOK'
  <1>1. changes' \in Nat /\ errors' = errors
    BY DEF ChangeWorkload, Change, TypeOK
  <1>2. wl' \in [Workloads -> {"absent", "target", "other", "terminating"}]
    BY DEF ChangeWorkload, TypeOK
  <1>3. pods' \subseteq Workloads /\ queue' \subseteq Workloads
    BY DEF ChangeWorkload, TypeOK
  <1> QED
    BY <1>1, <1>2, <1>3 DEF ChangeWorkload, TypeOK, apiVars

LEMMA WorkloadEventType ==
  ASSUME TypeOK, NEW w \in Workloads, OwnedEvent(w) \/ Gone(w) PROVE TypeOK'
  <1>1. wl' \in [Workloads -> {"absent", "target", "other", "terminating"}]
    BY DEF OwnedEvent, Gone, TypeOK, cacheVars
  <1>2. pods' \subseteq Workloads /\ queue' \subseteq Workloads
    BY DEF OwnedEvent, Gone, TypeOK, cacheVars
  <1> QED
    BY <1>1, <1>2 DEF OwnedEvent, Gone, TypeOK, apiVars, cacheVars, boundVars

LEMMA RestartType ==
  ASSUME TypeOK, Restart PROVE TypeOK'
  <1>1. queue' \subseteq Workloads
    BY DEF Restart
  <1>2. changes' \in Nat /\ errors' = errors
    BY DEF Restart, Change, TypeOK
  <1>3. sec' \in Secs /\ seen' \in Source
    BY IdleSecType, CachedType DEF Restart, TypeOK
  <1>4. job' \in [Workers -> Jobs]
    BY DEF Restart, Jobs
  <1> QED
    BY <1>1, <1>2, <1>3, <1>4 DEF Restart, TypeOK, apiVars

LEMMA TypeStep ==
  ASSUME TypeOK, [Next]_vars PROVE TypeOK'
  <1>1. CASE UNCHANGED vars
    BY <1>1 DEF vars, apiVars, cacheVars, workVars, boundVars, TypeOK
  <1>2. CASE Next
    BY <1>2, CacheType, ListedCopyType, ReconcileType, ChangeWorkloadType,
       WorkloadEventType, WorkerType, SecretReconcileType, FinalizerType,
       ChangeSourceType, RestartType DEF Next
  <1> QED
    BY <1>1, <1>2

\* Every state of the controllers and the API server is well formed, whatever users
\* do, whichever calls fail, and for any sets of workloads and namespaces: no
\* worker acts on a workload that is not one, and no copy holds contents the source
\* never had.
THEOREM TypeCorrect == Spec => []TypeOK
  BY InitType, TypeStep, PTL DEF Spec

-----------------------------------------------------------------------------
(* What the invariant says of a state in which somebody works.             *)

\* While the image-pull-secret controller or its cache has work to do, the two
\* workload controllers have none.
LEMMA SecretBusy ==
  ASSUME SettledInv, ~SecIdle
  PROVE  WorkIdle
  BY DEF SettledInv, WorkInv

\* While a workload is queued or worked on, the other controller rests, the caches
\* are up to date and the source is there to stay.
LEMMA WorkloadBusy ==
  ASSUME SettledInv, ~WorkIdle
  PROVE  /\ seenFresh = TRUE /\ secretQueued = FALSE /\ sec.pc = "idle"
         /\ stale = {} /\ seen = source /\ ~source.deleting
         /\ source.data # 0 => source.finalizer
         /\ \A n \in Namespaces : view[n] = copies[n]
  <1>1. SecIdle /\ stale = {}
    BY DEF SettledInv, WorkInv
  <1>2. seenFresh = TRUE /\ secretQueued = FALSE /\ sec.pc = "idle"
    BY <1>1 DEF SettledInv, SecIdle, TypeOK
  <1>3. seen = source /\ (source.data # 0 => source.finalizer /\ ~source.deleting)
    BY <1>1, <1>2 DEF SettledInv, SourceInv
  <1>4. ~source.deleting
    BY <1>3 DEF SettledInv, SourceInv
  <1>5. \A n \in Namespaces : view[n] = copies[n]
    BY <1>1 DEF SettledInv, ViewInv
  <1> QED
    BY <1>1, <1>2, <1>3, <1>4, <1>5

LEMMA QueuedAlone ==
  ASSUME SettledInv, NEW w \in queue
  PROVE  queue = {w} /\ \A k \in Workers : job[k].pc = "idle"
  BY DEF SettledInv, WorkInv

LEMMA WorkerAlone ==
  ASSUME SettledInv, NEW k \in Workers, job[k].pc # "idle"
  PROVE  /\ queue = {} /\ \A l \in Workers : l # k => job[l].pc = "idle"
         /\ job[k].w \in Workloads /\ NsOf[job[k].w] \in Namespaces
  <1>1. job[k].w \in Workloads
    BY JobTypes DEF SettledInv, TypeOK
  <1> QED
    BY <1>1, WorkloadAssumption DEF SettledInv, WorkInv

\* With the workload controllers at rest, the copies are where they belong.
LEMMA AtRest ==
  ASSUME SettledInv, WorkIdle
  PROVE  /\ \A w \in Workloads :
              Served(w) /\ source.data # 0 /\ ~source.deleting => copies[NsOf[w]] # 0
         /\ \A n \in Namespaces :
              copies[n] # 0 => \E w \in Workloads : NsOf[w] = n /\ wl[w] = "target"
  <1>1. \A w \in Workloads : w \notin queue /\ job[WorkerOf(w)].pc = "idle"
    BY WorkerOfType DEF WorkIdle
  <1>2. \A w \in Workloads :
          Served(w) /\ source.data # 0 /\ ~source.deleting => copies[NsOf[w]] # 0
    BY <1>1 DEF SettledInv, TargetInv
  <1>3. \A w \in Workloads : ~Leaving(w)
    BY <1>1 DEF Leaving
  <1> QED
    BY <1>2, <1>3 DEF SettledInv, OrphanInv

\* And as long as they stay at rest, only the copies decide.
LEMMA StaysAtRest ==
  ASSUME SettledInv, WorkIdle, UNCHANGED <<queue, job, wl, pods>>,
         \A n \in Namespaces : copies'[n] # 0 => copies[n] # 0,
         source'.data # 0 /\ ~source'.deleting =>
           /\ source.data # 0 /\ ~source.deleting
           /\ \A n \in Namespaces : copies[n] # 0 => copies'[n] # 0
  PROVE  WorkInv' /\ TargetInv' /\ OrphanInv'
  <1>1. WorkInv'
    <2>1. WorkIdle'
      BY DEF WorkIdle
    <2> QED
      BY <2>1 DEF WorkInv, WorkIdle
  <1>2. TargetInv'
    <2> SUFFICES ASSUME NEW w \in Workloads, Served(w)', source'.data # 0, ~source'.deleting
                 PROVE  copies'[NsOf[w]] # 0
      BY DEF TargetInv
    <2>1. Served(w) /\ NsOf[w] \in Namespaces
      BY WorkloadAssumption DEF Served
    <2> QED
      BY <2>1, AtRest
  <1>3. OrphanInv'
    BY AtRest DEF OrphanInv
  <1> QED
    BY <1>1, <1>2, <1>3

-----------------------------------------------------------------------------
(* Each step keeps the invariant: the caches and the API server.           *)

LEMMA CacheCopyStep ==
  ASSUME SettledInv, TypeOK', NEW n \in Namespaces, CacheCopy(n)
  PROVE  SettledInv'
  <1> USE DEF CacheCopy, apiVars, workVars, boundVars
  <1>0. view' \in [Namespaces -> 0..MaxData] /\ view'[n] = copies[n]
        /\ \A m \in Namespaces : m # n => view'[m] = view[m]
    BY DEF SettledInv, TypeOK
  <1>1. SourceInv' /\ SecInv'
    BY DEF SettledInv, SourceInv, SecInv, SecIdle
  <1>2. WorkInv'
    BY DEF SettledInv, WorkInv, WorkIdle, SecIdle, hasMatchedTargetInNamespace
  <1>3. ViewInv'
    BY <1>0 DEF SettledInv, ViewInv
  <1>4. ListInv'
    BY <1>0 DEF SettledInv, ListInv, SecIdle
  <1>5. TargetInv' /\ OrphanInv'
    BY DEF SettledInv, TargetInv, Served, OrphanInv, Leaving
  <1> QED
    BY <1>1, <1>2, <1>3, <1>4, <1>5 DEF SettledInv

LEMMA CacheSourceStep ==
  ASSUME Settled, SettledInv, TypeOK', CacheSource
  PROVE  SettledInv'
  <1> USE DEF CacheSource, apiVars, boundVars
  <1>0. WorkIdle /\ sec.pc = "idle" /\ seen' = source /\ seenFresh' /\ secretQueued'
    BY SecretBusy DEF SettledInv, SecInv, SecIdle, Cached, Settled
  <1>1. SourceInv' /\ SecInv'
    BY <1>0 DEF SettledInv, SourceInv, SecInv, SecIdle
  <1>2. WorkInv' /\ TargetInv' /\ OrphanInv'
    BY <1>0, StaysAtRest
  <1>3. ViewInv'
    BY DEF SettledInv, ViewInv
  <1>4. ListInv'
    BY <1>0 DEF SettledInv, ListInv, SecIdle
  <1> QED
    BY <1>1, <1>2, <1>3, <1>4 DEF SettledInv

-----------------------------------------------------------------------------
(* The image-pull-secret reconciler.                                       *)

LEMMA SecretReconcileStep ==
  ASSUME SettledInv, TypeOK', SecretReconcile
  PROVE  SettledInv'
  <1> USE DEF SecretReconcile, apiVars, cacheVars, boundVars
  <1>0. /\ WorkIdle /\ seenFresh /\ seenFresh' /\ seen = source /\ seen' = source'
        /\ ~secretQueued' /\ ~SecIdle
    BY SecretBusy DEF SettledInv, SourceInv, SecInv, SecIdle
  <1>1. CASE (seen.data = 0 \/ (seen.deleting /\ ~seen.finalizer)) /\ UNCHANGED <<sec, outdated>>
    <2>1. source.data = 0 /\ ~source.finalizer /\ ~source.deleting
      BY <1>0, <1>1 DEF SettledInv, SourceInv
    <2>2. SourceInv' /\ SecInv'
      BY <1>0, <1>1, <2>1 DEF SettledInv, SourceInv, SecInv, SecIdle
    <2>3. ListInv'
      BY <1>0, <1>1, <2>1 DEF SettledInv, ListInv
    <2> QED
      BY <1>0, <2>2, <2>3, StaysAtRest DEF SettledInv, ViewInv
  <1>2. CASE seen.data # 0 /\ seen.deleting /\ seen.finalizer /\ StartDeleting
    <2>1. /\ sec'.pc = IF Listed = {} THEN "removeFinalizer" ELSE "delete"
          /\ sec'.todo = Listed
      BY <1>2 DEF StartDeleting
    <2>2. SourceInv' /\ SecInv'
      BY <1>0, <1>2, <2>1 DEF SettledInv, SourceInv, SecInv, SecIdle
    <2>3. ListInv'
      BY <1>0, <1>2, <2>1 DEF SettledInv, ListInv, Listed
    <2> QED
      BY <1>0, <2>2, <2>3, StaysAtRest DEF SettledInv, ViewInv
  <1>3. CASE /\ seen.data # 0 /\ ~seen.deleting /\ ~seen.finalizer
             /\ sec' = [pc |-> "addFinalizer", data |-> seen.data, current |-> seenFresh,
                        todo |-> {}]
    <2>1. sec'.pc = "addFinalizer"
      BY <1>3
    <2>2. SourceInv' /\ SecInv'
      BY <1>0, <1>3, <2>1 DEF SettledInv, SourceInv, SecInv, SecIdle
    <2>3. ListInv'
      BY <1>0, <1>3, <2>1 DEF SettledInv, ListInv
    <2> QED
      BY <1>0, <2>2, <2>3, StaysAtRest DEF SettledInv, ViewInv
  <1>4. CASE seen.data # 0 /\ ~seen.deleting /\ seen.finalizer /\ StartUpdating(seen.data)
    <2>1. /\ sec'.pc = IF Listed = {} THEN "idle" ELSE "update"
          /\ sec'.todo = Listed /\ sec'.data = source.data /\ outdated' = stale
      BY <1>0, <1>4 DEF StartUpdating
    <2>2. SourceInv' /\ SecInv'
      BY <1>0, <1>4, <2>1 DEF SettledInv, SourceInv, SecInv, SecIdle
    <2>3. \A n \in Namespaces : n \in Listed \ stale <=> n \notin stale /\ copies[n] # 0
      BY DEF SettledInv, ViewInv, Listed
    <2>4. \A n \in Namespaces :
            copies[n] \notin {0, source.data} => n \in Listed \ stale /\ sec'.pc = "update"
      BY <1>0, <1>4, <2>1, <2>3, SecretBusy DEF SettledInv, ListInv, SecIdle
    <2>5. ListInv'
      BY <1>0, <1>4, <2>1, <2>3, <2>4 DEF ListInv
    <2> QED
      BY <1>0, <2>2, <2>5, StaysAtRest DEF SettledInv, ViewInv
  <1> QED
    BY <1>1, <1>2, <1>3, <1>4

LEMMA AddFinalizerStep ==
  ASSUME Settled, SettledInv, TypeOK', AddFinalizer
  PROVE  SettledInv'
  <1> USE DEF AddFinalizer
  <1>0. /\ WorkIdle /\ seenFresh /\ ~secretQueued
        /\ source.data # 0 /\ ~source.deleting /\ ~source.finalizer
    BY SecretBusy DEF SettledInv, SecInv, SecIdle
  <1>1. \A n \in Namespaces : copies[n] = 0 /\ view[n] = 0
    BY <1>0 DEF SettledInv, ListInv
  <1>2. Listed = {}
    BY <1>1 DEF Listed
  <1>3. sec'.pc = "idle" /\ source'.data = source.data /\ source'.deleting = source.deleting
    BY <1>2 DEF UpdateSource, SetSource, SecretError, IdleSec, SettledInv, TypeOK, Source
  <1>4. \/ source'.finalizer = TRUE /\ seenFresh' = FALSE /\ secretQueued' = FALSE
        \/ source' = source /\ seenFresh' = seenFresh /\ secretQueued' = TRUE
    <2>1. source \in Source
      BY DEF SettledInv, TypeOK
    <2> QED
      BY <1>0, <2>1 DEF UpdateSource, SetSource, SecretError, Settled, Source, SettledInv, TypeOK
  <1>5. SourceInv' /\ SecInv'
    BY <1>0, <1>3, <1>4 DEF SettledInv, SourceInv, SecInv, SecIdle
  <1>6. ListInv'
    BY <1>0, <1>1, <1>3 DEF ListInv
  <1> QED
    BY <1>0, <1>3, <1>5, <1>6, StaysAtRest DEF SettledInv, ViewInv

LEMMA RemoveFinalizerStep ==
  ASSUME Settled, SettledInv, TypeOK', RemoveFinalizer
  PROVE  /\ SettledInv'
         /\ \A n \in Namespaces : copies'[n] = 0
  <1> USE DEF RemoveFinalizer
  <1>0. WorkIdle /\ seenFresh /\ ~secretQueued /\ source.deleting /\ source.finalizer
    BY SecretBusy DEF SettledInv, SecInv, SecIdle, SourceInv
  <1>1. \A n \in Namespaces : copies[n] = 0
    BY <1>0 DEF SettledInv, ListInv
  <1>2. sec'.pc = "idle"
    BY DEF UpdateSource, SetSource, SecretError, IdleSec
  <1>3. \/ source' = NoSource /\ seenFresh' = FALSE /\ secretQueued' = FALSE
        \/ source' = source /\ seenFresh' = seenFresh /\ secretQueued' = TRUE
    BY <1>0 DEF UpdateSource, SetSource, SecretError, Settled, SettledInv, TypeOK
  <1>4. \/ /\ source'.data = 0 /\ ~source'.finalizer /\ ~source'.deleting
           /\ seenFresh' = FALSE /\ secretQueued' = FALSE
        \/ source' = source /\ seenFresh' = seenFresh /\ secretQueued' = TRUE
    <2>1. NoSource.data = 0 /\ NoSource.finalizer = FALSE /\ NoSource.deleting = FALSE
      BY DEF NoSource
    <2> QED
      BY <1>3, <2>1
  <1>5. SourceInv' /\ SecInv'
    BY <1>0, <1>2, <1>4 DEF SettledInv, SourceInv, SecInv, SecIdle
  <1>6. ListInv'
    BY <1>0, <1>1, <1>2, <1>4 DEF ListInv
  <1>7. source'.data # 0 => source'.deleting
    BY <1>0, <1>4
  <1> QED
    BY <1>0, <1>1, <1>5, <1>6, <1>7, StaysAtRest DEF SettledInv, ViewInv

\* What a write of a copy does to the others.
LEMMA SetCopyEffect ==
  ASSUME TypeOK, NEW n \in Namespaces, NEW d \in 0..MaxData, SetCopy(n, d)
  PROVE  /\ copies'[n] = d
         /\ \A m \in Namespaces : m # n => copies'[m] = copies[m]
         /\ \/ UNCHANGED <<copies, stale, outdated>>
            \/ stale' = stale \cup {n} /\ outdated' = outdated \cup {n}
  BY DEF TypeOK, SetCopy

LEMMA NextListedEffect ==
  ASSUME TypeOK, NEW n, NEW last, NextListed(n, last)
  PROVE  /\ sec'.pc = IF sec.todo = {n} THEN last ELSE sec.pc
         /\ sec'.todo = sec.todo \ {n} /\ sec'.data = sec.data
  <1>1. sec \in Secs
    BY DEF TypeOK
  <1> QED
    BY <1>1 DEF NextListed, Secs

LEMMA UpdateCopyStep ==
  ASSUME Settled, SettledInv, TypeOK', NEW n \in Namespaces, UpdateCopy(n)
  PROVE  SettledInv'
  <1> USE DEF UpdateCopy
  <1>0. /\ WorkIdle /\ seenFresh /\ ~secretQueued
        /\ source.finalizer /\ ~source.deleting /\ source.data # 0 /\ sec.data = source.data
    BY SecretBusy DEF SettledInv, SecInv, SecIdle, SourceInv
  <1>1. /\ sec'.pc = IF sec.todo = {n} THEN "idle" ELSE "update"
        /\ sec'.todo = sec.todo \ {n} /\ sec'.data = sec.data
    BY NextListedEffect DEF SettledInv
  <1>2. ~Fails("update")
    BY DEF Settled, Fails
  <1>3. \A m \in Namespaces : copies[m] \notin {0, source.data} => m \in sec.todo \ outdated
    BY <1>0 DEF SettledInv, ListInv
  <1>4. \A m \in Namespaces : m \in sec.todo \ outdated => copies[m] # 0
    BY <1>0 DEF SettledInv, ListInv
  <1>5. /\ copies'[n] \in {0, source.data}
        /\ copies[n] # 0 <=> copies'[n] # 0
        /\ \A m \in Namespaces : m # n => copies'[m] = copies[m]
        /\ \/ UNCHANGED <<copies, stale, outdated>>
           \/ stale' = stale \cup {n} /\ outdated' = outdated \cup {n}
    <2>1. CASE n \notin outdated /\ SetCopy(n, sec.data)
      <3>1. sec.data \in 0..MaxData
        BY DEF SettledInv, TypeOK, Secs
      <3>2. copies[n] # 0
        BY <1>4, <2>1
      <3> QED
        BY <1>0, <2>1, <3>1, <3>2, SetCopyEffect DEF SettledInv
    <2>2. CASE n \in outdated /\ UNCHANGED <<copies, stale, outdated, errors>>
      BY <1>3, <2>2
    <2> QED
      BY <1>2, <2>1, <2>2
  <1>6. SourceInv' /\ SecInv'
    BY <1>0, <1>1 DEF SettledInv, SourceInv, SecInv, SecIdle
  <1>7. ListInv'
    <2>1. \A m \in Namespaces : m \in outdated' => m \in outdated \/ m = n
      BY <1>5
    <2>2. \A m \in Namespaces :
            copies'[m] \notin {0, source.data} => m \in sec'.todo \ outdated' /\ sec'.pc = "update"
      BY <1>1, <1>3, <1>5, <2>1
    <2>3. \A m \in Namespaces :
            sec'.pc = "update" /\ m \in sec'.todo \ outdated' => copies'[m] # 0
      BY <1>1, <1>4, <1>5
    <2> QED
      BY <1>0, <2>2, <2>3 DEF ListInv
  <1>8. ViewInv'
    BY <1>5 DEF SettledInv, ViewInv
  <1> QED
    BY <1>0, <1>5, <1>6, <1>7, <1>8, StaysAtRest DEF SettledInv

LEMMA DeleteListedStep ==
  ASSUME SettledInv, TypeOK', NEW n \in Namespaces, DeleteListed(n)
  PROVE  SettledInv'
  <1> USE DEF DeleteListed
  <1>0. WorkIdle /\ seenFresh /\ ~secretQueued /\ source.deleting /\ source.finalizer
    BY SecretBusy DEF SettledInv, SecInv, SecIdle, SourceInv
  <1>1. CASE /\ SetCopy(n, 0) /\ NextListed(n, "removeFinalizer")
             /\ UNCHANGED <<secretQueued, errors>>
    <2>1. /\ sec'.pc = IF sec.todo = {n} THEN "removeFinalizer" ELSE "delete"
          /\ sec'.todo = sec.todo \ {n}
      BY <1>1, NextListedEffect DEF SettledInv
    <2>2. /\ copies'[n] = 0
          /\ \A m \in Namespaces : m # n => copies'[m] = copies[m]
          /\ \/ UNCHANGED <<copies, stale, outdated>>
             \/ stale' = stale \cup {n}
      BY <1>1, SetCopyEffect, BoundAssumption DEF SettledInv
    <2>3. SourceInv' /\ SecInv'
      BY <1>0, <1>1, <2>1 DEF SettledInv, SourceInv, SecInv, SecIdle
    <2>4. ListInv'
      BY <1>0, <2>1, <2>2 DEF SettledInv, ListInv
    <2>5. ViewInv'
      BY <2>2 DEF SettledInv, ViewInv
    <2> QED
      BY <1>0, <2>2, <2>3, <2>4, <2>5, StaysAtRest DEF SettledInv
  <1>2. CASE SecretError /\ UNCHANGED <<copies, stale, outdated>>
    <2>1. sec'.pc = "idle" /\ secretQueued' = TRUE
      BY <1>2 DEF SecretError, IdleSec
    <2>2. SourceInv' /\ SecInv'
      BY <1>0, <1>2, <2>1 DEF SettledInv, SourceInv, SecInv, SecIdle
    <2>3. ListInv'
      BY <1>0, <1>2, <2>1 DEF SettledInv, ListInv
    <2> QED
      BY <1>0, <1>2, <2>2, <2>3, StaysAtRest DEF SettledInv, ViewInv
  <1> QED
    BY <1>1, <1>2

-----------------------------------------------------------------------------
(* The deployment and stateful-set reconcilers.                            *)

LEMMA ReconcileStep ==
  ASSUME SettledInv, TypeOK', NEW w \in Workloads, Reconcile(w)
  PROVE  SettledInv'
  <1> DEFINE k == WorkerOf(w)
  <1> USE DEF apiVars, cacheVars, boundVars
  <1>0. w \in queue /\ queue = {w} /\ ~WorkIdle /\ k \in Workers
        /\ \A l \in Workers : job[l].pc = "idle"
    BY QueuedAlone, WorkerOfType DEF Reconcile, WorkIdle
  <1>1. SecIdle /\ stale = {} /\ seen = source /\ \A n \in Namespaces : view[n] = copies[n]
    BY <1>0, WorkloadBusy DEF SecIdle
  <1>2. UNCHANGED <<source, copies, seen, seenFresh, view, stale, wl, pods, secretQueued,
                    sec, outdated>>
    BY DEF Reconcile
  <1>3. SourceInv' /\ SecInv' /\ ViewInv' /\ ListInv'
    BY <1>2 DEF SettledInv, SourceInv, SecInv, ViewInv, ListInv, SecIdle
  <1>4. SecIdle' /\ stale' = {}
    BY <1>1, <1>2 DEF SecIdle
  <1>5. NsOf[w] \in Namespaces /\ job \in [Workers -> Jobs]
    BY WorkloadAssumption DEF SettledInv, TypeOK
  <1>6. \A v \in Workloads : Leaving(v) => v = w
    BY <1>0, WorkerOfType DEF Leaving
  <1>7. \A v \in Workloads :
          Served(v) /\ source.data # 0 /\ ~source.deleting => v = w \/ copies[NsOf[v]] # 0
    BY <1>0, WorkerOfType DEF SettledInv, TargetInv
  <1> HIDE DEF k
  <1>8. ASSUME queue' = queue \ {w}, UNCHANGED job,
               Served(w) => copies[NsOf[w]] # 0,
               Leaving(w) => \E v \in Workloads : NsOf[v] = NsOf[w] /\ wl[v] = "target"
        PROVE  WorkInv' /\ TargetInv' /\ OrphanInv'
    <2>1. WorkInv'
      BY <1>0, <1>4, <1>8 DEF WorkInv
    <2>2. TargetInv'
      BY <1>2, <1>7, <1>8 DEF TargetInv, Served
    <2>3. OrphanInv'
      <3>1. \A n \in Namespaces : copies[n] # 0 =>
              \E v \in Workloads : NsOf[v] = n /\ wl[v] = "target"
        BY <1>6, <1>8 DEF SettledInv, OrphanInv
      <3> QED
        BY <1>2, <3>1 DEF OrphanInv
    <2> QED
      BY <2>1, <2>2, <2>3
  <1>9. ASSUME NEW j \in Jobs, queue' = queue \ {w}, job' = [job EXCEPT ![k] = j],
               j.pc # "idle", j.w = w,
               j.pc = "create" => wl[w] = "target" /\ j.data = source.data,
               j.pc = "delete" => /\ wl[w] \in {"other", "terminating"}
                                  /\ ~hasMatchedTargetInNamespace(w)
        PROVE  WorkInv' /\ TargetInv' /\ OrphanInv'
    <2>1. job'[k] = j /\ \A l \in Workers : l # k => job'[l].pc = "idle"
      BY <1>0, <1>5, <1>9
    <2>2. queue' = {}
      BY <1>0, <1>9
    <2>3. j.pc \in {"create", "delete"}
      BY <1>9, JobTypes
    <2>4. hasMatchedTargetInNamespace(w)' <=> hasMatchedTargetInNamespace(w)
      BY <1>2 DEF hasMatchedTargetInNamespace
    <2>5. WorkInv'
      <3>1. \A l \in Workers : job'[l].pc # "idle" => l = k
        BY <2>1
      <3>2. job'[k].pc = "delete" => ~hasMatchedTargetInNamespace(job[k].w)'
        BY <1>9, <2>1, <2>4
      <3> QED
        BY <1>2, <1>4, <1>9, <2>1, <2>2, <3>1, <3>2 DEF WorkInv
    <2>6. TargetInv'
      <3> SUFFICES ASSUME Served(w)
                   PROVE  job'[WorkerOf(w)].pc = "create" /\ job'[WorkerOf(w)].w = w
        BY <1>2, <1>7 DEF TargetInv, Served
      <3> QED
        BY <1>9, <2>1, <2>3 DEF Served, k
    <2>7. Leaving(w) => Leaving(w)'
      <3> SUFFICES ASSUME Leaving(w) PROVE job'[WorkerOf(w)].pc = "delete" /\ job'[WorkerOf(w)].w = w
        BY <1>2 DEF Leaving
      <3> QED
        BY <1>9, <2>1, <2>3 DEF Leaving, k
    <2>8. OrphanInv'
      BY <1>2, <1>6, <2>7 DEF SettledInv, OrphanInv
    <2> QED
      BY <2>5, <2>6, <2>8
  <1>10. CASE wl[w] = "absent" /\ queue' = queue \ {w} /\ UNCHANGED job
    <2>1. ~Served(w) /\ ~Leaving(w)
      BY <1>10 DEF Served, Leaving
    <2> QED
      BY <1>3, <1>8, <1>10, <2>1 DEF SettledInv
  <1>11. CASE wl[w] \in {"other", "terminating"} /\ cleanupRegistrySecretIfLastTarget(w)
    <2>1. ~Served(w)
      BY <1>11 DEF Served
    <2>2. CASE hasMatchedTargetInNamespace(w)
      <3>1. Leaving(w) => \E v \in Workloads : NsOf[v] = NsOf[w] /\ wl[v] = "target"
        BY <2>2 DEF hasMatchedTargetInNamespace, Leaving
      <3>2. queue' = queue \ {w} /\ UNCHANGED job
        BY <1>11, <2>2 DEF cleanupRegistrySecretIfLastTarget
      <3> QED
        BY <1>3, <1>8, <2>1, <3>1, <3>2 DEF SettledInv
    <2>3. CASE ~hasMatchedTargetInNamespace(w)
      <3> DEFINE j == [pc |-> "delete", w |-> w]
      <3>1. j \in Jobs /\ j.pc = "delete" /\ j.w = w
        BY JobMade
      <3>2. queue' = queue \ {w} /\ job' = [job EXCEPT ![k] = j]
        BY <1>11, <2>3 DEF cleanupRegistrySecretIfLastTarget, k
      <3> HIDE DEF j
      <3> QED
        BY <1>3, <1>9, <1>11, <2>3, <3>1, <3>2 DEF SettledInv
    <2> QED
      BY <2>2, <2>3
  <1>12. CASE wl[w] = "target" /\ w \notin pods /\ queue' = queue \ {w} /\ UNCHANGED job
    <2>1. ~Served(w) /\ ~Leaving(w)
      BY <1>12 DEF Served, Leaving
    <2> QED
      BY <1>3, <1>8, <1>12, <2>1 DEF SettledInv
  <1>13. CASE wl[w] = "target" /\ w \in pods /\ ensureRegistrySecret(w)
    <2>0. ~Leaving(w)
      BY <1>13 DEF Leaving
    <2>1. CASE view[NsOf[w]] # 0 /\ queue' = queue \ {w} /\ UNCHANGED job
      BY <1>1, <1>3, <1>5, <1>8, <2>0, <2>1 DEF SettledInv
    <2>2. CASE UNCHANGED <<queue, job>>
      BY <1>2, <1>3, <2>2 DEF SettledInv, WorkInv, WorkIdle, SecIdle, TargetInv, Served,
                              OrphanInv, Leaving, hasMatchedTargetInNamespace
    <2>3. CASE /\ seen.data # 0 /\ queue' = queue \ {w}
               /\ job' = [job EXCEPT ![WorkerOf(w)] = [pc |-> "create", w |-> w, data |-> seen.data]]
      <3> DEFINE j == [pc |-> "create", w |-> w, data |-> seen.data]
      <3>1. seen.data \in 1..MaxData
        BY <2>3 DEF SettledInv, TypeOK, Source
      <3>2. j \in Jobs /\ j.pc = "create" /\ j.w = w /\ j.data = seen.data
        BY <3>1, JobMade
      <3>3. job' = [job EXCEPT ![k] = j]
        BY <2>3 DEF k
      <3> HIDE DEF j
      <3> QED
        BY <1>1, <1>3, <1>9, <1>13, <2>3, <3>2, <3>3 DEF SettledInv
    <2> QED
      BY <1>13, <2>1, <2>2, <2>3 DEF ensureRegistrySecret
  <1> QED
    BY <1>10, <1>11, <1>12, <1>13 DEF Reconcile

\* What the two steps of a worker have in common: it rests when its call succeeds,
\* and its workload, alone, is queued again when the call fails.
LEMMA WorkerRests ==
  ASSUME SettledInv, NEW k \in Workers, job[k].pc # "idle", Return(k)
  PROVE  /\ WorkIdle' /\ queue' = {}
         /\ \A l \in Workers : job'[l].pc = "idle"
  <1>1. queue = {} /\ \A l \in Workers : l # k => job[l].pc = "idle"
    BY WorkerAlone
  <1>2. \A l \in Workers : job'[l].pc = "idle"
    BY <1>1 DEF Return, SettledInv, TypeOK, IdleJob
  <1> QED
    BY <1>1, <1>2 DEF WorkIdle, Return

LEMMA WorkerRetries ==
  ASSUME SettledInv, NEW k \in Workers, job[k].pc # "idle", ReturnError(k)
  PROVE  /\ queue' = {job[k].w}
         /\ \A l \in Workers : job'[l].pc = "idle"
  <1>1. queue = {} /\ \A l \in Workers : l # k => job[l].pc = "idle"
    BY WorkerAlone
  <1>2. \A l \in Workers : job'[l].pc = "idle"
    BY <1>1 DEF ReturnError, SettledInv, TypeOK, IdleJob
  <1> QED
    BY <1>1, <1>2 DEF ReturnError

\* The worker's workload is the only one that can be leaving or waiting for a copy.
LEMMA OneWaiting ==
  ASSUME SettledInv, NEW k \in Workers, job[k].pc # "idle"
  PROVE  /\ \A v \in Workloads : Leaving(v) => v = job[k].w /\ job[k].pc = "delete"
         /\ \A v \in Workloads :
              Served(v) /\ source.data # 0 /\ ~source.deleting =>
                \/ copies[NsOf[v]] # 0
                \/ v = job[k].w /\ job[k].pc = "create"
  <1>1. queue = {} /\ \A l \in Workers : l # k => job[l].pc = "idle"
    BY WorkerAlone
  <1>2. \A v \in Workloads : WorkerOf(v) = k \/ job[WorkerOf(v)].pc = "idle"
    BY <1>1, WorkerOfType
  <1>3. \A v \in Workloads : Leaving(v) => v = job[k].w /\ job[k].pc = "delete"
    BY <1>1, <1>2 DEF Leaving
  <1> QED
    BY <1>1, <1>2, <1>3 DEF SettledInv, TargetInv

\* A failed call changes nothing but who works: the queue holds the workload.
LEMMA FailedCall ==
  ASSUME SettledInv, TypeOK', NEW k \in Workers, job[k].pc # "idle", ReturnError(k),
         UNCHANGED <<source, seen, seenFresh, copies, view, stale, outdated, wl, pods,
                     secretQueued, sec>>
  PROVE  SettledInv'
  <1>0. ~WorkIdle
    BY DEF WorkIdle
  <1>1. SecIdle /\ stale = {}
    BY <1>0, WorkloadBusy DEF SecIdle
  <1>2. queue' = {job[k].w} /\ \A l \in Workers : job'[l].pc = "idle"
    BY WorkerRetries
  <1>3. SourceInv' /\ SecInv' /\ ViewInv' /\ ListInv'
    BY DEF SettledInv, SourceInv, SecInv, ViewInv, ListInv, SecIdle
  <1>4. WorkInv'
    BY <1>1, <1>2 DEF WorkInv, SecIdle
  <1>5. TargetInv'
    BY <1>2, OneWaiting DEF TargetInv, Served
  <1>6. \A v \in Workloads : Leaving(v) => Leaving(v)'
    BY <1>2, OneWaiting DEF Leaving
  <1>7. OrphanInv'
    BY <1>6 DEF SettledInv, OrphanInv
  <1> QED
    BY <1>3, <1>4, <1>5, <1>7 DEF SettledInv

LEMMA CreateCopyStep ==
  ASSUME SettledInv, TypeOK', NEW k \in Workers, CreateCopy(k)
  PROVE  SettledInv'
  <1> DEFINE w == job[k].w
             n == NsOf[w]
  <1>0. job[k].pc = "create" /\ job[k].pc # "idle" /\ ~WorkIdle
    BY DEF CreateCopy, WorkIdle
  <1>1. w \in Workloads /\ n \in Namespaces /\ wl[w] = "target" /\ job[k].data = source.data
    BY <1>0, WorkerAlone DEF SettledInv, WorkInv
  <1>2. source.data # 0 /\ source.data \in 0..MaxData
    BY <1>0, <1>1, JobTypes DEF SettledInv, TypeOK, Source
  <1>3. /\ seenFresh = TRUE /\ secretQueued = FALSE /\ sec.pc = "idle" /\ stale = {}
        /\ ~source.deleting /\ source.finalizer
    BY <1>0, <1>2, WorkloadBusy
  <1>4. CASE /\ IF copies[n] = 0 THEN SetCopy(n, job[k].data)
                ELSE UNCHANGED <<copies, stale, outdated>>
             /\ Return(k)
    <2> USE DEF CreateCopy
    <2>1. /\ copies'[n] # 0 /\ copies'[n] \in {copies[n], source.data}
          /\ \A m \in Namespaces : m # n => copies'[m] = copies[m]
          /\ UNCHANGED <<copies, stale>> \/ stale' = {n}
      <3> HIDE DEF n
      <3> QED
        BY <1>1, <1>2, <1>3, <1>4, SetCopyEffect DEF SettledInv
    <2>2. WorkIdle' /\ queue' = {} /\ \A l \in Workers : job'[l].pc = "idle"
      BY <1>0, <1>4, WorkerRests
    <2>3. SourceInv' /\ SecInv'
      BY DEF SettledInv, SourceInv, SecInv, SecIdle
    <2>4. WorkInv'
      BY <2>2 DEF WorkInv
    <2>5. ViewInv'
      BY <1>3, <2>1 DEF SettledInv, ViewInv
    <2>6. ListInv'
      <3>1. \A m \in Namespaces : copies[m] \in {0, source.data}
        BY <1>3 DEF SettledInv, ListInv, SecIdle
      <3>2. \A m \in Namespaces : copies'[m] \in {0, source.data}
        BY <2>1, <3>1
      <3> QED
        BY <1>3, <3>2 DEF ListInv
    <2>7. TargetInv'
      BY <1>0, <1>3, <2>1, OneWaiting, WorkloadAssumption DEF TargetInv, Served
    <2>8. OrphanInv'
      BY <1>0, <1>1, <2>1, OneWaiting DEF SettledInv, OrphanInv
    <2> QED
      BY <2>3, <2>4, <2>5, <2>6, <2>7, <2>8 DEF SettledInv
  <1>5. CASE ReturnError(k) /\ UNCHANGED <<copies, stale, outdated>>
    BY <1>0, <1>5, FailedCall DEF CreateCopy
  <1> QED
    BY <1>4, <1>5 DEF CreateCopy

LEMMA DeleteCopyStep ==
  ASSUME SettledInv, TypeOK', NEW k \in Workers, DeleteCopy(k)
  PROVE  SettledInv'
  <1> DEFINE w == job[k].w
             n == NsOf[w]
  <1>0. job[k].pc = "delete" /\ job[k].pc # "idle" /\ ~WorkIdle
    BY DEF DeleteCopy, WorkIdle
  <1>1. /\ w \in Workloads /\ n \in Namespaces /\ wl[w] \in {"other", "terminating"}
        /\ ~hasMatchedTargetInNamespace(w)
    BY <1>0, WorkerAlone DEF SettledInv, WorkInv
  <1>2. /\ seenFresh = TRUE /\ secretQueued = FALSE /\ sec.pc = "idle" /\ stale = {}
        /\ ~source.deleting /\ (source.data # 0 => source.finalizer)
    BY <1>0, WorkloadBusy
  <1>3. CASE SetCopy(n, 0) /\ Return(k)
    <2> USE DEF DeleteCopy
    <2>1. /\ copies'[n] = 0
          /\ \A m \in Namespaces : m # n => copies'[m] = copies[m]
          /\ UNCHANGED <<copies, stale>> \/ stale' = {n}
      <3>1. 0 \in 0..MaxData
        BY BoundAssumption
      <3> HIDE DEF n
      <3> QED
        BY <1>1, <1>2, <1>3, <3>1, SetCopyEffect DEF SettledInv
    <2>2. WorkIdle' /\ queue' = {} /\ \A l \in Workers : job'[l].pc = "idle"
      BY <1>0, <1>3, WorkerRests
    <2>3. SourceInv' /\ SecInv'
      BY DEF SettledInv, SourceInv, SecInv, SecIdle
    <2>4. WorkInv'
      BY <2>2 DEF WorkInv
    <2>5. ViewInv'
      BY <1>2, <2>1 DEF SettledInv, ViewInv
    <2>6. ListInv'
      <3>1. \A m \in Namespaces : copies[m] \in {0, source.data}
        BY <1>2 DEF SettledInv, ListInv, SecIdle
      <3>2. \A m \in Namespaces : copies'[m] = 0 \/ copies'[m] = copies[m]
        BY <2>1
      <3>3. \A m \in Namespaces : ~source.finalizer =>
              copies[m] = 0 /\ (source.data # 0 => view[m] = 0)
        BY DEF SettledInv, ListInv
      <3> QED
        BY <1>2, <3>1, <3>2, <3>3 DEF ListInv
    <2>7. TargetInv'
      <3>1. \A v \in Workloads : Served(v) => NsOf[v] # n
        BY <1>1 DEF Served, hasMatchedTargetInNamespace
      <3> QED
        BY <1>0, <1>2, <2>1, <3>1, OneWaiting, WorkloadAssumption DEF TargetInv, Served
    <2>8. OrphanInv'
      BY <1>0, <1>1, <2>1, OneWaiting DEF SettledInv, OrphanInv
    <2> QED
      BY <2>3, <2>4, <2>5, <2>6, <2>7, <2>8 DEF SettledInv
  <1>4. CASE ReturnError(k) /\ UNCHANGED <<copies, stale, outdated>>
    BY <1>0, <1>4, FailedCall DEF DeleteCopy
  <1> QED
    BY <1>3, <1>4 DEF DeleteCopy

-----------------------------------------------------------------------------
(* Users, operators and the controllers of Kubernetes.                     *)

LEMMA QuietIdle ==
  ASSUME SettledInv, Quiet
  PROVE  /\ WorkIdle /\ SecIdle /\ stale = {} /\ queue = {} /\ sec.pc = "idle"
         /\ seenFresh = TRUE /\ secretQueued = FALSE
         /\ \A k \in Workers : job[k].pc = "idle"
         /\ source.data # 0 => source.finalizer /\ ~source.deleting
         /\ \A n \in Namespaces : view[n] = copies[n]
         /\ ~source.deleting => \A n \in Namespaces : copies[n] \in {0, source.data}
  <1>1. /\ WorkIdle /\ SecIdle /\ stale = {} /\ queue = {} /\ sec.pc = "idle"
        /\ \A k \in Workers : job[k].pc = "idle"
    BY DEF Quiet, WorkIdle, SecIdle
  <1>2. seenFresh = TRUE /\ secretQueued = FALSE
    BY DEF Quiet, SettledInv, TypeOK
  <1>3. source.data # 0 => source.finalizer /\ ~source.deleting
    BY <1>1 DEF SettledInv, SourceInv
  <1>4. \A n \in Namespaces : view[n] = copies[n]
    BY <1>1 DEF SettledInv, ViewInv
  <1>5. ~source.deleting => \A n \in Namespaces : copies[n] \in {0, source.data}
    BY <1>1 DEF SettledInv, ListInv
  <1> QED
    BY <1>1, <1>2, <1>3, <1>4, <1>5

LEMMA ChangeWhenSettled ==
  ASSUME Settled, NEW c, Change(c)
  PROVE  Quiet /\ c \in Changes /\ \A w \in Workloads : wl[w] # "terminating"
  BY DEF Settled, Change

LEMMA ChangeSourceStep ==
  ASSUME Settled, SettledInv, TypeOK', ChangeSource
  PROVE  SettledInv'
  <1> USE DEF ChangeSource
  <1>0. Quiet /\ "recreateSource" \notin Changes
    BY ChangeWhenSettled DEF Settled
  <1>1. source \in Source /\ sec \in Secs /\ source.data \in 0..MaxData
    BY DEF SettledInv, TypeOK, Source
  <1>2. /\ seenFresh' = FALSE /\ sec'.pc = "idle"
        /\ source'.finalizer = TRUE
        /\ source'.data # 0 /\ source.data # 0
    <2>1. CASE /\ source.data # 0 /\ source.data < MaxData
               /\ SetSource([source EXCEPT !.data = @ + 1], sec)
      <3>1. sec'.pc = "idle" /\ seenFresh' = FALSE
        BY <1>0, <1>1, <2>1, QuietIdle DEF SetSource, Secs, Settled
      <3>2. source'.data = source.data + 1 /\ source'.finalizer = source.finalizer
        BY <1>1, <2>1 DEF SetSource, Source
      <3>3. source.finalizer = TRUE
        BY <1>0, <1>1, <2>1, QuietIdle DEF Source
      <3>4. source'.data # 0
        BY <1>1, <3>2
      <3> QED
        BY <2>1, <3>1, <3>2, <3>3, <3>4
    <2>2. CASE /\ source.data # 0
               /\ SetSource(IF source.finalizer THEN [source EXCEPT !.deleting = TRUE]
                            ELSE NoSource, sec)
      <3>1. source.finalizer = TRUE
        BY <1>0, <1>1, <2>2, QuietIdle DEF Source
      <3>2. source' = [source EXCEPT !.deleting = TRUE]
        BY <2>2, <3>1 DEF SetSource
      <3>3. source'.data = source.data /\ source'.finalizer = source.finalizer
        BY <1>1, <3>2 DEF Source
      <3>4. sec'.pc = "idle" /\ seenFresh' = FALSE
        BY <1>0, <1>1, <2>2, QuietIdle DEF SetSource, Secs, Settled
      <3> QED
        BY <2>2, <3>1, <3>3, <3>4
    <2>3. CASE Change("recreateSource")
      BY <1>0, <2>3 DEF Change
    <2> QED
      BY <2>1, <2>2, <2>3
  <1>3. SourceInv' /\ SecInv'
    BY <1>0, <1>2, QuietIdle DEF SourceInv, SecInv, SecIdle
  <1>4. ViewInv'
    BY DEF SettledInv, ViewInv
  <1>5. ListInv'
    <2>1. ~SecIdle'
      BY <1>2 DEF SecIdle
    <2>2. \A n \in Namespaces : n \notin stale' /\ view'[n] = copies'[n]
      BY <1>0, QuietIdle
    <2> QED
      BY <1>2, <2>1, <2>2 DEF ListInv
  <1> QED
    BY <1>0, <1>2, <1>3, <1>4, <1>5, QuietIdle, StaysAtRest DEF SettledInv

\* A step that starts from rest and hands one workload to its controller.
LEMMA OneQueued ==
  ASSUME SettledInv, TypeOK', Quiet, NEW w \in Workloads, queue' = queue \cup {w},
         UNCHANGED <<source, seen, seenFresh, copies, view, stale, outdated, job,
                     secretQueued, sec>>,
         \A v \in Workloads : v # w => (Served(v)' => Served(v)),
         \A v \in Workloads : wl[v] = "target" => wl'[v] = "target" \/ Leaving(v)'
  PROVE  SettledInv'
  <1>0. queue' = {w}
    BY QuietIdle
  <1>1. SourceInv' /\ SecInv' /\ ViewInv' /\ ListInv'
    BY DEF SettledInv, SourceInv, SecInv, ViewInv, ListInv, SecIdle
  <1>2. WorkInv'
    BY <1>0, QuietIdle DEF WorkInv, SecIdle
  <1>3. TargetInv'
    BY <1>0, QuietIdle, AtRest DEF TargetInv
  <1>4. OrphanInv'
    BY QuietIdle, AtRest DEF OrphanInv
  <1> QED
    BY <1>1, <1>2, <1>3, <1>4 DEF SettledInv

LEMMA ChangeWorkloadStep ==
  ASSUME Settled, SettledInv, TypeOK', NEW w \in Workloads, ChangeWorkload(w)
  PROVE  SettledInv'
  <1> USE DEF apiVars
  <1>0. Quiet /\ \A v \in Workloads : wl[v] # "terminating"
    BY ChangeWhenSettled DEF ChangeWorkload
  <1>1. ~Change("relabel") /\ ~Change("deleteBackground")
    BY DEF Settled, Change
  <1>2. queue' = queue \cup {w}
    BY <1>1 DEF ChangeWorkload
  <1>3. \A v \in Workloads : v # w => wl'[v] = wl[v] /\ (v \in pods' <=> v \in pods)
    BY <1>1 DEF ChangeWorkload, SettledInv, TypeOK
  <1>4. wl[w] = "target" => wl'[w] \in {"target", "other", "terminating"}
    BY <1>1 DEF ChangeWorkload, SettledInv, TypeOK
  <1>5. \A v \in Workloads : v # w => (Served(v)' => Served(v))
    BY <1>3 DEF Served
  <1>6. \A v \in Workloads : wl[v] = "target" => wl'[v] = "target" \/ Leaving(v)'
    <2>1. wl[w] = "target" => wl'[w] = "target" \/ Leaving(w)'
      BY <1>0, <1>2, <1>3, <1>4 DEF Leaving
    <2> QED
      BY <1>3, <2>1
  <1> QED
    BY <1>0, <1>2, <1>5, <1>6, OneQueued DEF ChangeWorkload

LEMMA WorkloadEventStep ==
  ASSUME Settled, SettledInv, TypeOK', NEW w \in Workloads, OwnedEvent(w) \/ Gone(w)
  PROVE  SettledInv'
  <1> USE DEF apiVars, cacheVars, boundVars
  <1>0. Quiet /\ queue' = queue \cup {w}
    BY DEF OwnedEvent, Gone, Settled
  <1>1. \A v \in Workloads : v # w => wl'[v] = wl[v] /\ (v \in pods' <=> v \in pods)
    BY DEF OwnedEvent, Gone, SettledInv, TypeOK
  <1>2. wl[w] = "target" => wl'[w] = "target"
    BY DEF OwnedEvent, Gone
  <1>3. \A v \in Workloads : v # w => (Served(v)' => Served(v))
    BY <1>1 DEF Served
  <1>4. \A v \in Workloads : wl[v] = "target" => wl'[v] = "target" \/ Leaving(v)'
    BY <1>1, <1>2
  <1> QED
    BY <1>0, <1>3, <1>4, OneQueued DEF OwnedEvent, Gone

-----------------------------------------------------------------------------
(* The invariant, and what follows from it.                                *)

LEMMA InitSettled ==
  ASSUME Settled, Init PROVE SettledInv
  <1>1. TypeOK
    BY InitType
  <1>2. /\ source.data = 1 /\ ~source.deleting /\ ~source.finalizer /\ seen = source
        /\ secretQueued = TRUE /\ sec.pc = "idle" /\ seenFresh = TRUE /\ stale = {}
    BY DEF Init, NewSource, Cached, Settled, IdleSec
  <1>3. WorkIdle /\ queue = {} /\ \A k \in Workers : job[k].pc = "idle"
    BY DEF Init, WorkIdle, IdleJob
  <1>4. \A n \in Namespaces : copies[n] = 0 /\ view[n] = 0
    BY DEF Init
  <1>5. \A w \in Workloads : ~Served(w)
    BY DEF Init, Served
  <1>6. SourceInv /\ SecInv
    BY <1>2 DEF SourceInv, SecInv, SecIdle
  <1>7. WorkInv
    BY <1>3 DEF WorkInv
  <1>8. ViewInv /\ ListInv
    BY <1>2, <1>4 DEF ViewInv, ListInv
  <1>9. TargetInv /\ OrphanInv
    BY <1>4, <1>5 DEF TargetInv, OrphanInv
  <1> QED
    BY <1>1, <1>6, <1>7, <1>8, <1>9 DEF SettledInv

LEMMA StepSettled ==
  ASSUME Settled, SettledInv, [Next]_vars PROVE SettledInv'
  <1>0. TypeOK'
    BY TypeStep DEF SettledInv
  <1>1. CASE UNCHANGED vars
    <2>1. SourceInv' /\ SecInv' /\ ViewInv' /\ ListInv'
      BY <1>1 DEF vars, apiVars, cacheVars, workVars, boundVars,
                  SettledInv, SourceInv, SecInv, ViewInv, ListInv, SecIdle
    <2>2. WorkInv'
      BY <1>1 DEF vars, apiVars, cacheVars, workVars, boundVars,
                  SettledInv, WorkInv, WorkIdle, SecIdle, hasMatchedTargetInNamespace
    <2>3. TargetInv' /\ OrphanInv'
      BY <1>1 DEF vars, apiVars, cacheVars, workVars, boundVars,
                  SettledInv, TargetInv, Served, OrphanInv, Leaving
    <2> QED
      BY <1>0, <2>1, <2>2, <2>3 DEF SettledInv
  <1>2. ~Restart
    BY DEF Restart, Change, Settled
  <1>3. CASE Next
    BY <1>0, <1>2, <1>3, CacheCopyStep, UpdateCopyStep, DeleteListedStep, ReconcileStep,
       ChangeWorkloadStep, WorkloadEventStep, CreateCopyStep, DeleteCopyStep,
       CacheSourceStep, SecretReconcileStep, AddFinalizerStep, RemoveFinalizerStep,
       ChangeSourceStep DEF Next
  <1> QED
    BY <1>1, <1>3

LEMMA SettledInvariant ==
  ASSUME Settled PROVE Spec => []SettledInv
  <1>1. Init => SettledInv
    BY InitSettled
  <1>2. SettledInv /\ [Next]_vars => SettledInv'
    BY StepSettled
  <1> QED
    BY <1>1, <1>2, PTL DEF Spec

\* Neither workload controller takes the copy from a target of the other's, or of
\* its own, when another target of the namespace leaves: whenever they are idle and
\* the source is there, ensureRegistrySecret has left a copy for every target with
\* injected pods, whichever creations, deletions and finalizer updates failed on the
\* way; for any sets of deployments, stateful sets and namespaces, if each change is
\* dealt with before the next.
THEOREM CopyForEveryTargetHolds ==
  ASSUME Settled PROVE Spec => []CopyForEveryTarget
  <1>1. SettledInv => CopyForEveryTarget
    BY QuietIdle, AtRest DEF CopyForEveryTarget
  <1> QED
    BY <1>1, SettledInvariant, PTL

\* cleanupRegistrySecretIfLastTarget leaves no copy behind: whenever the controllers
\* are idle, a namespace with a copy has a workload that matches.
THEOREM NoCopyWithoutTargetHolds ==
  ASSUME Settled PROVE Spec => []NoCopyWithoutTarget
  <1>1. SettledInv => NoCopyWithoutTarget
    BY QuietIdle, AtRest DEF NoCopyWithoutTarget
  <1> QED
    BY <1>1, SettledInvariant, PTL

\* A rotation reaches every copy: whenever the controllers are idle, no copy holds
\* contents other than those of the source.
THEOREM CopiesCurrentHolds ==
  ASSUME Settled PROVE Spec => []CopiesCurrent
  <1>1. SettledInv => CopiesCurrent
    BY QuietIdle DEF CopiesCurrent
  <1> QED
    BY <1>1, SettledInvariant, PTL

\* The image-pull-secret reconciler releases the source only when
\* deletePropagatedSecrets has deleted every copy.
THEOREM NoCopyOfReleasedSourceHolds ==
  ASSUME Settled PROVE Spec => NoCopyOfReleasedSource
  <1>1. SettledInv /\ [Next]_vars =>
          [RemoveFinalizer /\ source'.data = 0 => \A n \in Namespaces : copies'[n] = 0]_vars
    BY TypeStep, RemoveFinalizerStep DEF SettledInv
  <1> QED
    BY <1>1, SettledInvariant, PTL DEF Spec, NoCopyOfReleasedSource
=============================================================================
