--------------------------- MODULE GatewayProofs ---------------------------
(***************************************************************************)
(* Proofs about Gateway, for any names, configurations, edits and errors:  *)
(* the reconciler writes no gateway but the configured one, and only one   *)
(* that bears its label at that moment; and its clean-up is never reached. *)
(***************************************************************************)
EXTENDS Gateway, TLAPS

\* A request is queued, or will be, only in a process that was started with a
\* managed gateway.
RequestInv == queued \/ timer => up /\ IsManagedGatewayEnabled(Conf)

GatewayInv == TypeOK /\ DOMAIN view = Names /\ RequestInv

-----------------------------------------------------------------------------
(* Lemmas about the operators.                                             *)

\* The cache never shows a gateway without the label.
LEMMA ShownOwned == \A g : Shown(g) = NoGateway \/ Shown(g).owned
  BY DEF Shown

\* What the cache shows of a gateway that it lets through is the gateway.
LEMMA ShownFaithful == \A g : Shown(g) # NoGateway => g.owned
  BY DEF Shown

\* The managed gateway has one of the names.
LEMMA NameType == \A c \in DOMAIN Confs : GatewayName(Confs[c]) \in Names
  BY GatewayAssumption DEF GatewayName

\* A store leaves the cache right about what it is still fresh for.
LEMMA StoreKeeps ==
  ASSUME NEW n \in Names, NEW g, DOMAIN gws = Names, fresh \subseteq Names,
         \A m \in fresh : view[m] = Shown(gws[m]), Store(n, g)
  PROVE  /\ DOMAIN gws' = Names /\ fresh' \subseteq Names
         /\ \A m \in fresh' : view[m] = Shown(gws'[m])
         /\ \A m \in Names : gws'[m] # gws[m] => m = n
  BY DEF Store

\* CreateOrUpdate writes one gateway: of a name that is not there, or of the
\* version in the cache, which has the label.
LEMMA CreateOrUpdateFacts ==
  ASSUME TypeOK, NEW n \in Names, NEW g, CreateOrUpdate(n, g)
  PROVE  /\ DOMAIN gws' = Names /\ fresh' \subseteq Names
         /\ \A m \in fresh' : view[m] = Shown(gws'[m])
         /\ \A m \in Names : gws'[m] # gws[m]
              => m = n /\ (gws[m] = NoGateway \/ gws[m].owned)
         /\ queued' \in BOOLEAN /\ errors' \in 0..MaxErrors
<1>1. CASE UNCHANGED <<gws, fresh>>
  <2>1. queued' \in BOOLEAN
    BY DEF CreateOrUpdate
  <2>2. errors' \in 0..MaxErrors
    BY GatewayAssumption DEF CreateOrUpdate, Fails, TypeOK
  <2>3. QED
    BY <1>1, <2>1, <2>2 DEF TypeOK
<1>2. CASE /\ Store(n, Defaulted(g)) /\ queued' \in BOOLEAN /\ UNCHANGED errors
           /\ IF view[n] = NoGateway THEN gws[n] = NoGateway ELSE n \in fresh
  <2>1. gws[n] = NoGateway \/ gws[n].owned
    BY <1>2, ShownFaithful DEF TypeOK
  <2>2. QED
    BY <1>2, <2>1, StoreKeeps DEF TypeOK
<1>3. CASE /\ IF /\ view[n] = NoGateway \/ view[n] # g
                 /\ ~(IF view[n] = NoGateway THEN gws[n] # NoGateway ELSE n \notin fresh)
              THEN Store(n, Defaulted(g)) ELSE UNCHANGED <<gws, fresh>>
           /\ queued' \in BOOLEAN /\ UNCHANGED errors
  BY <1>1, <1>2, <1>3
<1>4. CASE Fails
  BY <1>1, <1>4 DEF Fails
<1>5. QED
  BY <1>3, <1>4 DEF CreateOrUpdate

-----------------------------------------------------------------------------
(* One lemma per action.                                                   *)

LEMMA InitInv == Init => GatewayInv
<1> SUFFICES ASSUME Init PROVE GatewayInv
  OBVIOUS
<1>1. up \in BOOLEAN /\ queued \in BOOLEAN /\ timer \in BOOLEAN /\ routing \in BOOLEAN
  BY DEF Init
<1>2. changes \in 0..MaxChanges /\ errors \in 0..MaxErrors
  BY GatewayAssumption DEF Init
<1>3. /\ conf \in DOMAIN Confs /\ DOMAIN gws = Names /\ fresh = {}
      /\ DOMAIN view = Names /\ \A n \in Names : view[n] = NoGateway
  BY DEF Init
<1>4. QED
  BY <1>1, <1>2, <1>3 DEF Init, GatewayInv, TypeOK, RequestInv

\* Reconcile: what it may write, in a state that satisfies the invariant.
LEMMA ReconcileFacts ==
  ASSUME GatewayInv, Reconcile
  PROVE  /\ IsManagedGatewayEnabled(Conf)
         /\ DOMAIN gws' = Names /\ fresh' \subseteq Names
         /\ \A m \in fresh' : view[m] = Shown(gws'[m])
         /\ \A m \in Names : gws'[m] # gws[m]
              => m = GatewayName(Conf) /\ (gws[m] = NoGateway \/ gws[m].owned)
         /\ queued' \in BOOLEAN /\ errors' \in 0..MaxErrors
         /\ timer' \in BOOLEAN
         /\ UNCHANGED <<up, conf, view, route, routing, changes>>
<1>1. /\ IsManagedGatewayEnabled(Conf) /\ reconcileGateway(Conf)
      /\ timer' = (timer \/ ~queued')
      /\ UNCHANGED <<up, conf, view, route, routing, changes>>
  BY DEF Reconcile, GatewayInv, RequestInv
<1>2. GatewayName(Conf) \in Names /\ TypeOK
  BY NameType DEF Conf, GatewayInv, TypeOK
<1>3. CASE Conf.class = None
  BY <1>1, <1>2, <1>3 DEF reconcileGateway, TypeOK
<1>4. CASE CreateOrUpdate(GatewayName(Conf), Desired(Conf))
  BY <1>1, <1>2, <1>4, CreateOrUpdateFacts
<1>5. QED
  BY <1>1, <1>3, <1>4 DEF reconcileGateway

LEMMA ReconcileInv ==
  ASSUME GatewayInv, Reconcile
  PROVE  GatewayInv'
<1>1. up
  BY DEF Reconcile
<1>2. Conf' = Conf
  BY ReconcileFacts DEF Conf
<1>3. QED
  BY <1>1, <1>2, ReconcileFacts DEF GatewayInv, TypeOK, RequestInv, IsManagedGatewayEnabled

\* The timer and the route's reconciler leave the gateways alone.
LEMMA QuietInv ==
  ASSUME GatewayInv, Tick \/ ReconcileRoute
  PROVE  GatewayInv'
<1>1. UNCHANGED <<up, conf, gws, view, fresh, changes>>
  BY DEF Tick, ReconcileRoute
<1>2. Conf' = Conf
  BY <1>1 DEF Conf
<1>3. timer' \in BOOLEAN /\ queued' \in BOOLEAN /\ routing' \in BOOLEAN
  BY DEF Tick, ReconcileRoute, GatewayInv, TypeOK
<1>4. errors' \in 0..MaxErrors
  BY GatewayAssumption DEF Tick, ReconcileRoute, GatewayInv, TypeOK
<1>5. RequestInv'
  BY <1>1, <1>2 DEF Tick, ReconcileRoute, GatewayInv, RequestInv, IsManagedGatewayEnabled
<1>6. QED
  BY <1>1, <1>3, <1>4, <1>5 DEF GatewayInv, TypeOK

LEMMA DeliverInv ==
  ASSUME GatewayInv, NEW n \in Names, Deliver(n)
  PROVE  GatewayInv'
<1>1. /\ up /\ IsManagedGatewayEnabled(Conf)
      /\ view' = [view EXCEPT ![n] = Shown(gws[n])] /\ fresh' = fresh \cup {n}
      /\ queued' = (queued \/ view[n] # NoGateway \/ gws[n].owned)
      /\ UNCHANGED <<up, conf, gws, timer, route, routing, changes, errors>>
  BY DEF Deliver
<1>2. Conf' = Conf
  BY <1>1 DEF Conf
<1>3. /\ DOMAIN view' = Names /\ view'[n] = Shown(gws[n])
      /\ \A m \in Names \ {n} : view'[m] = view[m]
  BY <1>1 DEF GatewayInv
<1>4. queued' \in BOOLEAN
  BY <1>1
<1>5. TypeOK'
  BY <1>1, <1>3, <1>4, ShownOwned DEF GatewayInv, TypeOK
<1>6. RequestInv'
  BY <1>1, <1>2 DEF RequestInv, IsManagedGatewayEnabled
<1>7. QED
  BY <1>3, <1>5, <1>6 DEF GatewayInv

LEMMA EditInv ==
  ASSUME GatewayInv, NEW n \in Names, Edit(n)
  PROVE  GatewayInv'
<1>1. /\ changes < MaxChanges /\ changes' = changes + 1
      /\ UNCHANGED <<up, conf, view, queued, timer, route, routing, errors>>
  BY DEF Edit, Change
<1>2. PICK g \in (Edits \cup {NoGateway}) \ {gws[n]} : Store(n, g)
  BY DEF Edit
<1>3. /\ DOMAIN gws' = Names /\ fresh' \subseteq Names
      /\ \A m \in fresh' : view[m] = Shown(gws'[m])
  BY <1>2, StoreKeeps DEF GatewayInv, TypeOK
<1>4. changes' \in 0..MaxChanges
  BY <1>1, GatewayAssumption DEF GatewayInv, TypeOK
<1>5. QED
  BY <1>1, <1>3, <1>4 DEF GatewayInv, TypeOK, RequestInv, Conf, IsManagedGatewayEnabled

LEMMA StopInv ==
  ASSUME GatewayInv, Stop
  PROVE  GatewayInv'
<1>1. changes' \in 0..MaxChanges
  BY GatewayAssumption DEF Stop, Change, GatewayInv, TypeOK
<1>2. QED
  BY <1>1 DEF Stop, Change, GatewayInv, TypeOK, RequestInv

\* The process starts with a fresh cache, or without the reconciler.
LEMMA StartInv ==
  ASSUME GatewayInv, Start
  PROVE  GatewayInv'
<1> DEFINE managed == IsManagedGatewayEnabled(Confs[conf'])
<1>1. /\ ~up /\ up' = TRUE /\ conf' \in DOMAIN Confs
      /\ view' = [n \in Names |-> IF managed THEN Shown(gws[n]) ELSE NoGateway]
      /\ fresh' = IF managed THEN Names ELSE {}
      /\ queued' = managed /\ routing' = TRUE
      /\ UNCHANGED <<gws, timer, route, changes, errors>>
  BY DEF Start
<1>2. managed \in BOOLEAN
  BY <1>1, GatewayAssumption DEF IsManagedGatewayEnabled
<1>3. timer = FALSE
  BY <1>1 DEF GatewayInv, TypeOK, RequestInv
<1>4. RequestInv'
  BY <1>1, <1>3 DEF RequestInv, IsManagedGatewayEnabled, Conf
<1>5. TypeOK'
  BY <1>1, <1>2, ShownOwned DEF GatewayInv, TypeOK
<1>6. QED
  BY <1>1, <1>4, <1>5 DEF GatewayInv

-----------------------------------------------------------------------------
(* The theorems.                                                           *)

\* GatewayInv is an invariant.
LEMMA GatewayInvariant == Spec => []GatewayInv
<1>1. GatewayInv /\ [Next]_vars => GatewayInv'
  <2> SUFFICES ASSUME GatewayInv, [Next]_vars PROVE GatewayInv'
    OBVIOUS
  <2>1. CASE Reconcile
    BY <2>1, ReconcileInv
  <2>2. CASE Tick \/ ReconcileRoute
    BY <2>2, QuietInv
  <2>3. ASSUME NEW n \in Names, Deliver(n) \/ Edit(n)
        PROVE  GatewayInv'
    BY <2>3, DeliverInv, EditInv
  <2>4. CASE Stop
    BY <2>4, StopInv
  <2>5. CASE Start
    BY <2>5, StartInv
  <2>6. CASE UNCHANGED vars
    BY <2>6 DEF vars, GatewayInv, TypeOK, RequestInv, Conf
  <2>7. QED
    BY <2>1, <2>2, <2>3, <2>4, <2>5, <2>6 DEF Next
<1>2. QED
  BY InitInv, <1>1, PTL DEF Spec

\* Type correctness: what the cache counts as fresh is what the API server has.
THEOREM TypeCorrect == Spec => []TypeOK
<1>1. GatewayInv => TypeOK
  BY DEF GatewayInv
<1>2. QED
  BY <1>1, GatewayInvariant, PTL

\* The controller writes the configured gateway only, and only while it has the
\* label: an update from the cache is accepted only if the cached version is the
\* current one, and the cache shows labelled gateways only.
THEOREM ForeignGatewaysKeptHolds == Spec => ForeignGatewaysKept
<1> DEFINE Kept ==
      \A n \in Names : changes' = changes /\ gws'[n] # gws[n]
        => /\ IsManagedGatewayEnabled(Conf) /\ n = GatewayName(Conf)
           /\ gws[n] = NoGateway \/ gws[n].owned
<1>1. GatewayInv /\ [Next]_vars => [Kept]_vars
  <2> SUFFICES ASSUME GatewayInv, Next PROVE Kept
    OBVIOUS
  <2>1. CASE Reconcile
    BY <2>1, ReconcileFacts
  <2>2. CASE Tick \/ ReconcileRoute \/ Start
    BY <2>2 DEF Tick, ReconcileRoute, Start
  <2>3. ASSUME NEW n \in Names, Deliver(n)
        PROVE  Kept
    BY <2>3 DEF Deliver
  <2>4. CASE Stop \/ \E n \in Names : Edit(n)
    BY <2>4 DEF Stop, Edit, Change, GatewayInv, TypeOK
  <2>5. QED
    BY <2>1, <2>2, <2>3, <2>4 DEF Next
<1>2. QED
  BY <1>1, GatewayInvariant, PTL DEF Spec, ForeignGatewaysKept

\* The clean-up of orphaned gateways is dead code: whenever the reconciler could
\* take a request, the gateway is managed, so Reconcile never comes to it.
THEOREM CleanupUnreachable == Spec => [](up /\ queued => IsManagedGatewayEnabled(Conf))
<1>1. GatewayInv => (up /\ queued => IsManagedGatewayEnabled(Conf))
  BY DEF GatewayInv, RequestInv
<1>2. QED
  BY <1>1, GatewayInvariant, PTL
=============================================================================
