------------------------------- MODULE Gateway -------------------------------
(***************************************************************************)
(* The managed gateway (pkg/controllers/gateway_reconciler.go), how it is  *)
(* wired to the controller manager (addManagedGateway, cmd.go), and the    *)
(* HTTP route that refers to it.                                           *)
(*                                                                         *)
(* The reconciler reads gateways from a cache that holds only those with   *)
(* the controller's label, and lags; its writes go to the API server,      *)
(* which refuses one made from an old version.  Gateway and route are      *)
(* reconciled independently.  Users may edit any gateway, and the          *)
(* controller may be restarted with another configuration.                 *)
(***************************************************************************)
EXTENDS Naturals, FiniteSets

CONSTANTS
  Names,      \* names of gateways in the controller's namespace
  Confs,      \* the gateway sections the controller may be started with, by name
  Edits,      \* what users may make of a gateway
  MaxChanges, \* edits and restarts
  MaxErrors   \* failing API calls

None == ""
ManagedGatewayName == "oidc-apps"

ASSUME GatewayAssumption ==
  /\ ManagedGatewayName \in Names /\ MaxChanges \in Nat /\ MaxErrors \in Nat
  /\ \A c \in DOMAIN Confs :
       Confs[c].name \in Names \cup {None} /\ Confs[c].managed \in BOOLEAN

VARIABLES
  up,      \* the controller runs
  conf,    \* with this configuration
  gws,     \* gateways at the API server
  view,    \* gateways in the cache
  fresh,   \* names whose cached version is the current one
  queued,  \* the request is in the work queue
  timer,   \* it will be added again after syncInterval
  route,   \* parents of the HTTP route of a target
  routing, \* the target's reconcile is due
  changes, errors

vars == <<up, conf, gws, view, fresh, queued, timer, route, routing, changes, errors>>

-----------------------------------------------------------------------------
(* From the configuration to the gateway.                                  *)

\* An optional value is a set of at most one; given text is not empty.
Optional(v) == {v} \ {None}

buildListenerTLS(tls) ==
  [mode |-> Optional(tls.mode),
   certificateRefs |-> {IF k = None THEN "Secret" ELSE k : k \in tls.kinds}]
buildAllowedRoutes(ar) == [from |-> Optional(ar.from), kinds |-> ar.kinds]
buildListeners(listeners) ==
  {[name |-> l.name, hostname |-> Optional(l.hostname),
    tls |-> {buildListenerTLS(t) : t \in l.tls},
    allowedRoutes |-> {buildAllowedRoutes(ar) : ar \in l.allowedRoutes}] : l \in listeners}
buildInfrastructure(in) == {[labels |-> i.labels, parametersRef |-> Optional(i.parametersRef)] : i \in in}

\* The API server fills in what the resource definition has defaults for.
Default(o, d) == IF o = {} THEN {d} ELSE o
Same == [from |-> {"Same"}, kinds |-> {}]
Defaulted(g) ==
  [g EXCEPT !.spec.listeners =
     {[l EXCEPT !.tls = {[t EXCEPT !.mode = Default(@, "Terminate")] : t \in @},
                !.allowedRoutes = {[a EXCEPT !.from = Default(@, "Same")] : a \in Default(@, Same)}] :
      l \in @}]

\* labels is the value of the controller's label after conf.Labels was copied over it.
NoGateway == [owned |-> FALSE, spec |-> [class |-> None, listeners |-> {}, infrastructure |-> {}]]
Desired(c) ==
  [owned |-> c.labels # "other",
   spec |-> [class |-> c.class, listeners |-> buildListeners(c.listeners),
             infrastructure |-> buildInfrastructure(c.infrastructure)]]

IsManagedGatewayEnabled(c) == c.managed
GatewayName(c) == IF c.name = None THEN ManagedGatewayName ELSE c.name

\* Mutant: the name that was configured is not used.
GetHTTPRouteParentRefsUnnamed(c) ==
  IF c.parentRefs # {} THEN c.parentRefs
  ELSE IF IsManagedGatewayEnabled(c) THEN {ManagedGatewayName} ELSE {}

GetHTTPRouteParentRefs(c) ==
  IF c.parentRefs # {} THEN c.parentRefs
  ELSE IF IsManagedGatewayEnabled(c) THEN {GatewayName(c)} ELSE {}

-----------------------------------------------------------------------------
\* Mutant: the cache has no selector.
ShownAny(g) == g

\* What the cache's selector lets through.
Shown(g) == IF g.owned THEN g ELSE NoGateway

Conf == Confs[conf]

Init ==
  /\ up = FALSE /\ conf \in DOMAIN Confs
  /\ gws \in [Names -> {NoGateway} \cup Edits]
  /\ view = [n \in Names |-> NoGateway] /\ fresh = {}
  /\ queued = FALSE /\ timer = FALSE /\ route = {} /\ routing = FALSE
  /\ changes = 0 /\ errors = 0

\* The API server stores g; storing the same again changes nothing.
Store(n, g) ==
  /\ gws' = [gws EXCEPT ![n] = g]
  /\ fresh' = IF g = gws[n] THEN fresh ELSE fresh \ {n}

Fails == errors < MaxErrors /\ errors' = errors + 1 /\ UNCHANGED <<gws, fresh>>

\* Mutant: the update is not tied to the version that was read.
CreateOrUpdateBlind(n, g) ==
  \/ /\ IF view[n] = NoGateway /\ gws[n] # NoGateway THEN UNCHANGED <<gws, fresh>>
        ELSE IF view[n] = g THEN UNCHANGED <<gws, fresh>>
        ELSE Store(n, Defaulted(g))
     /\ queued' = (view[n] = NoGateway /\ gws[n] # NoGateway)
     /\ UNCHANGED errors
  \/ Fails /\ queued' = TRUE

\* Mutant: a gateway that is there is left as it is.
CreateOrUpdateOnce(n, g) ==
  \/ /\ IF view[n] = NoGateway /\ gws[n] = NoGateway THEN Store(n, Defaulted(g))
        ELSE UNCHANGED <<gws, fresh>>
     /\ queued' = (view[n] = NoGateway /\ gws[n] # NoGateway)
     /\ UNCHANGED errors
  \/ Fails /\ queued' = TRUE

\* controllerutil.CreateOrUpdate: read from the cache, then create, update, or
\* nothing.  Refused: the gateway exists already, or is not the version read.
CreateOrUpdate(n, g) ==
  LET create == view[n] = NoGateway
      refused == IF create THEN gws[n] # NoGateway ELSE n \notin fresh
      write == create \/ view[n] # g
  IN \/ /\ IF write /\ ~refused THEN Store(n, Defaulted(g)) ELSE UNCHANGED <<gws, fresh>>
        /\ queued' = (write /\ refused)
        /\ UNCHANGED errors
     \/ write /\ Fails /\ queued' = TRUE

reconcileGateway(c) ==
  IF c.class = None THEN queued' = TRUE /\ UNCHANGED <<gws, fresh, errors>>
  ELSE CreateOrUpdate(GatewayName(c), Desired(c))

\* Deletes the gateways in the cache; one that is gone already is no error.  Never
\* reached: without a managed gateway there is no request.
cleanupOrphanedGateway ==
  LET orphans == {n \in Names : view[n] # NoGateway}
  IN /\ gws' = [n \in Names |-> IF n \in orphans THEN NoGateway ELSE gws[n]]
     /\ fresh' = fresh \ orphans
     /\ queued' = FALSE
     /\ UNCHANGED errors

\* Reconcile, whatever the request: the sync interval starts after a success.
Reconcile ==
  /\ up /\ queued
  /\ IF IsManagedGatewayEnabled(Conf)
     THEN reconcileGateway(Conf) /\ timer' = (timer \/ ~queued')
     ELSE cleanupOrphanedGateway /\ UNCHANGED timer
  /\ UNCHANGED <<up, conf, view, route, routing, changes>>

\* The sync interval is over.
Tick ==
  /\ up /\ timer
  /\ timer' = FALSE /\ queued' = TRUE
  /\ UNCHANGED <<up, conf, gws, view, fresh, route, routing, changes, errors>>

\* The informer learns of a change; there is one if the gateway is managed.
Deliver(n) ==
  /\ up /\ IsManagedGatewayEnabled(Conf) /\ n \notin fresh
  /\ view' = [view EXCEPT ![n] = Shown(gws[n])]
  /\ fresh' = fresh \cup {n}
  /\ queued' = (queued \/ view[n] # NoGateway \/ gws[n].owned)
  /\ UNCHANGED <<up, conf, gws, timer, route, routing, changes, errors>>

\* mutateHTTPRouteFor*: the parents as configured, whether they exist or not.
ReconcileRoute ==
  /\ up /\ routing
  /\ \/ route' = GetHTTPRouteParentRefs(Conf) /\ routing' = FALSE /\ UNCHANGED errors
     \/ /\ errors < MaxErrors /\ errors' = errors + 1
        /\ UNCHANGED <<route, routing>>
  /\ UNCHANGED <<up, conf, gws, view, fresh, queued, timer, changes>>

-----------------------------------------------------------------------------
(* Users and the process.                                                  *)

Change == changes < MaxChanges /\ changes' = changes + 1 /\ UNCHANGED errors

Edit(n) ==
  /\ Change
  /\ \E g \in (Edits \cup {NoGateway}) \ {gws[n]} : Store(n, g)
  /\ UNCHANGED <<up, conf, view, queued, timer, route, routing>>

Stop ==
  /\ up /\ Change
  /\ up' = FALSE /\ queued' = FALSE /\ timer' = FALSE /\ routing' = FALSE
  /\ view' = [n \in Names |-> NoGateway] /\ fresh' = {}
  /\ UNCHANGED <<conf, gws, route>>

\* addManagedGateway: the reconciler is registered, and its first request added,
\* only if the gateway is managed.
Start ==
  /\ ~up
  /\ up' = TRUE /\ conf' \in DOMAIN Confs
  /\ LET managed == IsManagedGatewayEnabled(Confs[conf'])
     IN /\ view' = [n \in Names |-> IF managed THEN Shown(gws[n]) ELSE NoGateway]
        /\ fresh' = IF managed THEN Names ELSE {}
        /\ queued' = managed
  /\ routing' = TRUE
  /\ UNCHANGED <<gws, timer, route, changes, errors>>

Next ==
  \/ Reconcile \/ Tick \/ ReconcileRoute
  \/ (\E n \in Names : Deliver(n) \/ Edit(n)) \/ Stop \/ Start

Spec == Init /\ [][Next]_vars

Fairness ==
  /\ WF_vars(Reconcile) /\ WF_vars(Tick) /\ WF_vars(ReconcileRoute) /\ WF_vars(Start)
  /\ \A n \in Names : WF_vars(Deliver(n))

FairSpec == Spec /\ Fairness

-----------------------------------------------------------------------------
(* Properties.                                                             *)

\* Type invariant: what is current in the cache is what the API server has.
TypeOK ==
  /\ {up, queued, timer, routing} \subseteq BOOLEAN
  /\ conf \in DOMAIN Confs /\ fresh \subseteq Names /\ DOMAIN gws = Names
  /\ changes \in 0..MaxChanges /\ errors \in 0..MaxErrors
  /\ \A n \in Names : view[n] = NoGateway \/ view[n].owned
  /\ \A n \in fresh : view[n] = Shown(gws[n])

\* The controller changes one gateway, the configured one, and only if there is
\* none of that name or it has the controller's label at this moment, however
\* far behind its cache is.
ForeignGatewaysKept ==
  [][\A n \in Names : changes' = changes /\ gws'[n] # gws[n]
       => /\ IsManagedGatewayEnabled(Conf) /\ n = GatewayName(Conf)
          /\ gws[n] = NoGateway \/ gws[n].owned]_vars

\* A configuration from which a gateway can be made, for a name that no one else uses.
Manageable ==
  /\ up /\ IsManagedGatewayEnabled(Conf) /\ Conf.class # None
  /\ gws[GatewayName(Conf)] = NoGateway \/ gws[GatewayName(Conf)].owned

\* However a managed gateway was edited or deleted, it is as configured in the end.
GatewayConverges ==
  <>[]Manageable => <>[](gws[GatewayName(Conf)] = Defaulted(Desired(Conf)))

\* In the end the route of a target without parents of its own refers to a
\* gateway that exists.
RouteAttached ==
  <>[](Manageable /\ Conf.parentRefs = {})
    => <>[](route # {} /\ \A n \in route : n \in Names /\ gws[n] # NoGateway)

\* Without a managed gateway none that the controller has made is left behind.
OrphansRemoved ==
  <>[](up /\ ~IsManagedGatewayEnabled(Conf)) => <>[](\A n \in Names : ~gws[n].owned)

\* A managed gateway is as configured in the end, whatever labels it was given.
GatewayConvergesAlways ==
  <>[](up /\ IsManagedGatewayEnabled(Conf) /\ Conf.class # None)
    => <>[](gws[GatewayName(Conf)].spec = Defaulted(Desired(Conf)).spec)
=============================================================================
