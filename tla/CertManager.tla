---------------------------- MODULE CertManager ----------------------------
(***************************************************************************)
(* The webhook certificate manager (pkg/certificates), one per replica of  *)
(* the controller.  Every replica keeps a CA and a TLS bundle in memory    *)
(* and on its own disk, rotates both on tickers, and publishes its CA in   *)
(* the CABundle of the one MutatingWebhookConfiguration all replicas       *)
(* share.  The API server guards that object with a resource version; the  *)
(* manager's client reads it through an informer cache that may lag.       *)
(*                                                                         *)
(* A goroutine is a program counter.  A step is a file write, a field      *)
(* assignment of the shared *bundle, a cached read, or an API call.        *)
(***************************************************************************)
EXTENDS Integers, FiniteSets

CONSTANTS
  Replicas,        \* replicas of the controller (NeedLeaderElection is false)
  NumWebhooks,     \* managed entries of the webhook configuration, in order
  CAValidity,      \* caCertValidity
  CARotation,      \* caCertRotation: how long before NotAfter a CA is rotated
  TLSValidity,     \* tlsCertValidity
  TLSRotation,     \* tlsCertRotation
  UpdateSteps,     \* webhookUpdateRetry.Steps
  MaxTime,         \* bound on the clock
  Disruptions,     \* the kinds of disruption that may happen
  MaxDisruptions   \* bound on their number

ASSUME ReplicasAssumption == Replicas # {} /\ IsFiniteSet(Replicas)
ASSUME WebhooksAssumption == NumWebhooks \in Nat \ {0}
ASSUME PeriodAssumption ==
  /\ CAValidity \in Nat /\ CARotation \in Nat /\ CARotation < CAValidity
  /\ TLSValidity \in Nat /\ TLSRotation \in Nat /\ TLSRotation < TLSValidity
ASSUME BoundAssumption ==
  /\ UpdateSteps \in Nat \ {0}
  /\ Disruptions \subseteq {"crash", "stop", "replace", "reapply", "apiError"}
  /\ MaxTime \in Nat
  /\ MaxDisruptions \in Nat

Webhooks == 1..NumWebhooks

\* The goroutines of one replica: New and Start run in "main".
Goroutines == {"main", "sync", "rotateCA", "rotateTLS"}
Loops == {"sync", "rotateCA", "rotateTLS"}

Files == {"caCrt", "caKey", "tlsCrt", "tlsKey"}

\* A certificate, or the private key that belongs to it: serial, the serial of
\* the CA that signed it (its own for a CA) and NotAfter.  NoCert is a file
\* that cannot be loaded, or a nil bundle.
\* generateSerial draws serials that are never drawn twice: here the replica and
\* a number of its own.
NoSerial == <<"none", 0>>
Serial == (Replicas \X Nat) \cup {NoSerial}
Cert == [serial : Serial, issuer : Serial, notAfter : Nat]
NoCert == [serial |-> NoSerial, issuer |-> NoSerial, notAfter |-> 0]

\* A CABundle is a bag of CA certificates: an entry is one certificate block,
\* copy counts the blocks with the same serial.
Entry == [cert : Cert, copy : Nat]
Bundles == [Webhooks -> {b \in SUBSET Entry : IsFiniteSet(b)}]

VARIABLES
  now,           \* the clock all NotAfter are compared with
  nextSerial,    \* each replica's next serial
  config,        \* the MutatingWebhookConfiguration in the API server
  cache,         \* each replica's informer copy of config
  disk,          \* each replica's certificate directory
  ca, tls,       \* c.ca (key and cert assigned separately) and c.tls
  pc,            \* each goroutine's program counter
  gen,           \* the bundle a goroutine has generated and not yet assigned
  upd,           \* the object a goroutine got, the webhook of it that is changed
                 \* next, and the attempt; what it will Update
  scan,          \* syncWebhookCaBundle: the object listed and the loop index
  checked,       \* rotation loops whose ticker has fired in this unit of time
  behind,        \* history: the CAs that were loaded, given up or wiped, and
                 \* that no update of this replica has published since
  disruptions    \* how many disruptions have happened

vars == <<now, nextSerial, config, cache, disk, ca, tls, pc, gen, upd, scan,
          checked, behind, disruptions>>

\* The states in which the process of a replica does not run.
Off == {"down", "stopped", "failed"}

IdleUpd == [n |-> 0, rv |-> 0, i |-> 0, bundle |-> [w \in Webhooks |-> {}]]
IdleScan == [i |-> 0, bundle |-> [w \in Webhooks |-> {}]]
Labels == Files \cup Off \cup
  {"off", "genCA", "get", "fill", "put", "loadTLS", "sign", "setTLS", "run",
   "drain", "cleanGet", "cleanPut", "idle", "done", "setKey", "setCert",
   "scan"}

NoCache == [rv |-> 0, bundle |-> [w \in Webhooks |-> {}]]
EmptyDisk == [f \in Files |-> NoCert]
OffLoops(p) == [g \in Goroutines |-> IF g = "main" THEN p ELSE "off"]

Init ==
  /\ now = 0
  /\ nextSerial = [r \in Replicas |-> 1]
  /\ config = [rv |-> 1, bundle |-> [w \in Webhooks |-> {}]]
  /\ cache = [r \in Replicas |-> NoCache]
  /\ disk = [r \in Replicas |-> EmptyDisk]
  /\ ca = [r \in Replicas |-> [key |-> NoCert, cert |-> NoCert]]
  /\ tls = [r \in Replicas |-> NoCert]
  /\ pc = [r \in Replicas |-> OffLoops("down")]
  /\ gen = [r \in Replicas |-> [g \in Goroutines |-> NoCert]]
  /\ upd = [r \in Replicas |-> [g \in Goroutines |-> IdleUpd]]
  /\ scan = [r \in Replicas |-> IdleScan]
  /\ checked = [r \in Replicas |-> {}]
  /\ behind = [r \in Replicas |-> {}]
  /\ disruptions = 0

-----------------------------------------------------------------------------
(* CA bundles.                                                             *)

Serials(b) == {e.cert.serial : e \in b}
Expired(c) == c.notAfter < now

\* caBundleFound
caBundleFound(b, c) == c.serial \in Serials(b)

\* The block appended after the ones kept.
AppendCA(b, c) ==
  b \cup {[cert |-> c,
           copy |-> 1 + Cardinality({e \in b : e.cert.serial = c.serial})]}

\* updateCABundles: drops what is expired, appends the current CA.
updateCABundles(b, c) == AppendCA({e \in b : ~Expired(e.cert)}, c)

\* Mutant: bare certificates are returned where encoded blocks are expected.
removeCABundleBare(b, c) == {e.cert : e \in {x \in b : x.cert.serial # c.serial}}

\* Mutant: one block with the serial is dropped, not all of them.
removeCABundleOnce(b, c) == b \ {[cert |-> c, copy |-> 1]}

\* removeCABundle: drops every block with the serial of the current CA.
removeCABundle(b, c) == {e \in b : e.cert.serial # c.serial}

Published(r, b) == \A w \in Webhooks : caBundleFound(b[w], ca[r].cert)

\* The serials of S that some webhook of b does not hold.
Unpublished(S, b) == {s \in S : \E w \in Webhooks : s \notin Serials(b[w])}

-----------------------------------------------------------------------------
(* Program counters.                                                       *)

At(r, g, l) == pc[r][g] = l
Goto(r, g, l) == pc' = [pc EXCEPT ![r][g] = l]

IsOff(r) == pc[r]["main"] \in Off

\* The process ends with main in state p: only the disk is left.
ExitAs(r, p) ==
  /\ pc' = [pc EXCEPT ![r] = OffLoops(p)]
  /\ gen' = [gen EXCEPT ![r] = [g \in Goroutines |-> NoCert]]
  /\ upd' = [upd EXCEPT ![r] = [g \in Goroutines |-> IdleUpd]]
  /\ scan' = [scan EXCEPT ![r] = IdleScan]
  /\ checked' = [checked EXCEPT ![r] = {}]
  /\ cache' = [cache EXCEPT ![r] = NoCache]

Disrupt(k) ==
  /\ k \in Disruptions
  /\ disruptions < MaxDisruptions
  /\ disruptions' = disruptions + 1

-----------------------------------------------------------------------------
(* New: load or generate the CA, publish it, load or generate TLS.         *)

Loadable(r, crt, key) == disk[r][crt] # NoCert /\ disk[r][key] # NoCert

\* New up to loadCAFromDisk: the two files are parsed, nothing else is checked.
Boot(r) ==
  /\ IsOff(r)
  /\ IF Loadable(r, "caCrt", "caKey")
       THEN /\ ca' = [ca EXCEPT ![r] =
                        [key |-> disk[r]["caKey"], cert |-> disk[r]["caCrt"]]]
            /\ behind' = [behind EXCEPT ![r] = @ \cup {disk[r]["caCrt"].serial}]
            /\ Goto(r, "main", "loadTLS")
       ELSE /\ ca' = [ca EXCEPT ![r] = [key |-> NoCert, cert |-> NoCert]]
            /\ UNCHANGED behind
            /\ Goto(r, "main", "genCA")
  /\ tls' = [tls EXCEPT ![r] = NoCert]
  /\ UNCHANGED <<now, nextSerial, config, cache, disk, gen, upd, scan, checked,
                 disruptions>>

NewSerial(r) == <<r, nextSerial[r]>>

\* generateCACert up to writeBundle.
generateCACert(r, g) ==
  /\ At(r, g, "genCA")
  /\ gen' = [gen EXCEPT ![r][g] = [serial |-> NewSerial(r), issuer |-> NewSerial(r),
                                   notAfter |-> now + CAValidity]]
  /\ nextSerial' = [nextSerial EXCEPT ![r] = @ + 1]
  /\ Goto(r, g, "caCrt")
  /\ UNCHANGED <<now, config, cache, disk, ca, tls, upd, scan, checked, behind,
                 disruptions>>

\* What follows a write.  The bundle that New generated becomes c.ca at once.
AfterWrite(g, f) ==
  CASE f = "caCrt" -> "caKey"
    [] f = "caKey" -> IF g = "main" THEN "get" ELSE "setKey"
    [] f = "tlsCrt" -> "tlsKey"
    [] f = "tlsKey" -> "setTLS"

\* writeBundle: the certificate first, then the key, each a write of its own.
writeBundle(r, g) ==
  /\ pc[r][g] \in Files
  /\ disk' = [disk EXCEPT ![r][pc[r][g]] = gen[r][g]]
  /\ Goto(r, g, AfterWrite(g, pc[r][g]))
  /\ IF g = "main" /\ At(r, g, "caKey")
       THEN /\ ca' = [ca EXCEPT ![r] = [key |-> gen[r][g], cert |-> gen[r][g]]]
            /\ gen' = [gen EXCEPT ![r][g] = NoCert]
       ELSE UNCHANGED <<ca, gen>>
  /\ UNCHANGED <<now, nextSerial, config, cache, tls, upd, scan, checked, behind,
                 disruptions>>

\* Start: the loops run; the manager's cache has synced before.
Start(r) ==
  /\ pc' = [pc EXCEPT ![r] = [g \in Goroutines |->
                                IF g = "main" THEN "run" ELSE "idle"]]
  /\ cache' = [cache EXCEPT ![r] = config]

\* New: loadTLSFromDisk, and Start when the files are there.
LoadTLS(r) ==
  /\ At(r, "main", "loadTLS")
  /\ IF Loadable(r, "tlsCrt", "tlsKey")
       THEN /\ tls' = [tls EXCEPT ![r] = disk[r]["tlsCrt"]]
            /\ Start(r)
       ELSE /\ Goto(r, "main", "sign")
            /\ UNCHANGED <<tls, cache>>
  /\ UNCHANGED <<now, nextSerial, config, disk, ca, gen, upd, scan, checked, behind,
                 disruptions>>

\* generateTLSCert up to writeBundle.  CreateCertificate refuses a private key
\* that is not the parent certificate's.
generateTLSCert(r, g) ==
  /\ At(r, g, "sign")
  /\ ca[r].key = ca[r].cert
  /\ gen' = [gen EXCEPT ![r][g] =
               [serial |-> NewSerial(r), issuer |-> ca[r].cert.serial,
                notAfter |-> now + TLSValidity]]
  /\ nextSerial' = [nextSerial EXCEPT ![r] = @ + 1]
  /\ Goto(r, g, "tlsCrt")
  /\ UNCHANGED <<now, config, cache, disk, ca, tls, upd, scan, checked, behind,
                 disruptions>>

\* The error of generateTLSCert: New returns it; the rotations dereference the
\* nil bundle.  Either way the process exits.
SignFails(r, g) ==
  /\ At(r, g, "sign")
  /\ ca[r].key # ca[r].cert
  /\ ExitAs(r, "down")
  /\ UNCHANGED <<now, nextSerial, config, disk, ca, tls, behind, disruptions>>

\* c.tls.key and c.tls.cert (only the certificate is read again).
SetTLS(r, g) ==
  /\ At(r, g, "setTLS")
  /\ tls' = [tls EXCEPT ![r] = gen[r][g]]
  /\ gen' = [gen EXCEPT ![r][g] = NoCert]
  /\ IF g = "main" THEN Start(r) ELSE Goto(r, g, "idle") /\ UNCHANGED cache
  /\ UNCHANGED <<now, nextSerial, config, disk, ca, upd, scan, checked, behind,
                 disruptions>>

-----------------------------------------------------------------------------
(* rotateCACert and rotateTLSCert.                                         *)

\* Mutant: the comparison is inverted.
RotationDueInverted(c, margin) == now + margin < c.notAfter

\* The certificate is rotated unless now + margin is before its NotAfter.
RotationDue(c, margin) == ~(now + margin < c.notAfter)

\* A ticker fires.  In a draining replica the select may still choose it.
Check(r, g, c, margin, l) ==
  /\ At(r, g, "idle")
  /\ g \notin checked[r]
  /\ checked' = [checked EXCEPT ![r] = @ \cup {g}]
  /\ IF RotationDue(c, margin) THEN Goto(r, g, l) ELSE UNCHANGED pc
  /\ UNCHANGED <<now, nextSerial, config, cache, disk, ca, tls, gen, upd, scan,
                 behind, disruptions>>

rotateCACert(r) == Check(r, "rotateCA", ca[r].cert, CARotation, "genCA")
rotateTLSCert(r) == Check(r, "rotateTLS", tls[r], TLSRotation, "sign")

\* c.ca.key = crt.key
SetCAKey(r) ==
  /\ At(r, "rotateCA", "setKey")
  /\ ca' = [ca EXCEPT ![r].key = gen[r]["rotateCA"]]
  /\ Goto(r, "rotateCA", "setCert")
  /\ UNCHANGED <<now, nextSerial, config, cache, disk, tls, gen, upd, scan, checked,
                 behind, disruptions>>

\* Mutant: TLS is signed by the new CA before the webhooks know it.
SetCACertThenSign(r) ==
  /\ At(r, "rotateCA", "setCert")
  /\ ca' = [ca EXCEPT ![r].cert = gen[r]["rotateCA"]]
  /\ gen' = [gen EXCEPT ![r]["rotateCA"] = NoCert]
  /\ Goto(r, "rotateCA", "sign")
  /\ UNCHANGED <<now, nextSerial, config, cache, disk, tls, upd, scan, checked,
                 behind, disruptions>>

\* c.ca.cert = crt.cert
SetCACert(r) ==
  /\ At(r, "rotateCA", "setCert")
  /\ ca' = [ca EXCEPT ![r].cert = gen[r]["rotateCA"]]
  /\ gen' = [gen EXCEPT ![r]["rotateCA"] = NoCert]
  /\ Goto(r, "rotateCA", "get")
  /\ UNCHANGED <<now, nextSerial, config, cache, disk, tls, upd, scan, checked,
                 behind, disruptions>>

-----------------------------------------------------------------------------
(* Updates of the webhook configuration: Get, change, Update, retried on a *)
(* conflict at most UpdateSteps times.  setupWebhooksCABundles reads the   *)
(* API server, the other callers read the informer cache.                  *)

Source(r, g) == IF At(r, g, "get") /\ g = "main" THEN config ELSE cache[r]

\* The callback reads the object.  New and the loops go on to change it webhook by
\* webhook; the clean-up takes the CA out of all of them at once, since nothing of
\* its process runs beside it.
Got(r, g, b) ==
  IF At(r, g, "get") THEN b
                     ELSE [w \in Webhooks |-> removeCABundle(b[w], ca[r].cert)]

GetWebhook(r, g) ==
  /\ pc[r][g] \in {"get", "cleanGet"}
  /\ upd' = [upd EXCEPT ![r][g] =
               [n |-> @.n + 1, rv |-> Source(r, g).rv, i |-> 1,
                bundle |-> Got(r, g, Source(r, g).bundle)]]
  /\ Goto(r, g, IF At(r, g, "get") THEN "fill" ELSE "cleanPut")
  /\ UNCHANGED <<now, nextSerial, config, cache, disk, ca, tls, gen, scan, checked,
                 behind, disruptions>>

\* One round of the callback's loop: the next webhook of object o gets the CA c.
Filled(o, c) ==
  [n |-> o.n, rv |-> o.rv, i |-> o.i + 1,
   bundle |-> [o.bundle EXCEPT ![o.i] = updateCABundles(@, c)]]

\* It is the c.ca.cert of this moment.  Nothing guards c.ca: rotateCACert may assign
\* it between two rounds of a sync.
FillWebhook(r, g) ==
  /\ At(r, g, "fill")
  /\ upd' = [upd EXCEPT ![r][g] = Filled(@, ca[r].cert)]
  /\ Goto(r, g, IF upd[r][g].i < NumWebhooks THEN "fill" ELSE "put")
  /\ UNCHANGED <<now, nextSerial, config, cache, disk, ca, tls, gen, scan, checked,
                 behind, disruptions>>

\* What follows an update that succeeded (ok) or was given up: New fails with
\* it, the clean-up is the result of Start, the loops go on either way.
Resume(g) == IF g = "main" THEN "loadTLS" ELSE IF g = "sync" THEN "scan" ELSE "sign"

AfterUpdate(r, g, ok) ==
  \/ At(r, g, "cleanPut") /\ ExitAs(r, IF ok THEN "stopped" ELSE "failed")
  \/ At(r, g, "put") /\ g = "main" /\ ~ok /\ ExitAs(r, "down")
  \/ /\ At(r, g, "put") /\ (g = "main" => ok)
     /\ Goto(r, g, Resume(g))
     /\ upd' = [upd EXCEPT ![r][g] = IdleUpd]
     /\ UNCHANGED <<gen, scan, checked, cache>>

\* Requests of the loops carry the context that a drain has cancelled.
Cancelled(r, g) == g # "main" /\ At(r, "main", "drain")

\* Mutant: the object is saved whatever has happened since it was read.
AcceptsAny(rv) == TRUE

\* The API server accepts an Update only of the version it holds; an Update
\* that changes nothing leaves the version alone.
Accepts(rv) == rv = config.rv
Stored(b) == [rv |-> IF b = config.bundle THEN config.rv ELSE config.rv + 1,
              bundle |-> b]

UpdateWebhook(r, g) ==
  /\ pc[r][g] \in {"put", "cleanPut"}
  /\ ~Cancelled(r, g)
  /\ Accepts(upd[r][g].rv)
  /\ config' = Stored(upd[r][g].bundle)
  /\ behind' = [behind EXCEPT ![r] = Unpublished(@, upd[r][g].bundle)]
  /\ AfterUpdate(r, g, TRUE)
  /\ UNCHANGED <<now, nextSerial, disk, ca, tls, disruptions>>

\* A conflict with attempts left: the callback runs again.
RetryOnConflict(r, g) ==
  /\ pc[r][g] \in {"put", "cleanPut"}
  /\ ~Cancelled(r, g)
  /\ ~Accepts(upd[r][g].rv)
  /\ upd[r][g].n < UpdateSteps
  /\ Goto(r, g, IF At(r, g, "put") THEN "get" ELSE "cleanGet")
  /\ UNCHANGED <<now, nextSerial, config, cache, disk, ca, tls, gen, upd, scan,
                 checked, behind, disruptions>>

\* The update fails: the last conflict, a cancelled context, or another error
\* of the API server, which is not retried.  The loops only log it.
UpdateFails(r, g) ==
  /\ pc[r][g] \in {"put", "cleanPut"}
  /\ \/ /\ \/ Cancelled(r, g)
           \/ ~Accepts(upd[r][g].rv) /\ upd[r][g].n >= UpdateSteps
        /\ UNCHANGED disruptions
     \/ ~Cancelled(r, g) /\ Disrupt("apiError")
  /\ behind' = [behind EXCEPT ![r] =
                  Unpublished(@ \cup {ca[r].cert.serial}, config.bundle)]
  /\ AfterUpdate(r, g, FALSE)
  /\ UNCHANGED <<now, nextSerial, config, disk, ca, tls>>

\* The API server has stored the object, but the caller does not learn of it: the
\* context was cancelled meanwhile, or the response is lost.
UpdateLost(r, g) ==
  /\ pc[r][g] \in {"put", "cleanPut"}
  /\ Accepts(upd[r][g].rv)
  /\ \/ Cancelled(r, g) /\ UNCHANGED disruptions
     \/ ~Cancelled(r, g) /\ Disrupt("apiError")
  /\ config' = Stored(upd[r][g].bundle)
  /\ behind' = [behind EXCEPT ![r] = Unpublished(@, upd[r][g].bundle)]
  /\ AfterUpdate(r, g, FALSE)
  /\ UNCHANGED <<now, nextSerial, disk, ca, tls>>

-----------------------------------------------------------------------------
(* syncWebhookCaBundle.                                                    *)

\* Mutant: any CA in the bundle will do.
MissingEmpty(r, b, i) == {w \in Webhooks : w >= i /\ b[w] = {}}

\* The webhooks from index i on whose bundle b does not hold the current CA.
Missing(r, b, i) == {w \in Webhooks : w >= i /\ ~caBundleFound(b[w], ca[r].cert)}

\* The loop over the object read at the tick, from index i on: iterations that
\* find the CA do nothing; the first that does not updates every webhook.
ScanFrom(r, b, i) ==
  \/ /\ Missing(r, b, i) = {}
     /\ scan' = [scan EXCEPT ![r] = IdleScan]
     /\ Goto(r, "sync", "idle")
  \/ \E w \in Missing(r, b, i) :
       /\ \A v \in Missing(r, b, i) : w <= v
       /\ scan' = [scan EXCEPT ![r] = [i |-> w + 1, bundle |-> b]]
       /\ Goto(r, "sync", "get")

\* The ticker fires: the object is read from the cache once for the whole loop.
SyncTick(r) ==
  /\ At(r, "sync", "idle")
  /\ ScanFrom(r, cache[r].bundle, 1)
  /\ UNCHANGED <<now, nextSerial, config, cache, disk, ca, tls, gen, upd, checked,
                 behind, disruptions>>

\* The loop goes on with what was read at the tick and the CA of this moment.
SyncNext(r) ==
  /\ At(r, "sync", "scan")
  /\ ScanFrom(r, scan[r].bundle, scan[r].i)
  /\ UNCHANGED <<now, nextSerial, config, cache, disk, ca, tls, gen, upd, checked,
                 behind, disruptions>>

-----------------------------------------------------------------------------
(* Shutdown.                                                               *)

\* The controller manager cancels the context.
Cancel(r) ==
  /\ At(r, "main", "run")
  /\ Disrupt("stop")
  /\ Goto(r, "main", "drain")
  /\ UNCHANGED <<now, nextSerial, config, cache, disk, ca, tls, gen, upd, scan,
                 checked, behind>>

\* case <-ctx.Done() of a loop.
LeaveLoop(r, g) ==
  /\ At(r, "main", "drain")
  /\ At(r, g, "idle")
  /\ Goto(r, g, "done")
  /\ UNCHANGED <<now, nextSerial, config, cache, disk, ca, tls, gen, upd, scan,
                 checked, behind, disruptions>>

\* wg.Wait() returns once every loop has called wg.Done().
Drained(r) == \A g \in Loops : At(r, g, "done")

\* The clean-up begins.
WaitGroupDone(r) ==
  /\ At(r, "main", "drain")
  /\ Drained(r)
  /\ Goto(r, "main", "cleanGet")
  /\ UNCHANGED <<now, nextSerial, config, cache, disk, ca, tls, gen, upd, scan,
                 checked, behind, disruptions>>

-----------------------------------------------------------------------------
(* The environment.                                                        *)

\* The informer catches up with the API server.
CacheSync(r) ==
  /\ pc[r]["main"] \in {"run", "drain", "cleanGet", "cleanPut"}
  /\ cache[r] # config
  /\ cache' = [cache EXCEPT ![r] = config]
  /\ UNCHANGED <<now, nextSerial, config, disk, ca, tls, pc, gen, upd, scan, checked,
                 behind, disruptions>>

\* The container dies and keeps its volume.  A file that was being written may
\* be left truncated.
Crash(r) ==
  /\ ~IsOff(r)
  /\ Disrupt("crash")
  /\ \E T \in SUBSET (Files \cap {pc[r][g] : g \in Goroutines}) :
       disk' = [disk EXCEPT ![r] = [f \in Files |-> IF f \in T THEN NoCert ELSE @[f]]]
  /\ ExitAs(r, "down")
  /\ UNCHANGED <<now, nextSerial, config, ca, tls, behind>>

\* The pod is replaced: its successor has an empty volume.  (A process that is
\* off has been disrupted before, so this needs no bound of its own.)
Replace(r) ==
  /\ IsOff(r)
  /\ disk[r] # EmptyDisk
  /\ "replace" \in Disruptions
  /\ disk' = [disk EXCEPT ![r] = EmptyDisk]
  /\ pc' = [pc EXCEPT ![r] = OffLoops("down")]
  /\ UNCHANGED <<now, nextSerial, config, cache, ca, tls, gen, upd, scan, checked,
                 behind, disruptions>>

\* The chart is applied again: its webhooks have an empty caBundle.
Reapply ==
  /\ config.bundle # [w \in Webhooks |-> {}]
  /\ Disrupt("reapply")
  /\ config' = Stored([w \in Webhooks |-> {}])
  /\ behind' = [r \in Replicas |->
                  behind[r] \cup UNION {Serials(config.bundle[w]) : w \in Webhooks}]
  /\ UNCHANGED <<now, nextSerial, cache, disk, ca, tls, pc, gen, upd, scan, checked>>

\* A unit of time passes.  A unit is longer than the tickers' periods and than
\* any pass of a handler, so a running replica has checked both certificates
\* and is between passes.
Settled(r) ==
  \/ IsOff(r)
  \/ /\ At(r, "main", "run")
     /\ checked[r] = {"rotateCA", "rotateTLS"}
     /\ \A g \in Loops : At(r, g, "idle")

Tick ==
  /\ now < MaxTime
  /\ \A r \in Replicas : Settled(r)
  /\ now' = now + 1
  /\ checked' = [r \in Replicas |-> {}]
  /\ UNCHANGED <<nextSerial, config, cache, disk, ca, tls, pc, gen, upd, scan, behind,
                 disruptions>>

-----------------------------------------------------------------------------
\* The steps of the code in goroutine g of replica r, once the process runs.
GoroutineStep(r, g) ==
  \/ generateCACert(r, g) \/ writeBundle(r, g)
  \/ generateTLSCert(r, g) \/ SignFails(r, g) \/ SetTLS(r, g)
  \/ GetWebhook(r, g) \/ FillWebhook(r, g)
  \/ UpdateWebhook(r, g) \/ RetryOnConflict(r, g) \/ UpdateFails(r, g) \/ UpdateLost(r, g)
  \/ g = "main" /\ (LoadTLS(r) \/ WaitGroupDone(r))
  \/ g = "rotateCA" /\ (rotateCACert(r) \/ SetCAKey(r) \/ SetCACert(r))
  \/ g = "rotateTLS" /\ rotateTLSCert(r)
  \/ g = "sync" /\ (SyncTick(r) \/ SyncNext(r))
  \/ g \in Loops /\ LeaveLoop(r, g)

Next ==
  \/ \E r \in Replicas :
       \/ \E g \in Goroutines : GoroutineStep(r, g)
       \/ Boot(r) \/ Cancel(r) \/ CacheSync(r) \/ Crash(r) \/ Replace(r)
  \/ Reapply
  \/ Tick

Spec == Init /\ [][Next]_vars

\* The Go scheduler runs every goroutine that can run, tickers keep firing and
\* the informer's watch delivers.  Nothing obliges a stopped process to be
\* booted, the environment to disrupt, or time to pass.
Fairness ==
  \A r \in Replicas :
    /\ \A g \in Goroutines : WF_vars(GoroutineStep(r, g))
    /\ WF_vars(CacheSync(r))

FairSpec == Spec /\ Fairness

-----------------------------------------------------------------------------
(* Properties.                                                             *)

\* Type invariant.
TypeOK ==
  /\ now \in Nat
  /\ nextSerial \in [Replicas -> Nat]
  /\ config \in [rv : Nat, bundle : Bundles]
  /\ cache \in [Replicas -> [rv : Nat, bundle : Bundles]]
  /\ disk \in [Replicas -> [Files -> Cert]]
  /\ ca \in [Replicas -> [key : Cert, cert : Cert]]
  /\ tls \in [Replicas -> Cert]
  /\ pc \in [Replicas -> [Goroutines -> Labels]]
  /\ gen \in [Replicas -> [Goroutines -> Cert]]
  /\ upd \in [Replicas ->
               [Goroutines -> [n : Nat, rv : Nat, i : Nat, bundle : Bundles]]]
  /\ scan \in [Replicas -> [i : Nat, bundle : Bundles]]
  /\ checked \in [Replicas -> SUBSET Loops]
  /\ behind \in [Replicas -> SUBSET Serial]
  /\ disruptions \in Nat

\* A write of one replica never takes away what another relies on: whenever a
\* replica's Update or clean-up changes a CABundle, a certificate that goes
\* missing has expired or is the writer's own CA.  (manager.go: updateCABundles
\* and removeCABundle applied to a possibly stale object, saved with its
\* resource version, whether or not the response arrives.)
NoForeignCARemoved ==
  [][\A r \in Replicas, g \in Goroutines :
       UpdateWebhook(r, g) \/ UpdateLost(r, g) =>
         \A w \in Webhooks :
           \A e \in config.bundle[w] \ config'.bundle[w] :
             Expired(e.cert) \/ e.cert.serial = ca[r].cert.serial]_vars

\* A replica whose Start returned nil has withdrawn its CA: no webhook trusts
\* it any more, and no stale writer brings it back before the next boot.
\* (manager.go: wg.Wait before cleanUpMutatingWebhookConfiguration.)
StoppedCAWithdrawn ==
  \A r \in Replicas :
    At(r, "main", "stopped") =>
      \A w \in Webhooks : ~caBundleFound(config.bundle[w], ca[r].cert)

\* The certificate a running replica serves is unexpired and its issuer is in
\* every CABundle, through rotations of either certificate, unless the update
\* for that issuer was given up, or it was loaded from disk or wiped by the
\* chart, and it was not published since.  (manager.go: rotateCACert updates the
\* webhooks before it signs the new TLS certificate; rotation margins.)
ServedCertTrusted ==
  \A r \in Replicas :
    LET c == disk[r]["tlsCrt"] IN
    At(r, "main", "run") /\ c.issuer \notin behind[r] =>
      /\ ~Expired(c)
      /\ \A w \in Webhooks : c.issuer \in Serials(config.bundle[w])

\* Between two writes of the pair, the certificate and the key that the webhook
\* server loads belong together.  (generate.go: writeBundle called from two
\* rotation loops.)
ServedPairMatches ==
  \A r \in Replicas :
    At(r, "main", "run") /\ (\A g \in Loops : pc[r][g] \notin {"tlsCrt", "tlsKey"})
      => disk[r]["tlsCrt"] = disk[r]["tlsKey"]

\* The sync loop repairs: a running replica whose CA is missing from a webhook
\* publishes it in all of them, or stops running.
CAEventuallyPublished ==
  \A r \in Replicas :
    At(r, "main", "run") /\ ~Published(r, config.bundle)
      ~> Published(r, config.bundle) \/ ~At(r, "main", "run")

Trust == INSTANCE CABundle WITH
  trusted <- [w \in Webhooks |-> {e.cert : e \in config.bundle[w]}],
  active <- {r \in Replicas : ~At(r, "main", "stopped")}

\* Every write of a replica, made from an object that its cache or an earlier
\* read gave it and retried on conflicts, amounts to one atomic publication or
\* withdrawal of CAs of its own in the CABundles as they are at that moment: one
\* for every webhook, not the same one for all when a rotation assigns c.ca while
\* a sync reads it.  (manager.go: updateWebhookConfiguration and rotateCACert.)
ImplementsCABundle == Trust!Spec

\* manager.go:352 says updateCABundles cleans up "the cert with the currently
\* generated CN": a CABundle would hold one copy of a CA.
OneCopyOfEachCA ==
  \A w \in Webhooks : \A e, f \in config.bundle[w] :
    e.cert.serial = f.cert.serial => e = f

\* manager.go:97 "Check if there is valid CA bundle": the CA that New takes
\* from disk would be one that can sign, its key being the certificate's.
LoadedCAIsValid ==
  \A r \in Replicas : At(r, "main", "loadTLS") => ca[r].key = ca[r].cert
=============================================================================
