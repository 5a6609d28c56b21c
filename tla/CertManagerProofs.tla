------------------------- MODULE CertManagerProofs -------------------------
(***************************************************************************)
(* Proofs about CertManager, for any number of replicas and webhooks and   *)
(* any validity periods: type correctness, and that an update of the       *)
(* shared webhook configuration never removes another replica's unexpired  *)
(* CA.                                                                     *)
(***************************************************************************)
EXTENDS CertManager, FiniteSetTheorems, TLAPS

-----------------------------------------------------------------------------
(* The values the actions are built from.                                  *)

LEMMA NoCertType == NoCert \in Cert
  BY DEF NoCert, Cert, Serial, NoSerial

Bundle == {b \in SUBSET Entry : IsFiniteSet(b)}

LEMMA EmptyBundles == [w \in Webhooks |-> {}] \in Bundles
  BY FS_EmptySet DEF Bundles

LEMMA IdleTypes ==
  /\ IdleUpd \in [n : Nat, rv : Nat, i : Nat, bundle : Bundles]
  /\ IdleScan \in [i : Nat, bundle : Bundles]
  /\ NoCache \in [rv : Nat, bundle : Bundles]
  /\ EmptyDisk \in [Files -> Cert]
  BY NoCertType, EmptyBundles DEF IdleUpd, IdleScan, NoCache, EmptyDisk

LEMMA OffLoopsType ==
  ASSUME NEW p \in Off
  PROVE  OffLoops(p) \in [Goroutines -> Labels]
  BY DEF OffLoops, Labels, Goroutines, Off

\* removeCABundle and the clean-up of expired certificates keep a finite bundle.
LEMMA FilterType ==
  ASSUME NEW b \in Bundle, NEW c, NEW S \in SUBSET b
  PROVE  S \in Bundle
  BY FS_Subset DEF Bundle

LEMMA AppendCAType ==
  ASSUME NEW b \in Bundle, NEW c \in Cert
  PROVE  AppendCA(b, c) \in Bundle
<1> DEFINE S == {e \in b : e.cert.serial = c.serial}
<1>1. IsFiniteSet(b) /\ b \in SUBSET Entry
  BY DEF Bundle
<1>2. IsFiniteSet(S) /\ Cardinality(S) \in Nat
  BY <1>1, FS_Subset, FS_CardinalityType
<1>3. [cert |-> c, copy |-> 1 + Cardinality(S)] \in Entry
  BY <1>2 DEF Entry
<1>4. IsFiniteSet(b \cup {[cert |-> c, copy |-> 1 + Cardinality(S)]})
  BY <1>1, FS_AddElement
<1>5. QED
  BY <1>1, <1>3, <1>4 DEF AppendCA, Bundle

LEMMA UpdateCABundlesType ==
  ASSUME NEW b \in Bundle, NEW c \in Cert
  PROVE  updateCABundles(b, c) \in Bundle
  BY AppendCAType, FilterType DEF updateCABundles

LEMMA RemoveCABundleType ==
  ASSUME NEW b \in Bundle, NEW c \in Cert
  PROVE  removeCABundle(b, c) \in Bundle
  BY FilterType DEF removeCABundle

LEMMA GotType ==
  ASSUME TypeOK, NEW r \in Replicas, NEW g \in Goroutines, NEW b \in Bundles
  PROVE  Got(r, g, b) \in Bundles
<1>1. \A w \in Webhooks : b[w] \in Bundle
  BY DEF Bundles, Bundle
<1>2. ca[r].cert \in Cert
  BY DEF TypeOK
<1>3. \A w \in Webhooks : removeCABundle(b[w], ca[r].cert) \in Bundle
  BY <1>1, <1>2, RemoveCABundleType
<1>4. QED
  BY <1>3 DEF Got, Bundles, Bundle

LEMMA FilledFacts ==
  ASSUME NEW o \in [n : Nat, rv : Nat, i : Nat, bundle : Bundles], NEW c \in Cert
  PROVE  /\ Filled(o, c) \in [n : Nat, rv : Nat, i : Nat, bundle : Bundles]
         /\ Filled(o, c).rv = o.rv /\ Filled(o, c).i = o.i + 1
         /\ \A w \in Webhooks : Filled(o, c).bundle[w] =
              IF w = o.i THEN updateCABundles(o.bundle[w], c) ELSE o.bundle[w]
<1>1. \A w \in Webhooks : updateCABundles(o.bundle[w], c) \in Bundle
  BY UpdateCABundlesType DEF Bundles, Bundle
<1>2. PICK b : b = [o.bundle EXCEPT ![o.i] = updateCABundles(@, c)]
  OBVIOUS
<1>3. /\ b \in Bundles
      /\ \A w \in Webhooks :
           b[w] = IF w = o.i THEN updateCABundles(o.bundle[w], c) ELSE o.bundle[w]
  BY <1>1, <1>2 DEF Bundles, Bundle
<1>4. Filled(o, c) = [n |-> o.n, rv |-> o.rv, i |-> o.i + 1, bundle |-> b]
  BY <1>2 DEF Filled
<1>5. QED
  BY <1>3, <1>4

LEMMA StoredType ==
  ASSUME TypeOK, NEW b \in Bundles
  PROVE  Stored(b) \in [rv : Nat, bundle : Bundles]
  BY DEF TypeOK, Stored

LEMMA UnpublishedType ==
  ASSUME NEW S \in SUBSET Serial, NEW b
  PROVE  Unpublished(S, b) \in SUBSET Serial
  BY DEF Unpublished

LEMMA GotoType ==
  ASSUME TypeOK, NEW r \in Replicas, NEW g \in Goroutines, NEW l \in Labels, Goto(r, g, l)
  PROVE  pc' \in [Replicas -> [Goroutines -> Labels]]
  BY DEF TypeOK, Goto

\* A process that ends leaves well-typed state behind.
LEMMA ExitAsType ==
  ASSUME TypeOK, NEW r \in Replicas, NEW p \in Off, ExitAs(r, p)
  PROVE  /\ pc' \in [Replicas -> [Goroutines -> Labels]]
         /\ gen' \in [Replicas -> [Goroutines -> Cert]]
         /\ upd' \in [Replicas -> [Goroutines -> [n : Nat, rv : Nat, i : Nat, bundle : Bundles]]]
         /\ scan' \in [Replicas -> [i : Nat, bundle : Bundles]]
         /\ checked' \in [Replicas -> SUBSET Loops]
         /\ cache' \in [Replicas -> [rv : Nat, bundle : Bundles]]
<1>1. OffLoops(p) \in [Goroutines -> Labels]
  BY OffLoopsType
<1>2. [g \in Goroutines |-> NoCert] \in [Goroutines -> Cert]
  BY NoCertType
<1>3. [g \in Goroutines |-> IdleUpd]
        \in [Goroutines -> [n : Nat, rv : Nat, i : Nat, bundle : Bundles]]
  BY IdleTypes
<1>4. QED
  BY <1>1, <1>2, <1>3, IdleTypes DEF TypeOK, ExitAs

\* The same for the continuation of an update.
LEMMA AfterUpdateType ==
  ASSUME TypeOK, NEW r \in Replicas, NEW g \in Goroutines, NEW ok \in BOOLEAN,
         AfterUpdate(r, g, ok)
  PROVE  /\ pc' \in [Replicas -> [Goroutines -> Labels]]
         /\ gen' \in [Replicas -> [Goroutines -> Cert]]
         /\ upd' \in [Replicas -> [Goroutines -> [n : Nat, rv : Nat, i : Nat, bundle : Bundles]]]
         /\ scan' \in [Replicas -> [i : Nat, bundle : Bundles]]
         /\ checked' \in [Replicas -> SUBSET Loops]
         /\ cache' \in [Replicas -> [rv : Nat, bundle : Bundles]]
<1>1. CASE ExitAs(r, IF ok THEN "stopped" ELSE "failed")
  <2>1. (IF ok THEN "stopped" ELSE "failed") \in Off
    BY DEF Off
  <2>2. QED
    BY <1>1, <2>1, ExitAsType
<1>2. CASE ExitAs(r, "down")
  BY <1>2, ExitAsType DEF Off
<1>3. CASE /\ Goto(r, g, Resume(g))
           /\ upd' = [upd EXCEPT ![r][g] = IdleUpd]
           /\ UNCHANGED <<gen, scan, checked, cache>>
  <2>1. Resume(g) \in Labels
    BY DEF Resume, Labels
  <2>2. QED
    BY <1>3, <2>1, IdleTypes DEF TypeOK, Goto
<1>4. QED
  BY <1>1, <1>2, <1>3 DEF AfterUpdate

-----------------------------------------------------------------------------
(* Type correctness.                                                       *)

LEMMA GoroutineTypeOK ==
  ASSUME TypeOK, NEW r \in Replicas, NEW g \in Goroutines, GoroutineStep(r, g)
  PROVE  TypeOK'
<1> USE BoundAssumption, PeriodAssumption
<1>1. CASE generateCACert(r, g)
  <2>1. NewSerial(r) \in Serial /\ now + CAValidity \in Nat
    BY DEF TypeOK, NewSerial, Serial
  <2>2. [serial |-> NewSerial(r), issuer |-> NewSerial(r),
         notAfter |-> now + CAValidity] \in Cert
    BY <2>1 DEF Cert
  <2>3. QED
    BY <1>1, <2>2 DEF TypeOK, generateCACert, Goto, Labels, Files
<1>2. CASE writeBundle(r, g)
  <2>1. AfterWrite(g, pc[r][g]) \in Labels
    BY <1>2 DEF writeBundle, AfterWrite, Labels, Files
  <2>2. pc[r][g] \in Files /\ gen[r][g] \in Cert
    BY <1>2 DEF writeBundle, TypeOK
  <2>3. pc' \in [Replicas -> [Goroutines -> Labels]]
    BY <1>2, <2>1 DEF TypeOK, writeBundle, Goto
  <2>4. disk' \in [Replicas -> [Files -> Cert]]
    BY <1>2, <2>2 DEF TypeOK, writeBundle
  <2>5. /\ ca' \in [Replicas -> [key : Cert, cert : Cert]]
        /\ gen' \in [Replicas -> [Goroutines -> Cert]]
    <3>1. CASE g = "main" /\ At(r, g, "caKey")
      <4>1. [key |-> gen[r][g], cert |-> gen[r][g]] \in [key : Cert, cert : Cert]
        BY <2>2
      <4>2. /\ ca' = [ca EXCEPT ![r] = [key |-> gen[r][g], cert |-> gen[r][g]]]
            /\ gen' = [gen EXCEPT ![r][g] = NoCert]
        BY <1>2, <3>1 DEF writeBundle
      <4>3. ca' \in [Replicas -> [key : Cert, cert : Cert]]
        BY <4>1, <4>2 DEF TypeOK
      <4>4. gen' \in [Replicas -> [Goroutines -> Cert]]
        BY <4>2, NoCertType DEF TypeOK
      <4>5. QED
        BY <4>3, <4>4
    <3>2. CASE ~(g = "main" /\ At(r, g, "caKey"))
      BY <1>2, <3>2 DEF TypeOK, writeBundle
    <3>3. QED
      BY <3>1, <3>2
  <2>6. QED
    BY <1>2, <2>3, <2>4, <2>5 DEF TypeOK, writeBundle
<1>3. CASE generateTLSCert(r, g)
  <2>1. NewSerial(r) \in Serial /\ now + TLSValidity \in Nat
        /\ ca[r].cert.serial \in Serial
    BY DEF TypeOK, NewSerial, Serial, Cert
  <2>2. [serial |-> NewSerial(r), issuer |-> ca[r].cert.serial,
         notAfter |-> now + TLSValidity] \in Cert
    BY <2>1 DEF Cert
  <2>3. QED
    BY <1>3, <2>2 DEF TypeOK, generateTLSCert, Goto, Labels, Files
<1>4. CASE SignFails(r, g)
  BY <1>4, ExitAsType DEF TypeOK, SignFails, Off
<1>5. ASSUME Start(r)
      PROVE  /\ pc' \in [Replicas -> [Goroutines -> Labels]]
             /\ cache' \in [Replicas -> [rv : Nat, bundle : Bundles]]
  BY <1>5 DEF TypeOK, Start, Labels
<1>6. CASE SetTLS(r, g)
  <2>1. /\ pc' \in [Replicas -> [Goroutines -> Labels]]
        /\ cache' \in [Replicas -> [rv : Nat, bundle : Bundles]]
    <3>1. CASE g = "main"
      BY <1>5, <1>6, <3>1 DEF SetTLS
    <3>2. CASE g # "main"
      BY <1>6, <3>2, GotoType DEF TypeOK, SetTLS, Labels
    <3>3. QED
      BY <3>1, <3>2
  <2>2. tls' \in [Replicas -> Cert] /\ gen' \in [Replicas -> [Goroutines -> Cert]]
    BY <1>6, NoCertType DEF TypeOK, SetTLS
  <2>3. QED
    BY <1>6, <2>1, <2>2 DEF TypeOK, SetTLS
<1>7. CASE GetWebhook(r, g)
  <2>1. Source(r, g) \in [rv : Nat, bundle : Bundles]
    BY DEF Source, TypeOK
  <2>2. Got(r, g, Source(r, g).bundle) \in Bundles
    BY <2>1, GotType
  <2>3. [n |-> upd[r][g].n + 1, rv |-> Source(r, g).rv, i |-> 1,
         bundle |-> Got(r, g, Source(r, g).bundle)] \in [n : Nat, rv : Nat, i : Nat, bundle : Bundles]
    BY <2>1, <2>2 DEF TypeOK
  <2>4. upd' \in [Replicas -> [Goroutines -> [n : Nat, rv : Nat, i : Nat, bundle : Bundles]]]
    BY <1>7, <2>3 DEF TypeOK, GetWebhook
  <2>5. pc' \in [Replicas -> [Goroutines -> Labels]]
    BY <1>7 DEF TypeOK, GetWebhook, Goto, Labels
  <2>6. QED
    BY <1>7, <2>4, <2>5 DEF TypeOK, GetWebhook
<1>a. CASE FillWebhook(r, g)
  <2>1. /\ upd[r][g] \in [n : Nat, rv : Nat, i : Nat, bundle : Bundles]
        /\ ca[r].cert \in Cert
    BY DEF TypeOK
  <2>2. Filled(upd[r][g], ca[r].cert) \in [n : Nat, rv : Nat, i : Nat, bundle : Bundles]
    BY <2>1, FilledFacts
  <2>3. upd' \in [Replicas -> [Goroutines -> [n : Nat, rv : Nat, i : Nat, bundle : Bundles]]]
    BY <1>a, <2>2 DEF TypeOK, FillWebhook
  <2>4. pc' \in [Replicas -> [Goroutines -> Labels]]
    BY <1>a DEF TypeOK, FillWebhook, Goto, Labels
  <2>5. QED
    BY <1>a, <2>3, <2>4 DEF TypeOK, FillWebhook
<1>8. CASE UpdateWebhook(r, g)
  <2>1. upd[r][g].bundle \in Bundles
    BY DEF TypeOK
  <2>2. config' \in [rv : Nat, bundle : Bundles]
    BY <1>8, <2>1, StoredType DEF UpdateWebhook
  <2>3. behind' \in [Replicas -> SUBSET Serial]
    BY <1>8, UnpublishedType DEF TypeOK, UpdateWebhook
  <2>4. AfterUpdate(r, g, TRUE)
    BY <1>8 DEF UpdateWebhook
  <2>5. QED
    BY <1>8, <2>2, <2>3, <2>4, AfterUpdateType DEF TypeOK, UpdateWebhook
<1>9. CASE RetryOnConflict(r, g)
  BY <1>9 DEF TypeOK, RetryOnConflict, Goto, Labels
<1>10. CASE UpdateFails(r, g)
  <2>1. behind' \in [Replicas -> SUBSET Serial]
    <3>1. behind[r] \cup {ca[r].cert.serial} \in SUBSET Serial
      BY DEF TypeOK, Cert
    <3>2. QED
      BY <1>10, <3>1, UnpublishedType DEF TypeOK, UpdateFails
  <2>2. AfterUpdate(r, g, FALSE)
    BY <1>10 DEF UpdateFails
  <2>3. disruptions' \in Nat
    BY <1>10 DEF TypeOK, UpdateFails, Disrupt
  <2>4. QED
    BY <1>10, <2>1, <2>2, <2>3, AfterUpdateType DEF TypeOK, UpdateFails
<1>11. CASE LoadTLS(r)
  <2>1. /\ pc' \in [Replicas -> [Goroutines -> Labels]]
        /\ cache' \in [Replicas -> [rv : Nat, bundle : Bundles]]
        /\ tls' \in [Replicas -> Cert]
    <3>1. CASE Loadable(r, "tlsCrt", "tlsKey")
      <4>1. disk[r]["tlsCrt"] \in Cert
        BY DEF TypeOK, Files
      <4>2. QED
        BY <1>5, <1>11, <3>1, <4>1 DEF TypeOK, LoadTLS
    <3>2. CASE ~Loadable(r, "tlsCrt", "tlsKey")
      <4>1. Goto(r, "main", "sign") /\ UNCHANGED <<tls, cache>>
        BY <1>11, <3>2 DEF LoadTLS
      <4>2. QED
        BY <4>1, GotoType DEF TypeOK, Labels, Goroutines
    <3>3. QED
      BY <3>1, <3>2
  <2>2. QED
    BY <1>11, <2>1 DEF TypeOK, LoadTLS
<1>12. CASE WaitGroupDone(r)
  BY <1>12 DEF TypeOK, WaitGroupDone, Goto, Labels, Goroutines
<1>13. CASE rotateCACert(r) \/ rotateTLSCert(r)
  <2>1. PICK h \in {"rotateCA", "rotateTLS"}, l \in {"genCA", "sign"} :
          /\ checked' = [checked EXCEPT ![r] = @ \cup {h}]
          /\ Goto(r, h, l) \/ UNCHANGED pc
          /\ UNCHANGED <<now, nextSerial, config, cache, disk, ca, tls, gen, upd, scan,
                         behind, disruptions>>
    BY <1>13 DEF rotateCACert, rotateTLSCert, Check
  <2>2. pc' \in [Replicas -> [Goroutines -> Labels]]
    BY <2>1, GotoType DEF TypeOK, Labels, Goroutines
  <2>3. checked' \in [Replicas -> SUBSET Loops]
    BY <2>1 DEF TypeOK, Loops
  <2>4. QED
    BY <2>1, <2>2, <2>3 DEF TypeOK
<1>14. CASE SetCAKey(r) \/ SetCACert(r)
  <2>1. gen[r]["rotateCA"] \in Cert
    BY DEF TypeOK, Goroutines
  <2>2. pc' \in [Replicas -> [Goroutines -> Labels]]
    BY <1>14, GotoType DEF SetCAKey, SetCACert, Labels, Goroutines
  <2>3. ca' \in [Replicas -> [key : Cert, cert : Cert]]
    <3>1. ca \in [Replicas -> [key : Cert, cert : Cert]]
      BY DEF TypeOK
    <3>2. PICK x \in [key : Cert, cert : Cert] : ca' = [ca EXCEPT ![r] = x]
      <4>1. [ca[r] EXCEPT !.key = gen[r]["rotateCA"]] \in [key : Cert, cert : Cert]
        BY <2>1, <3>1
      <4>2. [ca[r] EXCEPT !.cert = gen[r]["rotateCA"]] \in [key : Cert, cert : Cert]
        BY <2>1, <3>1
      <4>3. QED
        BY <1>14, <4>1, <4>2 DEF SetCAKey, SetCACert
    <3>3. QED
      BY <3>1, <3>2
  <2>4. gen' \in [Replicas -> [Goroutines -> Cert]]
    <3>1. UNCHANGED gen \/ gen' = [gen EXCEPT ![r]["rotateCA"] = NoCert]
      BY <1>14 DEF SetCAKey, SetCACert
    <3>2. gen \in [Replicas -> [Goroutines -> Cert]]
      BY DEF TypeOK
    <3>3. [gen[r] EXCEPT !["rotateCA"] = NoCert] \in [Goroutines -> Cert]
      BY <3>2, NoCertType
    <3>4. QED
      BY <3>1, <3>2, <3>3
  <2>5. QED
    BY <1>14, <2>2, <2>3, <2>4 DEF TypeOK, SetCAKey, SetCACert
<1>15. CASE SyncTick(r) \/ SyncNext(r)
  <2>1. PICK b \in Bundles, i \in Nat : ScanFrom(r, b, i)
    BY <1>15 DEF TypeOK, SyncTick, SyncNext
  <2>2. PICK x \in [i : Nat, bundle : Bundles], l \in {"idle", "get"} :
          /\ scan' = [scan EXCEPT ![r] = x]
          /\ Goto(r, "sync", l)
    <3>1. \A w \in Missing(r, b, i) : [i |-> w + 1, bundle |-> b] \in [i : Nat, bundle : Bundles]
      BY WebhooksAssumption DEF Missing, Webhooks
    <3>2. QED
      BY <2>1, <3>1, IdleTypes DEF ScanFrom
  <2>3. scan' \in [Replicas -> [i : Nat, bundle : Bundles]]
    BY <2>2 DEF TypeOK
  <2>4. pc' \in [Replicas -> [Goroutines -> Labels]]
    BY <2>2, GotoType DEF Labels, Goroutines
  <2>5. QED
    BY <1>15, <2>3, <2>4 DEF TypeOK, SyncTick, SyncNext
<1>16. CASE g \in Loops /\ LeaveLoop(r, g)
  BY <1>16 DEF TypeOK, LeaveLoop, Goto, Labels
<1>17. CASE UpdateLost(r, g)
  <2>1. upd[r][g].bundle \in Bundles
    BY DEF TypeOK
  <2>2. config' \in [rv : Nat, bundle : Bundles]
    BY <1>17, <2>1, StoredType DEF UpdateLost
  <2>3. behind' \in [Replicas -> SUBSET Serial]
    BY <1>17, UnpublishedType DEF TypeOK, UpdateLost
  <2>4. AfterUpdate(r, g, FALSE)
    BY <1>17 DEF UpdateLost
  <2>5. disruptions' \in Nat
    BY <1>17 DEF TypeOK, UpdateLost, Disrupt
  <2>6. QED
    BY <1>17, <2>2, <2>3, <2>4, <2>5, AfterUpdateType DEF TypeOK, UpdateLost
<1>18. QED
  BY <1>1, <1>2, <1>3, <1>4, <1>6, <1>7, <1>8, <1>9, <1>10, <1>11, <1>12, <1>13,
     <1>14, <1>15, <1>16, <1>17, <1>a DEF GoroutineStep

\* Every step keeps the types.
LEMMA NextTypeOK ==
  ASSUME TypeOK, [Next]_vars
  PROVE  TypeOK'
<1> USE BoundAssumption
<1>1. ASSUME NEW r \in Replicas, NEW g \in Goroutines, GoroutineStep(r, g)
      PROVE  TypeOK'
  BY <1>1, GoroutineTypeOK
<1>2. ASSUME NEW r \in Replicas, Boot(r)
      PROVE  TypeOK'
  <2>1. disk[r]["caKey"] \in Cert /\ disk[r]["caCrt"] \in Cert
    BY DEF TypeOK, Files
  <2>2. PICK x \in [key : Cert, cert : Cert], v \in SUBSET Serial, l \in {"loadTLS", "genCA"} :
          /\ ca' = [ca EXCEPT ![r] = x]
          /\ behind' = [behind EXCEPT ![r] = v]
          /\ Goto(r, "main", l)
    <3>1. behind[r] \cup {disk[r]["caCrt"].serial} \in SUBSET Serial
      BY <2>1 DEF TypeOK, Cert
    <3>2. behind[r] \in SUBSET Serial /\ behind = [behind EXCEPT ![r] = behind[r]]
      BY DEF TypeOK
    <3>3. QED
      BY <1>2, <2>1, <3>1, <3>2, NoCertType DEF Boot
  <2>3. pc' \in [Replicas -> [Goroutines -> Labels]]
    BY <1>2, <2>2, GotoType DEF Labels, Goroutines
  <2>4. QED
    BY <1>2, <2>2, <2>3, NoCertType DEF TypeOK, Boot
<1>3. ASSUME NEW r \in Replicas, Cancel(r)
      PROVE  TypeOK'
  <2>1. pc' \in [Replicas -> [Goroutines -> Labels]]
    BY <1>3, GotoType DEF Cancel, Labels, Goroutines
  <2>2. QED
    BY <1>3, <2>1 DEF TypeOK, Cancel, Disrupt
<1>4. ASSUME NEW r \in Replicas, CacheSync(r)
      PROVE  TypeOK'
  BY <1>4 DEF TypeOK, CacheSync
<1>5. ASSUME NEW r \in Replicas, Crash(r)
      PROVE  TypeOK'
  <2>1. disk' \in [Replicas -> [Files -> Cert]]
    BY <1>5, NoCertType DEF TypeOK, Crash
  <2>2. disruptions' \in Nat
    BY <1>5 DEF TypeOK, Crash, Disrupt
  <2>3. ExitAs(r, "down") /\ "down" \in Off
    BY <1>5 DEF Crash, Off
  <2>4. QED
    BY <1>5, <2>1, <2>2, <2>3, ExitAsType DEF TypeOK, Crash
<1>6. ASSUME NEW r \in Replicas, Replace(r)
      PROVE  TypeOK'
  <2>1. OffLoops("down") \in [Goroutines -> Labels]
    BY OffLoopsType DEF Off
  <2>2. QED
    BY <1>6, <2>1, IdleTypes DEF TypeOK, Replace
<1>7. CASE Reapply
  <2>1. config' \in [rv : Nat, bundle : Bundles]
    BY <1>7, EmptyBundles, StoredType DEF Reapply
  <2>2. \A w \in Webhooks : Serials(config.bundle[w]) \in SUBSET Serial
    BY DEF TypeOK, Bundles, Serials, Entry, Cert
  <2>3. behind' \in [Replicas -> SUBSET Serial]
    BY <1>7, <2>2 DEF TypeOK, Reapply
  <2>4. QED
    BY <1>7, <2>1, <2>3 DEF TypeOK, Reapply, Disrupt
<1>8. CASE Tick
  BY <1>8 DEF TypeOK, Tick
<1>9. CASE UNCHANGED vars
  BY <1>9 DEF TypeOK, vars
<1>10. QED
  BY <1>1, <1>2, <1>3, <1>4, <1>5, <1>6, <1>7, <1>8, <1>9 DEF Next

\* The state of every replica, of its goroutines and of the shared object keeps
\* its type through every operation, crash and boot.
THEOREM TypeCorrect == Spec => []TypeOK
<1>1. Init => TypeOK
  <2> SUFFICES ASSUME Init PROVE TypeOK
    OBVIOUS
  <2>1. OffLoops("down") \in [Goroutines -> Labels]
    BY OffLoopsType DEF Off
  <2>2. config \in [rv : Nat, bundle : Bundles]
    BY EmptyBundles DEF Init
  <2>3. QED
    BY <2>1, <2>2, NoCertType, IdleTypes DEF Init, TypeOK
<1>2. TypeOK /\ [Next]_vars => TypeOK'
  BY NextTypeOK
<1>3. QED
  BY <1>1, <1>2, PTL DEF Spec

-----------------------------------------------------------------------------
(* No write removes another replica's unexpired CA.  The argument is the   *)
(* resource version: an object, cached or in a goroutine's hands, that     *)
(* still carries the server's version is the server's object, so what the  *)
(* writer leaves out of it is what its own change left out.                *)

\* The informer's copy is an old version, or the object itself.
CacheInv ==
  /\ config.rv > 0
  /\ \A r \in Replicas :
       /\ cache[r].rv <= config.rv
       /\ cache[r].rv = config.rv => cache[r].bundle = config.bundle

\* The clean-up belongs to main, and runs when every loop has ended.
Cleaning(r) == pc[r]["main"] \in {"cleanGet", "cleanPut"}
DrainInv ==
  \A r \in Replicas, g \in Loops :
    /\ pc[r][g] \notin {"cleanGet", "cleanPut"}
    /\ Cleaning(r) => pc[r][g] = "done"

\* What an object that would be accepted leaves out.
LeavesOut(r, g, e) ==
  IF pc[r][g] = "cleanPut" THEN e.cert.serial = ca[r].cert.serial ELSE Expired(e.cert)
PutInv ==
  \A r \in Replicas, g \in Goroutines :
    pc[r][g] \in {"fill", "put", "cleanPut"} =>
      /\ pc[r][g] = "fill" => upd[r][g].i \in Webhooks
      /\ upd[r][g].rv <= config.rv
      /\ upd[r][g].rv = config.rv =>
           \A w \in Webhooks : \A e \in config.bundle[w] :
             e \in upd[r][g].bundle[w] \/ LeavesOut(r, g, e)

VersionInv == TypeOK /\ CacheInv /\ DrainInv /\ PutInv

\* An object of an earlier version is of the current one only if nothing has
\* been stored.
LEMMA StoredVersion ==
  ASSUME VersionInv, NEW b \in Bundles, config' = config \/ config' = Stored(b),
         NEW v \in Nat, v <= config.rv
  PROVE  /\ config'.rv > 0
         /\ v <= config'.rv
         /\ v = config'.rv => v = config.rv /\ config'.bundle = config.bundle
<1>1. config.rv \in Nat /\ config.rv > 0
  BY DEF VersionInv, CacheInv, TypeOK
<1>2. QED
  BY <1>1 DEF Stored

\* Steps that put no new object into a goroutine's hands: the server's object
\* may be replaced, caches refreshed or dropped, goroutines may move on or end.
LEMMA ObjectsKept ==
  ASSUME VersionInv, TypeOK', now <= now',
         NEW b \in Bundles, config' = config \/ config' = Stored(b),
         \A q \in Replicas : cache'[q] \in {cache[q], config', NoCache},
         \A q \in Replicas, h \in Goroutines :
           pc'[q][h] \in {"fill", "put", "cleanPut"} =>
             /\ UNCHANGED pc[q][h] /\ UNCHANGED upd[q][h]
             /\ pc[q][h] = "cleanPut" => UNCHANGED ca[q]
  PROVE  CacheInv' /\ PutInv'
<1>1. \A q \in Replicas : cache[q].rv \in Nat /\ cache[q].rv <= config.rv
  BY DEF VersionInv, CacheInv, TypeOK
<1>2. config'.rv > 0
  <2>1. config.rv \in Nat /\ config.rv <= config.rv
    BY DEF VersionInv, TypeOK
  <2>2. QED
    BY <2>1, StoredVersion
<1>3. CacheInv'
  <2> SUFFICES ASSUME NEW q \in Replicas
               PROVE  /\ cache'[q].rv <= config'.rv
                      /\ cache'[q].rv = config'.rv => cache'[q].bundle = config'.bundle
    BY <1>2 DEF CacheInv
  <2>1. CASE cache'[q] = cache[q]
    BY <1>1, <2>1, StoredVersion DEF VersionInv, CacheInv
  <2>2. CASE cache'[q] = config'
    BY <2>2 DEF TypeOK
  <2>3. CASE cache'[q] = NoCache
    BY <1>2, <2>3 DEF NoCache, TypeOK
  <2>4. QED
    BY <2>1, <2>2, <2>3
<1>4. PutInv'
  <2> SUFFICES ASSUME NEW q \in Replicas, NEW h \in Goroutines,
                      pc'[q][h] \in {"fill", "put", "cleanPut"}
               PROVE  /\ pc'[q][h] = "fill" => upd'[q][h].i \in Webhooks
                      /\ upd'[q][h].rv <= config'.rv
                      /\ upd'[q][h].rv = config'.rv =>
                           \A w \in Webhooks : \A e \in config'.bundle[w] :
                             e \in upd'[q][h].bundle[w] \/ LeavesOut(q, h, e)'
    BY DEF PutInv
  <2>1. /\ pc'[q][h] = pc[q][h] /\ upd'[q][h] = upd[q][h]
        /\ pc[q][h] = "cleanPut" => UNCHANGED ca[q]
    OBVIOUS
  <2>2. upd[q][h].rv \in Nat /\ upd[q][h].rv <= config.rv
    BY <2>1 DEF VersionInv, PutInv, TypeOK
  <2>3. \A w \in Webhooks : \A e \in config.bundle[w] :
          LeavesOut(q, h, e) => LeavesOut(q, h, e)'
    <3>1. \A w \in Webhooks : \A e \in config.bundle[w] : e.cert.notAfter \in Nat
      BY DEF VersionInv, TypeOK, Bundles, Entry, Cert
    <3>2. QED
      BY <2>1, <3>1 DEF LeavesOut, Expired, VersionInv, TypeOK
  <2>4. QED
    BY <2>1, <2>2, <2>3, StoredVersion DEF VersionInv, PutInv
<1>5. QED
  BY <1>3, <1>4

\* One goroutine moves to a place where it holds no object.
LEMMA FrameStep ==
  ASSUME VersionInv, TypeOK', NEW r \in Replicas, NEW g \in Goroutines,
         NEW l \in Labels \ {"fill", "put", "cleanGet", "cleanPut"},
         Goto(r, g, l), g \in Loops => pc[r][g] # "done",
         UNCHANGED <<now, config, cache, upd>>,
         \A q \in Replicas : Cleaning(q) => UNCHANGED ca[q]
  PROVE  VersionInv'
<1>1. pc \in [Replicas -> [Goroutines -> Labels]]
  BY DEF VersionInv, TypeOK
<1>2. \A q \in Replicas, h \in Goroutines :
        pc'[q][h] = IF q = r /\ h = g THEN l ELSE pc[q][h]
  BY <1>1 DEF Goto
<1>3. "main" \in Goroutines /\ Loops \subseteq Goroutines
  BY DEF Loops, Goroutines
<1>4. DrainInv'
  BY <1>2, <1>3 DEF VersionInv, DrainInv, Cleaning
<1>5. \A q \in Replicas, h \in Goroutines : pc[q][h] = "cleanPut" => Cleaning(q)
  BY DEF VersionInv, DrainInv, Cleaning, Loops, Goroutines
<1>6. now <= now'
  BY DEF VersionInv, TypeOK
<1>7. CacheInv' /\ PutInv'
  BY <1>2, <1>5, <1>6, EmptyBundles, ObjectsKept
<1>8. QED
  BY <1>4, <1>7 DEF VersionInv

\* A process ends; the server's object may have been replaced by its last step.
LEMMA ExitStep ==
  ASSUME VersionInv, TypeOK', NEW r \in Replicas, NEW p \in Off, ExitAs(r, p),
         NEW b \in Bundles, config' = config \/ config' = Stored(b),
         UNCHANGED <<now, ca>>
  PROVE  VersionInv'
<1>1. /\ pc \in [Replicas -> [Goroutines -> Labels]]
      /\ upd \in [Replicas -> [Goroutines -> [n : Nat, rv : Nat, i : Nat, bundle : Bundles]]]
      /\ cache \in [Replicas -> [rv : Nat, bundle : Bundles]]
  BY DEF VersionInv, TypeOK
<1>2. \A q \in Replicas : pc'[q] = IF q = r THEN OffLoops(p) ELSE pc[q]
  BY <1>1 DEF ExitAs
<1>3. \A h \in Goroutines : OffLoops(p)[h] \notin {"fill", "put", "cleanGet", "cleanPut"}
  BY DEF OffLoops, Off
<1>4. "main" \in Goroutines /\ Loops \subseteq Goroutines
  BY DEF Loops, Goroutines
<1>5. DrainInv'
  BY <1>2, <1>3, <1>4 DEF VersionInv, DrainInv, Cleaning
<1>6. \A q \in Replicas : q # r => upd'[q] = upd[q]
  BY <1>1 DEF ExitAs
<1>7. \A q \in Replicas : cache'[q] \in {cache[q], config', NoCache}
  BY <1>1 DEF ExitAs
<1>8. now <= now'
  BY DEF VersionInv, TypeOK
<1>9. CacheInv' /\ PutInv'
  BY <1>2, <1>3, <1>6, <1>7, <1>8, ObjectsKept
<1>10. QED
  BY <1>5, <1>9 DEF VersionInv

\* Start gives the loops a fresh process state and the replica a fresh cache.
LEMMA StartStep ==
  ASSUME VersionInv, TypeOK', NEW r \in Replicas, Start(r),
         UNCHANGED <<now, config, upd, ca>>
  PROVE  VersionInv'
<1>1. /\ pc \in [Replicas -> [Goroutines -> Labels]]
      /\ cache \in [Replicas -> [rv : Nat, bundle : Bundles]]
  BY DEF VersionInv, TypeOK
<1>2. \A q \in Replicas, h \in Goroutines :
        pc'[q][h] = IF q = r THEN (IF h = "main" THEN "run" ELSE "idle") ELSE pc[q][h]
  BY <1>1 DEF Start
<1>3. "main" \in Goroutines /\ Loops \subseteq Goroutines
  BY DEF Loops, Goroutines
<1>4. DrainInv'
  BY <1>2, <1>3 DEF VersionInv, DrainInv, Cleaning
<1>5. \A q \in Replicas : cache'[q] \in {cache[q], config', NoCache}
  BY <1>1 DEF Start
<1>6. now <= now'
  BY DEF VersionInv, TypeOK
<1>7. CacheInv' /\ PutInv'
  BY <1>2, <1>5, <1>6, EmptyBundles, ObjectsKept
<1>8. QED
  BY <1>4, <1>7 DEF VersionInv

\* What is left out of the object when it is read, and when a webhook is filled.
LEMMA GotLeavesOut ==
  ASSUME NEW r, NEW g, NEW B, NEW w \in Webhooks, NEW e \in B[w],
         e \notin Got(r, g, B)[w]
  PROVE  ~At(r, g, "get") /\ e.cert.serial = ca[r].cert.serial
  BY DEF Got, removeCABundle

LEMMA FilledLeavesOut ==
  ASSUME NEW b, NEW c, NEW e \in b, e \notin updateCABundles(b, c)
  PROVE  Expired(e.cert)
  BY DEF updateCABundles, AppendCA

\* Get: the object is the server's, or an older version from the cache.
LEMMA GetStep ==
  ASSUME VersionInv, TypeOK', NEW r \in Replicas, NEW g \in Goroutines,
         GetWebhook(r, g)
  PROVE  VersionInv'
<1>1. /\ pc \in [Replicas -> [Goroutines -> Labels]]
      /\ upd \in [Replicas -> [Goroutines -> [n : Nat, rv : Nat, i : Nat, bundle : Bundles]]]
      /\ cache \in [Replicas -> [rv : Nat, bundle : Bundles]]
      /\ config \in [rv : Nat, bundle : Bundles]
  BY DEF VersionInv, TypeOK
<1> DEFINE o == Source(r, g)
           l == IF At(r, g, "get") THEN "fill" ELSE "cleanPut"
<1>2. \A q \in Replicas, h \in Goroutines :
        pc'[q][h] = IF q = r /\ h = g THEN l ELSE pc[q][h]
  BY <1>1 DEF GetWebhook, Goto
<1>3. \A q \in Replicas, h \in Goroutines : ~(q = r /\ h = g) => upd'[q][h] = upd[q][h]
  BY <1>1 DEF GetWebhook
<1>4. /\ upd'[r][g].rv = o.rv
      /\ upd'[r][g].bundle = Got(r, g, o.bundle)
      /\ upd'[r][g].i = 1
  BY <1>1 DEF GetWebhook
<1>5. o.rv <= config.rv /\ (o.rv = config.rv => o.bundle = config.bundle)
  BY <1>1 DEF VersionInv, CacheInv, Source
<1>6. CacheInv'
  BY DEF VersionInv, CacheInv, GetWebhook
<1>7. DrainInv'
  <2>1. "main" \in Goroutines /\ Loops \subseteq Goroutines
    BY DEF Loops, Goroutines
  <2>2. pc[r][g] \in {"get", "cleanGet"}
    BY DEF GetWebhook
  <2>3. QED
    BY <1>2, <2>1, <2>2 DEF VersionInv, DrainInv, Cleaning, At
<1>8. PutInv'
  <2> SUFFICES ASSUME NEW q \in Replicas, NEW h \in Goroutines,
                      pc'[q][h] \in {"fill", "put", "cleanPut"}
               PROVE  /\ pc'[q][h] = "fill" => upd'[q][h].i \in Webhooks
                      /\ upd'[q][h].rv <= config'.rv
                      /\ upd'[q][h].rv = config'.rv =>
                           \A w \in Webhooks : \A e \in config'.bundle[w] :
                             e \in upd'[q][h].bundle[w] \/ LeavesOut(q, h, e)'
    BY DEF PutInv
  <2>1. UNCHANGED <<now, config, ca>>
    BY DEF GetWebhook
  <2>2. CASE q = r /\ h = g
    <3>1. ASSUME NEW w \in Webhooks, NEW e \in o.bundle[w],
                 e \notin Got(r, g, o.bundle)[w]
          PROVE  LeavesOut(r, g, e)'
      <4>1. pc'[r][g] = l
        BY <1>2
      <4>2. pc[r][g] \in {"get", "cleanGet"}
        BY DEF GetWebhook
      <4>3. QED
        BY <2>1, <3>1, <4>1, <4>2, GotLeavesOut DEF LeavesOut, At
    <3>2. upd'[r][g].i \in Webhooks
      BY <1>4, WebhooksAssumption DEF Webhooks
    <3>3. QED
      BY <1>4, <1>5, <2>1, <2>2, <3>1, <3>2
  <2>3. CASE ~(q = r /\ h = g)
    <3>1. pc'[q][h] = pc[q][h] /\ upd'[q][h] = upd[q][h]
      BY <1>2, <1>3, <2>3
    <3>2. QED
      BY <2>1, <3>1 DEF VersionInv, PutInv, LeavesOut, Expired
  <2>4. QED
    BY <2>2, <2>3
<1>9. QED
  BY <1>6, <1>7, <1>8 DEF VersionInv

\* A round of the loop over the webhooks: the object keeps its version, and the
\* webhook loses what has expired.
LEMMA FillFacts ==
  ASSUME TypeOK, NEW r \in Replicas, NEW g \in Goroutines, FillWebhook(r, g),
         upd[r][g].i \in Webhooks
  PROVE  /\ pc[r][g] = "fill" /\ UNCHANGED <<now, config, cache, ca>>
         /\ pc'[r][g] \in {"fill", "put"}
         /\ pc'[r][g] = "fill" <=> upd[r][g].i < NumWebhooks
         /\ upd'[r][g].rv = upd[r][g].rv /\ upd'[r][g].i = upd[r][g].i + 1
         /\ \A w \in Webhooks :
              upd'[r][g].bundle[w] = IF w = upd[r][g].i
                                       THEN updateCABundles(upd[r][g].bundle[w], ca[r].cert)
                                       ELSE upd[r][g].bundle[w]
         /\ \A q \in Replicas, h \in Goroutines :
              ~(q = r /\ h = g) => upd'[q][h] = upd[q][h] /\ pc'[q][h] = pc[q][h]
<1>1. /\ pc \in [Replicas -> [Goroutines -> Labels]]
      /\ upd \in [Replicas -> [Goroutines -> [n : Nat, rv : Nat, i : Nat, bundle : Bundles]]]
      /\ upd[r][g].bundle \in Bundles
  BY DEF TypeOK
<1>2. /\ pc[r][g] = "fill" /\ UNCHANGED <<now, config, cache, ca>>
      /\ pc'[r][g] = IF upd[r][g].i < NumWebhooks THEN "fill" ELSE "put"
      /\ \A q \in Replicas, h \in Goroutines :
           ~(q = r /\ h = g) => upd'[q][h] = upd[q][h] /\ pc'[q][h] = pc[q][h]
  BY <1>1 DEF FillWebhook, At, Goto
<1>3. upd'[r][g] = Filled(upd[r][g], ca[r].cert) /\ ca[r].cert \in Cert
  BY <1>1 DEF FillWebhook, TypeOK
<1>4. QED
  BY <1>1, <1>2, <1>3, FilledFacts

LEMMA FillStep ==
  ASSUME VersionInv, TypeOK', NEW r \in Replicas, NEW g \in Goroutines,
         FillWebhook(r, g)
  PROVE  VersionInv'
<1>0. TypeOK /\ pc[r][g] = "fill" /\ upd[r][g].i \in Webhooks
  BY DEF VersionInv, PutInv, FillWebhook, At
<1> DEFINE o == upd[r][g]
<1>1. /\ UNCHANGED <<now, config, cache, ca>>
      /\ pc'[r][g] \in {"fill", "put"} /\ (pc'[r][g] = "fill" <=> o.i < NumWebhooks)
      /\ upd'[r][g].rv = o.rv /\ upd'[r][g].i = o.i + 1
      /\ \A w \in Webhooks :
           upd'[r][g].bundle[w] = IF w = o.i THEN updateCABundles(o.bundle[w], ca[r].cert)
                                             ELSE o.bundle[w]
      /\ \A q \in Replicas, h \in Goroutines :
           ~(q = r /\ h = g) => upd'[q][h] = upd[q][h] /\ pc'[q][h] = pc[q][h]
  BY <1>0, FillFacts
<1>2. CacheInv'
  BY <1>1 DEF VersionInv, CacheInv
<1>3. DrainInv'
  <2>1. "main" \in Goroutines /\ Loops \subseteq Goroutines
    BY DEF Loops, Goroutines
  <2>2. QED
    BY <1>0, <1>1, <2>1 DEF VersionInv, DrainInv, Cleaning
<1>4. PutInv'
  <2> SUFFICES ASSUME NEW q \in Replicas, NEW h \in Goroutines, pc'[q][h] \in {"fill", "put", "cleanPut"}
               PROVE  /\ pc'[q][h] = "fill" => upd'[q][h].i \in Webhooks
                      /\ upd'[q][h].rv <= config'.rv
                      /\ upd'[q][h].rv = config'.rv =>
                           \A w \in Webhooks : \A e \in config'.bundle[w] :
                             e \in upd'[q][h].bundle[w] \/ LeavesOut(q, h, e)'
    BY DEF PutInv
  <2>1. CASE q = r /\ h = g
    <3>1. pc'[r][g] = "fill" => upd'[r][g].i \in Webhooks
      <4>1. NumWebhooks \in Nat /\ o.i \in 1..NumWebhooks
        BY <1>0, WebhooksAssumption DEF Webhooks
      <4>2. QED
        BY <1>1, <4>1 DEF Webhooks
    <3>2. upd'[r][g].rv <= config'.rv
      BY <1>0, <1>1 DEF VersionInv, PutInv
    <3>3. ASSUME o.rv = config.rv, NEW w \in Webhooks, NEW e \in config.bundle[w],
                 e \notin upd'[r][g].bundle[w]
          PROVE  Expired(e.cert)
      <4>1. e \in o.bundle[w] \/ Expired(e.cert)
        BY <1>0, <3>3 DEF VersionInv, PutInv, LeavesOut
      <4>2. QED
        BY <1>1, <3>3, <4>1, FilledLeavesOut
    <3>4. \A e : Expired(e.cert) => LeavesOut(r, g, e)'
      BY <1>1 DEF LeavesOut, Expired
    <3>5. QED
      BY <1>1, <2>1, <3>1, <3>2, <3>3, <3>4
  <2>2. CASE ~(q = r /\ h = g)
    <3>1. pc'[q][h] = pc[q][h] /\ upd'[q][h] = upd[q][h]
      BY <1>1, <2>2
    <3>2. QED
      BY <1>1, <3>1 DEF VersionInv, PutInv, LeavesOut, Expired
  <2>3. QED
    BY <2>1, <2>2
<1>5. QED
  BY <1>2, <1>3, <1>4 DEF VersionInv

\* What follows an update, whether the object was stored or not.
LEMMA AfterUpdateStep ==
  ASSUME VersionInv, TypeOK', NEW r \in Replicas, NEW g \in Goroutines,
         NEW ok \in BOOLEAN, AfterUpdate(r, g, ok),
         NEW b \in Bundles, config' = config \/ config' = Stored(b),
         UNCHANGED <<now, ca>>
  PROVE  VersionInv'
<1>1. ASSUME NEW p \in Off, ExitAs(r, p)
      PROVE  VersionInv'
  BY <1>1, ExitStep
<1>2. (IF ok THEN "stopped" ELSE "failed") \in Off /\ "down" \in Off
  BY DEF Off
<1>3. CASE /\ At(r, g, "put")
           /\ Goto(r, g, Resume(g))
           /\ upd' = [upd EXCEPT ![r][g] = IdleUpd]
           /\ UNCHANGED <<gen, scan, checked, cache>>
  <2>1. /\ pc \in [Replicas -> [Goroutines -> Labels]]
        /\ upd \in [Replicas -> [Goroutines -> [n : Nat, rv : Nat, i : Nat, bundle : Bundles]]]
    BY DEF VersionInv, TypeOK
  <2>2. \A q \in Replicas, h \in Goroutines :
          pc'[q][h] = IF q = r /\ h = g THEN Resume(g) ELSE pc[q][h]
    BY <1>3, <2>1 DEF Goto
  <2>3. \A q \in Replicas, h \in Goroutines : ~(q = r /\ h = g) => upd'[q][h] = upd[q][h]
    BY <1>3, <2>1
  <2>4. Resume(g) \notin {"fill", "put", "cleanGet", "cleanPut"}
    BY DEF Resume
  <2>5. "main" \in Goroutines /\ Loops \subseteq Goroutines
    BY DEF Loops, Goroutines
  <2>6. DrainInv'
    BY <1>3, <2>2, <2>4, <2>5 DEF VersionInv, DrainInv, Cleaning, At
  <2>7. now <= now'
    BY DEF VersionInv, TypeOK
  <2>8. CacheInv' /\ PutInv'
    BY <1>3, <2>2, <2>3, <2>4, <2>7, ObjectsKept
  <2>9. QED
    BY <2>6, <2>8 DEF VersionInv
<1>4. QED
  BY <1>1, <1>2, <1>3 DEF AfterUpdate

LEMMA GoroutineVersionInv ==
  ASSUME VersionInv, TypeOK', NEW r \in Replicas, NEW g \in Goroutines,
         GoroutineStep(r, g)
  PROVE  VersionInv'
<1>0. /\ "main" \in Goroutines /\ "rotateCA" \in Goroutines
      /\ "rotateTLS" \in Goroutines /\ "sync" \in Goroutines
      /\ "main" \notin Loops /\ Loops \subseteq Goroutines
      /\ "rotateCA" \in Loops
  BY DEF Goroutines, Loops
<1>1. CASE generateCACert(r, g)
  <2>1. Goto(r, g, "caCrt") /\ pc[r][g] # "done" /\ UNCHANGED <<now, config, cache, upd, ca>>
    BY <1>1 DEF generateCACert, At
  <2>2. QED
    BY <2>1, FrameStep DEF Labels, Files
<1>2. CASE writeBundle(r, g)
  <2>1. /\ Goto(r, g, AfterWrite(g, pc[r][g])) /\ pc[r][g] # "done"
        /\ UNCHANGED <<now, config, cache, upd>>
    BY <1>2 DEF writeBundle, Files
  <2>2. AfterWrite(g, pc[r][g]) \in Labels \ {"fill", "put", "cleanGet", "cleanPut"}
    BY <1>2 DEF writeBundle, AfterWrite, Labels, Files
  <2>3. \A q \in Replicas : Cleaning(q) => UNCHANGED ca[q]
    <3>1. CASE g = "main" /\ At(r, g, "caKey")
      <4>1. ca' = [ca EXCEPT ![r] = [key |-> gen[r][g], cert |-> gen[r][g]]]
        BY <1>2, <3>1 DEF writeBundle
      <4>2. ~Cleaning(r)
        BY <3>1 DEF Cleaning, At
      <4>3. QED
        BY <4>1, <4>2 DEF VersionInv, TypeOK
    <3>2. CASE ~(g = "main" /\ At(r, g, "caKey"))
      BY <1>2, <3>2 DEF writeBundle
    <3>3. QED
      BY <3>1, <3>2
  <2>4. QED
    BY <2>1, <2>2, <2>3, FrameStep
<1>3. CASE generateTLSCert(r, g)
  <2>1. Goto(r, g, "tlsCrt") /\ pc[r][g] # "done" /\ UNCHANGED <<now, config, cache, upd, ca>>
    BY <1>3 DEF generateTLSCert, At
  <2>2. QED
    BY <2>1, FrameStep DEF Labels, Files
<1>4. CASE SignFails(r, g)
  BY <1>4, ExitStep, EmptyBundles DEF SignFails, Off
<1>5. CASE SetTLS(r, g)
  <2>1. pc[r][g] # "done" /\ UNCHANGED <<now, config, upd, ca>>
    BY <1>5 DEF SetTLS, At
  <2>2. Start(r) \/ (Goto(r, g, "idle") /\ UNCHANGED cache)
    BY <1>5 DEF SetTLS
  <2>3. QED
    BY <2>1, <2>2, StartStep, FrameStep DEF Labels
<1>6. CASE GetWebhook(r, g)
  BY <1>6, GetStep
<1>a. CASE FillWebhook(r, g)
  BY <1>a, FillStep
<1>7. CASE UpdateWebhook(r, g)
  <2>1. upd[r][g].bundle \in Bundles
    BY DEF VersionInv, TypeOK
  <2>2. QED
    BY <1>7, <2>1, AfterUpdateStep DEF UpdateWebhook
<1>8. CASE RetryOnConflict(r, g)
  <2>1. pc \in [Replicas -> [Goroutines -> Labels]]
    BY DEF VersionInv, TypeOK
  <2>2. PICK l \in {"get", "cleanGet"} :
          /\ Goto(r, g, l) /\ (l = "cleanGet" <=> pc[r][g] = "cleanPut")
          /\ pc[r][g] \in {"put", "cleanPut"}
          /\ UNCHANGED <<now, config, cache, upd, ca>>
    BY <1>8 DEF RetryOnConflict, At
  <2>3. \A q \in Replicas, h \in Goroutines :
          pc'[q][h] = IF q = r /\ h = g THEN l ELSE pc[q][h]
    BY <2>1, <2>2 DEF Goto
  <2>4. DrainInv'
    BY <1>0, <2>2, <2>3 DEF VersionInv, DrainInv, Cleaning
  <2>5. now <= now'
    BY <2>2 DEF VersionInv, TypeOK
  <2>6. CacheInv' /\ PutInv'
    BY <2>2, <2>3, <2>5, EmptyBundles, ObjectsKept
  <2>7. QED
    BY <2>4, <2>6 DEF VersionInv
<1>9. CASE UpdateFails(r, g)
  BY <1>9, AfterUpdateStep, EmptyBundles DEF UpdateFails
<1>10. CASE LoadTLS(r)
  <2>1. pc[r]["main"] # "done" /\ UNCHANGED <<now, config, upd, ca>>
    BY <1>10 DEF LoadTLS, At
  <2>2. Start(r) \/ (Goto(r, "main", "sign") /\ UNCHANGED cache)
    BY <1>10 DEF LoadTLS
  <2>3. QED
    BY <1>0, <2>1, <2>2, StartStep, FrameStep DEF Labels
<1>11. CASE WaitGroupDone(r)
  <2>1. pc \in [Replicas -> [Goroutines -> Labels]]
    BY DEF VersionInv, TypeOK
  <2>2. /\ Goto(r, "main", "cleanGet") /\ Drained(r)
        /\ UNCHANGED <<now, config, cache, upd, ca>>
    BY <1>11 DEF WaitGroupDone
  <2>3. \A q \in Replicas, h \in Goroutines :
          pc'[q][h] = IF q = r /\ h = "main" THEN "cleanGet" ELSE pc[q][h]
    BY <2>1, <2>2 DEF Goto
  <2>4. DrainInv'
    BY <1>0, <2>2, <2>3 DEF VersionInv, DrainInv, Cleaning, Drained, At
  <2>5. now <= now'
    BY <2>2 DEF VersionInv, TypeOK
  <2>6. CacheInv' /\ PutInv'
    BY <2>2, <2>3, <2>5, EmptyBundles, ObjectsKept
  <2>7. QED
    BY <2>4, <2>6 DEF VersionInv
<1>12. CASE rotateCACert(r) \/ rotateTLSCert(r)
  <2>1. PICK h \in {"rotateCA", "rotateTLS"}, l \in {"genCA", "sign", "idle"} :
          /\ Goto(r, h, l) /\ pc[r][h] # "done"
          /\ UNCHANGED <<now, config, cache, ca, upd>>
    <3>1. \A h \in Goroutines : At(r, h, "idle") /\ UNCHANGED pc => Goto(r, h, "idle")
      BY DEF At, Goto, VersionInv, TypeOK
    <3>2. QED
      BY <1>0, <1>12, <3>1 DEF rotateCACert, rotateTLSCert, Check, At
  <2>2. QED
    BY <1>0, <2>1, FrameStep DEF Labels
<1>13. CASE SetCAKey(r) \/ SetCACert(r)
  <2>1. PICK l \in {"setCert", "get"} :
          /\ Goto(r, "rotateCA", l) /\ pc[r]["rotateCA"] # "done"
          /\ UNCHANGED <<now, config, cache, upd>>
    BY <1>13 DEF SetCAKey, SetCACert, At
  <2>2. \A q \in Replicas : Cleaning(q) => UNCHANGED ca[q]
    <3>1. ~Cleaning(r)
      BY <1>0, <2>1 DEF VersionInv, DrainInv
    <3>2. \A q \in Replicas \ {r} : UNCHANGED ca[q]
      BY <1>13 DEF SetCAKey, SetCACert, VersionInv, TypeOK
    <3>3. QED
      BY <3>1, <3>2
  <2>3. QED
    BY <1>0, <2>1, <2>2, FrameStep DEF Labels
<1>14. CASE SyncTick(r) \/ SyncNext(r)
  <2>1. PICK l \in {"idle", "get"} :
          /\ Goto(r, "sync", l) /\ pc[r]["sync"] # "done"
          /\ UNCHANGED <<now, config, cache, ca, upd>>
    BY <1>14 DEF SyncTick, SyncNext, ScanFrom, At
  <2>2. QED
    BY <1>0, <2>1, FrameStep DEF Labels
<1>15. CASE g \in Loops /\ LeaveLoop(r, g)
  <2>1. Goto(r, g, "done") /\ pc[r][g] # "done" /\ UNCHANGED <<now, config, cache, upd, ca>>
    BY <1>15 DEF LeaveLoop, At
  <2>2. QED
    BY <2>1, FrameStep DEF Labels
<1>16. CASE UpdateLost(r, g)
  <2>1. upd[r][g].bundle \in Bundles
    BY DEF VersionInv, TypeOK
  <2>2. QED
    BY <1>16, <2>1, AfterUpdateStep DEF UpdateLost
<1>17. QED
  BY <1>1, <1>2, <1>3, <1>4, <1>5, <1>6, <1>7, <1>8, <1>9, <1>10, <1>11, <1>12,
     <1>13, <1>14, <1>15, <1>16, <1>a DEF GoroutineStep

LEMMA NextVersionInv ==
  ASSUME VersionInv, [Next]_vars
  PROVE  VersionInv'
<1>0. TypeOK'
  BY NextTypeOK DEF VersionInv
<1>1. ASSUME NEW r \in Replicas, NEW g \in Goroutines, GoroutineStep(r, g)
      PROVE  VersionInv'
  BY <1>0, <1>1, GoroutineVersionInv
<1>2. ASSUME NEW r \in Replicas, Boot(r)
      PROVE  VersionInv'
  <2>1. PICK l \in {"loadTLS", "genCA"} : Goto(r, "main", l)
    BY <1>2 DEF Boot
  <2>2. ~Cleaning(r)
    BY <1>2 DEF Boot, IsOff, Off, Cleaning
  <2>3. \A q \in Replicas : Cleaning(q) => UNCHANGED ca[q]
    BY <1>2, <2>2 DEF Boot, VersionInv, TypeOK
  <2>4. UNCHANGED <<now, config, cache, upd>>
    BY <1>2 DEF Boot
  <2>5. "main" \in Goroutines /\ "main" \notin Loops
    BY DEF Goroutines, Loops
  <2>6. QED
    BY <1>0, <2>1, <2>3, <2>4, <2>5, FrameStep DEF Labels
<1>3. ASSUME NEW r \in Replicas, Cancel(r)
      PROVE  VersionInv'
  <2>1. "main" \in Goroutines /\ "main" \notin Loops
    BY DEF Goroutines, Loops
  <2>2. QED
    BY <1>0, <1>3, <2>1, FrameStep DEF Cancel, Labels
<1>4. ASSUME NEW r \in Replicas, CacheSync(r)
      PROVE  VersionInv'
  <2>1. UNCHANGED <<now, config, ca, pc, upd>>
    BY <1>4 DEF CacheSync
  <2>2. \A q \in Replicas : cache'[q] \in {cache[q], config', NoCache}
    BY <1>4 DEF CacheSync, VersionInv, TypeOK
  <2>3. now <= now'
    BY <2>1 DEF VersionInv, TypeOK
  <2>4. CacheInv' /\ PutInv'
    BY <1>0, <2>1, <2>2, <2>3, EmptyBundles, ObjectsKept
  <2>5. QED
    BY <1>0, <2>1, <2>4 DEF VersionInv, DrainInv, Cleaning
<1>5. ASSUME NEW r \in Replicas, Crash(r)
      PROVE  VersionInv'
  BY <1>0, <1>5, ExitStep, EmptyBundles DEF Crash, Off
<1>6. ASSUME NEW r \in Replicas, Replace(r)
      PROVE  VersionInv'
  <2>1. UNCHANGED <<now, config, cache, ca, upd>>
    BY <1>6 DEF Replace
  <2>2. \A q \in Replicas : pc'[q] = IF q = r THEN OffLoops("down") ELSE pc[q]
    BY <1>6 DEF Replace, VersionInv, TypeOK
  <2>3. \A h \in Goroutines : OffLoops("down")[h] \notin {"fill", "put", "cleanGet", "cleanPut"}
    BY DEF OffLoops
  <2>4. "main" \in Goroutines /\ Loops \subseteq Goroutines
    BY DEF Loops, Goroutines
  <2>5. DrainInv'
    BY <2>2, <2>3, <2>4 DEF VersionInv, DrainInv, Cleaning
  <2>6. now <= now'
    BY <2>1 DEF VersionInv, TypeOK
  <2>7. CacheInv' /\ PutInv'
    BY <1>0, <2>1, <2>2, <2>3, <2>6, EmptyBundles, ObjectsKept
  <2>8. QED
    BY <1>0, <2>5, <2>7 DEF VersionInv
<1>7. CASE Reapply
  <2>1. UNCHANGED <<now, cache, ca, pc, upd>> /\ config' = Stored([w \in Webhooks |-> {}])
    BY <1>7 DEF Reapply
  <2>2. now <= now'
    BY <2>1 DEF VersionInv, TypeOK
  <2>3. CacheInv' /\ PutInv'
    BY <1>0, <2>1, <2>2, EmptyBundles, ObjectsKept
  <2>4. QED
    BY <1>0, <2>1, <2>3 DEF VersionInv, DrainInv, Cleaning
<1>8. CASE Tick
  <2>1. UNCHANGED <<config, cache, ca, pc, upd>> /\ now <= now'
    BY <1>8 DEF Tick, VersionInv, TypeOK
  <2>2. CacheInv' /\ PutInv'
    BY <1>0, <2>1, EmptyBundles, ObjectsKept
  <2>3. QED
    BY <1>0, <2>1, <2>2 DEF VersionInv, DrainInv, Cleaning
<1>9. CASE UNCHANGED vars
  BY <1>0, <1>9 DEF vars, VersionInv, CacheInv, DrainInv, Cleaning, PutInv, LeavesOut, Expired
<1>10. QED
  BY <1>1, <1>2, <1>3, <1>4, <1>5, <1>6, <1>7, <1>8, <1>9 DEF Next

LEMMA VersionInvariant == Spec => []VersionInv
<1>1. Init => VersionInv
  <2> SUFFICES ASSUME Init PROVE VersionInv
    OBVIOUS
  <2>1. TypeOK
    <3>1. OffLoops("down") \in [Goroutines -> Labels]
      BY OffLoopsType DEF Off
    <3>2. config \in [rv : Nat, bundle : Bundles]
      BY EmptyBundles DEF Init
    <3>3. QED
      BY <3>1, <3>2, NoCertType, IdleTypes DEF Init, TypeOK
  <2>2. CacheInv
    BY DEF Init, CacheInv, NoCache
  <2>3. \A r \in Replicas, g \in Goroutines :
          pc[r][g] \notin {"fill", "put", "cleanGet", "cleanPut"}
    BY DEF Init, OffLoops
  <2>4. "main" \in Goroutines /\ Loops \subseteq Goroutines
    BY DEF Loops, Goroutines
  <2>5. QED
    BY <2>1, <2>2, <2>3, <2>4 DEF VersionInv, DrainInv, Cleaning, PutInv
<1>2. VersionInv /\ [Next]_vars => VersionInv'
  BY NextVersionInv
<1>3. QED
  BY <1>1, <1>2, PTL DEF Spec

\* An Update by one replica, of an object it read from the server or from its
\* cache any time before, takes no CA out of a CABundle but expired ones and
\* its own: for every number of replicas, webhooks, retries and disruptions.
THEOREM NoForeignCARemovedHolds == Spec => NoForeignCARemoved
<1> DEFINE A == \A r \in Replicas, g \in Goroutines :
                  UpdateWebhook(r, g) \/ UpdateLost(r, g) =>
                    \A w \in Webhooks :
                      \A e \in config.bundle[w] \ config'.bundle[w] :
                        Expired(e.cert) \/ e.cert.serial = ca[r].cert.serial
<1>1. VersionInv /\ [Next]_vars => A
  <2> SUFFICES ASSUME VersionInv, NEW r \in Replicas, NEW g \in Goroutines,
                      UpdateWebhook(r, g) \/ UpdateLost(r, g), NEW w \in Webhooks,
                      NEW e \in config.bundle[w] \ config'.bundle[w]
               PROVE  Expired(e.cert) \/ e.cert.serial = ca[r].cert.serial
    OBVIOUS
  <2>1. config'.bundle = upd[r][g].bundle
    <3>1. config' = Stored(upd[r][g].bundle)
      BY DEF UpdateWebhook, UpdateLost
    <3>2. QED
      BY <3>1 DEF Stored
  <2>2. pc[r][g] \in {"put", "cleanPut"} /\ upd[r][g].rv = config.rv
    BY DEF UpdateWebhook, UpdateLost, Accepts
  <2>3. e \in upd[r][g].bundle[w] \/ LeavesOut(r, g, e)
    BY <2>2 DEF VersionInv, PutInv
  <2>4. QED
    BY <2>1, <2>3 DEF LeavesOut
<1>2. QED
  BY <1>1, VersionInvariant, PTL DEF Spec, NoForeignCARemoved

=============================================================================
