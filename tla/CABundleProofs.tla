--------------------------- MODULE CABundleProofs ---------------------------
(***************************************************************************)
(* Proofs about CertManager and CABundle, for any number of replicas and   *)
(* webhooks and any periods: every write of a replica is one atomic        *)
(* publication or withdrawal of CAs of its own, and a replica that has     *)
(* stopped is trusted by no webhook.                                       *)
(***************************************************************************)
EXTENDS CertManagerProofs

-----------------------------------------------------------------------------
(* The invariant.  VersionInv, of CertManagerProofs, ties an object in a   *)
(* goroutine's hands to the server's by the resource version; what follows *)
(* says whose the certificates in it are.                                  *)

\* The states of main in which the loops exist.
Running == {"run", "drain", "cleanGet", "cleanPut"}
LoopInv ==
  \A r \in Replicas : pc[r]["main"] \notin Running => \A g \in Loops : pc[r][g] = "off"

\* Whose a certificate is.
Of(c, r) == c.serial[1] = r

\* What a replica has generated, stored and signs with is its own.
HoldsNew == Files \cup {"setKey", "setCert", "setTLS"}
BeforeCA == {"down", "genCA", "caCrt", "caKey"}
OwnInv ==
  \A r \in Replicas :
    /\ \A f \in Files : disk[r][f] = NoCert \/ Of(disk[r][f], r)
    /\ \A g \in Goroutines : pc[r][g] \in HoldsNew => Of(gen[r][g], r)
    /\ pc[r]["main"] \notin BeforeCA => Of(ca[r].cert, r)

\* The certificates of a bundle, and an object, finished or not, that the server
\* would accept.
Certs(b) == {e.cert : e \in b}
Holding == {"fill", "put", "cleanPut"}
Acceptable(r, g) == pc[r][g] \in Holding /\ upd[r][g].rv = config.rv

\* The certificates in the objects of a replica that the server would accept.
InHand(r) ==
  UNION {UNION {Certs(upd[r][g].bundle[w]) : w \in Webhooks} :
         g \in {h \in Goroutines : Acceptable(r, h)}}

\* Every certificate that is held, stored, published or about to be published.
HeldCAs == {ca[r].cert : r \in Replicas}
Generated == UNION {{gen[r][g] : g \in Goroutines} : r \in Replicas}
OnDisk == UNION {{disk[r][f] : f \in Files} : r \in Replicas}
InBundles == UNION {Certs(config.bundle[w]) : w \in Webhooks}
InHands == UNION {InHand(r) : r \in Replicas}
Known == {NoCert} \cup HeldCAs \cup Generated \cup OnDisk \cup InBundles \cup InHands

\* A serial belongs to one certificate, and was drawn.
SerialInv ==
  /\ \A r \in Replicas : nextSerial[r] > 0
  /\ \A c \in Known :
       c # NoCert => /\ c.serial[1] \in Replicas
                     /\ c.serial[2] < nextSerial[c.serial[1]]
  /\ \A c, d \in Known : c.serial = d.serial => c = d

\* What an acceptable object makes of the server's: it adds to each webhook that
\* has been filled one CA of the writer's and drops what has expired, or it takes
\* the writer's CA out.  The CAs of two webhooks need not be the same.
Added(r, b, w) ==
  \E c \in Cert :
    Of(c, r) /\ Certs(b[w]) = {d \in Certs(config.bundle[w]) : ~Expired(d)} \cup {c}
Exact(r, g) ==
  /\ pc[r][g] = "put" => \A w \in Webhooks : Added(r, upd[r][g].bundle, w)
  /\ pc[r][g] = "fill" =>
       \A w \in Webhooks :
         IF w < upd[r][g].i THEN Added(r, upd[r][g].bundle, w)
                            ELSE upd[r][g].bundle[w] = config.bundle[w]
  /\ pc[r][g] = "cleanPut" =>
       upd[r][g].bundle = [w \in Webhooks |-> removeCABundle(config.bundle[w], ca[r].cert)]
ExactInv == \A r \in Replicas, g \in Goroutines : Acceptable(r, g) => Exact(r, g)

TrustInv == VersionInv /\ LoopInv /\ OwnInv /\ SerialInv /\ ExactInv

-----------------------------------------------------------------------------
(* Facts about the building blocks of the actions.                         *)

LEMMA KnownMember ==
  ASSUME NEW c
  PROVE  c \in Known <=>
           \/ c = NoCert
           \/ \E r \in Replicas : c = ca[r].cert
           \/ \E r \in Replicas, g \in Goroutines : c = gen[r][g]
           \/ \E r \in Replicas, f \in Files : c = disk[r][f]
           \/ \E w \in Webhooks : c \in Certs(config.bundle[w])
           \/ \E r \in Replicas, g \in Goroutines, w \in Webhooks :
                Acceptable(r, g) /\ c \in Certs(upd[r][g].bundle[w])
<1>1. c \in InHands <=>
        \E r \in Replicas, g \in Goroutines, w \in Webhooks :
          Acceptable(r, g) /\ c \in Certs(upd[r][g].bundle[w])
  BY DEF InHands, InHand
<1>2. c \in Generated <=> \E r \in Replicas, g \in Goroutines : c = gen[r][g]
  BY DEF Generated
<1>3. c \in OnDisk <=> \E r \in Replicas, f \in Files : c = disk[r][f]
  BY DEF OnDisk
<1>4. c \in InBundles <=> \E w \in Webhooks : c \in Certs(config.bundle[w])
  BY DEF InBundles
<1>5. c \in HeldCAs <=> \E r \in Replicas : c = ca[r].cert
  BY DEF HeldCAs
<1>6. QED
  BY <1>1, <1>2, <1>3, <1>4, <1>5 DEF Known

LEMMA GoroutineFacts ==
  /\ "main" \in Goroutines /\ "main" \notin Loops /\ Goroutines = Loops \cup {"main"}
  /\ "rotateCA" \in Loops /\ "rotateTLS" \in Loops /\ "sync" \in Loops
  BY DEF Goroutines, Loops

LEMMA GotoFacts ==
  ASSUME TypeOK, NEW r \in Replicas, NEW g \in Goroutines, NEW l, Goto(r, g, l)
  PROVE  \A q \in Replicas, h \in Goroutines :
           pc'[q][h] = IF q = r /\ h = g THEN l ELSE pc[q][h]
  BY DEF TypeOK, Goto

LEMMA OffLoopsFacts ==
  ASSUME NEW p \in Off
  PROVE  /\ OffLoops(p)["main"] = p /\ \A g \in Loops : OffLoops(p)[g] = "off"
         /\ \A g \in Goroutines : OffLoops(p)[g] \notin Holding \cup HoldsNew
  BY GoroutineFacts DEF OffLoops, Off, Holding, HoldsNew, Files

LEMMA ExitFacts ==
  ASSUME TypeOK, NEW r \in Replicas, NEW p \in Off, ExitAs(r, p)
  PROVE  /\ \A q \in Replicas : pc'[q] = IF q = r THEN OffLoops(p) ELSE pc[q]
         /\ \A q \in Replicas, g \in Goroutines :
              gen'[q][g] = IF q = r THEN NoCert ELSE gen[q][g]
         /\ \A q \in Replicas : q # r => upd'[q] = upd[q]
  BY DEF TypeOK, ExitAs

LEMMA StartFacts ==
  ASSUME TypeOK, NEW r \in Replicas, Start(r)
  PROVE  \A q \in Replicas, h \in Goroutines :
           pc'[q][h] = IF q = r THEN (IF h = "main" THEN "run" ELSE "idle") ELSE pc[q][h]
  BY DEF TypeOK, Start

\* cleanPut is a label of main only.
LEMMA CleanMain ==
  ASSUME VersionInv, NEW r \in Replicas, NEW g \in Goroutines,
         pc[r][g] \in {"cleanGet", "cleanPut"}
  PROVE  g = "main" /\ \A h \in Loops : pc[r][h] = "done"
  BY GoroutineFacts DEF VersionInv, DrainInv, Cleaning

\* How a step of the code moves its goroutine: the process ends, Start begins the
\* loops, or one program counter moves.  Only Get puts an object into hands, and
\* only Fill changes it.
Moves(r, g, l) ==
  /\ Goto(r, g, l)
  /\ pc[r][g] \notin Off \cup {"off"} /\ l \notin Off \cup {"off"}
  /\ g = "main" /\ pc[r][g] \in Running => l \in Running
  /\ l \in Holding => GetWebhook(r, g) \/ FillWebhook(r, g)
  /\ \A q \in Replicas, h \in Goroutines : ~(q = r /\ h = g) => upd'[q][h] = upd[q][h]

Ends(r, p) ==
  /\ ExitAs(r, p)
  /\ p # "down" => pc[r]["main"] = "cleanPut"
  /\ p = "stopped" => UpdateWebhook(r, "main")

Starts(r) ==
  /\ Start(r) /\ pc[r]["main"] \in {"loadTLS", "setTLS"}
  /\ UNCHANGED <<now, config, upd, ca, disk, nextSerial>>

LEMMA AfterUpdateControl ==
  ASSUME VersionInv, NEW r \in Replicas, NEW g \in Goroutines, NEW ok \in BOOLEAN,
         AfterUpdate(r, g, ok), ok => UpdateWebhook(r, g)
  PROVE  (\E p \in Off : Ends(r, p)) \/ (\E l \in Labels : Moves(r, g, l))
<1>1. CASE At(r, g, "cleanPut") /\ ExitAs(r, IF ok THEN "stopped" ELSE "failed")
  <2>1. g = "main" /\ pc[r]["main"] = "cleanPut"
    BY <1>1, CleanMain DEF At
  <2>2. QED
    BY <1>1, <2>1 DEF Ends, Off
<1>2. CASE ExitAs(r, "down")
  BY <1>2 DEF Ends, Off
<1>3. CASE /\ At(r, g, "put")
           /\ Goto(r, g, Resume(g))
           /\ upd' = [upd EXCEPT ![r][g] = IdleUpd]
  <2>1. \A q \in Replicas, h \in Goroutines : ~(q = r /\ h = g) => upd'[q][h] = upd[q][h]
    BY <1>3 DEF VersionInv, TypeOK
  <2>2. Resume(g) \in Labels \ (Holding \cup Off \cup {"off"})
    BY DEF Resume, Labels, Holding, Off
  <2>3. pc[r][g] \notin Off \cup {"off"} \cup Running
    BY <1>3 DEF At, Off, Running
  <2>4. QED
    BY <1>3, <2>1, <2>2, <2>3 DEF Moves
<1>4. QED
  BY <1>1, <1>2, <1>3 DEF AfterUpdate

LEMMA Control ==
  ASSUME VersionInv, NEW r \in Replicas, NEW g \in Goroutines, GoroutineStep(r, g)
  PROVE  \/ \E p \in Off : Ends(r, p)
         \/ g = "main" /\ Starts(r)
         \/ \E l \in Labels : Moves(r, g, l)
<1>0. TypeOK /\ pc \in [Replicas -> [Goroutines -> Labels]]
  BY DEF VersionInv, TypeOK
<1>a. ASSUME NEW l \in Labels \ (Holding \cup Off \cup {"off"}), Goto(r, g, l),
             upd' = upd, pc[r][g] \notin Off \cup {"off"},
             pc[r][g] \notin Running \/ l \in Running \/ g # "main"
      PROVE  \E m \in Labels : Moves(r, g, m)
  BY <1>a DEF Moves
<1>1. CASE generateCACert(r, g)
  BY <1>1, <1>a DEF generateCACert, At, Labels, Files, Holding, Off, Running
<1>2. CASE writeBundle(r, g)
  <2>1. AfterWrite(g, pc[r][g]) \in Labels \ (Holding \cup Off \cup {"off"})
    BY <1>2 DEF writeBundle, AfterWrite, Labels, Files, Holding, Off
  <2>2. QED
    BY <1>2, <2>1, <1>a DEF writeBundle, Files, Off, Running
<1>3. CASE generateTLSCert(r, g)
  BY <1>3, <1>a DEF generateTLSCert, At, Labels, Files, Holding, Off, Running
<1>4. CASE SignFails(r, g)
  BY <1>4 DEF SignFails, Ends, Off
<1>5. CASE SetTLS(r, g)
  <2>1. CASE g = "main"
    BY <1>5, <2>1 DEF SetTLS, Starts, At
  <2>2. CASE g # "main"
    BY <1>5, <2>2, <1>a DEF SetTLS, At, Labels, Holding, Off
  <2>3. QED
    BY <2>1, <2>2
<1>6. CASE GetWebhook(r, g)
  <2>1. \A q \in Replicas, h \in Goroutines : ~(q = r /\ h = g) => upd'[q][h] = upd[q][h]
    BY <1>0, <1>6 DEF GetWebhook, TypeOK
  <2>2. PICK l \in {"fill", "cleanPut"} :
          Goto(r, g, l) /\ (l = "cleanPut" <=> ~At(r, g, "get"))
    BY <1>6 DEF GetWebhook
  <2>3. pc[r][g] \in {"get", "cleanGet"}
    BY <1>6 DEF GetWebhook
  <2>4. QED
    BY <1>6, <2>1, <2>2, <2>3 DEF Moves, Labels, Holding, Off, Running, At
<1>b. CASE FillWebhook(r, g)
  <2>1. \A q \in Replicas, h \in Goroutines : ~(q = r /\ h = g) => upd'[q][h] = upd[q][h]
    BY <1>0, <1>b DEF FillWebhook, TypeOK
  <2>2. pc[r][g] = "fill" /\ \E l \in {"fill", "put"} : Goto(r, g, l)
    BY <1>b DEF FillWebhook, At
  <2>3. QED
    BY <1>b, <2>1, <2>2 DEF Moves, Labels, Holding, Off, Running
<1>7. CASE UpdateWebhook(r, g)
  BY <1>7, AfterUpdateControl DEF UpdateWebhook
<1>8. CASE RetryOnConflict(r, g)
  BY <1>8, <1>a DEF RetryOnConflict, At, Labels, Holding, Off, Running
<1>9. CASE UpdateFails(r, g) \/ UpdateLost(r, g)
  BY <1>9, AfterUpdateControl DEF UpdateFails, UpdateLost
<1>10. CASE g = "main" /\ LoadTLS(r)
  <2>1. CASE Start(r)
    BY <1>10, <2>1 DEF LoadTLS, Starts, At
  <2>2. CASE Goto(r, "main", "sign")
    BY <1>10, <2>2, <1>a DEF LoadTLS, At, Labels, Holding, Off, Running
  <2>3. QED
    BY <1>10, <2>1, <2>2 DEF LoadTLS
<1>11. CASE g = "main" /\ WaitGroupDone(r)
  BY <1>11, <1>a DEF WaitGroupDone, At, Labels, Holding, Off, Running
<1>12. CASE \/ g = "rotateCA" /\ rotateCACert(r)
            \/ g = "rotateTLS" /\ rotateTLSCert(r)
  <2>1. At(r, g, "idle") /\ UNCHANGED pc => Goto(r, g, "idle")
    BY <1>0 DEF At, Goto
  <2>2. PICK l \in {"genCA", "sign", "idle"} : Goto(r, g, l)
    BY <1>12, <2>1 DEF rotateCACert, rotateTLSCert, Check
  <2>3. At(r, g, "idle") /\ upd' = upd /\ g # "main"
    BY <1>12 DEF rotateCACert, rotateTLSCert, Check
  <2>4. QED
    BY <2>2, <2>3, <1>a DEF At, Labels, Holding, Off
<1>13. CASE g = "rotateCA" /\ (SetCAKey(r) \/ SetCACert(r))
  BY <1>13, <1>a DEF SetCAKey, SetCACert, At, Labels, Holding, Off
<1>14. CASE g = "sync" /\ (SyncTick(r) \/ SyncNext(r))
  <2>1. PICK l \in {"idle", "get"} : Goto(r, "sync", l)
    BY <1>14 DEF SyncTick, SyncNext, ScanFrom
  <2>2. QED
    BY <1>14, <2>1, <1>a DEF SyncTick, SyncNext, At, Labels, Holding, Off
<1>15. CASE g \in Loops /\ LeaveLoop(r, g)
  BY <1>15, <1>a, GoroutineFacts DEF LeaveLoop, At, Labels, Holding, Off
<1>16. QED
  BY <1>1, <1>2, <1>3, <1>4, <1>5, <1>6, <1>7, <1>8, <1>9, <1>10, <1>11, <1>12,
     <1>13, <1>14, <1>15, <1>b DEF GoroutineStep

-----------------------------------------------------------------------------
(* The loops exist while main runs.                                        *)

LEMMA GoroutineLoopInv ==
  ASSUME VersionInv, LoopInv, NEW r \in Replicas, NEW g \in Goroutines, GoroutineStep(r, g)
  PROVE  LoopInv'
<1>0. TypeOK
  BY DEF VersionInv
<1>1. ASSUME NEW p \in Off, Ends(r, p)
      PROVE  LoopInv'
  <2>1. \A q \in Replicas : pc'[q] = IF q = r THEN OffLoops(p) ELSE pc[q]
    BY <1>0, <1>1, ExitFacts DEF Ends
  <2>2. QED
    BY <2>1, OffLoopsFacts DEF LoopInv
<1>2. CASE Starts(r)
  BY <1>0, <1>2, StartFacts, GoroutineFacts DEF Starts, LoopInv, Running
<1>3. ASSUME NEW l \in Labels, Moves(r, g, l)
      PROVE  LoopInv'
  <2>1. \A q \in Replicas, h \in Goroutines :
          pc'[q][h] = IF q = r /\ h = g THEN l ELSE pc[q][h]
    BY <1>0, <1>3, GotoFacts DEF Moves
  <2>2. CASE g = "main"
    <3>1. pc[r]["main"] \in Running => l \in Running
      BY <1>3, <2>2 DEF Moves
    <3>2. QED
      BY <2>1, <2>2, <3>1, GoroutineFacts DEF LoopInv
  <2>3. CASE g \in Loops
    <3>1. pc[r]["main"] \in Running
      BY <1>3, <2>3 DEF Moves, LoopInv
    <3>2. QED
      BY <2>1, <2>3, <3>1, GoroutineFacts DEF LoopInv
  <2>4. QED
    BY <2>2, <2>3, GoroutineFacts
<1>4. QED
  BY <1>1, <1>2, <1>3, Control

-----------------------------------------------------------------------------
(* Which data a step of the code changes.                                  *)

\* The CA of a replica changes when main has written its files, or when the
\* rotation assigns it: never during the clean-up.
LEMMA CAKept ==
  ASSUME VersionInv, NEW r \in Replicas, NEW g \in Goroutines, GoroutineStep(r, g),
         NEW q \in Replicas, Cleaning(q)
  PROVE  ca'[q] = ca[q]
<1>1. CASE writeBundle(r, g)
  <2>1. q # r \/ ~(g = "main" /\ At(r, g, "caKey"))
    BY DEF Cleaning, At
  <2>2. QED
    BY <1>1, <2>1 DEF writeBundle, VersionInv, TypeOK
<1>2. CASE SetCAKey(r) \/ SetCACert(r)
  <2>1. q # r
    BY <1>2, GoroutineFacts DEF SetCAKey, SetCACert, At, VersionInv, DrainInv
  <2>2. QED
    BY <1>2, <2>1 DEF SetCAKey, SetCACert, VersionInv, TypeOK
<1>3. CASE ca' = ca
  BY <1>3
<1>4. QED
  BY <1>1, <1>2, <1>3 DEF GoroutineStep, generateCACert, generateTLSCert, SignFails, SetTLS,
     GetWebhook, FillWebhook, UpdateWebhook, RetryOnConflict, UpdateFails, UpdateLost, LoadTLS,
     WaitGroupDone, rotateCACert, rotateTLSCert, Check, SyncTick, SyncNext, LeaveLoop

\* Objects in hands are those that were there before.
HandsKept ==
  \A q \in Replicas, h \in Goroutines :
    pc'[q][h] \in Holding =>
      /\ pc'[q][h] = pc[q][h] /\ upd'[q][h] = upd[q][h]
      /\ pc[q][h] = "cleanPut" => ca'[q] = ca[q]

LEMMA GoroutineHandsKept ==
  ASSUME VersionInv, NEW r \in Replicas, NEW g \in Goroutines, GoroutineStep(r, g),
         ~(GetWebhook(r, g) \/ FillWebhook(r, g))
  PROVE  HandsKept
<1>0. TypeOK
  BY DEF VersionInv
<1>1. \A q \in Replicas, h \in Goroutines : pc[q][h] = "cleanPut" => ca'[q] = ca[q]
  BY CAKept, CleanMain DEF Cleaning
<1>2. ASSUME NEW p \in Off, Ends(r, p)
      PROVE  HandsKept
  <2>1. /\ \A q \in Replicas : pc'[q] = IF q = r THEN OffLoops(p) ELSE pc[q]
        /\ \A q \in Replicas : q # r => upd'[q] = upd[q]
    BY <1>0, <1>2, ExitFacts DEF Ends
  <2>2. QED
    BY <1>1, <2>1, OffLoopsFacts DEF HandsKept
<1>3. CASE Starts(r)
  BY <1>0, <1>1, <1>3, StartFacts DEF Starts, HandsKept, Holding
<1>4. ASSUME NEW l \in Labels, Moves(r, g, l)
      PROVE  HandsKept
  <2>1. \A q \in Replicas, h \in Goroutines :
          pc'[q][h] = IF q = r /\ h = g THEN l ELSE pc[q][h]
    BY <1>0, <1>4, GotoFacts DEF Moves
  <2>2. QED
    BY <1>1, <1>4, <2>1 DEF HandsKept, Moves
<1>5. QED
  BY <1>2, <1>3, <1>4, Control

\* The server's object is replaced by an acceptable one, or by the empty one.
Replaced(b) ==
  \/ \E r \in Replicas, g \in Goroutines :
       Acceptable(r, g) /\ pc[r][g] # "fill" /\ b = upd[r][g].bundle
  \/ b = [w \in Webhooks |-> {}]

ServerStep == config' = config \/ \E b \in Bundles : Replaced(b) /\ config' = Stored(b)

LEMMA GoroutineServerStep ==
  ASSUME VersionInv, NEW r \in Replicas, NEW g \in Goroutines, GoroutineStep(r, g)
  PROVE  ServerStep /\ now' = now
<1>1. CASE UpdateWebhook(r, g) \/ UpdateLost(r, g)
  <2>1. upd[r][g].bundle \in Bundles
    BY DEF VersionInv, TypeOK
  <2>2. /\ Acceptable(r, g) /\ pc[r][g] # "fill"
        /\ config' = Stored(upd[r][g].bundle) /\ now' = now
    BY <1>1 DEF UpdateWebhook, UpdateLost, Acceptable, Accepts, Holding
  <2>3. QED
    BY <2>1, <2>2 DEF ServerStep, Replaced
<1>2. CASE config' = config /\ now' = now
  BY <1>2 DEF ServerStep
<1>3. QED
  BY <1>1, <1>2 DEF GoroutineStep, generateCACert, writeBundle, generateTLSCert, SignFails,
     SetTLS, GetWebhook, FillWebhook, RetryOnConflict, UpdateFails, LoadTLS, SetCAKey, SetCACert,
     WaitGroupDone, rotateCACert, rotateTLSCert, Check, SyncTick, SyncNext, LeaveLoop

-----------------------------------------------------------------------------
(* What an acceptable object is.                                           *)

\* An object that is still acceptable was, and the server's has not changed.
LEMMA StillAcceptable ==
  ASSUME VersionInv, HandsKept, ServerStep,
         NEW q \in Replicas, NEW h \in Goroutines, Acceptable(q, h)'
  PROVE  Acceptable(q, h) /\ config'.bundle = config.bundle
<1>1. pc'[q][h] = pc[q][h] /\ upd'[q][h] = upd[q][h] /\ pc[q][h] \in Holding
  BY DEF HandsKept, Acceptable
<1>2. upd[q][h].rv \in Nat /\ upd[q][h].rv <= config.rv
  BY <1>1 DEF VersionInv, TypeOK, PutInv, Holding
<1>3. upd[q][h].rv = config'.rv
  BY <1>1 DEF Acceptable
<1>4. PICK b \in Bundles : config' = config \/ config' = Stored(b)
  BY EmptyBundles DEF ServerStep
<1>5. upd[q][h].rv = config.rv /\ config'.bundle = config.bundle
  BY <1>2, <1>3, <1>4, StoredVersion
<1>6. QED
  BY <1>1, <1>5 DEF Acceptable

\* What an object is depends on the object, on the server's and on the clock.
LEMMA ExactSame ==
  ASSUME NEW q, NEW h, Exact(q, h), now' = now, config'.bundle = config.bundle,
         pc'[q][h] = pc[q][h], upd'[q][h] = upd[q][h],
         pc[q][h] = "cleanPut" => ca'[q] = ca[q]
  PROVE  Exact(q, h)'
<1>1. \A w \in Webhooks :
        Added(q, upd[q][h].bundle, w) => Added(q, upd[q][h].bundle, w)'
  BY DEF Added, Expired, Of, Certs
<1>2. pc[q][h] = "cleanPut" =>
        upd'[q][h].bundle = [w \in Webhooks |-> removeCABundle(config'.bundle[w], ca'[q].cert)]
  BY DEF Exact
<1>3. QED
  BY <1>1, <1>2 DEF Exact, removeCABundle

LEMMA ExactKept ==
  ASSUME VersionInv, ExactInv, HandsKept, ServerStep, now' = now
  PROVE  ExactInv'
<1> SUFFICES ASSUME NEW q \in Replicas, NEW h \in Goroutines, Acceptable(q, h)'
             PROVE  Exact(q, h)'
  BY DEF ExactInv
<1>1. Acceptable(q, h) /\ config'.bundle = config.bundle
  BY StillAcceptable
<1>2. /\ pc'[q][h] = pc[q][h] /\ upd'[q][h] = upd[q][h]
      /\ pc[q][h] = "cleanPut" => ca'[q] = ca[q]
  BY DEF HandsKept, Acceptable
<1>3. Exact(q, h)
  BY <1>1 DEF ExactInv
<1>4. QED
  BY <1>1, <1>2, <1>3, ExactSame

\* The certificates that updateCABundles leaves.
LEMMA UpdateCerts ==
  ASSUME NEW b, NEW c
  PROVE  Certs(updateCABundles(b, c)) = {d \in Certs(b) : ~Expired(d)} \cup {c}
<1> DEFINE kept == {e \in b : ~Expired(e.cert)}
           new == [cert |-> c,
                   copy |-> 1 + Cardinality({e \in kept : e.cert.serial = c.serial})]
<1>1. updateCABundles(b, c) = kept \cup {new}
  BY DEF updateCABundles, AppendCA
<1>2. new.cert = c
  OBVIOUS
<1> HIDE DEF new
<1>3. QED
  BY <1>1, <1>2 DEF Certs

\* A goroutine that reads the object belongs to a process whose CA is its own.
LEMMA OwnCA ==
  ASSUME LoopInv, OwnInv, NEW r \in Replicas, NEW g \in Goroutines,
         pc[r][g] \in {"get", "cleanGet", "fill", "put", "cleanPut"}
  PROVE  Of(ca[r].cert, r) /\ pc[r]["main"] # "stopped"
<1>1. pc[r]["main"] \notin BeforeCA \cup {"stopped"}
  BY GoroutineFacts DEF LoopInv, BeforeCA, Running
<1>2. QED
  BY <1>1 DEF OwnInv

LEMMA GetExact ==
  ASSUME VersionInv, ExactInv, NEW r \in Replicas, NEW g \in Goroutines, GetWebhook(r, g)
  PROVE  ExactInv'
<1>0. /\ upd \in [Replicas -> [Goroutines -> [n : Nat, rv : Nat, i : Nat, bundle : Bundles]]]
      /\ config \in [rv : Nat, bundle : Bundles]
      /\ cache \in [Replicas -> [rv : Nat, bundle : Bundles]]
  BY DEF VersionInv, TypeOK
<1> DEFINE o == Source(r, g)
           l == IF At(r, g, "get") THEN "fill" ELSE "cleanPut"
<1>1. \A q \in Replicas, h \in Goroutines :
        pc'[q][h] = IF q = r /\ h = g THEN l ELSE pc[q][h]
  BY GotoFacts DEF GetWebhook, VersionInv
<1>2. /\ upd'[r][g].rv = o.rv /\ upd'[r][g].i = 1
      /\ upd'[r][g].bundle = Got(r, g, o.bundle)
      /\ \A q \in Replicas, h \in Goroutines : ~(q = r /\ h = g) => upd'[q][h] = upd[q][h]
  BY <1>0 DEF GetWebhook
<1>3. pc[r][g] \in {"get", "cleanGet"} /\ UNCHANGED <<now, config, ca>>
  BY DEF GetWebhook
<1>4. o.rv = config.rv => o.bundle = config.bundle
  BY DEF VersionInv, CacheInv, Source
<1> SUFFICES ASSUME NEW q \in Replicas, NEW h \in Goroutines, Acceptable(q, h)'
             PROVE  Exact(q, h)'
  BY DEF ExactInv
<1>5. CASE q = r /\ h = g
  <2>1. o.bundle = config.bundle
    BY <1>2, <1>3, <1>4, <1>5 DEF Acceptable
  <2>2. CASE pc[r][g] = "get"
    <3>1. upd'[r][g].bundle = config'.bundle /\ pc'[r][g] = "fill"
      BY <1>1, <1>2, <1>3, <2>1, <2>2 DEF Got, At
    <3>2. \A w \in Webhooks : ~(w < 1)
      BY DEF Webhooks
    <3>3. QED
      BY <1>2, <1>5, <3>1, <3>2 DEF Exact
  <2>3. CASE pc[r][g] = "cleanGet"
    <3>1. upd'[r][g].bundle = [w \in Webhooks |-> removeCABundle(config.bundle[w], ca[r].cert)]
      BY <1>2, <2>1, <2>3 DEF Got, At
    <3>2. pc'[r][g] = "cleanPut"
      BY <1>1, <2>3 DEF At
    <3>3. QED
      BY <1>5, <3>1, <3>2, <1>3 DEF Exact, removeCABundle
  <2>4. QED
    BY <1>3, <2>2, <2>3
<1>6. CASE ~(q = r /\ h = g)
  <2>1. pc'[q][h] = pc[q][h] /\ upd'[q][h] = upd[q][h]
    BY <1>1, <1>2, <1>6
  <2>2. Acceptable(q, h)
    BY <2>1, <1>3 DEF Acceptable
  <2>3. Exact(q, h)
    BY <2>2 DEF ExactInv
  <2>4. QED
    BY <1>3, <2>1, <2>3, ExactSame
<1>7. QED
  BY <1>5, <1>6

\* A round of the loop adds the CA that c.ca holds at that moment, one of the
\* writer's own, to one more webhook.
LEMMA FillExact ==
  ASSUME VersionInv, LoopInv, OwnInv, ExactInv,
         NEW r \in Replicas, NEW g \in Goroutines, FillWebhook(r, g)
  PROVE  ExactInv'
<1>0. TypeOK /\ pc[r][g] = "fill" /\ upd[r][g].i \in Webhooks /\ ca[r].cert \in Cert
  BY DEF VersionInv, PutInv, FillWebhook, At, TypeOK
<1> DEFINE o == upd[r][g]
<1>1. /\ UNCHANGED <<now, config, ca>>
      /\ pc'[r][g] \in {"fill", "put"} /\ (pc'[r][g] = "fill" <=> o.i < NumWebhooks)
      /\ upd'[r][g].rv = o.rv /\ upd'[r][g].i = o.i + 1
      /\ \A w \in Webhooks :
           upd'[r][g].bundle[w] = IF w = o.i THEN updateCABundles(o.bundle[w], ca[r].cert)
                                             ELSE o.bundle[w]
      /\ \A q \in Replicas, h \in Goroutines :
           ~(q = r /\ h = g) => upd'[q][h] = upd[q][h] /\ pc'[q][h] = pc[q][h]
  BY <1>0, FillFacts
<1>2. Of(ca[r].cert, r)
  BY <1>0, OwnCA
<1> SUFFICES ASSUME NEW q \in Replicas, NEW h \in Goroutines, Acceptable(q, h)'
             PROVE  Exact(q, h)'
  BY DEF ExactInv
<1>3. CASE q = r /\ h = g
  <2>0. PICK i \in Webhooks : i = o.i
    BY <1>0
  <2>1. Acceptable(r, g)
    BY <1>0, <1>1, <1>3 DEF Acceptable, Holding
  <2>2. \A w \in Webhooks : IF w < i THEN Added(r, o.bundle, w)
                                     ELSE o.bundle[w] = config.bundle[w]
    BY <1>0, <2>0, <2>1 DEF ExactInv, Exact
  <2>3. ASSUME NEW w \in Webhooks, w < i PROVE Added(r, upd[r][g].bundle, w)'
    <3>1. w # i
      BY <2>3 DEF Webhooks
    <3>2. Added(r, o.bundle, w) /\ upd'[r][g].bundle[w] = o.bundle[w]
      BY <1>1, <2>0, <2>2, <2>3, <3>1
    <3>3. QED
      BY <1>1, <3>2 DEF Added, Expired, Of, Certs
  <2>4. Added(r, upd[r][g].bundle, i)'
    <3>1. o.bundle[i] = config.bundle[i]
      <4>1. ~(i < i)
        BY DEF Webhooks
      <4>2. QED
        BY <2>2, <4>1
    <3>2. upd'[r][g].bundle[i] = updateCABundles(config.bundle[i], ca[r].cert)
      BY <1>1, <2>0, <3>1
    <3>3. Certs(updateCABundles(config.bundle[i], ca[r].cert))
            = {d \in Certs(config.bundle[i]) : ~Expired(d)} \cup {ca[r].cert}
      BY UpdateCerts
    <3>4. QED
      BY <1>0, <1>1, <1>2, <3>2, <3>3 DEF Added, Expired, Of, Certs
  <2>5. ASSUME NEW w \in Webhooks, ~(w < i + 1)
        PROVE  upd'[r][g].bundle[w] = config'.bundle[w]
    <3>1. ~(w < i) /\ w # i
      BY <2>5 DEF Webhooks
    <3>2. QED
      BY <1>1, <2>0, <2>2, <3>1
  <2>6. \A w \in Webhooks : w < i + 1 => w < i \/ w = i
    BY DEF Webhooks
  <2>7. pc'[r][g] = "put" => \A w \in Webhooks : w < i + 1
    <3>1. NumWebhooks \in Nat
      BY WebhooksAssumption
    <3>2. ~(i < NumWebhooks) => \A w \in Webhooks : w < i + 1
      BY <3>1 DEF Webhooks
    <3>3. QED
      BY <1>1, <2>0, <3>2
  <2>8. \A w \in Webhooks : w < i + 1 => Added(r, upd[r][g].bundle, w)'
    BY <2>3, <2>4, <2>6
  <2>9. QED
    BY <1>1, <1>3, <2>0, <2>5, <2>7, <2>8 DEF Exact
<1>4. CASE ~(q = r /\ h = g)
  <2>1. pc'[q][h] = pc[q][h] /\ upd'[q][h] = upd[q][h]
    BY <1>1, <1>4
  <2>2. Acceptable(q, h)
    BY <2>1, <1>1 DEF Acceptable
  <2>3. Exact(q, h)
    BY <2>2 DEF ExactInv
  <2>4. QED
    BY <1>1, <2>1, <2>3, ExactSame
<1>5. QED
  BY <1>3, <1>4

-----------------------------------------------------------------------------
(* Whose certificates a replica holds.                                     *)

\* Steps that make no certificate and assign none.
LEMMA OwnKept ==
  ASSUME OwnInv,
         \A q \in Replicas, f \in Files : disk'[q][f] \in {disk[q][f], NoCert},
         \A q \in Replicas, h \in Goroutines :
           pc'[q][h] \in HoldsNew => pc[q][h] \in HoldsNew /\ gen'[q][h] = gen[q][h],
         \A q \in Replicas : pc'[q]["main"] \notin BeforeCA =>
           pc[q]["main"] \notin BeforeCA /\ ca'[q].cert = ca[q].cert
  PROVE  OwnInv'
  BY DEF OwnInv, Of

\* Generating a certificate.
Generates(r, g) ==
  /\ pc[r][g] \in {"genCA", "sign"}
  /\ \E c : c.serial = NewSerial(r) /\ gen' = [gen EXCEPT ![r][g] = c]
  /\ nextSerial' = [nextSerial EXCEPT ![r] = @ + 1]
  /\ \E l \in {"caCrt", "tlsCrt"} : Goto(r, g, l) /\ (pc[r][g] = "genCA" => l = "caCrt")
  /\ UNCHANGED <<now, config, disk, ca, upd>>

LEMMA GenerateFacts ==
  ASSUME NEW r, NEW g, generateCACert(r, g) \/ generateTLSCert(r, g)
  PROVE  Generates(r, g)
<1>1. CASE generateCACert(r, g)
  <2> DEFINE c == [serial |-> NewSerial(r), issuer |-> NewSerial(r),
                   notAfter |-> now + CAValidity]
  <2>1. c.serial = NewSerial(r) /\ gen' = [gen EXCEPT ![r][g] = c]
    BY <1>1 DEF generateCACert
  <2>2. QED
    BY <1>1, <2>1 DEF generateCACert, Generates, At
<1>2. CASE generateTLSCert(r, g)
  <2> DEFINE c == [serial |-> NewSerial(r), issuer |-> ca[r].cert.serial,
                   notAfter |-> now + TLSValidity]
  <2>1. c.serial = NewSerial(r) /\ gen' = [gen EXCEPT ![r][g] = c]
    BY <1>2 DEF generateTLSCert
  <2>2. QED
    BY <1>2, <2>1 DEF generateTLSCert, Generates, At
<1>3. QED
  BY <1>1, <1>2

LEMMA GenerateOwn ==
  ASSUME TypeOK, OwnInv, NEW r \in Replicas, NEW g \in Goroutines, Generates(r, g)
  PROVE  OwnInv'
<1>1. PICK c : c.serial = NewSerial(r) /\ gen' = [gen EXCEPT ![r][g] = c]
  BY DEF Generates
<1>2. PICK l \in {"caCrt", "tlsCrt"} : Goto(r, g, l) /\ (pc[r][g] = "genCA" => l = "caCrt")
  BY DEF Generates
<1>3. \A q \in Replicas, h \in Goroutines :
        /\ pc'[q][h] = IF q = r /\ h = g THEN l ELSE pc[q][h]
        /\ gen'[q][h] = IF q = r /\ h = g THEN c ELSE gen[q][h]
  BY <1>1, <1>2, GotoFacts DEF TypeOK
<1>4. Of(c, r)
  BY <1>1 DEF Of, NewSerial
<1>5. UNCHANGED <<disk, ca>> /\ pc[r][g] \in {"genCA", "sign"}
  BY DEF Generates
<1>6. \A q \in Replicas : pc'[q]["main"] \notin BeforeCA => pc[q]["main"] \notin BeforeCA
  BY <1>2, <1>3, <1>5, GoroutineFacts DEF BeforeCA
<1>7. \A q \in Replicas, h \in Goroutines : pc'[q][h] \in HoldsNew => Of(gen'[q][h], q)
  BY <1>3, <1>4 DEF OwnInv
<1>8. QED
  BY <1>5, <1>6, <1>7 DEF OwnInv, Of

LEMMA WriteOwn ==
  ASSUME TypeOK, OwnInv, NEW r \in Replicas, NEW g \in Goroutines, writeBundle(r, g)
  PROVE  OwnInv'
<1> DEFINE f == pc[r][g]
           l == AfterWrite(g, f)
<1>1. f \in Files /\ Of(gen[r][g], r)
  BY DEF writeBundle, OwnInv, HoldsNew
<1>2. \A q \in Replicas, h \in Goroutines :
        pc'[q][h] = IF q = r /\ h = g THEN l ELSE pc[q][h]
  BY GotoFacts DEF writeBundle
<1>3. \A q \in Replicas, e \in Files :
        disk'[q][e] = IF q = r /\ e = f THEN gen[r][g] ELSE disk[q][e]
  BY <1>1 DEF writeBundle, TypeOK
<1>4. \A q \in Replicas, e \in Files : disk'[q][e] = NoCert \/ Of(disk'[q][e], q)
  BY <1>1, <1>3 DEF OwnInv
<1>5. CASE g = "main" /\ f = "caKey"
  <2>1. /\ \A q \in Replicas : ca'[q].cert = IF q = r THEN gen[r][g] ELSE ca[q].cert
        /\ \A q \in Replicas, h \in Goroutines : ~(q = r /\ h = g) => gen'[q][h] = gen[q][h]
    BY <1>5 DEF writeBundle, TypeOK, At
  <2>2. l = "get"
    BY <1>5 DEF AfterWrite
  <2>3. \A q \in Replicas, h \in Goroutines : pc'[q][h] \in HoldsNew => Of(gen'[q][h], q)
    BY <1>2, <2>1, <2>2 DEF OwnInv, HoldsNew, Files
  <2>4. \A q \in Replicas : pc'[q]["main"] \notin BeforeCA => Of(ca'[q].cert, q)
    BY <1>1, <1>2, <1>5, <2>1, GoroutineFacts DEF OwnInv
  <2>5. QED
    BY <1>4, <2>3, <2>4 DEF OwnInv, Of
<1>6. CASE ~(g = "main" /\ f = "caKey")
  <2>1. UNCHANGED <<ca, gen>>
    BY <1>6 DEF writeBundle, At
  <2>2. \A q \in Replicas, h \in Goroutines : pc'[q][h] \in HoldsNew => Of(gen'[q][h], q)
    BY <1>1, <1>2, <2>1 DEF OwnInv
  <2>3. g = "main" /\ f \in BeforeCA => l \in BeforeCA
    BY <1>1, <1>6 DEF BeforeCA, AfterWrite, Files
  <2>4. \A q \in Replicas : pc'[q]["main"] \notin BeforeCA => pc[q]["main"] \notin BeforeCA
    BY <1>2, <2>3, GoroutineFacts
  <2>5. QED
    BY <1>4, <2>1, <2>2, <2>4 DEF OwnInv, Of
<1>7. QED
  BY <1>5, <1>6

\* The assignments of the rotations, and of TLS.
LEMMA AssignOwn ==
  ASSUME TypeOK, OwnInv, NEW r \in Replicas, NEW g \in Goroutines,
         SetTLS(r, g) \/ (g = "rotateCA" /\ (SetCAKey(r) \/ SetCACert(r)))
  PROVE  OwnInv'
<1>0. disk' = disk
  BY DEF SetTLS, SetCAKey, SetCACert
<1>1. CASE SetTLS(r, g)
  <2>1. /\ pc[r][g] = "setTLS" /\ ca' = ca
        /\ \A q \in Replicas, h \in Goroutines : ~(q = r /\ h = g) => gen'[q][h] = gen[q][h]
    BY <1>1 DEF SetTLS, TypeOK, At
  <2>2. CASE g = "main" /\ Start(r)
    <3>1. \A q \in Replicas, h \in Goroutines :
            pc'[q][h] = IF q = r THEN (IF h = "main" THEN "run" ELSE "idle") ELSE pc[q][h]
      BY <2>2, StartFacts
    <3>2. QED
      BY <1>0, <2>1, <2>2, <3>1, OwnKept, GoroutineFacts DEF HoldsNew, Files, BeforeCA
  <2>3. CASE g # "main" /\ Goto(r, g, "idle")
    <3>1. \A q \in Replicas, h \in Goroutines :
            pc'[q][h] = IF q = r /\ h = g THEN "idle" ELSE pc[q][h]
      BY <2>3, GotoFacts
    <3>2. QED
      BY <1>0, <2>1, <2>3, <3>1, OwnKept, GoroutineFacts DEF HoldsNew, Files, BeforeCA
  <2>4. QED
    BY <1>1, <2>2, <2>3 DEF SetTLS
<1>2. CASE g = "rotateCA" /\ SetCAKey(r)
  <2>1. \A q \in Replicas, h \in Goroutines :
          pc'[q][h] = IF q = r /\ h = g THEN "setCert" ELSE pc[q][h]
    BY <1>2, GotoFacts DEF SetCAKey
  <2>2. /\ pc[r][g] = "setKey" /\ gen' = gen
        /\ \A q \in Replicas : ca'[q].cert = ca[q].cert
    BY <1>2 DEF SetCAKey, TypeOK, At
  <2>3. QED
    BY <1>0, <1>2, <2>1, <2>2, OwnKept, GoroutineFacts DEF HoldsNew
<1>3. CASE g = "rotateCA" /\ SetCACert(r)
  <2>1. \A q \in Replicas, h \in Goroutines :
          pc'[q][h] = IF q = r /\ h = g THEN "get" ELSE pc[q][h]
    BY <1>3, GotoFacts DEF SetCACert
  <2>2. /\ pc[r][g] = "setCert"
        /\ \A q \in Replicas, h \in Goroutines : ~(q = r /\ h = g) => gen'[q][h] = gen[q][h]
        /\ \A q \in Replicas : ca'[q].cert = IF q = r THEN gen[r][g] ELSE ca[q].cert
    BY <1>3 DEF SetCACert, TypeOK, At
  <2>3. Of(gen[r][g], r)
    BY <2>2 DEF OwnInv, HoldsNew
  <2>4. \A q \in Replicas, h \in Goroutines : pc'[q][h] \in HoldsNew => Of(gen'[q][h], q)
    BY <2>1, <2>2 DEF OwnInv, HoldsNew, Files
  <2>5. \A q \in Replicas : pc'[q]["main"] \notin BeforeCA => Of(ca'[q].cert, q)
    BY <1>3, <2>1, <2>2, <2>3, GoroutineFacts DEF OwnInv
  <2>6. QED
    BY <1>0, <2>4, <2>5 DEF OwnInv, Of
<1>4. QED
  BY <1>1, <1>2, <1>3

\* The steps that neither make, write nor assign a certificate.
Others(r, g) ==
  \/ SignFails(r, g) \/ GetWebhook(r, g) \/ FillWebhook(r, g)
  \/ UpdateWebhook(r, g) \/ RetryOnConflict(r, g) \/ UpdateFails(r, g) \/ UpdateLost(r, g)
  \/ g = "main" /\ (LoadTLS(r) \/ WaitGroupDone(r))
  \/ g = "rotateCA" /\ rotateCACert(r)
  \/ g = "rotateTLS" /\ rotateTLSCert(r)
  \/ g = "sync" /\ (SyncTick(r) \/ SyncNext(r))
  \/ g \in Loops /\ LeaveLoop(r, g)

LEMMA OthersData ==
  ASSUME NEW r, NEW g, Others(r, g)
  PROVE  /\ UNCHANGED <<disk, ca, nextSerial>>
         /\ pc[r][g] \in {"sign", "get", "cleanGet", "fill", "put", "cleanPut", "loadTLS",
                          "drain", "idle", "scan"}
         /\ gen' = gen \/ \E p \in Off : ExitAs(r, p)
<1>1. CASE SignFails(r, g)
  BY <1>1 DEF SignFails, At, Off
<1>2. CASE UpdateWebhook(r, g) \/ UpdateFails(r, g) \/ UpdateLost(r, g)
  BY <1>2 DEF UpdateWebhook, UpdateFails, UpdateLost, AfterUpdate, Off
<1>3. CASE GetWebhook(r, g) \/ FillWebhook(r, g) \/ RetryOnConflict(r, g)
  BY <1>3 DEF GetWebhook, FillWebhook, RetryOnConflict, At
<1>4. CASE g = "main" /\ (LoadTLS(r) \/ WaitGroupDone(r))
  BY <1>4 DEF LoadTLS, WaitGroupDone, At
<1>5. CASE \/ g = "rotateCA" /\ rotateCACert(r)
           \/ g = "rotateTLS" /\ rotateTLSCert(r)
  BY <1>5 DEF rotateCACert, rotateTLSCert, Check, At
<1>6. CASE g = "sync" /\ (SyncTick(r) \/ SyncNext(r))
  BY <1>6 DEF SyncTick, SyncNext, At
<1>7. CASE g \in Loops /\ LeaveLoop(r, g)
  BY <1>7 DEF LeaveLoop, At
<1>8. QED
  BY <1>1, <1>2, <1>3, <1>4, <1>5, <1>6, <1>7 DEF Others

\* They reach no label at which a new certificate is held.
LEMMA OthersControl ==
  ASSUME VersionInv, NEW r \in Replicas, NEW g \in Goroutines, Others(r, g)
  PROVE  \/ \E p \in Off : Ends(r, p)
         \/ gen' = gen /\ g = "main" /\ Start(r)
         \/ gen' = gen /\ \E l \in Labels \ HoldsNew : Goto(r, g, l)
<1>0. TypeOK /\ pc \in [Replicas -> [Goroutines -> Labels]]
  BY DEF VersionInv, TypeOK
<1>1. CASE SignFails(r, g)
  BY <1>1 DEF SignFails, Ends, Off
<1>2. CASE UpdateWebhook(r, g) \/ UpdateFails(r, g) \/ UpdateLost(r, g)
  <2>1. PICK ok \in BOOLEAN : AfterUpdate(r, g, ok) /\ (ok => UpdateWebhook(r, g))
    BY <1>2 DEF UpdateWebhook, UpdateFails, UpdateLost
  <2>2. CASE At(r, g, "cleanPut") /\ ExitAs(r, IF ok THEN "stopped" ELSE "failed")
    <3>1. g = "main" /\ pc[r]["main"] = "cleanPut"
      BY <2>2, CleanMain DEF At
    <3>2. QED
      BY <2>1, <2>2, <3>1 DEF Ends, Off
  <2>3. CASE ExitAs(r, "down")
    BY <2>3 DEF Ends, Off
  <2>4. CASE Goto(r, g, Resume(g)) /\ gen' = gen
    BY <2>4 DEF Resume, Labels, HoldsNew, Files
  <2>5. QED
    BY <2>1, <2>2, <2>3, <2>4 DEF AfterUpdate
<1>3. CASE GetWebhook(r, g) \/ FillWebhook(r, g) \/ RetryOnConflict(r, g)
  BY <1>3 DEF GetWebhook, FillWebhook, RetryOnConflict, Labels, HoldsNew, Files
<1>4. CASE g = "main" /\ (LoadTLS(r) \/ WaitGroupDone(r))
  BY <1>4 DEF LoadTLS, WaitGroupDone, Labels, HoldsNew, Files
<1>5. CASE \/ g = "rotateCA" /\ rotateCACert(r)
           \/ g = "rotateTLS" /\ rotateTLSCert(r)
  <2>1. At(r, g, "idle") /\ UNCHANGED pc => Goto(r, g, "idle")
    BY <1>0 DEF At, Goto
  <2>2. gen' = gen /\ \E l \in {"genCA", "sign", "idle"} : Goto(r, g, l)
    BY <1>5, <2>1 DEF rotateCACert, rotateTLSCert, Check
  <2>3. QED
    BY <2>2 DEF Labels, HoldsNew, Files
<1>6. CASE g = "sync" /\ (SyncTick(r) \/ SyncNext(r))
  <2>1. gen' = gen /\ \E l \in {"idle", "get"} : Goto(r, "sync", l)
    BY <1>6 DEF SyncTick, SyncNext, ScanFrom
  <2>2. QED
    BY <1>6, <2>1 DEF Labels, HoldsNew, Files
<1>7. CASE g \in Loops /\ LeaveLoop(r, g)
  BY <1>7 DEF LeaveLoop, Labels, HoldsNew, Files
<1>8. QED
  BY <1>1, <1>2, <1>3, <1>4, <1>5, <1>6, <1>7 DEF Others

\* A process that ends holds nothing new, and keeps the CA that it had.
LEMMA EndsOwn ==
  ASSUME TypeOK, OwnInv, NEW r \in Replicas, NEW p \in Off, Ends(r, p), ca' = ca,
         \A q \in Replicas, f \in Files : disk'[q][f] \in {disk[q][f], NoCert}
  PROVE  OwnInv'
<1>1. /\ \A q \in Replicas : pc'[q] = IF q = r THEN OffLoops(p) ELSE pc[q]
      /\ \A q \in Replicas, g \in Goroutines : gen'[q][g] = IF q = r THEN NoCert ELSE gen[q][g]
  BY ExitFacts DEF Ends
<1>2. p \notin BeforeCA => pc[r]["main"] \notin BeforeCA
  BY DEF Ends, BeforeCA
<1>3. QED
  BY <1>1, <1>2, OffLoopsFacts, OwnKept

LEMMA OthersOwn ==
  ASSUME VersionInv, OwnInv, NEW r \in Replicas, NEW g \in Goroutines, Others(r, g)
  PROVE  OwnInv'
<1>0. TypeOK /\ UNCHANGED <<disk, ca>>
  BY OthersData DEF VersionInv
<1>1. pc[r][g] \notin HoldsNew \cup BeforeCA
  BY OthersData DEF HoldsNew, BeforeCA, Files
<1>2. ASSUME NEW p \in Off, Ends(r, p)
      PROVE  OwnInv'
  BY <1>0, <1>2, EndsOwn
<1>3. CASE gen' = gen /\ g = "main" /\ Start(r)
  <2>1. \A q \in Replicas, h \in Goroutines :
          pc'[q][h] = IF q = r THEN (IF h = "main" THEN "run" ELSE "idle") ELSE pc[q][h]
    BY <1>0, <1>3, StartFacts
  <2>2. QED
    BY <1>0, <1>1, <1>3, <2>1, OwnKept, GoroutineFacts DEF HoldsNew, Files
<1>4. ASSUME gen' = gen, NEW l \in Labels \ HoldsNew, Goto(r, g, l)
      PROVE  OwnInv'
  <2>1. \A q \in Replicas, h \in Goroutines :
          pc'[q][h] = IF q = r /\ h = g THEN l ELSE pc[q][h]
    BY <1>0, <1>4, GotoFacts
  <2>2. QED
    BY <1>0, <1>1, <1>4, <2>1, OwnKept, GoroutineFacts
<1>5. QED
  BY <1>2, <1>3, <1>4, OthersControl

LEMMA GoroutineOwnInv ==
  ASSUME VersionInv, OwnInv, NEW r \in Replicas, NEW g \in Goroutines, GoroutineStep(r, g)
  PROVE  OwnInv'
<1>0. TypeOK
  BY DEF VersionInv
<1>1. CASE generateCACert(r, g) \/ generateTLSCert(r, g)
  BY <1>0, <1>1, GenerateFacts, GenerateOwn
<1>2. CASE writeBundle(r, g)
  BY <1>0, <1>2, WriteOwn
<1>3. CASE SetTLS(r, g) \/ (g = "rotateCA" /\ (SetCAKey(r) \/ SetCACert(r)))
  BY <1>0, <1>3, AssignOwn
<1>4. CASE Others(r, g)
  BY <1>4, OthersOwn
<1>5. QED
  BY <1>1, <1>2, <1>3, <1>4 DEF GoroutineStep, Others

-----------------------------------------------------------------------------
(* Serials.                                                                *)

LEMMA KnownParts ==
  ASSUME NEW K, NoCert \in K,
         \A q \in Replicas : ca'[q].cert \in K,
         \A q \in Replicas, h \in Goroutines : gen'[q][h] \in K,
         \A q \in Replicas, f \in Files : disk'[q][f] \in K,
         \A w \in Webhooks : Certs(config.bundle[w])' \subseteq K,
         \A q \in Replicas, h \in Goroutines, w \in Webhooks :
           Acceptable(q, h)' => Certs(upd[q][h].bundle[w])' \subseteq K
  PROVE  Known' \subseteq K
<1>1. HeldCAs' \subseteq K
  BY DEF HeldCAs
<1>2. Generated' \subseteq K
  BY DEF Generated
<1>3. OnDisk' \subseteq K
  BY DEF OnDisk
<1>4. InBundles' \subseteq K
  BY DEF InBundles
<1>5. InHands' \subseteq K
  <2>1. ASSUME NEW q \in Replicas PROVE InHand(q)' \subseteq K
    BY DEF InHand
  <2>2. QED
    BY <2>1 DEF InHands
<1>6. QED
  BY <1>1, <1>2, <1>3, <1>4, <1>5 DEF Known

\* The certificates in bundles are known ones.
LEMMA BundlesKnown ==
  /\ \A w \in Webhooks : Certs(config.bundle[w]) \subseteq Known
  /\ \A q \in Replicas, h \in Goroutines, w \in Webhooks :
       Acceptable(q, h) => Certs(upd[q][h].bundle[w]) \subseteq Known
  /\ NoCert \in Known
  /\ \A q \in Replicas : ca[q].cert \in Known
  /\ \A q \in Replicas, h \in Goroutines : gen[q][h] \in Known
  /\ \A q \in Replicas, f \in Files : disk[q][f] \in Known
  BY KnownMember

LEMMA KnownTyped ==
  ASSUME TypeOK, NEW c \in Known
  PROVE  c \in Cert
<1>1. \A b \in Bundles, w \in Webhooks : Certs(b[w]) \subseteq Cert
  BY DEF Bundles, Certs, Entry
<1>2. config.bundle \in Bundles /\ \A r \in Replicas, g \in Goroutines : upd[r][g].bundle \in Bundles
  BY DEF TypeOK
<1>3. /\ \A r \in Replicas : ca[r].cert \in Cert
      /\ \A r \in Replicas, g \in Goroutines : gen[r][g] \in Cert
      /\ \A r \in Replicas, f \in Files : disk[r][f] \in Cert
  BY DEF TypeOK
<1>4. QED
  BY <1>1, <1>2, <1>3, KnownMember, NoCertType

LEMMA ServerKnown ==
  ASSUME ServerStep, NEW w \in Webhooks
  PROVE  Certs(config.bundle[w])' \subseteq Known
<1>1. CASE config' = config
  BY <1>1, BundlesKnown DEF Certs
<1>2. ASSUME NEW b \in Bundles, Replaced(b), config' = Stored(b)
      PROVE  Certs(config.bundle[w])' \subseteq Known
  <2>1. Certs(config.bundle[w])' = Certs(b[w])
    <3>1. config'.bundle = b
      BY <1>2 DEF Stored
    <3>2. QED
      BY <3>1 DEF Certs
  <2>2. CASE b = [v \in Webhooks |-> {}]
    BY <2>1, <2>2 DEF Certs
  <2>3. ASSUME NEW r \in Replicas, NEW g \in Goroutines, Acceptable(r, g), b = upd[r][g].bundle
        PROVE  Certs(config.bundle[w])' \subseteq Known
    BY <2>1, <2>3, BundlesKnown
  <2>4. QED
    BY <1>2, <2>2, <2>3 DEF Replaced
<1>3. QED
  BY <1>1, <1>2 DEF ServerStep

\* A step that hands out no new object leaves nothing but known certificates in
\* the objects.
LEMMA KnownKept ==
  ASSUME VersionInv, HandsKept, ServerStep, NEW K, Known \subseteq K,
         \A q \in Replicas : ca'[q].cert \in K,
         \A q \in Replicas, h \in Goroutines : gen'[q][h] \in K,
         \A q \in Replicas, f \in Files : disk'[q][f] \in K
  PROVE  Known' \subseteq K
<1>1. ASSUME NEW q \in Replicas, NEW h \in Goroutines, NEW w \in Webhooks, Acceptable(q, h)'
      PROVE  Certs(upd[q][h].bundle[w])' \subseteq K
  <2>1. Acceptable(q, h)
    BY <1>1, StillAcceptable
  <2>2. upd'[q][h] = upd[q][h]
    BY <1>1 DEF HandsKept, Acceptable
  <2>3. QED
    BY <2>1, <2>2, BundlesKnown DEF Certs
<1>2. \A w \in Webhooks : Certs(config.bundle[w])' \subseteq K
  BY ServerKnown
<1>3. NoCert \in K
  BY BundlesKnown
<1>4. QED
  BY <1>1, <1>2, <1>3, KnownParts

LEMMA SerialKept ==
  ASSUME SerialInv, nextSerial' = nextSerial, Known' \subseteq Known
  PROVE  SerialInv'
  BY DEF SerialInv

LEMMA SerialFrame ==
  ASSUME VersionInv, SerialInv, HandsKept, ServerStep, nextSerial' = nextSerial,
         \A q \in Replicas : ca'[q].cert \in Known,
         \A q \in Replicas, h \in Goroutines : gen'[q][h] \in Known,
         \A q \in Replicas, f \in Files : disk'[q][f] \in Known
  PROVE  SerialInv'
  BY KnownKept, SerialKept

\* A new serial has been drawn by nobody.
LEMMA GenerateSerial ==
  ASSUME VersionInv, SerialInv, HandsKept, ServerStep,
         NEW r \in Replicas, NEW g \in Goroutines, Generates(r, g)
  PROVE  SerialInv'
<1>1. PICK c : c.serial = NewSerial(r) /\ gen' = [gen EXCEPT ![r][g] = c]
  BY DEF Generates
<1>2. \A q \in Replicas, h \in Goroutines :
        gen'[q][h] = IF q = r /\ h = g THEN c ELSE gen[q][h]
  BY <1>1 DEF VersionInv, TypeOK
<1>3. Known' \subseteq Known \cup {c}
  <2> DEFINE K == Known \cup {c}
  <2>1. UNCHANGED <<ca, disk>>
    BY DEF Generates
  <2>2. \A q \in Replicas, h \in Goroutines : gen'[q][h] \in K
    BY <1>2, BundlesKnown
  <2>3. \A q \in Replicas : ca'[q].cert \in K
    BY <2>1, BundlesKnown
  <2>4. \A q \in Replicas, f \in Files : disk'[q][f] \in K
    BY <2>1, BundlesKnown
  <2>5. Known \subseteq K
    OBVIOUS
  <2> HIDE DEF K
  <2>6. Known' \subseteq K
    BY <2>2, <2>3, <2>4, <2>5, KnownKept
  <2>7. QED
    BY <2>6 DEF K
<1>4. /\ nextSerial \in [Replicas -> Nat]
      /\ \A q \in Replicas :
           nextSerial'[q] = IF q = r THEN nextSerial[q] + 1 ELSE nextSerial[q]
  BY DEF Generates, VersionInv, TypeOK
<1>5. c.serial[1] = r /\ c.serial[2] = nextSerial[r]
  BY <1>1 DEF NewSerial
<1>6. \A d \in Known : d # NoCert =>
        /\ d.serial[1] \in Replicas
        /\ d.serial[2] < nextSerial[d.serial[1]]
  BY DEF SerialInv
<1>7. \A q \in Replicas : nextSerial[q] > 0
  BY DEF SerialInv
<1>8. \A d \in Known : d # NoCert => d.serial # c.serial
  <2>1. \A d \in Known : d.serial[2] \in Int
    <3>1. \A d \in Cert : d.serial[2] \in Int
      BY DEF Cert, Serial, NoSerial
    <3>2. QED
      BY <3>1, KnownTyped DEF VersionInv
  <2>2. QED
    BY <1>4, <1>5, <1>6, <2>1
<1>9. NoCert.serial # c.serial
  <2>1. NoCert.serial[2] = 0
    BY DEF NoCert, NoSerial
  <2>2. QED
    BY <1>4, <1>5, <1>7, <2>1
<1>10. \A q \in Replicas : nextSerial'[q] > 0
  BY <1>4, <1>7
<1>11. \A d \in Known' : d # NoCert =>
         d.serial[1] \in Replicas /\ d.serial[2] < nextSerial'[d.serial[1]]
  <2> SUFFICES ASSUME NEW d \in Known', d # NoCert
               PROVE  d.serial[1] \in Replicas /\ d.serial[2] < nextSerial'[d.serial[1]]
    OBVIOUS
  <2>1. CASE d = c
    BY <1>4, <1>5, <2>1
  <2>2. CASE d \in Known
    <3>1. d.serial[1] \in Replicas /\ d.serial[2] < nextSerial[d.serial[1]]
      BY <1>6, <2>2
    <3>2. d.serial[2] \in Int
      <4>1. d \in Cert
        BY <2>2, KnownTyped DEF VersionInv
      <4>2. QED
        BY <4>1 DEF Cert, Serial, NoSerial
    <3>3. QED
      BY <1>4, <3>1, <3>2
  <2>3. QED
    BY <1>3, <2>1, <2>2
<1>12. \A d, e \in Known' : d.serial = e.serial => d = e
  <2>1. \A d, e \in Known : d.serial = e.serial => d = e
    BY DEF SerialInv
  <2>2. \A d \in Known : d.serial # c.serial
    BY <1>8, <1>9
  <2>3. QED
    BY <1>3, <2>1, <2>2
<1>13. QED
  BY <1>10, <1>11, <1>12 DEF SerialInv

\* A written, assigned or forgotten certificate was known before.
LEMMA WriteSerial ==
  ASSUME VersionInv, SerialInv, HandsKept, ServerStep,
         NEW r \in Replicas, NEW g \in Goroutines, writeBundle(r, g)
  PROVE  SerialInv'
<1> DEFINE f == pc[r][g]
<1>0. /\ disk \in [Replicas -> [Files -> Cert]]
      /\ ca \in [Replicas -> [key : Cert, cert : Cert]]
      /\ gen \in [Replicas -> [Goroutines -> Cert]]
  BY DEF VersionInv, TypeOK
<1>1. nextSerial' = nextSerial
  BY DEF writeBundle
<1>2. \A q \in Replicas, e \in Files : disk'[q][e] \in Known
  <2>1. \A q \in Replicas, e \in Files : disk'[q][e] \in {gen[r][g], disk[q][e]}
    BY <1>0 DEF writeBundle
  <2>2. QED
    BY <2>1, BundlesKnown
<1>3. /\ \A q \in Replicas : ca'[q].cert \in Known
      /\ \A q \in Replicas, h \in Goroutines : gen'[q][h] \in Known
  <2>1. CASE g = "main" /\ At(r, g, "caKey")
    <3>1. /\ ca' = [ca EXCEPT ![r] = [key |-> gen[r][g], cert |-> gen[r][g]]]
          /\ gen' = [gen EXCEPT ![r][g] = NoCert]
      BY <2>1 DEF writeBundle
    <3>2. \A q \in Replicas : ca'[q].cert \in {gen[r][g], ca[q].cert}
      BY <1>0, <3>1
    <3>3. \A q \in Replicas, h \in Goroutines : gen'[q][h] \in {NoCert, gen[q][h]}
      BY <1>0, <3>1
    <3>4. QED
      BY <3>2, <3>3, BundlesKnown
  <2>2. CASE ~(g = "main" /\ At(r, g, "caKey"))
    <3>1. UNCHANGED <<ca, gen>>
      BY <2>2 DEF writeBundle
    <3>2. QED
      BY <3>1, BundlesKnown
  <2>3. QED
    BY <2>1, <2>2
<1>4. QED
  BY <1>1, <1>2, <1>3, SerialFrame

LEMMA AssignSerial ==
  ASSUME VersionInv, SerialInv, HandsKept, ServerStep,
         NEW r \in Replicas, NEW g \in Goroutines,
         SetTLS(r, g) \/ (g = "rotateCA" /\ (SetCAKey(r) \/ SetCACert(r)))
  PROVE  SerialInv'
<1>0. /\ ca \in [Replicas -> [key : Cert, cert : Cert]]
      /\ gen \in [Replicas -> [Goroutines -> Cert]]
  BY DEF VersionInv, TypeOK
<1>1. UNCHANGED <<nextSerial, disk>>
  BY DEF SetTLS, SetCAKey, SetCACert
<1>2. \A q \in Replicas : ca'[q].cert \in {ca[q].cert, gen[r][g]}
  BY <1>0 DEF SetTLS, SetCAKey, SetCACert
<1>3. \A q \in Replicas, h \in Goroutines : gen'[q][h] \in {NoCert, gen[q][h]}
  BY <1>0 DEF SetTLS, SetCAKey, SetCACert
<1>4. QED
  BY <1>1, <1>2, <1>3, BundlesKnown, SerialFrame

\* The steps that read and write the shared object, and the rest.
LEMMA GetSerial ==
  ASSUME VersionInv, SerialInv, NEW r \in Replicas, NEW g \in Goroutines,
         GetWebhook(r, g) \/ FillWebhook(r, g)
  PROVE  SerialInv'
<1>0. /\ TypeOK
      /\ upd \in [Replicas -> [Goroutines -> [n : Nat, rv : Nat, i : Nat, bundle : Bundles]]]
      /\ cache \in [Replicas -> [rv : Nat, bundle : Bundles]]
      /\ pc \in [Replicas -> [Goroutines -> Labels]]
  BY DEF VersionInv, TypeOK
<1>1. \A q \in Replicas, h \in Goroutines :
        ~(q = r /\ h = g) => pc'[q][h] = pc[q][h] /\ upd'[q][h] = upd[q][h]
  BY <1>0 DEF GetWebhook, FillWebhook, Goto
<1>2. UNCHANGED <<config, ca, gen, disk, nextSerial>>
  BY DEF GetWebhook, FillWebhook
<1>3. ASSUME NEW w \in Webhooks, Acceptable(r, g)'
      PROVE  Certs(upd[r][g].bundle[w])' \subseteq Known
  <2>1. CASE GetWebhook(r, g)
    <3> DEFINE o == Source(r, g)
    <3>1. upd'[r][g].rv = o.rv /\ upd'[r][g].bundle = Got(r, g, o.bundle)
      BY <1>0, <2>1 DEF GetWebhook
    <3>2. o.rv = config.rv => o.bundle = config.bundle
      BY DEF VersionInv, CacheInv, Source
    <3>3. upd'[r][g].bundle = Got(r, g, config.bundle)
      BY <1>2, <1>3, <3>1, <3>2 DEF Acceptable
    <3>4. upd'[r][g].bundle[w] \in {config.bundle[w], removeCABundle(config.bundle[w], ca[r].cert)}
      BY <3>3 DEF Got
    <3>5. Certs(removeCABundle(config.bundle[w], ca[r].cert)) \subseteq Known
      BY BundlesKnown DEF removeCABundle, Certs
    <3>6. Certs(config.bundle[w]) \subseteq Known
      BY BundlesKnown
    <3>7. QED
      BY <3>4, <3>5, <3>6 DEF Certs
  <2>2. CASE FillWebhook(r, g)
    <3>1. pc[r][g] = "fill" /\ upd[r][g].i \in Webhooks
      BY <2>2 DEF VersionInv, PutInv, FillWebhook, At
    <3>2. /\ upd'[r][g].rv = upd[r][g].rv
          /\ upd'[r][g].bundle[w] \in {upd[r][g].bundle[w],
                                      updateCABundles(upd[r][g].bundle[w], ca[r].cert)}
      BY <1>0, <2>2, <3>1, FillFacts
    <3>3. Acceptable(r, g)
      BY <1>2, <1>3, <3>1, <3>2 DEF Acceptable, Holding
    <3>4. Certs(upd[r][g].bundle[w]) \subseteq Known /\ ca[r].cert \in Known
      BY <3>3, BundlesKnown
    <3>5. Certs(updateCABundles(upd[r][g].bundle[w], ca[r].cert)) \subseteq Known
      BY <3>4, UpdateCerts
    <3>6. QED
      BY <3>2, <3>4, <3>5 DEF Certs
  <2>3. QED
    BY <2>1, <2>2
<1>4. ASSUME NEW q \in Replicas, NEW h \in Goroutines, NEW w \in Webhooks, Acceptable(q, h)'
      PROVE  Certs(upd[q][h].bundle[w])' \subseteq Known
  <2>1. CASE ~(q = r /\ h = g)
    <3>1. upd'[q][h] = upd[q][h] /\ Acceptable(q, h)
      BY <1>1, <1>2, <1>4, <2>1 DEF Acceptable
    <3>2. QED
      BY <3>1, BundlesKnown DEF Certs
  <2>2. QED
    BY <1>3, <1>4, <2>1
<1>5. \A w \in Webhooks : Certs(config.bundle[w])' \subseteq Known
  BY <1>2, BundlesKnown DEF Certs
<1>6. Known' \subseteq Known
  BY <1>2, <1>4, <1>5, BundlesKnown, KnownParts
<1>7. QED
  BY <1>2, <1>6, SerialKept

LEMMA OthersSerial ==
  ASSUME VersionInv, SerialInv, HandsKept, ServerStep,
         NEW r \in Replicas, NEW g \in Goroutines, Others(r, g)
  PROVE  SerialInv'
<1>1. UNCHANGED <<disk, ca, nextSerial>>
  BY OthersData
<1>2. \A q \in Replicas, h \in Goroutines : gen'[q][h] \in {NoCert, gen[q][h]}
  BY OthersData, ExitFacts DEF VersionInv
<1>3. QED
  BY <1>1, <1>2, BundlesKnown, SerialFrame

LEMMA GoroutineSerialInv ==
  ASSUME VersionInv, SerialInv, NEW r \in Replicas, NEW g \in Goroutines, GoroutineStep(r, g)
  PROVE  SerialInv'
<1>1. CASE GetWebhook(r, g) \/ FillWebhook(r, g)
  BY <1>1, GetSerial
<1>2. CASE ~(GetWebhook(r, g) \/ FillWebhook(r, g))
  <2>1. HandsKept /\ ServerStep
    BY <1>2, GoroutineHandsKept, GoroutineServerStep
  <2>2. CASE generateCACert(r, g) \/ generateTLSCert(r, g)
    BY <2>1, <2>2, GenerateFacts, GenerateSerial
  <2>3. CASE writeBundle(r, g)
    BY <2>1, <2>3, WriteSerial
  <2>4. CASE SetTLS(r, g) \/ (g = "rotateCA" /\ (SetCAKey(r) \/ SetCACert(r)))
    BY <2>1, <2>4, AssignSerial
  <2>5. CASE Others(r, g)
    BY <2>1, <2>5, OthersSerial
  <2>6. QED
    BY <2>2, <2>3, <2>4, <2>5 DEF GoroutineStep, Others
<1>3. QED
  BY <1>1, <1>2

-----------------------------------------------------------------------------
(* The environment's steps.                                                *)

Environment(r) == Boot(r) \/ Cancel(r) \/ CacheSync(r) \/ Crash(r) \/ Replace(r)

\* New begins, or the context is cancelled.
BootFacts(r) ==
  \E l \in {"loadTLS", "genCA"} :
    /\ Goto(r, "main", l) /\ IsOff(r)
    /\ ca' = [ca EXCEPT ![r] =
                IF l = "loadTLS" THEN [key |-> disk[r]["caKey"], cert |-> disk[r]["caCrt"]]
                                 ELSE [key |-> NoCert, cert |-> NoCert]]
    /\ l = "loadTLS" => disk[r]["caCrt"] # NoCert
    /\ UNCHANGED <<now, nextSerial, config, disk, gen, upd>>

LEMMA BootStep ==
  ASSUME NEW r, Boot(r)
  PROVE  BootFacts(r)
<1>1. CASE Loadable(r, "caCrt", "caKey")
  BY <1>1 DEF Boot, BootFacts, Loadable
<1>2. CASE ~Loadable(r, "caCrt", "caKey")
  BY <1>2 DEF Boot, BootFacts
<1>3. QED
  BY <1>1, <1>2

LEMMA EnvironmentPC ==
  ASSUME TypeOK, NEW r \in Replicas, Environment(r)
  PROVE  /\ \A q \in Replicas : q # r => pc'[q] = pc[q] /\ upd'[q] = upd[q]
         /\ \/ pc'[r] = pc[r] /\ upd'[r] = upd[r] /\ ca' = ca
            \/ pc'[r] = OffLoops("down") /\ ca' = ca
            \/ /\ IsOff(r) /\ pc'[r]["main"] \in {"loadTLS", "genCA"}
               /\ upd'[r] = upd[r] /\ \A h \in Loops : pc'[r][h] = pc[r][h]
            \/ /\ pc[r]["main"] = "run" /\ pc'[r]["main"] = "drain" /\ ca' = ca
               /\ upd'[r] = upd[r] /\ \A h \in Loops : pc'[r][h] = pc[r][h]
<1>0. /\ pc \in [Replicas -> [Goroutines -> Labels]]
      /\ upd \in [Replicas -> [Goroutines -> [n : Nat, rv : Nat, i : Nat, bundle : Bundles]]]
  BY DEF TypeOK
<1>1. CASE Boot(r)
  <2>1. PICK l \in {"loadTLS", "genCA"} : Goto(r, "main", l) /\ IsOff(r) /\ UNCHANGED upd
    BY <1>1, BootStep DEF BootFacts
  <2>2. \A q \in Replicas : q # r => pc'[q] = pc[q]
    BY <1>0, <2>1 DEF Goto
  <2>3. QED
    BY <2>1, <2>2, GotoFacts, GoroutineFacts
<1>2. CASE Cancel(r)
  <2>1. \A q \in Replicas : q # r => pc'[q] = pc[q]
    BY <1>0, <1>2 DEF Cancel, Goto
  <2>2. QED
    BY <1>2, <2>1, GotoFacts, GoroutineFacts DEF Cancel, At
<1>3. CASE CacheSync(r)
  BY <1>3 DEF CacheSync
<1>4. CASE Crash(r)
  BY <1>4, ExitFacts DEF Crash, Off
<1>5. CASE Replace(r)
  BY <1>0, <1>5 DEF Replace
<1>6. QED
  BY <1>1, <1>2, <1>3, <1>4, <1>5 DEF Environment

LEMMA EnvironmentHands ==
  ASSUME VersionInv, NEW r \in Replicas, Environment(r)
  PROVE  HandsKept /\ UNCHANGED <<now, config, nextSerial>>
<1>0. TypeOK
  BY DEF VersionInv
<1>1. UNCHANGED <<now, config, nextSerial>>
  BY DEF Environment, Boot, Cancel, CacheSync, Crash, Replace
<1>2. \A q \in Replicas : ca'[q] = ca[q] \/ (q = r /\ IsOff(r))
  <2>1. CASE Boot(r)
    BY <1>0, <2>1, BootStep DEF BootFacts, TypeOK
  <2>2. CASE ca' = ca
    BY <2>2
  <2>3. QED
    BY <2>1, <2>2 DEF Environment, Cancel, CacheSync, Crash, Replace
<1>3. \A q \in Replicas, h \in Goroutines : pc[q][h] = "cleanPut" => ca'[q] = ca[q]
  BY <1>2, CleanMain DEF IsOff, Off
<1>4. \A h \in Goroutines : OffLoops("down")[h] \notin Holding
  BY OffLoopsFacts DEF Off
<1>5. HandsKept
  BY <1>0, <1>3, <1>4, EnvironmentPC, GoroutineFacts DEF HandsKept, Holding
<1>6. QED
  BY <1>1, <1>5

LEMMA EnvironmentLoopInv ==
  ASSUME TypeOK, LoopInv, NEW r \in Replicas, Environment(r)
  PROVE  LoopInv'
<1>1. \A h \in Loops : OffLoops("down")[h] = "off"
  BY OffLoopsFacts DEF Off
<1>2. IsOff(r) => pc[r]["main"] \notin Running
  BY DEF IsOff, Off, Running
<1>3. "drain" \in Running
  BY DEF Running
<1>4. QED
  BY <1>1, <1>2, <1>3, EnvironmentPC DEF LoopInv

LEMMA EnvironmentOwnInv ==
  ASSUME TypeOK, LoopInv, OwnInv, NEW r \in Replicas, Environment(r)
  PROVE  OwnInv'
<1>1. CASE Boot(r)
  <2>1. PICK l \in {"loadTLS", "genCA"} :
          /\ Goto(r, "main", l) /\ IsOff(r)
          /\ ca' = [ca EXCEPT ![r] =
                IF l = "loadTLS" THEN [key |-> disk[r]["caKey"], cert |-> disk[r]["caCrt"]]
                                 ELSE [key |-> NoCert, cert |-> NoCert]]
          /\ l = "loadTLS" => disk[r]["caCrt"] # NoCert
          /\ UNCHANGED <<disk, gen>>
    BY <1>1, BootStep DEF BootFacts
  <2>2. \A q \in Replicas, h \in Goroutines :
          pc'[q][h] = IF q = r /\ h = "main" THEN l ELSE pc[q][h]
    BY <2>1, GotoFacts, GoroutineFacts
  <2>3. /\ \A q \in Replicas : q # r => ca'[q] = ca[q]
        /\ l = "loadTLS" => ca'[r].cert = disk[r]["caCrt"]
    BY <2>1 DEF TypeOK
  <2>4. l = "loadTLS" => Of(disk[r]["caCrt"], r)
    BY <2>1 DEF OwnInv, Files
  <2>5. \A q \in Replicas, h \in Goroutines : pc'[q][h] \in HoldsNew => Of(gen'[q][h], q)
    BY <2>1, <2>2 DEF OwnInv, HoldsNew, Files
  <2>6. \A q \in Replicas : pc'[q]["main"] \notin BeforeCA => Of(ca'[q].cert, q)
    BY <2>1, <2>2, <2>3, <2>4, GoroutineFacts DEF OwnInv, BeforeCA
  <2>7. QED
    BY <2>1, <2>5, <2>6 DEF OwnInv, Of
<1>2. CASE Cancel(r)
  <2>1. Goto(r, "main", "drain") /\ pc[r]["main"] = "run" /\ UNCHANGED <<disk, ca, gen>>
    BY <1>2 DEF Cancel, At
  <2>2. \A q \in Replicas, h \in Goroutines :
          pc'[q][h] = IF q = r /\ h = "main" THEN "drain" ELSE pc[q][h]
    BY <2>1, GotoFacts, GoroutineFacts
  <2>3. QED
    BY <2>1, <2>2, OwnKept, GoroutineFacts DEF HoldsNew, Files, BeforeCA
<1>3. CASE CacheSync(r)
  BY <1>3, OwnKept DEF CacheSync
<1>4. CASE Crash(r)
  <2>1. \A q \in Replicas, f \in Files : disk'[q][f] \in {disk[q][f], NoCert}
    BY <1>4 DEF Crash, TypeOK
  <2>2. Ends(r, "down") /\ ca' = ca
    BY <1>4 DEF Crash, Ends
  <2>3. QED
    BY <2>1, <2>2, EndsOwn DEF Off
<1>5. CASE Replace(r)
  <2>1. \A q \in Replicas, f \in Files : disk'[q][f] \in {disk[q][f], NoCert}
    BY <1>5 DEF Replace, TypeOK, EmptyDisk
  <2>2. \A q \in Replicas : pc'[q] = IF q = r THEN OffLoops("down") ELSE pc[q]
    BY <1>5 DEF Replace, TypeOK
  <2>3. UNCHANGED <<gen, ca>>
    BY <1>5 DEF Replace
  <2>4. /\ \A h \in Goroutines : OffLoops("down")[h] \notin HoldsNew
        /\ OffLoops("down")["main"] \in BeforeCA
    BY OffLoopsFacts DEF Off, BeforeCA
  <2>5. QED
    BY <2>1, <2>2, <2>3, <2>4, OwnKept
<1>6. QED
  BY <1>1, <1>2, <1>3, <1>4, <1>5 DEF Environment

LEMMA EnvironmentSerialInv ==
  ASSUME VersionInv, SerialInv, NEW r \in Replicas, Environment(r)
  PROVE  SerialInv'
<1>0. TypeOK
  BY DEF VersionInv
<1>1. \A q \in Replicas : ca'[q].cert \in Known
  <2>1. CASE Boot(r)
    <3>1. PICK c \in {disk[r]["caCrt"], NoCert} : \E k : ca' = [ca EXCEPT ![r] = [key |-> k, cert |-> c]]
      BY <2>1, BootStep DEF BootFacts
    <3>2. \A q \in Replicas : ca'[q].cert \in {ca[q].cert, c}
      BY <1>0, <3>1 DEF TypeOK
    <3>3. "caCrt" \in Files
      BY DEF Files
    <3>4. QED
      BY <3>2, <3>3, BundlesKnown
  <2>2. CASE ca' = ca
    BY <2>2, BundlesKnown
  <2>3. QED
    BY <2>1, <2>2 DEF Environment, Cancel, CacheSync, Crash, Replace
<1>2. \A q \in Replicas, h \in Goroutines : gen'[q][h] \in {NoCert, gen[q][h]}
  <2>1. CASE Crash(r)
    BY <1>0, <2>1, ExitFacts DEF Crash, Off
  <2>2. CASE gen' = gen
    BY <2>2
  <2>3. QED
    BY <2>1, <2>2 DEF Environment, Boot, Cancel, CacheSync, Replace
<1>3. \A q \in Replicas, f \in Files : disk'[q][f] \in {NoCert, disk[q][f]}
  <2>1. CASE Crash(r)
    BY <1>0, <2>1 DEF Crash, TypeOK
  <2>2. CASE Replace(r)
    BY <1>0, <2>2 DEF Replace, TypeOK, EmptyDisk
  <2>3. CASE disk' = disk
    BY <2>3
  <2>4. QED
    BY <2>1, <2>2, <2>3 DEF Environment, Boot, Cancel, CacheSync
<1>4. HandsKept /\ ServerStep /\ nextSerial' = nextSerial
  BY EnvironmentHands DEF ServerStep
<1>5. QED
  BY <1>1, <1>2, <1>3, <1>4, BundlesKnown, SerialFrame

\* Nobody has an object in hand when a unit of time passes.
LEMMA TickHands ==
  ASSUME LoopInv, Tick
  PROVE  \A q \in Replicas, h \in Goroutines : pc'[q][h] = pc[q][h] /\ pc[q][h] \notin Holding
<1>1. \A q \in Replicas : Settled(q)
  BY DEF Tick
<1>2. ASSUME NEW q \in Replicas, NEW h \in Goroutines PROVE pc[q][h] \notin Holding
  <2>1. CASE IsOff(q)
    BY <2>1, GoroutineFacts DEF IsOff, Off, LoopInv, Running, Holding
  <2>2. CASE At(q, "main", "run") /\ \A g \in Loops : At(q, g, "idle")
    BY <2>2, GoroutineFacts DEF At, Holding
  <2>3. QED
    BY <1>1, <2>1, <2>2 DEF Settled
<1>3. pc' = pc
  BY DEF Tick
<1>4. QED
  BY <1>2, <1>3

LEMMA NextTrustInv ==
  ASSUME TrustInv, [Next]_vars
  PROVE  TrustInv'
<1>0. VersionInv /\ TypeOK /\ LoopInv /\ OwnInv /\ SerialInv /\ ExactInv
  BY DEF TrustInv, VersionInv
<1>1. VersionInv'
  BY <1>0, NextVersionInv
<1>2. ASSUME NEW r \in Replicas, NEW g \in Goroutines, GoroutineStep(r, g)
      PROVE  LoopInv' /\ OwnInv' /\ SerialInv' /\ ExactInv'
  <2>1. LoopInv' /\ OwnInv' /\ SerialInv'
    BY <1>0, <1>2, GoroutineLoopInv, GoroutineOwnInv, GoroutineSerialInv
  <2>2. ExactInv'
    <3>1. CASE GetWebhook(r, g)
      BY <1>0, <3>1, GetExact
    <3>2. CASE FillWebhook(r, g)
      BY <1>0, <3>2, FillExact
    <3>3. CASE ~(GetWebhook(r, g) \/ FillWebhook(r, g))
      BY <1>0, <1>2, <3>3, GoroutineHandsKept, GoroutineServerStep, ExactKept
    <3>4. QED
      BY <3>1, <3>2, <3>3
  <2>3. QED
    BY <2>1, <2>2
<1>3. ASSUME NEW r \in Replicas, Environment(r)
      PROVE  LoopInv' /\ OwnInv' /\ SerialInv' /\ ExactInv'
  <2>1. LoopInv' /\ OwnInv' /\ SerialInv'
    BY <1>0, <1>3, EnvironmentLoopInv, EnvironmentOwnInv, EnvironmentSerialInv
  <2>2. HandsKept /\ UNCHANGED <<now, config>>
    BY <1>0, <1>3, EnvironmentHands
  <2>3. ServerStep
    BY <2>2 DEF ServerStep
  <2>4. QED
    BY <1>0, <2>1, <2>2, <2>3, ExactKept
<1>4. ASSUME UNCHANGED <<now, nextSerial, disk, ca, pc, gen, upd>>, ServerStep
      PROVE  LoopInv' /\ OwnInv' /\ SerialInv' /\ ExactInv'
  <2>1. HandsKept
    BY <1>4 DEF HandsKept
  <2>2. LoopInv' /\ OwnInv'
    BY <1>0, <1>4, OwnKept DEF LoopInv
  <2>3. SerialInv'
    BY <1>0, <1>4, <2>1, BundlesKnown, SerialFrame
  <2>4. ExactInv'
    BY <1>0, <1>4, <2>1, ExactKept
  <2>5. QED
    BY <2>2, <2>3, <2>4
<1>5. CASE Reapply
  <2>1. ServerStep
    BY <1>5, EmptyBundles DEF Reapply, ServerStep, Replaced
  <2>2. QED
    BY <1>1, <1>4, <1>5, <2>1 DEF Reapply, TrustInv
<1>6. CASE Tick
  <2>1. UNCHANGED <<nextSerial, config, disk, ca, pc, gen, upd>>
    BY <1>6 DEF Tick
  <2>2. \A q \in Replicas, h \in Goroutines : pc'[q][h] = pc[q][h] /\ pc[q][h] \notin Holding
    BY <1>0, <1>6, TickHands
  <2>3. HandsKept /\ ServerStep
    BY <2>1, <2>2 DEF HandsKept, ServerStep
  <2>4. LoopInv' /\ OwnInv'
    BY <1>0, <2>1, OwnKept DEF LoopInv
  <2>5. SerialInv'
    BY <1>0, <2>1, <2>3, BundlesKnown, SerialFrame
  <2>6. ExactInv'
    BY <2>2 DEF ExactInv, Acceptable
  <2>7. QED
    BY <1>1, <2>4, <2>5, <2>6 DEF TrustInv
<1>7. CASE UNCHANGED vars
  BY <1>1, <1>4, <1>7 DEF vars, ServerStep, TrustInv
<1>8. QED
  BY <1>1, <1>2, <1>3, <1>5, <1>6, <1>7 DEF Next, Environment, TrustInv

LEMMA TrustInvariant == Spec => []TrustInv
<1>1. Init => LoopInv /\ OwnInv /\ SerialInv /\ ExactInv
  <2> SUFFICES ASSUME Init PROVE LoopInv /\ OwnInv /\ SerialInv /\ ExactInv
    OBVIOUS
  <2>1. \A r \in Replicas : pc[r] = OffLoops("down")
    BY DEF Init
  <2>2. /\ \A g \in Loops : OffLoops("down")[g] = "off"
        /\ \A g \in Goroutines : OffLoops("down")[g] \notin Holding \cup HoldsNew
        /\ OffLoops("down")["main"] \in BeforeCA
    BY OffLoopsFacts DEF Off, BeforeCA
  <2>3. /\ \A r \in Replicas : nextSerial[r] = 1 /\ ca[r].cert = NoCert
        /\ \A r \in Replicas, f \in Files : disk[r][f] = NoCert
        /\ \A r \in Replicas, g \in Goroutines : gen[r][g] = NoCert
        /\ \A w \in Webhooks : config.bundle[w] = {}
    BY DEF Init, EmptyDisk
  <2>4. \A c \in Known : c = NoCert
    BY <2>1, <2>2, <2>3, KnownMember DEF Acceptable, Certs
  <2>5. SerialInv
    BY <2>3, <2>4 DEF SerialInv
  <2>6. LoopInv /\ OwnInv /\ ExactInv
    BY <2>1, <2>2, <2>3 DEF LoopInv, OwnInv, ExactInv, Acceptable
  <2>7. QED
    BY <2>5, <2>6
<1>2. TrustInv /\ [Next]_vars => TrustInv'
  BY NextTrustInv
<1>3. VersionInv /\ LoopInv /\ OwnInv /\ SerialInv /\ ExactInv => TrustInv
  BY DEF TrustInv
<1>4. QED
  BY <1>1, <1>2, <1>3, VersionInvariant, PTL DEF Spec

-----------------------------------------------------------------------------
(* A replica that has stopped.                                             *)

\* A process that has ended takes no step.
LEMMA StepRuns ==
  ASSUME LoopInv, NEW r \in Replicas, NEW g \in Goroutines, GoroutineStep(r, g)
  PROVE  ~IsOff(r)
<1>1. pc[r][g] \notin Off \cup {"off"}
  <2>1. CASE generateCACert(r, g) \/ generateTLSCert(r, g) \/ writeBundle(r, g)
    BY <2>1 DEF generateCACert, generateTLSCert, writeBundle, At, Files, Off
  <2>2. CASE SetTLS(r, g) \/ (g = "rotateCA" /\ (SetCAKey(r) \/ SetCACert(r)))
    BY <2>2 DEF SetTLS, SetCAKey, SetCACert, At, Off
  <2>3. CASE Others(r, g)
    BY <2>3, OthersData DEF Off
  <2>4. QED
    BY <2>1, <2>2, <2>3 DEF GoroutineStep, Others
<1>2. QED
  BY <1>1, GoroutineFacts DEF IsOff, LoopInv, Off, Running

\* main is stopped by an Update that went through, and by nothing else.
LEMMA StopsBy ==
  ASSUME VersionInv, LoopInv, NEW r \in Replicas, NEW g \in Goroutines, GoroutineStep(r, g),
         NEW q \in Replicas
  PROVE  \/ pc'[q]["main"] = "stopped" <=> pc[q]["main"] = "stopped"
         \/ /\ q = r /\ pc[r]["main"] = "cleanPut" /\ pc'[r]["main"] = "stopped"
            /\ UpdateWebhook(r, "main")
<1>0. TypeOK /\ pc[r]["main"] # "stopped"
  BY StepRuns DEF VersionInv, IsOff, Off
<1>1. ASSUME NEW p \in Off, Ends(r, p)
      PROVE  \/ pc'[q]["main"] = "stopped" <=> pc[q]["main"] = "stopped"
             \/ /\ q = r /\ pc[r]["main"] = "cleanPut" /\ pc'[r]["main"] = "stopped"
                /\ UpdateWebhook(r, "main")
  <2>1. \A s \in Replicas : pc'[s] = IF s = r THEN OffLoops(p) ELSE pc[s]
    BY <1>0, <1>1, ExitFacts DEF Ends
  <2>2. OffLoops(p)["main"] = p
    BY OffLoopsFacts
  <2>3. QED
    BY <1>0, <1>1, <2>1, <2>2 DEF Ends
<1>2. CASE Starts(r)
  BY <1>0, <1>2, StartFacts, GoroutineFacts DEF Starts
<1>3. ASSUME NEW l \in Labels, Moves(r, g, l)
      PROVE  pc'[q]["main"] = "stopped" <=> pc[q]["main"] = "stopped"
  BY <1>0, <1>3, GotoFacts, GoroutineFacts DEF Moves, Off
<1>4. QED
  BY <1>1, <1>2, <1>3, Control

LEMMA OthersCA ==
  ASSUME TypeOK, NEW r \in Replicas, NEW g \in Goroutines, GoroutineStep(r, g),
         NEW q \in Replicas, q # r
  PROVE  ca'[q] = ca[q]
<1>1. CASE writeBundle(r, g) \/ SetCAKey(r) \/ SetCACert(r)
  BY <1>1 DEF writeBundle, SetCAKey, SetCACert, TypeOK
<1>2. CASE ca' = ca
  BY <1>2
<1>3. QED
  BY <1>1, <1>2 DEF GoroutineStep, generateCACert, generateTLSCert, SignFails, SetTLS,
     GetWebhook, FillWebhook, UpdateWebhook, RetryOnConflict, UpdateFails, UpdateLost, LoadTLS,
     WaitGroupDone, rotateCACert, rotateTLSCert, Check, SyncTick, SyncNext, LeaveLoop

LEMMA FoundInCerts ==
  ASSUME NEW b, NEW c
  PROVE  caBundleFound(b, c) <=> \E d \in Certs(b) : d.serial = c.serial
  BY DEF caBundleFound, Serials, Certs

\* The object of another replica does not bring the CA back.
LEMMA StoppedKept ==
  ASSUME TrustInv, StoppedCAWithdrawn, ServerStep,
         NEW q \in Replicas, pc[q]["main"] = "stopped", NEW w \in Webhooks
  PROVE  ~caBundleFound(config'.bundle[w], ca[q].cert)
<1>0. LoopInv /\ OwnInv /\ ExactInv
  BY DEF TrustInv
<1>1. ~caBundleFound(config.bundle[w], ca[q].cert)
  BY DEF StoppedCAWithdrawn, At
<1>2. Of(ca[q].cert, q)
  BY <1>0 DEF OwnInv, BeforeCA
<1>3. ASSUME NEW b \in Bundles, Replaced(b), config' = Stored(b)
      PROVE  ~caBundleFound(config'.bundle[w], ca[q].cert)
  <2>1. config'.bundle[w] = b[w]
    BY <1>3 DEF Stored
  <2>2. CASE b = [v \in Webhooks |-> {}]
    BY <2>1, <2>2, FoundInCerts DEF Certs
  <2>3. ASSUME NEW r \in Replicas, NEW g \in Goroutines,
               Acceptable(r, g), pc[r][g] # "fill", b = upd[r][g].bundle
        PROVE  ~caBundleFound(b[w], ca[q].cert)
    <3>1. q # r
      BY <1>0, <2>3, OwnCA DEF Acceptable, Holding
    <3>2. CASE pc[r][g] = "put"
      <4>1. PICK c \in Cert :
              Of(c, r) /\ Certs(b[w]) = {d \in Certs(config.bundle[w]) : ~Expired(d)} \cup {c}
        <5>1. Added(r, b, w)
          BY <1>0, <2>3, <3>2 DEF ExactInv, Exact
        <5>2. QED
          BY <5>1 DEF Added
      <4>2. c.serial # ca[q].cert.serial
        BY <1>2, <3>1, <4>1 DEF Of
      <4>3. Certs(b[w]) \subseteq Certs(config.bundle[w]) \cup {c}
        BY <4>1
      <4>4. QED
        BY <1>1, <4>2, <4>3, FoundInCerts
    <3>3. CASE pc[r][g] = "cleanPut"
      <4>1. b[w] = removeCABundle(config.bundle[w], ca[r].cert)
        <5>1. b = [v \in Webhooks |-> removeCABundle(config.bundle[v], ca[r].cert)]
          BY <1>0, <2>3, <3>3 DEF ExactInv, Exact
        <5>2. QED
          BY <5>1
      <4>2. QED
        BY <1>1, <4>1 DEF removeCABundle, caBundleFound, Serials
    <3>4. QED
      BY <2>3, <3>2, <3>3 DEF Acceptable, Holding
  <2>4. QED
    BY <1>3, <2>1, <2>2, <2>3 DEF Replaced
<1>4. QED
  BY <1>1, <1>3 DEF ServerStep

LEMMA NextStopped ==
  ASSUME TrustInv, StoppedCAWithdrawn, [Next]_vars
  PROVE  StoppedCAWithdrawn'
<1>0. VersionInv /\ TypeOK /\ LoopInv /\ ExactInv
  BY DEF TrustInv, VersionInv
<1> SUFFICES ASSUME NEW q \in Replicas, pc'[q]["main"] = "stopped", NEW w \in Webhooks
             PROVE  ~caBundleFound(config'.bundle[w], ca'[q].cert)
  BY DEF StoppedCAWithdrawn, At, caBundleFound, Serials
<1>1. ASSUME NEW r \in Replicas, NEW g \in Goroutines, GoroutineStep(r, g)
      PROVE  ~caBundleFound(config'.bundle[w], ca'[q].cert)
  <2>1. CASE pc[q]["main"] = "stopped"
    <3>1. q # r
      BY <1>0, <1>1, <2>1, StepRuns DEF IsOff, Off
    <3>2. ca'[q] = ca[q]
      BY <1>0, <1>1, <3>1, OthersCA
    <3>3. ServerStep
      BY <1>0, <1>1, GoroutineServerStep
    <3>4. QED
      BY <2>1, <3>2, <3>3, StoppedKept
  <2>2. CASE q = r /\ pc[r]["main"] = "cleanPut" /\ UpdateWebhook(r, "main")
    <3>1. Acceptable(r, "main") /\ config' = Stored(upd[r]["main"].bundle) /\ ca' = ca
      BY <2>2 DEF UpdateWebhook, Acceptable, Accepts, Holding
    <3>2. config'.bundle[w] = removeCABundle(config.bundle[w], ca[r].cert)
      <4>1. upd[r]["main"].bundle = [v \in Webhooks |-> removeCABundle(config.bundle[v], ca[r].cert)]
        BY <1>0, <2>2, <3>1, GoroutineFacts DEF ExactInv, Exact
      <4>2. config'.bundle = upd[r]["main"].bundle
        BY <3>1 DEF Stored
      <4>3. QED
        BY <4>1, <4>2
    <3>3. QED
      BY <2>2, <3>1, <3>2 DEF removeCABundle, caBundleFound, Serials
  <2>3. QED
    BY <1>0, <1>1, <2>1, <2>2, StopsBy
<1>2. ASSUME NEW r \in Replicas, Environment(r)
      PROVE  ~caBundleFound(config'.bundle[w], ca'[q].cert)
  <2>1. OffLoops("down")["main"] = "down"
    BY OffLoopsFacts DEF Off
  <2>2. pc[q]["main"] = "stopped" /\ (q # r \/ ca' = ca)
    BY <1>0, <1>2, <2>1, EnvironmentPC
  <2>3. ca'[q] = ca[q]
    <3>1. CASE Boot(r) /\ q # r
      <4>1. PICK x : ca' = [ca EXCEPT ![r] = x]
        BY <3>1, BootStep DEF BootFacts
      <4>2. QED
        BY <1>0, <3>1, <4>1 DEF TypeOK
    <3>2. CASE ca' = ca
      BY <3>2
    <3>3. QED
      BY <1>2, <2>2, <3>1, <3>2 DEF Environment, Cancel, CacheSync, Crash, Replace
  <2>4. ServerStep
    BY <1>0, <1>2, EnvironmentHands DEF ServerStep
  <2>5. QED
    BY <2>2, <2>3, <2>4, StoppedKept
<1>3. CASE Reapply \/ Tick \/ UNCHANGED vars
  <2>1. UNCHANGED <<ca, pc>>
    BY <1>3 DEF Reapply, Tick, vars
  <2>2. ServerStep
    BY <1>3, EmptyBundles DEF Reapply, Tick, vars, ServerStep, Replaced
  <2>3. QED
    BY <2>1, <2>2, StoppedKept
<1>4. QED
  BY <1>1, <1>2, <1>3 DEF Next, Environment

\* A replica whose Start returned nil is trusted by no webhook until it boots again:
\* whatever objects the other replicas read before, and whatever they retry.
THEOREM StoppedCAWithdrawnHolds == Spec => []StoppedCAWithdrawn
<1>1. Init => StoppedCAWithdrawn
  BY DEF Init, StoppedCAWithdrawn, caBundleFound, Serials
<1>2. TrustInv /\ StoppedCAWithdrawn /\ [Next]_vars => StoppedCAWithdrawn'
  BY NextStopped
<1>3. QED
  BY <1>1, <1>2, TrustInvariant, PTL DEF Spec

-----------------------------------------------------------------------------
(* The refinement of CABundle.                                             *)

\* The replicas that have not left.
Active == {r \in Replicas : pc[r]["main"] # "stopped"}

LEMMA Stutter ==
  ASSUME now' = now, config' = config, Active' = Active
  PROVE  UNCHANGED Trust!avars
  BY DEF Trust!avars, Active, At

\* An accepted put publishes a CA of the writer's in each webhook.
LEMMA PublishStep ==
  ASSUME TrustInv, NEW r \in Replicas, NEW g \in Goroutines, Acceptable(r, g),
         pc[r][g] = "put", config' = Stored(upd[r][g].bundle), now' = now, Active' = Active
  PROVE  Trust!Publish(r)
<1>1. LoopInv /\ OwnInv /\ ExactInv
  BY DEF TrustInv
<1>2. \A w \in Webhooks : Added(r, upd[r][g].bundle, w)
  BY <1>1 DEF ExactInv, Exact
<1> DEFINE T == [w \in Webhooks |-> {e.cert : e \in config'.bundle[w]}]
           Adds(w, d) == /\ d.serial[1] = r
                         /\ T[w] = {x \in {e.cert : e \in config.bundle[w]} : ~(x.notAfter < now)}
                                     \cup {d}
           c == [w \in Webhooks |-> CHOOSE d : Adds(w, d)]
<1>3. config'.bundle = upd[r][g].bundle
  BY DEF Stored
<1>4. \A w \in Webhooks : Adds(w, c[w])
  <2> SUFFICES ASSUME NEW w \in Webhooks PROVE Adds(w, c[w])
    OBVIOUS
  <2>1. \E d : Adds(w, d)
    BY <1>2, <1>3 DEF Added, Certs, Expired, Of
  <2>2. Adds(w, CHOOSE d : Adds(w, d))
    BY <2>1, Zenon
  <2>3. QED
    BY <2>2
<1>5. \A w \in Webhooks : c[w] \in T[w] /\ c[w].serial[1] = r
  BY <1>4
<1>6. c \in [Webhooks -> {d \in UNION {T[w] : w \in Webhooks} : d.serial[1] = r}]
  <2> HIDE DEF T
  <2>1. \A w \in Webhooks : c[w] \in {d \in UNION {T[v] : v \in Webhooks} : d.serial[1] = r}
    BY <1>5
  <2>2. QED
    BY <2>1
<1>7. T = [w \in Webhooks |->
             {x \in [v \in Webhooks |-> {e.cert : e \in config.bundle[v]}][w] : ~(x.notAfter < now)}
               \cup {c[w]}]
  BY <1>4
<1>8. r \in {q \in Replicas : ~At(q, "main", "stopped")}
  BY <1>1, OwnCA DEF At
<1>9. {q \in Replicas : ~At(q, "main", "stopped")}' = {q \in Replicas : ~At(q, "main", "stopped")}
  BY DEF Active, At
<1> HIDE DEF c
<1>10. \E f \in [Webhooks -> {d \in UNION {T[w] : w \in Webhooks} : d.serial[1] = r}] :
         T = [w \in Webhooks |->
               {x \in [v \in Webhooks |-> {e.cert : e \in config.bundle[v]}][w] :
                  ~(x.notAfter < now)} \cup {f[w]}]
  BY <1>6, <1>7
<1>11. QED
  BY <1>8, <1>9, <1>10 DEF Trust!Publish, Trust!Own, Trust!All

\* An accepted cleanPut takes out the writer's CA: there is one certificate with
\* its serial.
LEMMA LeaveStep ==
  ASSUME TrustInv, NEW r \in Replicas, NEW g \in Goroutines, Acceptable(r, g),
         pc[r][g] = "cleanPut", config' = Stored(upd[r][g].bundle), now' = now,
         Active' \in {Active, Active \ {r}}
  PROVE  Trust!Leave(r)
<1>1. LoopInv /\ OwnInv /\ ExactInv /\ SerialInv
  BY DEF TrustInv
<1> DEFINE c == ca[r].cert
           All == UNION {[v \in Webhooks |-> {e.cert : e \in config.bundle[v]}][w] : w \in Webhooks}
<1>2. config'.bundle = [w \in Webhooks |-> removeCABundle(config.bundle[w], c)]
  <2>1. upd[r][g].bundle = [w \in Webhooks |-> removeCABundle(config.bundle[w], c)]
    BY <1>1 DEF ExactInv, Exact
  <2>2. QED
    BY <2>1 DEF Stored
<1>3. \A w \in Webhooks : \A d \in Certs(config.bundle[w]) : d.serial = c.serial => d = c
  BY <1>1, BundlesKnown DEF SerialInv
<1>4. \A w \in Webhooks :
        {e.cert : e \in config'.bundle[w]} = {e.cert : e \in config.bundle[w]} \ {c}
  BY <1>2, <1>3 DEF removeCABundle, Certs
<1>5. c.serial[1] = r /\ r \in {q \in Replicas : ~At(q, "main", "stopped")}
  BY <1>1, OwnCA DEF At, Of
<1>6. {q \in Replicas : ~At(q, "main", "stopped")}'
        \in {{q \in Replicas : ~At(q, "main", "stopped")},
             {q \in Replicas : ~At(q, "main", "stopped")} \ {r}}
  BY DEF Active, At
<1>7. \E D \in {{}} \cup {{d} : d \in {x \in All : x.serial[1] = r}} :
        [w \in Webhooks |-> {e.cert : e \in config'.bundle[w]}]
          = [w \in Webhooks |-> [v \in Webhooks |-> {e.cert : e \in config.bundle[v]}][w] \ D]
  <2>1. CASE c \in All
    <3>1. {c} \in {{d} : d \in {x \in All : x.serial[1] = r}}
      BY <1>5, <2>1
    <3>2. [w \in Webhooks |-> {e.cert : e \in config'.bundle[w]}]
            = [w \in Webhooks |-> [v \in Webhooks |-> {e.cert : e \in config.bundle[v]}][w] \ {c}]
      BY <1>4
    <3>3. QED
      BY <3>1, <3>2
  <2>2. CASE c \notin All
    <3>1. \A w \in Webhooks : c \notin {e.cert : e \in config.bundle[w]}
      BY <2>2
    <3>2. \A w \in Webhooks :
            {e.cert : e \in config'.bundle[w]} = {e.cert : e \in config.bundle[w]} \ {}
      BY <1>4, <3>1
    <3>3. QED
      BY <3>2
  <2>3. QED
    BY <2>1, <2>2
<1>8. QED
  BY <1>5, <1>6, <1>7 DEF Trust!Leave, Trust!Own, Trust!All

LEMMA JoinStep ==
  ASSUME NEW r \in Replicas, r \notin Active, Active' = Active \cup {r},
         now' = now, config' = config
  PROVE  Trust!Join(r)
  BY DEF Trust!Join, Active, At

\* A step of the code.
LEMMA GoroutineRefines ==
  ASSUME TrustInv, NEW r \in Replicas, NEW g \in Goroutines, GoroutineStep(r, g)
  PROVE  [Trust!Next]_(Trust!avars)
<1>0. VersionInv /\ LoopInv
  BY DEF TrustInv
<1>1. now' = now
  BY <1>0, GoroutineServerStep
<1>2. \/ Active' = Active
      \/ Active' = Active \ {r} /\ pc[r]["main"] = "cleanPut" /\ UpdateWebhook(r, "main")
  <2>1. CASE \A q \in Replicas : pc'[q]["main"] = "stopped" <=> pc[q]["main"] = "stopped"
    BY <2>1 DEF Active
  <2>2. CASE \E q \in Replicas : ~(pc'[q]["main"] = "stopped" <=> pc[q]["main"] = "stopped")
    <3>1. /\ pc[r]["main"] = "cleanPut" /\ pc'[r]["main"] = "stopped"
          /\ UpdateWebhook(r, "main")
      BY <1>0, <2>2, StopsBy
    <3>2. \A q \in Replicas : q # r =>
            (pc'[q]["main"] = "stopped" <=> pc[q]["main"] = "stopped")
      BY <1>0, StopsBy
    <3>3. QED
      BY <3>1, <3>2 DEF Active
  <2>3. QED
    BY <2>1, <2>2
<1>3. ASSUME NEW h \in Goroutines, UpdateWebhook(r, h) \/ UpdateLost(r, h),
             Active' = Active \/ (Active' = Active \ {r} /\ pc[r][h] = "cleanPut")
      PROVE  [Trust!Next]_(Trust!avars)
  <2>1. /\ Acceptable(r, h) /\ pc[r][h] # "fill"
        /\ config' = Stored(upd[r][h].bundle)
    BY <1>3 DEF UpdateWebhook, UpdateLost, Acceptable, Accepts, Holding
  <2>2. CASE pc[r][h] = "put"
    <3>1. Active' = Active
      BY <1>3, <2>2
    <3>2. Trust!Publish(r)
      BY <1>1, <2>1, <2>2, <3>1, PublishStep
    <3>3. QED
      BY <3>2 DEF Trust!Next
  <2>3. CASE pc[r][h] = "cleanPut"
    <3>1. Trust!Leave(r)
      BY <1>1, <1>3, <2>1, <2>3, LeaveStep
    <3>2. QED
      BY <3>1 DEF Trust!Next
  <2>4. QED
    BY <2>1, <2>2, <2>3 DEF Acceptable, Holding
<1>4. CASE Active' # Active
  BY <1>2, <1>3, <1>4, GoroutineFacts
<1>5. CASE Active' = Active /\ (UpdateWebhook(r, g) \/ UpdateLost(r, g))
  BY <1>3, <1>5
<1>6. CASE Active' = Active /\ ~(UpdateWebhook(r, g) \/ UpdateLost(r, g))
  <2>1. config' = config
    BY <1>6 DEF GoroutineStep, generateCACert, writeBundle, generateTLSCert, SignFails,
       SetTLS, GetWebhook, FillWebhook, RetryOnConflict, UpdateFails, LoadTLS, SetCAKey, SetCACert,
       WaitGroupDone, rotateCACert, rotateTLSCert, Check, SyncTick, SyncNext, LeaveLoop
  <2>2. QED
    BY <1>1, <1>6, <2>1, Stutter
<1>7. QED
  BY <1>4, <1>5, <1>6

\* A step of the environment: a stopped replica joins when it boots or is replaced.
LEMMA EnvironmentRefines ==
  ASSUME TrustInv, NEW r \in Replicas, Environment(r)
  PROVE  [Trust!Next]_(Trust!avars)
<1>0. VersionInv /\ TypeOK
  BY DEF TrustInv, VersionInv
<1>1. now' = now /\ config' = config
  BY <1>0, EnvironmentHands
<1>2. /\ \A q \in Replicas : q # r => pc'[q] = pc[q]
      /\ pc'[r] = pc[r] \/ pc'[r]["main"] # "stopped"
  <2>1. OffLoops("down")["main"] = "down"
    BY OffLoopsFacts DEF Off
  <2>2. QED
    BY <1>0, <2>1, EnvironmentPC
<1>3. CASE Active' = Active
  BY <1>1, <1>3, Stutter
<1>4. CASE Active' # Active
  <2>1. r \notin Active /\ Active' = Active \cup {r}
    BY <1>2, <1>4 DEF Active
  <2>2. QED
    BY <1>1, <2>1, JoinStep DEF Trust!Next
<1>5. QED
  BY <1>3, <1>4

\* The managers' caches, versions, retries and goroutines implement CABundle: seen
\* from the webhooks, every write is one atomic publication or withdrawal, and what
\* it adds to each webhook is a CA of the writer's own, though the rotation may have
\* assigned another one between two webhooks.
THEOREM CABundleImplemented == Spec => ImplementsCABundle
<1>1. Init => Trust!Init
  <2> SUFFICES ASSUME Init PROVE Trust!Init
    OBVIOUS
  <2>1. OffLoops("down")["main"] = "down"
    BY OffLoopsFacts DEF Off
  <2>2. \A r \in Replicas : pc[r] = OffLoops("down")
    BY DEF Init
  <2>3. {r \in Replicas : ~At(r, "main", "stopped")} = Replicas
    BY <2>1, <2>2 DEF At
  <2>4. [w \in Webhooks |-> {e.cert : e \in config.bundle[w]}] = [w \in Webhooks |-> {}]
    BY DEF Init
  <2>5. QED
    BY <2>3, <2>4 DEF Init, Trust!Init
<1>2. TrustInv /\ [Next]_vars => [Trust!Next]_(Trust!avars)
  <2> SUFFICES ASSUME TrustInv, [Next]_vars PROVE [Trust!Next]_(Trust!avars)
    OBVIOUS
  <2>1. CASE Reapply
    <3>1. now' = now /\ pc' = pc /\ config'.bundle = [w \in Webhooks |-> {}]
      BY <2>1 DEF Reapply, Stored
    <3>2. [w \in Webhooks |-> {e.cert : e \in config'.bundle[w]}] = [w \in Webhooks |-> {}]
      BY <3>1
    <3>3. Trust!Wipe
      BY <3>1, <3>2 DEF Trust!Wipe, At
    <3>4. QED
      BY <3>3 DEF Trust!Next
  <2>2. CASE Tick
    BY <2>2 DEF Tick, Trust!Next, Trust!Tick, At
  <2>3. CASE UNCHANGED vars
    BY <2>3 DEF vars, Trust!avars, At
  <2>4. QED
    BY <2>1, <2>2, <2>3, GoroutineRefines, EnvironmentRefines DEF Next, Environment
<1>3. QED
  BY <1>1, <1>2, TrustInvariant, PTL DEF Spec, ImplementsCABundle, Trust!Spec
=============================================================================
