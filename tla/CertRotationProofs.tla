------------------------- MODULE CertRotationProofs -------------------------
(***************************************************************************)
(* Proofs about the rotations of CertManager: the certificate and the key  *)
(* that a replica serves belong together, and the certificate is unexpired *)
(* and issued by a CA that every webhook trusts.  They hold for any number *)
(* of webhooks, any periods, any lag of the cache and any bound on the     *)
(* retries, as long as the two rotation loops are never due at the same    *)
(* moment; the hypotheses below say when that is.                          *)
(***************************************************************************)
EXTENDS CABundleProofs

\* How long after its generation a certificate is rotated.
TLSPeriod == TLSValidity - TLSRotation
CAPeriod == CAValidity - CARotation

\* The loops take no lock: when both rotate at once, one may sign with the CA
\* that the other is replacing, and their writes of tls.crt and tls.key mix.
\* A rotation of the CA also renews TLS, so both count from the same moment,
\* and they meet only if the CA's period is a multiple of TLS's (it is not:
\* 158 h and 23 h).
RotationsApart == \A k \in Nat : k * TLSPeriod # CAPeriod

\* A process that dies or fails to publish its first CA comes back with the CA
\* of an earlier time, and the moments no longer agree.  So: one replica, whose
\* API server answers; the chart may still be applied again.
Undisturbed ==
  /\ \A r, q \in Replicas : r = q
  /\ Disruptions \subseteq {"reapply"}

-----------------------------------------------------------------------------
(* The invariant.                                                          *)

\* Where the goroutines are.
Signing == {"sign", "tlsCrt", "tlsKey", "setTLS"}
MakingCA == {"genCA", "caCrt", "caKey"}
Booting == MakingCA \cup {"get", "fill", "put", "loadTLS"} \cup Signing
RotatingCA == MakingCA \cup {"setKey", "setCert", "get", "fill", "put"} \cup Signing
PlaceInv(r) ==
  /\ pc[r]["main"] \in Booting \cup {"down", "run"}
  /\ pc[r]["main"] = "run" =>
       /\ pc[r]["rotateCA"] \in RotatingCA \cup {"idle"}
       /\ pc[r]["rotateTLS"] \in Signing \cup {"idle"}
       /\ pc[r]["sync"] \in {"idle", "get", "fill", "put", "scan"}

\* When the certificates in use are to be rotated.
CADue(r) == ca[r].cert.notAfter - CARotation
TLSDue(r) == tls[r].notAfter - TLSRotation

\* The loops count from the same moment, rotate when they are due, and so never
\* both at once.
Multiple(n) == \E k \in Nat : n = k * TLSPeriod
CAIdle(r) == pc[r]["rotateCA"] = "idle"
TLSIdle(r) == pc[r]["rotateTLS"] = "idle"
PhaseInv(r) ==
  pc[r]["main"] = "run" =>
    /\ now <= TLSDue(r)
    /\ ~CAIdle(r) => TLSIdle(r) /\ now < TLSDue(r) /\ "rotateCA" \in checked[r]
    /\ ~TLSIdle(r) => CAIdle(r) /\ now = TLSDue(r) /\ "rotateTLS" \in checked[r]
    /\ CAIdle(r) => /\ Multiple((TLSDue(r) - TLSPeriod) - (CADue(r) - CAPeriod))
                    /\ now <= CADue(r)
                    /\ "rotateCA" \in checked[r] => now < CADue(r)
                    /\ tls[r].issuer = ca[r].cert.serial
    /\ TLSIdle(r) /\ "rotateTLS" \in checked[r] => now < TLSDue(r)

\* What is in memory: new certificates count from now; the CA can sign.
HoldsTLS == {"tlsCrt", "tlsKey", "setTLS"}
HoldsCA == {"caCrt", "caKey", "setKey", "setCert"}
HasNewCA(r) ==
  \/ pc[r]["main"] \in {"get", "fill", "put", "loadTLS"} \cup Signing
  \/ pc[r]["rotateCA"] \in {"get", "fill", "put"} \cup Signing
MemoryInv(r) ==
  /\ \A g \in Goroutines :
       pc[r][g] \in HoldsTLS => /\ gen[r][g].notAfter = now + TLSValidity
                                /\ gen[r][g].issuer = ca[r].cert.serial
  /\ \A g \in Goroutines : pc[r][g] \in HoldsCA => gen[r][g].notAfter = now + CAValidity
  /\ pc[r]["rotateCA"] = "setCert" => ca[r].key = gen[r]["rotateCA"]
  /\ pc[r]["rotateCA"] # "setCert" /\ pc[r]["main"] \notin MakingCA => ca[r].key = ca[r].cert
  /\ HasNewCA(r) => ca[r].cert.notAfter = now + CAValidity

\* What is on disk.
DiskInv(r) ==
  /\ pc[r]["main"] = "down" => disk[r] = EmptyDisk
  /\ pc[r]["main"] \in MakingCA \cup {"get", "fill", "put", "loadTLS", "sign", "tlsCrt"} =>
       disk[r]["tlsCrt"] = NoCert
  /\ \A g \in Goroutines : pc[r][g] \in {"tlsKey", "setTLS"} => disk[r]["tlsCrt"] = gen[r][g]
  /\ (\A g \in Goroutines : pc[r][g] # "tlsKey") => disk[r]["tlsCrt"] = disk[r]["tlsKey"]
  /\ pc[r]["main"] = "run" /\ (\A g \in Goroutines : pc[r][g] \notin {"tlsKey", "setTLS"}) =>
       disk[r]["tlsCrt"] = tls[r]

\* The object that New and rotateCACert put holds the CA, since c.ca stays as it is
\* while they fill it; New's is the first.
FilledInv(r, g) ==
  /\ pc[r][g] = "put" => Published(r, upd[r][g].bundle)
  /\ pc[r][g] = "fill" => \A w \in Webhooks :
       w < upd[r][g].i => caBundleFound(upd[r][g].bundle[w], ca[r].cert)
PublishInv(r) ==
  /\ pc[r]["main"] \in MakingCA \cup {"down", "get", "fill", "put"} =>
       config.bundle = [w \in Webhooks |-> {}]
  /\ pc[r]["main"] \in {"fill", "put"} => upd[r]["main"].rv = config.rv
  /\ \A g \in {"main", "rotateCA"} : FilledInv(r, g)

RotationInv(r) ==
  PlaceInv(r) /\ PhaseInv(r) /\ MemoryInv(r) /\ DiskInv(r) /\ PublishInv(r)

\* A CA that is published, or known not to be; and that no update drops.
Covered(r, s) == s \in behind[r] \/ \A w \in Webhooks : s \in Serials(config.bundle[w])
Alive(s) == \A c \in InBundles \cup InHands : c.serial = s => c.notAfter >= now
Good(r, s) == Covered(r, s) /\ Alive(s)

\* What a replica serves is issued by such a CA, and so is what it may sign next.
HasCA(r) == pc[r]["main"] \notin MakingCA \cup {"down"}
MaySign(r) ==
  \/ pc[r]["main"] \in {"loadTLS"} \cup Signing
  \/ pc[r]["main"] = "run" /\ pc[r]["rotateCA"] \notin {"get", "fill", "put"}
CoverInv(r) ==
  /\ pc[r]["main"] = "run" => Good(r, disk[r]["tlsCrt"].issuer)
  /\ MaySign(r) => Covered(r, ca[r].cert.serial)
  /\ HasCA(r) => ca[r].cert.notAfter >= now

-----------------------------------------------------------------------------
(* Arithmetic of the periods.                                              *)

LEMMA Periods ==
  /\ TLSPeriod \in Nat /\ TLSPeriod > 0 /\ CAPeriod \in Nat /\ CAPeriod > 0
  /\ CAValidity = CAPeriod + CARotation /\ TLSValidity = TLSPeriod + TLSRotation
  /\ CARotation \in Nat /\ TLSRotation \in Nat /\ CAValidity \in Nat /\ TLSValidity \in Nat
  BY PeriodAssumption DEF TLSPeriod, CAPeriod

LEMMA MultipleFacts ==
  /\ Multiple(0)
  /\ \A n \in Int : Multiple(n) => Multiple(n + TLSPeriod)
  /\ RotationsApart => ~Multiple(CAPeriod)
<1>1. Multiple(0)
  BY Periods DEF Multiple
<1>2. ASSUME NEW n \in Int, Multiple(n) PROVE Multiple(n + TLSPeriod)
  <2>1. PICK k \in Nat : n = k * TLSPeriod
    BY <1>2 DEF Multiple
  <2>2. n + TLSPeriod = (k + 1) * TLSPeriod
    BY <2>1, Periods
  <2>3. QED
    BY <2>2 DEF Multiple
<1>3. RotationsApart => ~Multiple(CAPeriod)
  BY DEF Multiple, RotationsApart
<1>4. QED
  BY <1>1, <1>2, <1>3

\* The loops are not due at the same moment.
LEMMA NeverBoth ==
  ASSUME TypeOK, RotationsApart, NEW r \in Replicas, PhaseInv(r), pc[r]["main"] = "run",
         CAIdle(r), now = CADue(r)
  PROVE  now < TLSDue(r) /\ TLSIdle(r)
<1>1. now \in Int /\ TLSDue(r) \in Int /\ CADue(r) \in Int
  BY Periods DEF TypeOK, CADue, TLSDue, Cert
<1>2. /\ now <= TLSDue(r) /\ Multiple((TLSDue(r) - TLSPeriod) - (CADue(r) - CAPeriod))
      /\ ~TLSIdle(r) => now = TLSDue(r)
  BY DEF PhaseInv
<1>3. now # TLSDue(r)
  <2>1. ASSUME now = TLSDue(r) PROVE FALSE
    <3>1. PICK n \in Int : n = (TLSDue(r) - TLSPeriod) - (CADue(r) - CAPeriod)
      BY <1>1, Periods
    <3>2. TLSDue(r) = CADue(r) /\ TLSPeriod \in Int /\ CAPeriod \in Int
      BY <2>1, Periods
    <3>3. n + TLSPeriod = CAPeriod
      BY <1>1, <3>1, <3>2
    <3>4. QED
      BY <1>2, <3>1, <3>3, MultipleFacts
  <2>2. QED
    BY <2>1
<1>4. QED
  BY <1>1, <1>2, <1>3

-----------------------------------------------------------------------------
(* What steps that do not concern a part of the invariant leave alone.     *)

LEMMA PhaseFrame ==
  ASSUME NEW r \in Replicas, PhaseInv(r), pc'[r]["main"] = "run" => pc[r]["main"] = "run",
         CAIdle(r)' <=> CAIdle(r), TLSIdle(r)' <=> TLSIdle(r),
         now' = now, tls'[r] = tls[r], CAIdle(r) => ca'[r].cert = ca[r].cert,
         checked'[r] = checked[r]
  PROVE  PhaseInv(r)'
<1>1. TLSDue(r)' = TLSDue(r) /\ (CAIdle(r) => CADue(r)' = CADue(r))
  BY DEF TLSDue, CADue
<1>2. QED
  BY <1>1 DEF PhaseInv

-----------------------------------------------------------------------------
(* Generating and writing certificates.                                    *)

Rotation(r) == TrustInv /\ RotationInv(r)

\* One program counter moves.
Step(r, g, l) == \A h \in Goroutines : pc'[r][h] = IF h = g THEN l ELSE pc[r][h]

LEMMA StepGoto ==
  ASSUME TypeOK, NEW r \in Replicas, NEW g \in Goroutines, NEW l, Goto(r, g, l)
  PROVE  Step(r, g, l)
  BY DEF TypeOK, Goto, Step

\* The loops run only after Start.
LEMMA Places ==
  ASSUME NEW r \in Replicas, Rotation(r)
  PROVE  /\ pc[r]["main"] \in Booting \cup {"down", "run"}
         /\ \A g \in Loops : pc[r]["main"] # "run" => pc[r][g] = "off"
         /\ pc[r]["rotateCA"] \in RotatingCA \cup {"idle", "off"}
         /\ pc[r]["rotateTLS"] \in Signing \cup {"idle", "off"}
         /\ pc[r]["sync"] \in {"idle", "get", "fill", "put", "scan", "off"}
<1>1. \A g \in Loops : pc[r]["main"] # "run" => pc[r][g] = "off"
  BY DEF Rotation, TrustInv, LoopInv, RotationInv, PlaceInv, Running, Booting, MakingCA, Signing
<1>2. QED
  BY <1>1, GoroutineFacts DEF Rotation, RotationInv, PlaceInv

LEMMA GenerateCARotation ==
  ASSUME NEW r \in Replicas, Rotation(r), NEW g \in Goroutines, generateCACert(r, g)
  PROVE  RotationInv(r)'
<1>0. TypeOK /\ PlaceInv(r) /\ PhaseInv(r) /\ MemoryInv(r) /\ DiskInv(r) /\ PublishInv(r)
  BY DEF Rotation, TrustInv, VersionInv, RotationInv
<1>1. Step(r, g, "caCrt")
  BY <1>0, StepGoto DEF generateCACert
<1>2. pc[r][g] = "genCA" /\ UNCHANGED <<now, config, disk, ca, tls, upd, checked>>
  BY DEF generateCACert, At
<1>3. /\ gen'[r][g].notAfter = now + CAValidity
      /\ \A h \in Goroutines : h # g => gen'[r][h] = gen[r][h]
  BY <1>0 DEF generateCACert, TypeOK
<1>4. g = "main" \/ g = "rotateCA"
  BY <1>2, Places DEF Goroutines, Signing
<1>5. PlaceInv(r)'
  BY <1>0, <1>1, <1>2, <1>4, GoroutineFacts
     DEF Step, PlaceInv, Booting, RotatingCA, MakingCA, Signing
<1>6. PhaseInv(r)'
  BY <1>0, <1>1, <1>2, <1>4, PhaseFrame, GoroutineFacts DEF Step, CAIdle, TLSIdle
<1>7. MemoryInv(r)'
  BY <1>0, <1>1, <1>2, <1>3, <1>4, GoroutineFacts
     DEF Step, MemoryInv, HasNewCA, HoldsTLS, HoldsCA, MakingCA, Signing
<1>8. DiskInv(r)'
  BY <1>0, <1>1, <1>2, <1>3, <1>4, GoroutineFacts DEF Step, DiskInv, MakingCA
<1>9. PublishInv(r)'
  BY <1>0, <1>1, <1>2, <1>4, GoroutineFacts DEF Step, PublishInv, FilledInv, Published, caBundleFound, MakingCA
<1>10. QED
  BY <1>5, <1>6, <1>7, <1>8, <1>9 DEF RotationInv

\* Only one goroutine at a time signs, writes or assigns.
LEMMA Alone ==
  ASSUME NEW r \in Replicas, Rotation(r), NEW g \in Goroutines,
         pc[r][g] \in Signing \cup HoldsCA
  PROVE  /\ g \in {"main", "rotateCA", "rotateTLS"}
         /\ g = "main" => pc[r]["main"] # "run"
         /\ g # "main" => pc[r]["main"] = "run"
         /\ g = "rotateCA" => ~CAIdle(r) /\ TLSIdle(r)
         /\ g = "rotateTLS" => CAIdle(r) /\ ~TLSIdle(r) /\ pc[r][g] \in Signing
         /\ \A h \in Goroutines : h # g => pc[r][h] \notin Signing \cup HoldsCA
<1>1. /\ g # "sync" /\ (g = "main" => pc[r]["main"] # "run")
      /\ (g # "main" => pc[r]["main"] = "run")
  BY Places, GoroutineFacts DEF Goroutines, Signing, HoldsCA
<1>2. PhaseInv(r)
  BY DEF Rotation, RotationInv
<1>3. g = "rotateCA" => ~CAIdle(r) /\ TLSIdle(r)
  BY <1>1, <1>2 DEF PhaseInv, CAIdle, Signing, HoldsCA
<1>4. g = "rotateTLS" => CAIdle(r) /\ ~TLSIdle(r) /\ pc[r][g] \in Signing
  BY <1>1, <1>2, Places DEF PhaseInv, TLSIdle, Signing, HoldsCA
<1>5. QED
  BY <1>1, <1>3, <1>4, Places, GoroutineFacts DEF CAIdle, TLSIdle, Goroutines, Signing, HoldsCA

LEMMA WriteRotation ==
  ASSUME NEW r \in Replicas, Rotation(r), NEW g \in Goroutines, writeBundle(r, g)
  PROVE  RotationInv(r)'
<1>0. TypeOK /\ PlaceInv(r) /\ PhaseInv(r) /\ MemoryInv(r) /\ DiskInv(r) /\ PublishInv(r)
  BY DEF Rotation, TrustInv, VersionInv, RotationInv
<1> DEFINE f == pc[r][g]
<1>1. f \in Files /\ Step(r, g, AfterWrite(g, f))
  BY <1>0, StepGoto DEF writeBundle
<1>2. UNCHANGED <<now, config, tls, upd, checked>>
  BY DEF writeBundle
<1>3. \A e \in Files : disk'[r][e] = IF e = f THEN gen[r][g] ELSE disk[r][e]
  BY <1>0, <1>1 DEF writeBundle, TypeOK
<1>4. /\ g \in {"main", "rotateCA", "rotateTLS"} /\ f \in Signing \cup HoldsCA
      /\ g = "main" => pc[r]["main"] # "run"
      /\ g # "main" => pc[r]["main"] = "run"
      /\ g = "rotateCA" => ~CAIdle(r) /\ TLSIdle(r)
      /\ g = "rotateTLS" => CAIdle(r) /\ ~TLSIdle(r) /\ f \in Signing
      /\ \A h \in Goroutines : h # g => pc[r][h] \notin Signing \cup HoldsCA
  <2>1. f \in Signing \cup HoldsCA
    BY <1>1 DEF Files, Signing, HoldsCA
  <2>2. QED
    BY <2>1, Alone
<1>5. CASE g = "main" /\ f = "caKey"
  <2>1. Step(r, "main", "get")
    BY <1>1, <1>5 DEF AfterWrite
  <2>2. /\ ca'[r].key = gen[r][g] /\ ca'[r].cert = gen[r][g]
        /\ \A h \in Goroutines : h # g => gen'[r][h] = gen[r][h]
    BY <1>0, <1>5 DEF writeBundle, TypeOK, At
  <2>3. PlaceInv(r)'
    BY <1>0, <2>1, <1>5, GoroutineFacts DEF Step, PlaceInv, Booting, RotatingCA, MakingCA, Signing
  <2>4. PhaseInv(r)'
    BY <2>1, GoroutineFacts DEF Step, PhaseInv
  <2>5. MemoryInv(r)'
    BY <1>0, <1>2, <1>4, <1>5, <2>1, <2>2, GoroutineFacts
       DEF Step, MemoryInv, HasNewCA, HoldsTLS, HoldsCA, MakingCA, Signing
  <2>6. DiskInv(r)'
    BY <1>0, <1>3, <1>4, <1>5, <2>1, <2>2, GoroutineFacts
       DEF Step, DiskInv, MakingCA, Signing, Files
  <2>7. PublishInv(r)'
    BY <1>0, <1>2, <1>4, <1>5, <2>1, Places, GoroutineFacts DEF Step, PublishInv, FilledInv, MakingCA
  <2>8. QED
    BY <2>3, <2>4, <2>5, <2>6, <2>7 DEF RotationInv
<1>6. CASE ~(g = "main" /\ f = "caKey")
  <2>1. UNCHANGED <<ca, gen>>
    BY <1>6 DEF writeBundle, At
  <2>2. PICK l : l = AfterWrite(g, f)
    OBVIOUS
  <2>3. /\ f = "caCrt" => l = "caKey"
        /\ f = "caKey" => l = "setKey" /\ g = "rotateCA"
        /\ f = "tlsCrt" => l = "tlsKey"
        /\ f = "tlsKey" => l = "setTLS"
    BY <1>4, <1>6, <2>2 DEF AfterWrite, Signing
  <2>4. Step(r, g, l)
    BY <1>1, <2>2
  <2>5. PlaceInv(r)'
    BY <1>0, <1>1, <1>4, <2>3, <2>4, GoroutineFacts
       DEF Step, PlaceInv, Booting, RotatingCA, MakingCA, Signing, Files
  <2>6. PhaseInv(r)'
    <3>1. l # "idle" /\ f # "idle" /\ l # "run"
      BY <1>1, <2>3 DEF Files
    <3>2. QED
      BY <1>0, <1>2, <1>4, <2>1, <2>4, <3>1, PhaseFrame, GoroutineFacts DEF Step, CAIdle, TLSIdle
  <2>7. MemoryInv(r)'
    BY <1>0, <1>1, <1>2, <1>4, <2>1, <2>3, <2>4, GoroutineFacts
       DEF Step, MemoryInv, HasNewCA, HoldsTLS, HoldsCA, MakingCA, Signing, Files
  <2>8. DiskInv(r)'
    <3>1. CASE f \in {"caCrt", "caKey"}
      BY <1>0, <1>2, <1>3, <1>4, <2>1, <2>3, <2>4, <3>1, GoroutineFacts
         DEF Step, DiskInv, MakingCA, Signing, Files
    <3>2. CASE f = "tlsCrt"
      BY <1>0, <1>3, <1>4, <2>1, <2>3, <2>4, <3>2, GoroutineFacts
         DEF Step, DiskInv, MakingCA, Signing, Files
    <3>3. CASE f = "tlsKey"
      BY <1>0, <1>3, <1>4, <2>1, <2>3, <2>4, <3>3, GoroutineFacts
         DEF Step, DiskInv, MakingCA, Signing, Files
    <3>4. QED
      BY <1>1, <3>1, <3>2, <3>3 DEF Files
  <2>9. PublishInv(r)'
    BY <1>0, <1>1, <1>2, <1>4, <2>1, <2>3, <2>4, GoroutineFacts
       DEF Step, PublishInv, FilledInv, Published, caBundleFound, MakingCA, Files
  <2>10. QED
    BY <2>5, <2>6, <2>7, <2>8, <2>9 DEF RotationInv
<1>7. QED
  BY <1>5, <1>6

LEMMA SignRotation ==
  ASSUME NEW r \in Replicas, Rotation(r), NEW g \in Goroutines, generateTLSCert(r, g)
  PROVE  RotationInv(r)'
<1>0. TypeOK /\ PlaceInv(r) /\ PhaseInv(r) /\ MemoryInv(r) /\ DiskInv(r) /\ PublishInv(r)
  BY DEF Rotation, TrustInv, VersionInv, RotationInv
<1>1. Step(r, g, "tlsCrt")
  BY <1>0, StepGoto DEF generateTLSCert
<1>2. pc[r][g] = "sign" /\ UNCHANGED <<now, config, disk, ca, tls, upd, checked>>
  BY DEF generateTLSCert, At
<1>3. /\ gen'[r][g].notAfter = now + TLSValidity /\ gen'[r][g].issuer = ca[r].cert.serial
      /\ \A h \in Goroutines : h # g => gen'[r][h] = gen[r][h]
  BY <1>0 DEF generateTLSCert, TypeOK
<1>4. g \in {"main", "rotateCA", "rotateTLS"}
  BY <1>2, Places DEF Goroutines, Signing
<1>5. PlaceInv(r)'
  BY <1>0, <1>1, <1>2, <1>4, GoroutineFacts
     DEF Step, PlaceInv, Booting, RotatingCA, MakingCA, Signing
<1>6. PhaseInv(r)'
  BY <1>0, <1>1, <1>2, <1>4, PhaseFrame, GoroutineFacts DEF Step, CAIdle, TLSIdle
<1>7. MemoryInv(r)'
  BY <1>0, <1>1, <1>2, <1>3, <1>4, GoroutineFacts
     DEF Step, MemoryInv, HasNewCA, HoldsTLS, HoldsCA, MakingCA, Signing
<1>8. DiskInv(r)'
  BY <1>0, <1>1, <1>2, <1>3, <1>4, GoroutineFacts DEF Step, DiskInv, MakingCA
<1>9. PublishInv(r)'
  BY <1>0, <1>1, <1>2, <1>4, GoroutineFacts DEF Step, PublishInv, FilledInv, Published, caBundleFound, MakingCA
<1>10. QED
  BY <1>5, <1>6, <1>7, <1>8, <1>9 DEF RotationInv

-----------------------------------------------------------------------------
(* Assigning certificates.                                                 *)

\* A new certificate starts its period; the CA's and TLS's start together.
LEMMA NewPeriods ==
  ASSUME TypeOK, NEW n \in Int, n = now
  PROVE  /\ (n + TLSValidity) - TLSRotation = n + TLSPeriod
         /\ (n + CAValidity) - CARotation = n + CAPeriod
         /\ n < n + TLSPeriod /\ n < n + CAPeriod
         /\ ((n + TLSPeriod) - TLSPeriod) - ((n + CAPeriod) - CAPeriod) = 0
  BY Periods

LEMMA SetTLSRotation ==
  ASSUME NEW r \in Replicas, Rotation(r), NEW g \in Goroutines, SetTLS(r, g)
  PROVE  RotationInv(r)'
<1>0. TypeOK /\ PlaceInv(r) /\ PhaseInv(r) /\ MemoryInv(r) /\ DiskInv(r) /\ PublishInv(r)
  BY DEF Rotation, TrustInv, VersionInv, RotationInv
<1>1. pc[r][g] = "setTLS" /\ UNCHANGED <<now, config, disk, ca, upd, checked>>
  BY DEF SetTLS, At
<1>2. /\ tls'[r] = gen[r][g]
      /\ \A h \in Goroutines : h # g => gen'[r][h] = gen[r][h]
  BY <1>0 DEF SetTLS, TypeOK
<1>3. /\ g \in {"main", "rotateCA", "rotateTLS"}
      /\ g = "main" => pc[r]["main"] # "run"
      /\ g # "main" => pc[r]["main"] = "run"
      /\ g = "rotateCA" => ~CAIdle(r) /\ TLSIdle(r)
      /\ g = "rotateTLS" => CAIdle(r) /\ ~TLSIdle(r)
      /\ \A h \in Goroutines : h # g => pc[r][h] \notin Signing \cup HoldsCA
  BY <1>1, Alone DEF Signing
<1>4. \A h \in Goroutines : pc'[r][h] =
        IF h = g THEN (IF g = "main" THEN "run" ELSE "idle")
        ELSE IF g = "main" THEN "idle" ELSE pc[r][h]
  <2>1. CASE g = "main"
    BY <1>0, <2>1, StartFacts DEF SetTLS
  <2>2. CASE g # "main"
    BY <1>0, <2>2, StepGoto DEF SetTLS, Step
  <2>3. QED
    BY <2>1, <2>2
<1>5. PlaceInv(r)'
  BY <1>0, <1>3, <1>4, GoroutineFacts DEF PlaceInv, Booting, RotatingCA, MakingCA, Signing
<1>6. PhaseInv(r)'
  <2>1. /\ gen[r][g].notAfter = now + TLSValidity /\ gen[r][g].issuer = ca[r].cert.serial
        /\ g # "rotateTLS" => ca[r].cert.notAfter = now + CAValidity
    BY <1>0, <1>1, <1>3 DEF MemoryInv, HoldsTLS, HasNewCA, Signing
  <2>2. PICK n \in Int : n = now
    BY <1>0 DEF TypeOK
  <2>3. now' = n /\ TLSDue(r)' = n + TLSPeriod /\ n < n + TLSPeriod /\ tls'[r].issuer = ca'[r].cert.serial
    BY <1>0, <1>1, <1>2, <2>1, <2>2, NewPeriods DEF TLSDue
  <2>4. pc'[r]["main"] = "run" /\ CAIdle(r)' /\ TLSIdle(r)'
    BY <1>3, <1>4, GoroutineFacts DEF CAIdle, TLSIdle
  <2>5. CASE g # "rotateTLS"
    <3>1. CADue(r)' = n + CAPeriod /\ n < n + CAPeriod
      BY <1>0, <1>1, <2>1, <2>2, <2>5, NewPeriods DEF CADue
    <3>2. Multiple(((n + TLSPeriod) - TLSPeriod) - ((n + CAPeriod) - CAPeriod))
      BY <1>0, <2>2, NewPeriods, MultipleFacts
    <3>3. n <= n + TLSPeriod /\ n <= n + CAPeriod
      BY Periods
    <3>4. QED
      BY <2>3, <2>4, <3>1, <3>2, <3>3 DEF PhaseInv
  <2>6. CASE g = "rotateTLS"
    <3>1. /\ CADue(r)' = CADue(r) /\ CADue(r) \in Int /\ TLSDue(r) \in Int
      BY <1>0, <1>1, Periods DEF CADue, TLSDue, TypeOK, Cert
    <3>2. /\ TLSDue(r) = n /\ Multiple((TLSDue(r) - TLSPeriod) - (CADue(r) - CAPeriod))
          /\ n <= CADue(r) /\ ("rotateCA" \in checked[r] => n < CADue(r))
      BY <1>0, <1>3, <2>2, <2>6 DEF PhaseInv
    <3>3. Multiple(((n + TLSPeriod) - TLSPeriod) - (CADue(r) - CAPeriod))
      <4>1. PICK k \in Int : k = (TLSDue(r) - TLSPeriod) - (CADue(r) - CAPeriod)
        BY <3>1, Periods
      <4>2. TLSPeriod \in Int /\ CAPeriod \in Int
        BY Periods
      <4>3. ((n + TLSPeriod) - TLSPeriod) - (CADue(r) - CAPeriod) = k + TLSPeriod
        BY <3>1, <3>2, <4>1, <4>2
      <4>4. QED
        BY <3>2, <4>1, <4>3, MultipleFacts
    <3>4. n <= n + TLSPeriod
      BY Periods
    <3>5. QED
      BY <1>1, <2>3, <2>4, <3>1, <3>2, <3>3, <3>4 DEF PhaseInv
  <2>7. QED
    BY <2>5, <2>6
<1>7. MemoryInv(r)'
  BY <1>0, <1>1, <1>2, <1>3, <1>4, Places, GoroutineFacts
     DEF MemoryInv, HasNewCA, HoldsTLS, HoldsCA, MakingCA, Signing
<1>8. DiskInv(r)'
  BY <1>0, <1>1, <1>2, <1>3, <1>4, GoroutineFacts DEF DiskInv, MakingCA, Signing
<1>9. PublishInv(r)'
  BY <1>0, <1>1, <1>3, <1>4, GoroutineFacts DEF PublishInv, FilledInv, Published, caBundleFound, MakingCA
<1>10. QED
  BY <1>5, <1>6, <1>7, <1>8, <1>9 DEF RotationInv

LEMMA SetCAKeyRotation ==
  ASSUME NEW r \in Replicas, Rotation(r), SetCAKey(r)
  PROVE  RotationInv(r)'
<1>0. TypeOK /\ PlaceInv(r) /\ PhaseInv(r) /\ MemoryInv(r) /\ DiskInv(r) /\ PublishInv(r)
  BY DEF Rotation, TrustInv, VersionInv, RotationInv
<1>1. Step(r, "rotateCA", "setCert")
  BY <1>0, StepGoto, GoroutineFacts DEF SetCAKey
<1>2. pc[r]["rotateCA"] = "setKey" /\ UNCHANGED <<now, config, disk, gen, tls, upd, checked>>
  BY DEF SetCAKey, At
<1>3. ca'[r].key = gen[r]["rotateCA"] /\ ca'[r].cert = ca[r].cert
  BY <1>0 DEF SetCAKey, TypeOK
<1>4. pc[r]["main"] = "run"
  BY <1>2, Places, GoroutineFacts
<1>5. PlaceInv(r)'
  BY <1>0, <1>1, <1>4, GoroutineFacts DEF Step, PlaceInv, RotatingCA
<1>6. PhaseInv(r)'
  BY <1>0, <1>1, <1>2, <1>3, PhaseFrame, GoroutineFacts DEF Step, CAIdle, TLSIdle
<1>7. MemoryInv(r)'
  BY <1>0, <1>1, <1>2, <1>3, <1>4, GoroutineFacts
     DEF Step, MemoryInv, HasNewCA, HoldsTLS, HoldsCA, MakingCA, Signing
<1>8. DiskInv(r)'
  BY <1>0, <1>1, <1>2, <1>4, GoroutineFacts DEF Step, DiskInv, MakingCA
<1>9. PublishInv(r)'
  BY <1>0, <1>1, <1>2, <1>3, <1>4, GoroutineFacts
     DEF Step, PublishInv, FilledInv, Published, caBundleFound, MakingCA
<1>10. QED
  BY <1>5, <1>6, <1>7, <1>8, <1>9 DEF RotationInv

LEMMA SetCACertRotation ==
  ASSUME NEW r \in Replicas, Rotation(r), SetCACert(r)
  PROVE  RotationInv(r)'
<1>0. TypeOK /\ PlaceInv(r) /\ PhaseInv(r) /\ MemoryInv(r) /\ DiskInv(r) /\ PublishInv(r)
  BY DEF Rotation, TrustInv, VersionInv, RotationInv
<1>1. Step(r, "rotateCA", "get")
  BY <1>0, StepGoto, GoroutineFacts DEF SetCACert
<1>2. pc[r]["rotateCA"] = "setCert" /\ UNCHANGED <<now, config, disk, tls, upd, checked>>
  BY DEF SetCACert, At
<1>3. /\ ca'[r].cert = gen[r]["rotateCA"] /\ ca'[r].key = ca[r].key
      /\ \A h \in Goroutines : h # "rotateCA" => gen'[r][h] = gen[r][h]
  BY <1>0 DEF SetCACert, TypeOK
<1>4. /\ pc[r]["main"] = "run"
      /\ \A h \in Goroutines : h # "rotateCA" => pc[r][h] \notin Signing \cup HoldsCA
  BY <1>2, Alone, GoroutineFacts DEF HoldsCA
<1>5. PlaceInv(r)'
  BY <1>0, <1>1, <1>4, GoroutineFacts DEF Step, PlaceInv, RotatingCA
<1>6. PhaseInv(r)'
  BY <1>0, <1>1, <1>2, PhaseFrame, GoroutineFacts DEF Step, CAIdle, TLSIdle
<1>7. MemoryInv(r)'
  BY <1>0, <1>1, <1>2, <1>3, <1>4, GoroutineFacts
     DEF Step, MemoryInv, HasNewCA, HoldsTLS, HoldsCA, MakingCA, Signing
<1>8. DiskInv(r)'
  BY <1>0, <1>1, <1>2, <1>3, <1>4, GoroutineFacts DEF Step, DiskInv, MakingCA
<1>9. PublishInv(r)'
  BY <1>0, <1>1, <1>2, <1>3, <1>4, GoroutineFacts DEF Step, PublishInv, FilledInv, MakingCA
<1>10. QED
  BY <1>5, <1>6, <1>7, <1>8, <1>9 DEF RotationInv

-----------------------------------------------------------------------------
(* The steps that generate, write and assign nothing.                      *)

\* How they move a program counter.
Passes(r, g, l) ==
  /\ Step(r, g, l)
  /\ \/ /\ g = "sync" /\ pc[r]["main"] = "run"
        /\ l \in {"idle", "get", "fill", "put", "scan"}
        /\ pc[r][g] \in {"idle", "get", "fill", "put", "scan"}
     \/ /\ g = "rotateCA" /\ pc[r]["main"] = "run"
        /\ l \in {"get", "fill", "put", "sign"} /\ pc[r][g] \in {"get", "fill", "put"}
     \/ /\ g = "main" /\ l \in {"fill", "put", "loadTLS", "sign"}
        /\ pc[r][g] \in {"get", "fill", "put", "loadTLS"}
        /\ l \in {"fill", "put"} => pc[r][g] \in {"get", "fill"} /\ config' = config

LEMMA PassRotation ==
  ASSUME NEW r \in Replicas, Rotation(r), NEW g \in Goroutines, NEW l, Passes(r, g, l),
         UNCHANGED <<now, disk, ca, tls, gen, checked>>,
         pc'[r]["main"] \in {"fill", "put"} => upd'[r]["main"].rv = config'.rv,
         \A h \in {"main", "rotateCA"} : FilledInv(r, h)'
  PROVE  RotationInv(r)'
<1>0. TypeOK /\ PlaceInv(r) /\ PhaseInv(r) /\ MemoryInv(r) /\ DiskInv(r) /\ PublishInv(r)
  BY DEF Rotation, TrustInv, VersionInv, RotationInv
<1>1. Step(r, g, l)
  BY DEF Passes
<1>2. CASE g = "sync" /\ pc[r]["main"] = "run" /\ l \in {"idle", "get", "fill", "put", "scan"}
           /\ pc[r][g] \in {"idle", "get", "fill", "put", "scan"}
  <2>1. PlaceInv(r)' /\ PhaseInv(r)'
    BY <1>0, <1>1, <1>2, PhaseFrame, GoroutineFacts DEF Step, CAIdle, TLSIdle, PlaceInv
  <2>2. MemoryInv(r)'
    BY <1>0, <1>1, <1>2, GoroutineFacts
       DEF Step, MemoryInv, HasNewCA, HoldsTLS, HoldsCA, MakingCA, Signing
  <2>3. DiskInv(r)'
    BY <1>0, <1>1, <1>2, GoroutineFacts DEF Step, DiskInv, MakingCA
  <2>4. PublishInv(r)'
    BY <1>0, <1>1, <1>2, GoroutineFacts DEF Step, PublishInv, FilledInv, MakingCA
  <2>5. QED
    BY <2>1, <2>2, <2>3, <2>4 DEF RotationInv
<1>3. CASE g = "rotateCA" /\ pc[r]["main"] = "run" /\ l \in {"get", "fill", "put", "sign"}
           /\ pc[r][g] \in {"get", "fill", "put"}
  <2>1. PlaceInv(r)' /\ PhaseInv(r)'
    BY <1>0, <1>1, <1>3, PhaseFrame, GoroutineFacts
       DEF Step, CAIdle, TLSIdle, PlaceInv, RotatingCA, Signing
  <2>2. MemoryInv(r)'
    BY <1>0, <1>1, <1>3, GoroutineFacts
       DEF Step, MemoryInv, HasNewCA, HoldsTLS, HoldsCA, MakingCA, Signing
  <2>3. DiskInv(r)'
    BY <1>0, <1>1, <1>3, GoroutineFacts DEF Step, DiskInv, MakingCA
  <2>4. PublishInv(r)'
    BY <1>0, <1>1, <1>3, GoroutineFacts DEF Step, PublishInv, FilledInv, MakingCA
  <2>5. QED
    BY <2>1, <2>2, <2>3, <2>4 DEF RotationInv
<1>4. CASE /\ g = "main" /\ l \in {"fill", "put", "loadTLS", "sign"}
           /\ pc[r][g] \in {"get", "fill", "put", "loadTLS"}
           /\ l \in {"fill", "put"} => pc[r][g] \in {"get", "fill"} /\ config' = config
  <2>1. PlaceInv(r)' /\ PhaseInv(r)'
    BY <1>0, <1>1, <1>4, GoroutineFacts DEF Step, PhaseInv, PlaceInv, Booting, Signing
  <2>2. MemoryInv(r)'
    BY <1>0, <1>1, <1>4, GoroutineFacts
       DEF Step, MemoryInv, HasNewCA, HoldsTLS, HoldsCA, MakingCA, Signing
  <2>3. DiskInv(r)'
    BY <1>0, <1>1, <1>4, GoroutineFacts DEF Step, DiskInv, MakingCA
  <2>4. PublishInv(r)'
    BY <1>0, <1>1, <1>4, GoroutineFacts DEF Step, PublishInv, FilledInv, MakingCA
  <2>5. QED
    BY <2>1, <2>2, <2>3, <2>4 DEF RotationInv
<1>5. QED
  BY <1>2, <1>3, <1>4 DEF Passes

\* What happens to the other goroutines' objects does not matter.
LEMMA FilledFrame ==
  ASSUME NEW r \in Replicas, NEW h \in Goroutines, FilledInv(r, h), ca'[r].cert = ca[r].cert,
         pc'[r][h] \in {"fill", "put"} => pc'[r][h] = pc[r][h] /\ upd'[r][h] = upd[r][h]
  PROVE  FilledInv(r, h)'
  BY DEF FilledInv, Published, caBundleFound

LEMMA GetRotation ==
  ASSUME NEW r \in Replicas, Rotation(r), NEW g \in Goroutines, GetWebhook(r, g)
  PROVE  RotationInv(r)'
<1>0. TypeOK /\ PlaceInv(r) /\ PublishInv(r)
  BY DEF Rotation, TrustInv, VersionInv, RotationInv
<1>1. /\ g \in {"main", "rotateCA", "sync"} /\ pc[r][g] = "get"
      /\ g # "main" => pc[r]["main"] = "run"
  <2>1. pc[r][g] \in {"get", "cleanGet"}
    BY DEF GetWebhook
  <2>2. QED
    BY <2>1, Places, GoroutineFacts DEF Goroutines, Booting, RotatingCA, MakingCA, Signing
<1>2. Step(r, g, "fill") /\ UNCHANGED <<now, config, disk, ca, tls, gen, checked>>
  BY <1>0, <1>1, StepGoto DEF GetWebhook, At
<1>3. /\ upd'[r][g].rv = Source(r, g).rv /\ upd'[r][g].i = 1
      /\ \A h \in Goroutines : h # g => upd'[r][h] = upd[r][h]
  BY <1>0, <1>1 DEF GetWebhook, TypeOK, At
<1>4. FilledInv(r, g)'
  <2>1. \A w \in Webhooks : ~(w < 1)
    BY WebhooksAssumption DEF Webhooks
  <2>2. pc'[r][g] = "fill"
    BY <1>2 DEF Step
  <2>3. QED
    BY <1>3, <2>1, <2>2 DEF FilledInv
<1>5. pc'[r]["main"] \in {"fill", "put"} => upd'[r]["main"].rv = config'.rv
  <2>1. CASE g = "main"
    BY <1>1, <1>2, <1>3, <2>1 DEF Source, At
  <2>2. CASE g # "main"
    BY <1>1, <1>2, <2>2, GoroutineFacts DEF Step
  <2>3. QED
    BY <2>1, <2>2
<1>6. \A h \in {"main", "rotateCA"} : FilledInv(r, h)'
  <2> SUFFICES ASSUME NEW h \in {"main", "rotateCA"}, h # g PROVE FilledInv(r, h)'
    BY <1>4
  <2>1. FilledInv(r, h) /\ h \in Goroutines
    BY <1>0, GoroutineFacts DEF PublishInv
  <2>2. QED
    BY <1>2, <1>3, <2>1, FilledFrame DEF Step
<1>7. Passes(r, g, "fill")
  BY <1>1, <1>2 DEF Passes
<1>8. QED
  BY <1>2, <1>5, <1>6, <1>7, PassRotation

\* Each round of New's or a loop's callback puts the CA into one webhook.
LEMMA FillRotation ==
  ASSUME NEW r \in Replicas, Rotation(r), NEW g \in Goroutines, FillWebhook(r, g)
  PROVE  RotationInv(r)'
<1>0. TypeOK /\ PlaceInv(r) /\ PublishInv(r) /\ VersionInv
  BY DEF Rotation, TrustInv, VersionInv, RotationInv
<1> DEFINE o == upd[r][g]
<1>1. /\ g \in {"main", "rotateCA", "sync"} /\ pc[r][g] = "fill"
      /\ g # "main" => pc[r]["main"] = "run"
  <2>1. pc[r][g] = "fill"
    BY DEF FillWebhook, At
  <2>2. QED
    BY <2>1, Places, GoroutineFacts DEF Goroutines, Booting, RotatingCA, MakingCA, Signing
<1>2. o.i \in Webhooks
  BY <1>0, <1>1 DEF VersionInv, PutInv
<1>3. /\ pc'[r][g] \in {"fill", "put"} /\ (pc'[r][g] = "fill" <=> o.i < NumWebhooks)
      /\ upd'[r][g].rv = o.rv /\ upd'[r][g].i = o.i + 1
      /\ \A w \in Webhooks :
           upd'[r][g].bundle[w] = IF w = o.i THEN updateCABundles(o.bundle[w], ca[r].cert)
                                             ELSE o.bundle[w]
      /\ \A h \in Goroutines : h # g => upd'[r][h] = upd[r][h]
  BY <1>0, <1>2, FillFacts
<1>4. PICK l \in {"fill", "put"} : l = pc'[r][g]
  BY <1>3
<1>5. Step(r, g, l) /\ UNCHANGED <<now, config, disk, ca, tls, gen, checked>>
  <2>1. \A h \in Goroutines : h # g => pc'[r][h] = pc[r][h]
    BY <1>0, <1>2, FillFacts
  <2>2. QED
    BY <1>4, <2>1 DEF Step, FillWebhook
<1>6. FilledInv(r, g) => FilledInv(r, g)'
  <2>1. SUFFICES ASSUME FilledInv(r, g) PROVE FilledInv(r, g)'
    OBVIOUS
  <2>2. ASSUME NEW w \in Webhooks, w < o.i + 1
        PROVE  caBundleFound(upd'[r][g].bundle[w], ca[r].cert)
    <3>1. CASE w = o.i
      <4>1. ca[r].cert \in Certs(updateCABundles(o.bundle[w], ca[r].cert))
        BY UpdateCerts
      <4>2. ca[r].cert.serial \in Serials(updateCABundles(o.bundle[w], ca[r].cert))
        BY <4>1 DEF Certs, Serials
      <4>3. QED
        BY <1>3, <3>1, <4>2 DEF caBundleFound
    <3>2. CASE w # o.i
      <4>1. w < o.i
        BY <1>2, <2>2, <3>2, WebhooksAssumption DEF Webhooks
      <4>2. QED
        BY <1>1, <1>3, <2>1, <3>2, <4>1 DEF FilledInv
    <3>3. QED
      BY <3>1, <3>2
  <2>3. ASSUME pc'[r][g] = "put" PROVE \A w \in Webhooks : w < o.i + 1
    BY <1>2, <1>3, <2>3, WebhooksAssumption DEF Webhooks
  <2>4. ca'[r].cert = ca[r].cert
    BY <1>5
  <2>5. \A w \in Webhooks : w < o.i + 1 => caBundleFound(upd[r][g].bundle[w], ca[r].cert)'
    BY <2>2, <2>4 DEF caBundleFound
  <2>6. QED
    BY <1>3, <2>3, <2>5 DEF FilledInv, Published
<1>7. \A h \in {"main", "rotateCA"} : FilledInv(r, h)'
  <2> SUFFICES ASSUME NEW h \in {"main", "rotateCA"} PROVE FilledInv(r, h)'
    OBVIOUS
  <2>1. FilledInv(r, h) /\ h \in Goroutines
    BY <1>0, GoroutineFacts DEF PublishInv
  <2>2. CASE h = g
    BY <1>6, <2>1, <2>2
  <2>3. CASE h # g
    BY <1>3, <1>5, <2>1, <2>3, FilledFrame DEF Step
  <2>4. QED
    BY <2>2, <2>3
<1>8. pc'[r]["main"] \in {"fill", "put"} => upd'[r]["main"].rv = config'.rv
  <2>1. CASE g = "main"
    BY <1>0, <1>1, <1>3, <1>5, <2>1 DEF PublishInv
  <2>2. CASE g # "main"
    BY <1>1, <1>5, <2>2, GoroutineFacts DEF Step
  <2>3. QED
    BY <2>1, <2>2
<1>9. Passes(r, g, l)
  BY <1>1, <1>5 DEF Passes
<1>10. QED
  BY <1>5, <1>7, <1>8, <1>9, PassRotation

\* New's update is never refused; the loops go on whatever becomes of theirs.
LEMMA AfterPut ==
  ASSUME NEW r \in Replicas, Rotation(r), Undisturbed, NEW g \in Goroutines,
         UpdateWebhook(r, g) \/ RetryOnConflict(r, g) \/ UpdateFails(r, g)
  PROVE  /\ g \in {"main", "rotateCA", "sync"} /\ pc[r][g] = "put"
         /\ g # "main" => pc[r]["main"] = "run"
         /\ g = "main" => UpdateWebhook(r, g)
         /\ \E l \in {"get", "loadTLS", "scan", "sign"} :
              /\ Passes(r, g, l)
              /\ l = "get" \/ l = Resume(g)
         /\ \A h \in Goroutines : h # g => upd'[r][h] = upd[r][h]
         /\ UNCHANGED <<now, disk, ca, tls, gen, checked>>
<1>0. TypeOK /\ PlaceInv(r) /\ PublishInv(r)
  BY DEF Rotation, TrustInv, VersionInv, RotationInv
<1>1. /\ g \in {"main", "rotateCA", "sync"} /\ pc[r][g] = "put"
      /\ g # "main" => pc[r]["main"] = "run"
  <2>1. pc[r][g] \in {"put", "cleanPut"}
    BY DEF UpdateWebhook, RetryOnConflict, UpdateFails
  <2>2. QED
    BY <2>1, Places, GoroutineFacts DEF Goroutines, Booting, RotatingCA, MakingCA, Signing
<1>2. g = "main" => UpdateWebhook(r, g)
  <2>1. ~Disrupt("apiError")
    BY DEF Undisturbed, Disrupt
  <2>2. g = "main" => Accepts(upd[r][g].rv) /\ ~Cancelled(r, g)
    BY <1>0, <1>1 DEF PublishInv, Accepts, Cancelled
  <2>3. QED
    BY <2>1, <2>2 DEF RetryOnConflict, UpdateFails
<1>3. CASE RetryOnConflict(r, g)
  <2>1. Step(r, g, "get")
    BY <1>0, <1>1, <1>3, StepGoto DEF RetryOnConflict, At
  <2>2. g # "main"
    BY <1>2, <1>3 DEF RetryOnConflict, UpdateWebhook
  <2>3. Passes(r, g, "get")
    BY <1>1, <2>1, <2>2 DEF Passes
  <2>4. QED
    BY <1>1, <1>2, <1>3, <2>3 DEF RetryOnConflict
<1>4. CASE UpdateWebhook(r, g) \/ UpdateFails(r, g)
  <2>1. PICK ok \in BOOLEAN : AfterUpdate(r, g, ok) /\ (g = "main" => ok)
    <3>1. CASE UpdateWebhook(r, g)
      BY <3>1 DEF UpdateWebhook
    <3>2. CASE ~UpdateWebhook(r, g)
      BY <1>2, <1>4, <3>2 DEF UpdateFails
    <3>3. QED
      BY <3>1, <3>2
  <2>2. /\ Goto(r, g, Resume(g))
        /\ upd' = [upd EXCEPT ![r][g] = IdleUpd]
        /\ UNCHANGED <<gen, checked>>
    BY <1>1, <2>1 DEF AfterUpdate, At
  <2>3. Step(r, g, Resume(g))
    BY <1>0, <2>2, StepGoto
  <2>4. Passes(r, g, Resume(g)) /\ Resume(g) \in {"get", "loadTLS", "scan", "sign"}
    BY <1>1, <2>3 DEF Passes, Resume
  <2>5. UNCHANGED <<now, disk, ca, tls>>
    BY <1>4 DEF UpdateWebhook, UpdateFails
  <2>6. \A h \in Goroutines : h # g => upd'[r][h] = upd[r][h]
    BY <1>0, <2>2 DEF TypeOK
  <2>7. QED
    BY <1>1, <1>2, <2>2, <2>4, <2>5, <2>6
<1>5. QED
  BY <1>3, <1>4

LEMMA UpdateRotation ==
  ASSUME NEW r \in Replicas, Rotation(r), Undisturbed, NEW g \in Goroutines,
         UpdateWebhook(r, g) \/ RetryOnConflict(r, g) \/ UpdateFails(r, g)
  PROVE  RotationInv(r)'
<1>0. PublishInv(r)
  BY DEF Rotation, RotationInv
<1>1. PICK l \in {"get", "loadTLS", "scan", "sign"} : Passes(r, g, l)
  BY AfterPut
<1>2. /\ \A h \in Goroutines : h # g => upd'[r][h] = upd[r][h]
      /\ UNCHANGED <<now, disk, ca, tls, gen, checked>>
      /\ g # "main" => pc[r]["main"] = "run"
  BY AfterPut
<1>3. Step(r, g, l)
  BY <1>1 DEF Passes
<1>4. pc'[r]["main"] \notin {"fill", "put"}
  BY <1>1, <1>2, <1>3, GoroutineFacts DEF Step
<1>5. \A h \in {"main", "rotateCA"} : FilledInv(r, h)'
  BY <1>0, <1>1, <1>2, <1>3, FilledFrame, GoroutineFacts DEF PublishInv, Step
<1>6. QED
  BY <1>1, <1>2, <1>4, <1>5, PassRotation

\* There is nothing to load: New signs.
LEMMA LoadRotation ==
  ASSUME NEW r \in Replicas, Rotation(r), LoadTLS(r)
  PROVE  RotationInv(r)' /\ Passes(r, "main", "sign") /\ UNCHANGED <<now, disk, ca, config, upd, pc[r]["rotateCA"], behind>>
<1>0. TypeOK /\ DiskInv(r) /\ PublishInv(r)
  BY DEF Rotation, TrustInv, VersionInv, RotationInv
<1>1. pc[r]["main"] = "loadTLS" /\ UNCHANGED <<now, config, disk, ca, gen, upd, checked, behind>>
  BY DEF LoadTLS, At
<1>2. ~Loadable(r, "tlsCrt", "tlsKey")
  BY <1>0, <1>1 DEF DiskInv, Loadable
<1>3. Step(r, "main", "sign") /\ tls' = tls
  BY <1>0, <1>2, StepGoto, GoroutineFacts DEF LoadTLS
<1>4. Passes(r, "main", "sign")
  BY <1>1, <1>3 DEF Passes
<1>5. \A h \in {"main", "rotateCA"} : FilledInv(r, h)'
  BY <1>0, <1>1, <1>3, FilledFrame, GoroutineFacts DEF PublishInv, Step
<1>6. pc'[r]["main"] \notin {"fill", "put"} /\ pc'[r]["rotateCA"] = pc[r]["rotateCA"]
  BY <1>3, GoroutineFacts DEF Step
<1>7. QED
  BY <1>1, <1>3, <1>4, <1>5, <1>6, PassRotation, GoroutineFacts

LEMMA SyncRotation ==
  ASSUME NEW r \in Replicas, Rotation(r), SyncTick(r) \/ SyncNext(r)
  PROVE  RotationInv(r)'
<1>0. TypeOK /\ PublishInv(r) /\ PlaceInv(r)
  BY DEF Rotation, TrustInv, VersionInv, RotationInv
<1>1. UNCHANGED <<now, config, disk, ca, tls, gen, upd, checked>>
  BY DEF SyncTick, SyncNext
<1>2. PICK l \in {"idle", "get"} : Goto(r, "sync", l)
  BY DEF SyncTick, SyncNext, ScanFrom
<1>3. pc[r]["sync"] \in {"idle", "scan"}
  BY DEF SyncTick, SyncNext, At
<1>4. pc[r]["main"] = "run"
  BY <1>3, Places, GoroutineFacts
<1>5. Step(r, "sync", l)
  BY <1>0, <1>2, StepGoto, GoroutineFacts
<1>6. Passes(r, "sync", l)
  BY <1>3, <1>4, <1>5 DEF Passes
<1>7. /\ pc'[r]["main"] \notin {"fill", "put"}
      /\ \A h \in {"main", "rotateCA"} : FilledInv(r, h)'
  BY <1>0, <1>1, <1>4, <1>5, FilledFrame, GoroutineFacts DEF PublishInv, Step
<1>8. QED
  BY <1>1, <1>6, <1>7, PassRotation, GoroutineFacts

-----------------------------------------------------------------------------
(* The tickers of the rotations.                                           *)

\* A certificate that is never overdue is rotated exactly when it is due.
LEMMA DueFacts ==
  ASSUME TypeOK, NEW c \in Cert, NEW m \in Nat, now <= c.notAfter - m
  PROVE  RotationDue(c, m) <=> now = c.notAfter - m
<1>1. now \in Int /\ c.notAfter \in Int
  BY DEF TypeOK, Cert
<1>2. QED
  BY <1>1 DEF RotationDue

\* What a ticker does to the parts that it does not decide.
LEMMA TickerRotation ==
  ASSUME NEW r \in Replicas, Rotation(r), NEW g \in {"rotateCA", "rotateTLS"},
         NEW l \in {"idle", "genCA", "sign"}, Step(r, g, l),
         pc[r][g] = "idle", g = "rotateCA" => l # "sign", g = "rotateTLS" => l # "genCA",
         UNCHANGED <<now, config, disk, ca, tls, gen, upd>>, PhaseInv(r)'
  PROVE  RotationInv(r)'
<1>0. TypeOK /\ PlaceInv(r) /\ MemoryInv(r) /\ DiskInv(r) /\ PublishInv(r)
  BY DEF Rotation, TrustInv, VersionInv, RotationInv
<1>1. pc[r]["main"] = "run"
  BY Places, GoroutineFacts
<1>2. PlaceInv(r)'
  BY <1>0, <1>1, GoroutineFacts DEF Step, PlaceInv, RotatingCA, MakingCA, Signing
<1>3. MemoryInv(r)'
  BY <1>0, <1>1, GoroutineFacts
     DEF Step, MemoryInv, HasNewCA, HoldsTLS, HoldsCA, MakingCA, Signing
<1>4. DiskInv(r)'
  BY <1>0, <1>1, GoroutineFacts DEF Step, DiskInv, MakingCA
<1>5. PublishInv(r)'
  BY <1>0, <1>1, GoroutineFacts DEF Step, PublishInv, FilledInv, Published, caBundleFound, MakingCA
<1>6. QED
  BY <1>2, <1>3, <1>4, <1>5 DEF RotationInv

LEMMA CheckFacts ==
  ASSUME TypeOK, NEW r \in Replicas, NEW g \in Loops, NEW c, NEW m, NEW l,
         Check(r, g, c, m, l)
  PROVE  /\ pc[r][g] = "idle"
         /\ checked'[r] = checked[r] \cup {g}
         /\ RotationDue(c, m) => Step(r, g, l)
         /\ ~RotationDue(c, m) => Step(r, g, "idle")
         /\ UNCHANGED <<now, config, disk, ca, tls, gen, upd, behind>>
<1>1. checked'[r] = checked[r] \cup {g}
  BY DEF Check, TypeOK
<1>2. At(r, g, "idle") /\ UNCHANGED <<now, config, disk, ca, tls, gen, upd, behind>>
  BY DEF Check
<1>3. RotationDue(c, m) => Step(r, g, l)
  BY StepGoto, GoroutineFacts DEF Check
<1>4. ~RotationDue(c, m) => Step(r, g, "idle")
  BY <1>2, GoroutineFacts DEF Check, Step, At
<1>5. QED
  BY <1>1, <1>2, <1>3, <1>4 DEF At

LEMMA RotateCARotation ==
  ASSUME NEW r \in Replicas, Rotation(r), RotationsApart, rotateCACert(r)
  PROVE  RotationInv(r)'
<1>0. TypeOK /\ PhaseInv(r)
  BY DEF Rotation, TrustInv, VersionInv, RotationInv
<1>1. /\ pc[r]["rotateCA"] = "idle"
      /\ checked'[r] = checked[r] \cup {"rotateCA"}
      /\ RotationDue(ca[r].cert, CARotation) => Step(r, "rotateCA", "genCA")
      /\ ~RotationDue(ca[r].cert, CARotation) => Step(r, "rotateCA", "idle")
      /\ UNCHANGED <<now, config, disk, ca, tls, gen, upd, behind>>
  BY <1>0, CheckFacts, GoroutineFacts DEF rotateCACert
<1>2. pc[r]["main"] = "run" /\ CAIdle(r)
  BY <1>1, Places, GoroutineFacts DEF CAIdle
<1>3. now <= CADue(r) /\ now \in Int /\ CADue(r) \in Int
  BY <1>0, <1>2, Periods DEF PhaseInv, TypeOK, CADue, Cert
<1>4. RotationDue(ca[r].cert, CARotation) <=> now = CADue(r)
  <2>1. ca[r].cert \in Cert
    BY <1>0 DEF TypeOK
  <2>2. QED
    BY <1>0, <1>3, <2>1, DueFacts, Periods DEF CADue
<1>5. TLSDue(r)' = TLSDue(r) /\ CADue(r)' = CADue(r)
  BY <1>1 DEF TLSDue, CADue
<1>6. CASE now = CADue(r)
  <2>1. now < TLSDue(r) /\ TLSIdle(r)
    BY <1>0, <1>2, <1>6, NeverBoth
  <2>2. Step(r, "rotateCA", "genCA")
    BY <1>1, <1>4, <1>6
  <2>3. pc'[r]["main"] = "run" /\ ~CAIdle(r)' /\ TLSIdle(r)'
    BY <1>2, <2>1, <2>2, GoroutineFacts DEF Step, CAIdle, TLSIdle
  <2>4. PhaseInv(r)'
    BY <1>0, <1>1, <1>2, <1>5, <2>1, <2>3 DEF PhaseInv
  <2>5. QED
    BY <1>1, <2>2, <2>4, TickerRotation
<1>7. CASE now # CADue(r)
  <2>1. Step(r, "rotateCA", "idle") /\ now < CADue(r)
    BY <1>1, <1>3, <1>4, <1>7
  <2>2. pc'[r]["main"] = "run" /\ CAIdle(r)' /\ (TLSIdle(r)' <=> TLSIdle(r))
    BY <1>2, <2>1, GoroutineFacts DEF Step, CAIdle, TLSIdle
  <2>3. PhaseInv(r)'
    BY <1>0, <1>1, <1>2, <1>5, <2>1, <2>2 DEF PhaseInv
  <2>4. QED
    BY <1>1, <2>1, <2>3, TickerRotation
<1>8. QED
  BY <1>6, <1>7

LEMMA RotateTLSRotation ==
  ASSUME NEW r \in Replicas, Rotation(r), rotateTLSCert(r)
  PROVE  RotationInv(r)'
<1>0. TypeOK /\ PhaseInv(r)
  BY DEF Rotation, TrustInv, VersionInv, RotationInv
<1>1. /\ pc[r]["rotateTLS"] = "idle"
      /\ checked'[r] = checked[r] \cup {"rotateTLS"}
      /\ RotationDue(tls[r], TLSRotation) => Step(r, "rotateTLS", "sign")
      /\ ~RotationDue(tls[r], TLSRotation) => Step(r, "rotateTLS", "idle")
      /\ UNCHANGED <<now, config, disk, ca, tls, gen, upd, behind>>
  BY <1>0, CheckFacts, GoroutineFacts DEF rotateTLSCert
<1>2. pc[r]["main"] = "run" /\ TLSIdle(r)
  BY <1>1, Places, GoroutineFacts DEF TLSIdle
<1>3. now <= TLSDue(r) /\ now \in Int /\ TLSDue(r) \in Int
  BY <1>0, <1>2, Periods DEF PhaseInv, TypeOK, TLSDue, Cert
<1>4. RotationDue(tls[r], TLSRotation) <=> now = TLSDue(r)
  <2>1. tls[r] \in Cert
    BY <1>0 DEF TypeOK
  <2>2. QED
    BY <1>0, <1>3, <2>1, DueFacts, Periods DEF TLSDue
<1>5. TLSDue(r)' = TLSDue(r) /\ CADue(r)' = CADue(r)
  BY <1>1 DEF TLSDue, CADue
<1>6. CASE now = TLSDue(r)
  <2>1. CAIdle(r)
    BY <1>0, <1>2, <1>3, <1>6 DEF PhaseInv
  <2>2. Step(r, "rotateTLS", "sign")
    BY <1>1, <1>4, <1>6
  <2>3. pc'[r]["main"] = "run" /\ CAIdle(r)' /\ ~TLSIdle(r)'
    BY <1>2, <2>1, <2>2, GoroutineFacts DEF Step, CAIdle, TLSIdle
  <2>4. PhaseInv(r)'
    BY <1>0, <1>1, <1>2, <1>3, <1>5, <1>6, <2>1, <2>3 DEF PhaseInv
  <2>5. QED
    BY <1>1, <2>2, <2>4, TickerRotation
<1>7. CASE now # TLSDue(r)
  <2>1. Step(r, "rotateTLS", "idle") /\ now < TLSDue(r)
    BY <1>1, <1>3, <1>4, <1>7
  <2>2. pc'[r]["main"] = "run" /\ (CAIdle(r)' <=> CAIdle(r)) /\ TLSIdle(r)'
    BY <1>2, <2>1, GoroutineFacts DEF Step, CAIdle, TLSIdle
  <2>3. PhaseInv(r)'
    BY <1>0, <1>1, <1>2, <1>5, <2>1, <2>2 DEF PhaseInv
  <2>4. QED
    BY <1>1, <2>1, <2>3, TickerRotation
<1>8. QED
  BY <1>6, <1>7

-----------------------------------------------------------------------------
(* Steps that cannot be taken, and the environment's.                      *)

LEMMA NotTaken ==
  ASSUME NEW r \in Replicas, Rotation(r), Undisturbed, NEW g \in Goroutines
  PROVE  /\ ~SignFails(r, g) /\ ~UpdateLost(r, g) /\ ~WaitGroupDone(r) /\ ~LeaveLoop(r, g)
         /\ ~Cancel(r) /\ ~Crash(r) /\ ~Replace(r)
<1>1. MemoryInv(r)
  BY DEF Rotation, RotationInv
<1>2. pc[r]["main"] # "drain"
  BY Places DEF Booting, MakingCA, Signing
<1>3. ~SignFails(r, g)
  <2>1. SUFFICES ASSUME pc[r][g] = "sign" PROVE ca[r].key = ca[r].cert
    BY DEF SignFails, At
  <2>2. pc[r]["rotateCA"] # "setCert"
    BY <2>1, Alone, GoroutineFacts DEF Signing, HoldsCA
  <2>3. pc[r]["main"] \notin MakingCA
    BY <2>1, Places, GoroutineFacts DEF MakingCA
  <2>4. QED
    BY <1>1, <2>2, <2>3 DEF MemoryInv
<1>4. ~UpdateLost(r, g)
  BY <1>2 DEF UpdateLost, Cancelled, At, Disrupt, Undisturbed
<1>5. ~WaitGroupDone(r) /\ ~LeaveLoop(r, g)
  BY <1>2 DEF WaitGroupDone, LeaveLoop, At
<1>6. ~Cancel(r) /\ ~Crash(r) /\ ~Replace(r)
  BY DEF Cancel, Crash, Replace, Disrupt, Undisturbed
<1>7. QED
  BY <1>3, <1>4, <1>5, <1>6

LEMMA BootRotation ==
  ASSUME NEW r \in Replicas, Rotation(r), Boot(r)
  PROVE  RotationInv(r)' /\ pc'[r]["main"] = "genCA"
<1>0. TypeOK /\ PlaceInv(r) /\ DiskInv(r) /\ PublishInv(r)
  BY DEF Rotation, TrustInv, VersionInv, RotationInv
<1>1. pc[r]["main"] = "down" /\ disk[r] = EmptyDisk
  BY <1>0 DEF Boot, IsOff, Off, PlaceInv, Booting, MakingCA, Signing, DiskInv
<1>2. \A f \in Files : disk[r][f] = NoCert
  BY <1>1 DEF EmptyDisk
<1>3. Step(r, "main", "genCA")
  <2>1. ~Loadable(r, "caCrt", "caKey")
    BY <1>2 DEF Loadable, Files
  <2>2. QED
    BY <1>0, <2>1, StepGoto, GoroutineFacts DEF Boot
<1>4. UNCHANGED <<now, config, disk, gen, upd, checked>>
  BY DEF Boot
<1>5. /\ pc'[r]["main"] = "genCA"
      /\ \A h \in Loops : pc'[r][h] = "off"
  BY <1>1, <1>3, Places, GoroutineFacts DEF Step
<1>6. PlaceInv(r)' /\ PhaseInv(r)'
  BY <1>5 DEF PlaceInv, PhaseInv, Booting, MakingCA
<1>7. MemoryInv(r)'
  BY <1>5, GoroutineFacts DEF MemoryInv, HasNewCA, HoldsTLS, HoldsCA, MakingCA, Signing
<1>8. DiskInv(r)'
  BY <1>2, <1>4, <1>5, GoroutineFacts DEF DiskInv, MakingCA, Files
<1>9. PublishInv(r)'
  BY <1>0, <1>1, <1>4, <1>5, GoroutineFacts DEF PublishInv, FilledInv, MakingCA
<1>10. QED
  BY <1>5, <1>6, <1>7, <1>8, <1>9 DEF RotationInv

LEMMA CacheRotation ==
  ASSUME NEW r \in Replicas, Rotation(r), NEW q \in Replicas, CacheSync(q)
  PROVE  RotationInv(r)'
<1>0. PlaceInv(r) /\ PhaseInv(r) /\ MemoryInv(r) /\ DiskInv(r) /\ PublishInv(r)
  BY DEF Rotation, RotationInv
<1>1. UNCHANGED <<now, config, disk, ca, tls, pc, gen, upd, checked>>
  BY DEF CacheSync
<1>2. PlaceInv(r)' /\ PhaseInv(r)'
  BY <1>0, <1>1 DEF PlaceInv, PhaseInv, CAIdle, TLSIdle, CADue, TLSDue
<1>3. MemoryInv(r)'
  BY <1>0, <1>1 DEF MemoryInv, HasNewCA
<1>4. DiskInv(r)'
  BY <1>0, <1>1 DEF DiskInv
<1>5. PublishInv(r)'
  BY <1>0, <1>1 DEF PublishInv, FilledInv, Published, caBundleFound
<1>6. QED
  BY <1>2, <1>3, <1>4, <1>5 DEF RotationInv

\* The chart is not applied again before the first CA is published: it would
\* change nothing.
LEMMA ReapplyRotation ==
  ASSUME NEW r \in Replicas, Rotation(r), Reapply
  PROVE  RotationInv(r)' /\ pc[r]["main"] \notin MakingCA \cup {"down", "get", "fill", "put"}
<1>0. PlaceInv(r) /\ PhaseInv(r) /\ MemoryInv(r) /\ DiskInv(r) /\ PublishInv(r)
  BY DEF Rotation, RotationInv
<1>1. UNCHANGED <<now, disk, ca, tls, pc, gen, upd, checked>>
  BY DEF Reapply
<1>2. pc[r]["main"] \notin MakingCA \cup {"down", "get", "fill", "put"}
  BY <1>0 DEF Reapply, PublishInv
<1>3. PlaceInv(r)' /\ PhaseInv(r)'
  BY <1>0, <1>1 DEF PlaceInv, PhaseInv, CAIdle, TLSIdle, CADue, TLSDue
<1>4. MemoryInv(r)'
  BY <1>0, <1>1 DEF MemoryInv, HasNewCA
<1>5. DiskInv(r)'
  BY <1>0, <1>1 DEF DiskInv
<1>6. PublishInv(r)'
  BY <1>0, <1>1, <1>2 DEF PublishInv, FilledInv, Published, caBundleFound
<1>7. QED
  BY <1>2, <1>3, <1>4, <1>5, <1>6 DEF RotationInv

\* Time passes once both certificates were checked: neither becomes overdue.
LEMMA TickRotation ==
  ASSUME NEW r \in Replicas, Rotation(r), Tick
  PROVE  RotationInv(r)'
<1>0. TypeOK /\ PlaceInv(r) /\ PhaseInv(r) /\ MemoryInv(r) /\ DiskInv(r) /\ PublishInv(r)
  BY DEF Rotation, TrustInv, VersionInv, RotationInv
<1>1. Settled(r) /\ now' = now + 1 /\ checked'[r] = {}
  BY DEF Tick
<1>2. UNCHANGED <<config, disk, ca, tls, pc, gen, upd>>
  BY DEF Tick
<1>3. \/ pc[r]["main"] = "down" /\ \A g \in Loops : pc[r][g] = "off"
      \/ /\ pc[r]["main"] = "run" /\ \A g \in Loops : pc[r][g] = "idle"
         /\ checked[r] = {"rotateCA", "rotateTLS"}
  <2>1. CASE IsOff(r)
    BY <2>1, Places DEF IsOff, Off, Booting, MakingCA, Signing
  <2>2. CASE ~IsOff(r)
    BY <1>1, <2>2 DEF Settled, At
  <2>3. QED
    BY <2>1, <2>2
<1>4. PlaceInv(r)'
  BY <1>0, <1>2 DEF PlaceInv
<1>5. PhaseInv(r)'
  <2>1. SUFFICES ASSUME pc[r]["main"] = "run" PROVE PhaseInv(r)'
    BY <1>2 DEF PhaseInv
  <2>2. CAIdle(r) /\ TLSIdle(r) /\ CAIdle(r)' /\ TLSIdle(r)'
    BY <1>2, <1>3, <2>1, GoroutineFacts DEF CAIdle, TLSIdle
  <2>3. /\ now < CADue(r) /\ now < TLSDue(r) /\ tls[r].issuer = ca[r].cert.serial
        /\ Multiple((TLSDue(r) - TLSPeriod) - (CADue(r) - CAPeriod))
    BY <1>0, <1>3, <2>1, <2>2 DEF PhaseInv
  <2>4. CADue(r)' = CADue(r) /\ TLSDue(r)' = TLSDue(r)
    BY <1>2 DEF CADue, TLSDue
  <2>5. now \in Int /\ CADue(r) \in Int /\ TLSDue(r) \in Int
    BY <1>0, Periods DEF TypeOK, CADue, TLSDue, Cert
  <2>6. now' <= CADue(r) /\ now' <= TLSDue(r)
    BY <1>1, <2>3, <2>5
  <2>7. QED
    BY <1>1, <1>2, <2>2, <2>3, <2>4, <2>6 DEF PhaseInv
<1>6. MemoryInv(r)'
  BY <1>0, <1>2, <1>3, GoroutineFacts
     DEF MemoryInv, HasNewCA, HoldsTLS, HoldsCA, MakingCA, Signing
<1>7. DiskInv(r)'
  BY <1>0, <1>2 DEF DiskInv
<1>8. PublishInv(r)'
  BY <1>0, <1>2 DEF PublishInv, FilledInv, Published, caBundleFound
<1>9. QED
  BY <1>4, <1>5, <1>6, <1>7, <1>8 DEF RotationInv

-----------------------------------------------------------------------------
(* The pair of files.                                                      *)

LEMMA GoroutineRotation ==
  ASSUME NEW r \in Replicas, Rotation(r), Undisturbed, RotationsApart,
         NEW g \in Goroutines, GoroutineStep(r, g)
  PROVE  RotationInv(r)'
<1>1. CASE generateCACert(r, g) \/ writeBundle(r, g) \/ generateTLSCert(r, g) \/ SetTLS(r, g)
  BY <1>1, GenerateCARotation, WriteRotation, SignRotation, SetTLSRotation
<1>2. CASE \/ GetWebhook(r, g) \/ FillWebhook(r, g) \/ UpdateWebhook(r, g)
          \/ RetryOnConflict(r, g) \/ UpdateFails(r, g)
  BY <1>2, GetRotation, FillRotation, UpdateRotation
<1>3. CASE SetCAKey(r) \/ SetCACert(r) \/ rotateCACert(r) \/ rotateTLSCert(r)
  BY <1>3, SetCAKeyRotation, SetCACertRotation, RotateCARotation, RotateTLSRotation
<1>4. CASE LoadTLS(r) \/ SyncTick(r) \/ SyncNext(r)
  BY <1>4, LoadRotation, SyncRotation
<1>5. QED
  BY <1>1, <1>2, <1>3, <1>4, NotTaken DEF GoroutineStep

LEMMA NextRotation ==
  ASSUME TrustInv, \A r \in Replicas : RotationInv(r), Undisturbed, RotationsApart, [Next]_vars
  PROVE  \A r \in Replicas : RotationInv(r)'
<1> SUFFICES ASSUME NEW r \in Replicas PROVE RotationInv(r)'
  OBVIOUS
<1>0. Rotation(r) /\ \A q \in Replicas : q = r
  BY DEF Rotation, Undisturbed
<1>1. ASSUME NEW q \in Replicas, NEW g \in Goroutines, GoroutineStep(q, g)
      PROVE  RotationInv(r)'
  BY <1>0, <1>1, GoroutineRotation
<1>2. ASSUME NEW q \in Replicas, Boot(q) \/ Cancel(q) \/ CacheSync(q) \/ Crash(q) \/ Replace(q)
      PROVE  RotationInv(r)'
  BY <1>0, <1>2, BootRotation, CacheRotation, NotTaken, GoroutineFacts
<1>3. CASE Reapply \/ Tick
  BY <1>0, <1>3, ReapplyRotation, TickRotation
<1>4. CASE UNCHANGED vars
  <2>1. UNCHANGED <<now, config, disk, ca, tls, pc, gen, upd, checked>>
    BY <1>4 DEF vars
  <2>2. QED
    BY <1>0, <2>1 DEF Rotation, RotationInv, PlaceInv, PhaseInv, CAIdle, TLSIdle, CADue, TLSDue,
       MemoryInv, HasNewCA, DiskInv, PublishInv, FilledInv, Published, caBundleFound
<1>5. QED
  BY <1>1, <1>2, <1>3, <1>4 DEF Next

LEMMA InitRotation ==
  ASSUME Init, NEW r \in Replicas
  PROVE  RotationInv(r)
<1>1. /\ pc[r]["main"] = "down" /\ \A g \in Loops : pc[r][g] = "off"
  BY GoroutineFacts DEF Init, OffLoops
<1>2. disk[r] = EmptyDisk /\ ca[r].key = ca[r].cert /\ config.bundle = [w \in Webhooks |-> {}]
  BY DEF Init
<1>3. PlaceInv(r) /\ PhaseInv(r)
  BY <1>1 DEF PlaceInv, PhaseInv
<1>4. MemoryInv(r)
  BY <1>1, <1>2, GoroutineFacts DEF MemoryInv, HasNewCA, HoldsTLS, HoldsCA, MakingCA, Signing
<1>5. DiskInv(r)
  BY <1>1, <1>2, GoroutineFacts DEF DiskInv, EmptyDisk, MakingCA, Files
<1>6. PublishInv(r)
  BY <1>1, <1>2, GoroutineFacts DEF PublishInv, FilledInv, MakingCA
<1>7. QED
  BY <1>3, <1>4, <1>5, <1>6 DEF RotationInv

\* The rotations of one replica never meet.
LEMMA RotationInvariant ==
  ASSUME Undisturbed, RotationsApart
  PROVE  Spec => [](\A r \in Replicas : RotationInv(r))
<1> DEFINE I == \A r \in Replicas : RotationInv(r)
<1>1. Init => I
  BY InitRotation
<1>2. TrustInv /\ I /\ [Next]_vars => I'
  BY NextRotation
<1> HIDE DEF I
<1>3. Spec => []I
  BY <1>1, <1>2, TrustInvariant, PTL DEF Spec
<1>4. QED
  BY <1>3 DEF I

\* Whenever neither rotation loop is between the writes of writeBundle, tls.crt
\* and tls.key are a pair.
THEOREM ServedPairMatchesHolds ==
  ASSUME Undisturbed, RotationsApart
  PROVE  Spec => []ServedPairMatches
<1> DEFINE I == \A r \in Replicas : RotationInv(r)
<1>1. I => ServedPairMatches
  <2> SUFFICES ASSUME I, NEW r \in Replicas, pc[r]["main"] = "run",
                      \A g \in Loops : pc[r][g] \notin {"tlsCrt", "tlsKey"}
               PROVE  disk[r]["tlsCrt"] = disk[r]["tlsKey"]
    BY DEF ServedPairMatches, At
  <2>1. DiskInv(r)
    BY DEF RotationInv
  <2>2. QED
    BY <2>1, GoroutineFacts DEF DiskInv
<1> HIDE DEF I
<1>2. Spec => []I
  BY RotationInvariant DEF I
<1>3. QED
  BY <1>1, <1>2, PTL

-----------------------------------------------------------------------------
(* The issuer of what is served.                                           *)

LEMMA CertSerials ==
  ASSUME NEW b, NEW s
  PROVE  s \in Serials(b) <=> \E c \in Certs(b) : c.serial = s
  BY DEF Serials, Certs

\* A CA that is held is the only certificate with its serial.
LEMMA AliveCA ==
  ASSUME TrustInv, NEW r \in Replicas, ca[r].cert.notAfter >= now
  PROVE  Alive(ca[r].cert.serial)
<1>1. SUFFICES ASSUME NEW c \in InBundles \cup InHands, c.serial = ca[r].cert.serial
               PROVE  c.notAfter >= now
  BY DEF Alive
<1>2. c \in Known /\ ca[r].cert \in Known
  BY BundlesKnown DEF Known
<1>3. c = ca[r].cert
  BY <1>1, <1>2 DEF TrustInv, SerialInv
<1>4. QED
  BY <1>3

LEMMA AliveKept ==
  ASSUME VersionInv, HandsKept, ServerStep, now' = now, NEW s, Alive(s)
  PROVE  Alive(s)'
<1>1. \A w \in Webhooks : Certs(config.bundle[w])' \subseteq InBundles \cup InHands
  <2>1. SUFFICES ASSUME NEW w \in Webhooks
                 PROVE  Certs(config.bundle[w])' \subseteq InBundles \cup InHands
    OBVIOUS
  <2>2. CASE config' = config
    BY <2>2 DEF InBundles, Certs
  <2>3. ASSUME NEW b \in Bundles, Replaced(b), config' = Stored(b)
        PROVE  Certs(config.bundle[w])' \subseteq InBundles \cup InHands
    <3>1. Certs(config.bundle[w])' = Certs(b[w])
      <4>1. config'.bundle = b
        BY <2>3 DEF Stored
      <4>2. QED
        BY <4>1 DEF Certs
    <3>2. CASE b = [v \in Webhooks |-> {}]
      BY <3>1, <3>2 DEF Certs
    <3>3. ASSUME NEW q \in Replicas, NEW g \in Goroutines, Acceptable(q, g), b = upd[q][g].bundle
          PROVE  Certs(config.bundle[w])' \subseteq InBundles \cup InHands
      BY <3>1, <3>3 DEF InHands, InHand
    <3>4. QED
      BY <2>3, <3>2, <3>3 DEF Replaced
  <2>4. QED
    BY <2>2, <2>3 DEF ServerStep
<1>2. InBundles' \subseteq InBundles \cup InHands
  BY <1>1 DEF InBundles
<1>3. ASSUME NEW q \in Replicas, NEW h \in Goroutines, NEW w \in Webhooks, Acceptable(q, h)'
      PROVE  Certs(upd[q][h].bundle[w])' \subseteq InHands
  <2>1. Acceptable(q, h)
    BY <1>3, StillAcceptable
  <2>2. upd'[q][h] = upd[q][h]
    BY <1>3 DEF HandsKept, Acceptable
  <2>3. Certs(upd[q][h].bundle[w])' = Certs(upd[q][h].bundle[w])
    BY <2>2 DEF Certs
  <2>4. QED
    BY <2>1, <2>3 DEF InHands, InHand
<1>4. InHands' \subseteq InHands
  <2>1. ASSUME NEW q \in Replicas PROVE InHand(q)' \subseteq InHands
    BY <1>3 DEF InHand
  <2>2. QED
    BY <2>1 DEF InHands
<1>5. QED
  BY <1>2, <1>4 DEF Alive

\* A callback takes the server's certificates, or its object's and the CA.
LEMMA AliveHand ==
  ASSUME TrustInv, NEW r \in Replicas, NEW g \in Goroutines,
         ca[r].cert.notAfter >= now, UNCHANGED <<now, config>>,
         \A q \in Replicas, h \in Goroutines :
           ~(q = r /\ h = g) => upd'[q][h] = upd[q][h] /\ pc'[q][h] = pc[q][h],
         \A w \in Webhooks : Acceptable(r, g)' =>
           Certs(upd[r][g].bundle[w])' \subseteq InHands \cup InBundles \cup {ca[r].cert},
         NEW s, Alive(s)
  PROVE  Alive(s)'
<1>1. ASSUME NEW q \in Replicas, NEW h \in Goroutines, NEW w \in Webhooks, Acceptable(q, h)'
      PROVE  Certs(upd[q][h].bundle[w])' \subseteq InHands \cup InBundles \cup {ca[r].cert}
  <2>1. CASE q = r /\ h = g
    BY <1>1, <2>1
  <2>2. CASE ~(q = r /\ h = g)
    <3>1. upd'[q][h] = upd[q][h] /\ Acceptable(q, h)
      BY <1>1, <2>2 DEF Acceptable
    <3>2. Certs(upd[q][h].bundle[w])' = Certs(upd[q][h].bundle[w])
      BY <3>1 DEF Certs
    <3>3. QED
      BY <3>1, <3>2 DEF InHands, InHand
  <2>3. QED
    BY <2>1, <2>2
<1>2. InHands' \subseteq InHands \cup InBundles \cup {ca[r].cert}
  <2>1. ASSUME NEW q \in Replicas PROVE InHand(q)' \subseteq InHands \cup InBundles \cup {ca[r].cert}
    BY <1>1 DEF InHand
  <2>2. QED
    BY <2>1 DEF InHands
<1>3. InBundles' = InBundles
  BY DEF InBundles, Certs
<1>4. QED
  BY <1>2, <1>3 DEF Alive

LEMMA AliveGet ==
  ASSUME TrustInv, NEW r \in Replicas, NEW g \in Goroutines, GetWebhook(r, g),
         pc[r][g] = "get", ca[r].cert.notAfter >= now, NEW s, Alive(s)
  PROVE  Alive(s)'
<1>0. /\ upd \in [Replicas -> [Goroutines -> [n : Nat, rv : Nat, i : Nat, bundle : Bundles]]]
      /\ TypeOK /\ VersionInv
  BY DEF TrustInv, VersionInv, TypeOK
<1> DEFINE o == Source(r, g)
<1>1. \A q \in Replicas, h \in Goroutines :
        pc'[q][h] = IF q = r /\ h = g THEN "fill" ELSE pc[q][h]
  BY <1>0, GotoFacts DEF GetWebhook, At
<1>2. /\ upd'[r][g].rv = o.rv /\ upd'[r][g].bundle = o.bundle
      /\ \A q \in Replicas, h \in Goroutines : ~(q = r /\ h = g) => upd'[q][h] = upd[q][h]
  BY <1>0 DEF GetWebhook, Got, At
<1>3. UNCHANGED <<now, config>>
  BY DEF GetWebhook
<1>4. o.rv = config.rv => o.bundle = config.bundle
  BY <1>0 DEF VersionInv, CacheInv, Source
<1>5. ASSUME NEW w \in Webhooks, Acceptable(r, g)'
      PROVE  Certs(upd[r][g].bundle[w])' \subseteq InBundles
  <2>1. upd'[r][g].bundle[w] = config.bundle[w]
    BY <1>2, <1>3, <1>4, <1>5 DEF Acceptable
  <2>2. QED
    BY <2>1 DEF Certs, InBundles
<1>6. QED
  BY <1>1, <1>2, <1>3, <1>5, AliveHand

LEMMA AliveFill ==
  ASSUME TrustInv, NEW r \in Replicas, NEW g \in Goroutines, FillWebhook(r, g),
         ca[r].cert.notAfter >= now, NEW s, Alive(s)
  PROVE  Alive(s)'
<1>0. TypeOK /\ VersionInv /\ pc[r][g] = "fill" /\ upd[r][g].i \in Webhooks
  BY DEF TrustInv, VersionInv, PutInv, FillWebhook, At
<1> DEFINE o == upd[r][g]
<1>1. /\ UNCHANGED <<now, config>> /\ upd'[r][g].rv = o.rv
      /\ \A w \in Webhooks :
           upd'[r][g].bundle[w] = IF w = o.i THEN updateCABundles(o.bundle[w], ca[r].cert)
                                             ELSE o.bundle[w]
      /\ \A q \in Replicas, h \in Goroutines :
           ~(q = r /\ h = g) => upd'[q][h] = upd[q][h] /\ pc'[q][h] = pc[q][h]
  BY <1>0, FillFacts
<1>2. ASSUME NEW w \in Webhooks, Acceptable(r, g)'
      PROVE  Certs(upd[r][g].bundle[w])' \subseteq InHands \cup {ca[r].cert}
  <2>1. Acceptable(r, g)
    BY <1>0, <1>1, <1>2 DEF Acceptable, Holding
  <2>2. Certs(o.bundle[w]) \subseteq InHands
    BY <2>1 DEF InHands, InHand
  <2>3. Certs(updateCABundles(o.bundle[w], ca[r].cert)) \subseteq Certs(o.bundle[w]) \cup {ca[r].cert}
    BY UpdateCerts
  <2>4. Certs(upd[r][g].bundle[w])' = Certs(upd'[r][g].bundle[w])
    BY DEF Certs
  <2>5. QED
    BY <1>1, <2>2, <2>3, <2>4
<1>3. QED
  BY <1>1, <1>2, AliveHand

LEMMA UpdateCovers ==
  ASSUME NEW r \in Replicas, TrustInv, NEW g \in Goroutines, UpdateWebhook(r, g),
         pc[r][g] = "put", NEW s, Good(r, s)
  PROVE  Covered(r, s)'
<1> DEFINE b == upd[r][g].bundle
<1>1. config'.bundle = b /\ Acceptable(r, g)
  BY DEF UpdateWebhook, Stored, Acceptable, Accepts, Holding
<1>2. behind'[r] = Unpublished(behind[r], b)
  BY DEF UpdateWebhook, TrustInv, VersionInv, TypeOK
<1>3. CASE s \in behind[r]
  BY <1>1, <1>2, <1>3 DEF Covered, Unpublished, Serials
<1>4. CASE \A w \in Webhooks : s \in Serials(config.bundle[w])
  <2>1. \A w \in Webhooks : Added(r, b, w)
    BY <1>1 DEF TrustInv, ExactInv, Exact
  <2>2. ASSUME NEW w \in Webhooks PROVE s \in Serials(b[w])
    <3>1. PICK d \in Certs(config.bundle[w]) : d.serial = s
      BY <1>4, CertSerials
    <3>2. d \in InBundles
      BY DEF InBundles
    <3>3. d.notAfter >= now /\ d.notAfter \in Nat /\ now \in Nat
      <4>1. d \in Cert
        BY <3>2, KnownTyped DEF Known, TrustInv, VersionInv
      <4>2. QED
        BY <3>1, <3>2, <4>1 DEF Good, Alive, TrustInv, VersionInv, TypeOK, Cert
    <3>4. ~Expired(d)
      BY <3>3 DEF Expired
    <3>5. d \in Certs(b[w])
      BY <2>1, <3>4 DEF Added
    <3>6. QED
      BY <3>1, <3>5, CertSerials
  <2>3. QED
    BY <1>1, <2>2 DEF Covered, Serials
<1>5. QED
  BY <1>3, <1>4 DEF Good, Covered

LEMMA FailCovers ==
  ASSUME NEW r \in Replicas, TrustInv, NEW g \in Goroutines, UpdateFails(r, g)
  PROVE  /\ \A s : Covered(r, s) => Covered(r, s)'
         /\ Covered(r, ca[r].cert.serial)'
<1>1. /\ behind'[r] = Unpublished(behind[r] \cup {ca[r].cert.serial}, config.bundle)
      /\ UNCHANGED <<config, ca>>
  BY DEF UpdateFails, TrustInv, VersionInv, TypeOK
<1>2. ASSUME NEW s, Covered(r, s) \/ s = ca[r].cert.serial
      PROVE  Covered(r, s)'
  BY <1>1, <1>2 DEF Covered, Unpublished, Serials
<1>3. QED
  BY <1>1, <1>2

LEMMA ReapplyCovers ==
  ASSUME NEW r \in Replicas, Reapply, NEW s, Covered(r, s)
  PROVE  Covered(r, s)'
<1>1. behind'[r] = behind[r] \cup UNION {Serials(config.bundle[w]) : w \in Webhooks}
  BY DEF Reapply
<1>2. 1 \in Webhooks
  BY WebhooksAssumption DEF Webhooks
<1>3. s \in behind'[r]
  BY <1>1, <1>2 DEF Covered
<1>4. QED
  BY <1>3 DEF Covered

\* No step but the clock's takes a good issuer away.
LEMMA GoodKept ==
  ASSUME NEW r \in Replicas, Rotation(r), CoverInv(r), Undisturbed,
         NEW g \in Goroutines, GoroutineStep(r, g), NEW s, Good(r, s)
  PROVE  Good(r, s)'
<1>0. TrustInv /\ VersionInv
  BY DEF Rotation, TrustInv
<1>1. ServerStep /\ now' = now
  BY <1>0, GoroutineServerStep
<1>2. Alive(s)'
  <2>1. CASE GetWebhook(r, g)
    <3>1. pc[r][g] = "get"
      BY <2>1, Places, GoroutineFacts
         DEF GetWebhook, Goroutines, Booting, RotatingCA, MakingCA, Signing
    <3>2. HasCA(r)
      BY <3>1, Places, GoroutineFacts DEF HasCA, MakingCA
    <3>3. QED
      BY <1>0, <2>1, <3>1, <3>2, AliveGet DEF CoverInv, Good
  <2>2. CASE FillWebhook(r, g)
    <3>1. pc[r][g] = "fill"
      BY <2>2 DEF FillWebhook, At
    <3>2. HasCA(r)
      BY <3>1, Places, GoroutineFacts DEF HasCA, MakingCA
    <3>3. QED
      BY <1>0, <2>2, <3>2, AliveFill DEF CoverInv, Good
  <2>3. CASE ~(GetWebhook(r, g) \/ FillWebhook(r, g))
    BY <1>0, <1>1, <2>3, GoroutineHandsKept, AliveKept DEF Good
  <2>4. QED
    BY <2>1, <2>2, <2>3
<1>3. Covered(r, s)'
  <2>1. CASE UpdateWebhook(r, g)
    BY <1>0, <2>1, AfterPut, UpdateCovers
  <2>2. CASE UpdateFails(r, g)
    BY <1>0, <2>2, FailCovers DEF Good
  <2>3. CASE UNCHANGED <<config, behind>>
    BY <2>3 DEF Good, Covered, Serials
  <2>4. QED
    BY <2>1, <2>2, <2>3, NotTaken DEF GoroutineStep, generateCACert, writeBundle, generateTLSCert,
       SetTLS, GetWebhook, FillWebhook, RetryOnConflict, LoadTLS, SetCAKey, SetCACert,
       rotateCACert, rotateTLSCert, Check, SyncTick, SyncNext
<1>4. QED
  BY <1>2, <1>3 DEF Good

\* What may be signed next is good.
LEMMA SignGood ==
  ASSUME NEW r \in Replicas, Rotation(r), CoverInv(r), MaySign(r)
  PROVE  Good(r, ca[r].cert.serial)
<1>1. HasCA(r)
  BY DEF MaySign, HasCA, MakingCA, Signing
<1>2. Alive(ca[r].cert.serial)
  BY <1>1, AliveCA DEF CoverInv, Rotation
<1>3. QED
  BY <1>2 DEF CoverInv, Good

\* A step that neither changes the CA or the certificate served nor begins to
\* serve or to sign.
LEMMA CoverFrame ==
  ASSUME NEW r \in Replicas, Rotation(r), CoverInv(r), now' = now,
         \A s : Good(r, s) => Good(r, s)',
         pc'[r]["main"] = "run" =>
           pc[r]["main"] = "run" /\ disk'[r]["tlsCrt"].issuer = disk[r]["tlsCrt"].issuer,
         MaySign(r)' => MaySign(r) /\ ca'[r].cert = ca[r].cert,
         HasCA(r)' => HasCA(r) /\ ca'[r].cert = ca[r].cert
  PROVE  CoverInv(r)'
<1>1. pc'[r]["main"] = "run" => Good(r, disk[r]["tlsCrt"].issuer)'
  <2>1. ASSUME pc'[r]["main"] = "run" PROVE Good(r, disk[r]["tlsCrt"].issuer)'
    <3>1. PICK s : s = disk[r]["tlsCrt"].issuer
      OBVIOUS
    <3>2. Good(r, s)'
      BY <2>1, <3>1 DEF CoverInv
    <3>3. s = disk'[r]["tlsCrt"].issuer
      BY <2>1, <3>1
    <3>4. QED
      BY <3>2, <3>3 DEF Good, Covered, Alive
  <2>2. QED
    BY <2>1
<1>2. MaySign(r)' => Covered(r, ca[r].cert.serial)'
  <2>1. ASSUME MaySign(r)' PROVE Covered(r, ca[r].cert.serial)'
    <3>1. PICK s : s = ca[r].cert.serial
      OBVIOUS
    <3>2. Good(r, s)'
      BY <2>1, <3>1, SignGood
    <3>3. s = ca'[r].cert.serial
      BY <2>1, <3>1
    <3>4. QED
      BY <3>2, <3>3 DEF Good, Covered
  <2>2. QED
    BY <2>1
<1>3. HasCA(r)' => ca'[r].cert.notAfter >= now'
  BY DEF CoverInv
<1>4. QED
  BY <1>1, <1>2, <1>3 DEF CoverInv

LEMMA GenerateCover ==
  ASSUME NEW r \in Replicas, Rotation(r), CoverInv(r), NEW g \in Goroutines,
         generateCACert(r, g) \/ generateTLSCert(r, g), \A s : Good(r, s) => Good(r, s)'
  PROVE  CoverInv(r)'
<1>0. TypeOK
  BY DEF Rotation, TrustInv, VersionInv
<1>1. PICK l \in {"caCrt", "tlsCrt"} :
        Step(r, g, l) /\ (l = "caCrt" => pc[r][g] = "genCA") /\ (l = "tlsCrt" => pc[r][g] = "sign")
  BY <1>0, StepGoto DEF generateCACert, generateTLSCert, At
<1>2. UNCHANGED <<now, disk, ca>>
  BY DEF generateCACert, generateTLSCert
<1>3. pc'[r]["main"] = "run" => pc[r]["main"] = "run"
  BY <1>1, GoroutineFacts DEF Step
<1>4. (MaySign(r)' => MaySign(r)) /\ (HasCA(r)' => HasCA(r))
  BY <1>1, GoroutineFacts DEF Step, MaySign, HasCA, MakingCA, Signing
<1>5. QED
  BY <1>2, <1>3, <1>4, CoverFrame

\* Writing tls.crt changes what is served; New's CA is the first.
LEMMA WriteCover ==
  ASSUME NEW r \in Replicas, Rotation(r), CoverInv(r), NEW g \in Goroutines,
         writeBundle(r, g), \A s : Good(r, s) => Good(r, s)'
  PROVE  CoverInv(r)'
<1>0. TypeOK /\ MemoryInv(r)
  BY DEF Rotation, TrustInv, VersionInv, RotationInv
<1> DEFINE f == pc[r][g]
           l == AfterWrite(g, f)
<1>1. f \in Files /\ Step(r, g, l) /\ now' = now
  BY <1>0, StepGoto DEF writeBundle
<1>2. \A e \in Files : disk'[r][e] = IF e = f THEN gen[r][g] ELSE disk[r][e]
  BY <1>0, <1>1 DEF writeBundle, TypeOK
<1>3. /\ g = "main" => pc[r]["main"] # "run"
      /\ g # "main" => pc[r]["main"] = "run"
  <2>1. f \in Signing \cup HoldsCA
    BY <1>1 DEF Files, Signing, HoldsCA
  <2>2. QED
    BY <2>1, Alone
<1>4. CASE g = "main" /\ f = "caKey"
  <2>1. ca'[r].cert = gen[r][g] /\ pc'[r]["main"] = "get"
    BY <1>0, <1>1, <1>4 DEF writeBundle, TypeOK, At, Step, AfterWrite
  <2>2. gen[r][g].notAfter = now + CAValidity /\ now \in Nat
    BY <1>0, <1>4 DEF MemoryInv, HoldsCA, TypeOK
  <2>3. ca'[r].cert.notAfter >= now'
    BY <1>1, <2>1, <2>2, Periods
  <2>4. QED
    BY <2>1, <2>3 DEF CoverInv, MaySign, Signing
<1>5. CASE ~(g = "main" /\ f = "caKey")
  <2>1. ca' = ca
    BY <1>5 DEF writeBundle, At
  <2>2. l \in {"caKey", "setKey", "tlsKey", "setTLS"} /\ (f = "caCrt" => l = "caKey")
        /\ (g = "main" /\ f \in {"tlsCrt", "tlsKey"} => l \in Signing)
    BY <1>1, <1>5 DEF AfterWrite, Files, Signing
  <2> HIDE DEF l
  <2>3. (MaySign(r)' => MaySign(r)) /\ (HasCA(r)' => HasCA(r))
    BY <1>1, <1>3, <1>5, <2>2, GoroutineFacts
       DEF Step, MaySign, HasCA, MakingCA, Signing, Files
  <2>4. pc'[r]["main"] = "run" => pc[r]["main"] = "run" /\ g # "main"
    BY <1>1, <1>3, <2>2, GoroutineFacts DEF Step
  <2>5. CASE f # "tlsCrt" \/ g = "main"
    <3>1. pc'[r]["main"] = "run" => disk'[r]["tlsCrt"] = disk[r]["tlsCrt"]
      BY <1>2, <2>4, <2>5 DEF Files
    <3>2. QED
      BY <1>1, <2>1, <2>3, <2>4, <3>1, CoverFrame
  <2>6. CASE f = "tlsCrt" /\ g # "main"
    <3>1. disk'[r]["tlsCrt"] = gen[r][g] /\ gen[r][g].issuer = ca[r].cert.serial
      BY <1>0, <1>2, <2>6 DEF MemoryInv, HoldsTLS, Files
    <3>2. MaySign(r)
      <4>1. g = "rotateCA" \/ pc[r]["rotateCA"] = "idle"
        BY <2>6, Alone DEF Signing, CAIdle
      <4>2. QED
        BY <1>3, <2>6, <4>1 DEF MaySign
    <3>3. PICK s : s = ca[r].cert.serial
      OBVIOUS
    <3>4. Good(r, s)'
      BY <3>2, <3>3, SignGood
    <3>5. s = disk'[r]["tlsCrt"].issuer /\ s = ca'[r].cert.serial
      BY <2>1, <3>1, <3>3
    <3>6. Good(r, disk[r]["tlsCrt"].issuer)' /\ Covered(r, ca[r].cert.serial)'
      BY <3>4, <3>5 DEF Good, Covered, Alive
    <3>7. HasCA(r)' => ca'[r].cert.notAfter >= now'
      BY <1>1, <2>1, <2>3 DEF CoverInv
    <3>8. QED
      BY <3>6, <3>7 DEF CoverInv
  <2>7. QED
    BY <2>5, <2>6
<1>6. QED
  BY <1>4, <1>5

\* Start: what New has signed is served.
LEMMA SetTLSCover ==
  ASSUME NEW r \in Replicas, Rotation(r), CoverInv(r), NEW g \in Goroutines,
         SetTLS(r, g), \A s : Good(r, s) => Good(r, s)'
  PROVE  CoverInv(r)'
<1>0. TypeOK /\ MemoryInv(r) /\ DiskInv(r)
  BY DEF Rotation, TrustInv, VersionInv, RotationInv
<1>1. pc[r][g] = "setTLS" /\ UNCHANGED <<now, disk, ca>>
  BY DEF SetTLS, At
<1>2. CASE g = "main"
  <2>1. MaySign(r)
    BY <1>1, <1>2 DEF MaySign, Signing
  <2>2. disk[r]["tlsCrt"].issuer = ca[r].cert.serial
    BY <1>0, <1>1, <1>2 DEF DiskInv, MemoryInv, HoldsTLS
  <2>3. PICK s : s = ca[r].cert.serial
    OBVIOUS
  <2>4. Good(r, s)'
    BY <2>1, <2>3, SignGood
  <2>5. s = disk'[r]["tlsCrt"].issuer /\ s = ca'[r].cert.serial
    BY <1>1, <2>2, <2>3
  <2>6. Good(r, disk[r]["tlsCrt"].issuer)' /\ Covered(r, ca[r].cert.serial)'
    BY <2>4, <2>5 DEF Good, Covered, Alive
  <2>7. HasCA(r)
    BY <1>1, <1>2 DEF HasCA, MakingCA
  <2>8. QED
    BY <1>1, <2>6, <2>7 DEF CoverInv
<1>3. CASE g # "main"
  <2>1. Step(r, g, "idle")
    BY <1>0, <1>3, StepGoto DEF SetTLS
  <2>2. (MaySign(r)' => MaySign(r)) /\ (HasCA(r)' => HasCA(r)) /\ pc'[r]["main"] = pc[r]["main"]
    BY <1>1, <1>3, <2>1, GoroutineFacts DEF Step, MaySign, HasCA
  <2>3. QED
    BY <1>1, <2>2, CoverFrame
<1>4. QED
  BY <1>2, <1>3

\* A new CA is not signed with before its update.
LEMMA SetCACover ==
  ASSUME NEW r \in Replicas, Rotation(r), CoverInv(r),
         SetCAKey(r) \/ SetCACert(r), \A s : Good(r, s) => Good(r, s)'
  PROVE  CoverInv(r)'
<1>0. TypeOK /\ MemoryInv(r)
  BY DEF Rotation, TrustInv, VersionInv, RotationInv
<1>1. UNCHANGED <<now, disk>> /\ pc[r]["rotateCA"] \in {"setKey", "setCert"}
  BY DEF SetCAKey, SetCACert, At
<1>2. pc[r]["main"] = "run"
  BY <1>1, Places, GoroutineFacts
<1>3. CASE SetCAKey(r)
  <2>1. Step(r, "rotateCA", "setCert") /\ ca'[r].cert = ca[r].cert
    <3>1. Step(r, "rotateCA", "setCert")
      BY <1>0, <1>3, StepGoto, GoroutineFacts DEF SetCAKey
    <3>2. ca'[r].cert = ca[r].cert
      BY <1>0, <1>3 DEF SetCAKey, TypeOK
    <3>3. QED
      BY <3>1, <3>2
  <2>2. MaySign(r) /\ HasCA(r) /\ pc'[r]["main"] = "run"
    BY <1>1, <1>2, <2>1, GoroutineFacts DEF MaySign, HasCA, MakingCA, Step
  <2>3. QED
    BY <1>1, <1>2, <2>1, <2>2, CoverFrame
<1>4. CASE SetCACert(r)
  <2>1. /\ Step(r, "rotateCA", "get") /\ ca'[r].cert = gen[r]["rotateCA"]
        /\ pc[r]["rotateCA"] = "setCert"
    <3>1. Step(r, "rotateCA", "get")
      BY <1>0, <1>4, StepGoto, GoroutineFacts DEF SetCACert
    <3>2. ca'[r].cert = gen[r]["rotateCA"] /\ pc[r]["rotateCA"] = "setCert"
      BY <1>0, <1>4 DEF SetCACert, TypeOK, At
    <3>3. QED
      BY <3>1, <3>2
  <2>2. pc'[r]["main"] = "run" /\ pc'[r]["rotateCA"] = "get"
    BY <1>2, <2>1, GoroutineFacts DEF Step
  <2>3. gen[r]["rotateCA"].notAfter = now + CAValidity /\ now \in Nat
    BY <1>0, <2>1, GoroutineFacts DEF MemoryInv, HoldsCA, TypeOK
  <2>4. ca'[r].cert.notAfter >= now'
    BY <1>1, <2>1, <2>3, Periods
  <2>5. Good(r, disk[r]["tlsCrt"].issuer)'
    <3>1. PICK s : s = disk[r]["tlsCrt"].issuer
      OBVIOUS
    <3>2. Good(r, s)'
      BY <1>2, <3>1 DEF CoverInv
    <3>3. s = disk'[r]["tlsCrt"].issuer
      BY <1>1, <3>1
    <3>4. QED
      BY <3>2, <3>3 DEF Good, Covered, Alive
  <2>6. ~MaySign(r)'
    BY <2>2 DEF MaySign, Signing
  <2>7. QED
    BY <2>4, <2>5, <2>6 DEF CoverInv
<1>5. QED
  BY <1>3, <1>4

LEMMA GetCover ==
  ASSUME NEW r \in Replicas, Rotation(r), CoverInv(r), NEW g \in Goroutines,
         GetWebhook(r, g), \A s : Good(r, s) => Good(r, s)'
  PROVE  CoverInv(r)'
<1>0. TypeOK
  BY DEF Rotation, TrustInv, VersionInv
<1>1. pc[r][g] = "get"
  BY Places, GoroutineFacts DEF GetWebhook, Goroutines, Booting, RotatingCA, MakingCA, Signing
<1>2. Step(r, g, "fill") /\ UNCHANGED <<now, disk, ca>>
  BY <1>0, <1>1, StepGoto DEF GetWebhook, At
<1>3. /\ (MaySign(r)' => MaySign(r)) /\ (HasCA(r)' => HasCA(r))
      /\ (pc'[r]["main"] = "run" => pc[r]["main"] = "run")
  BY <1>1, <1>2, GoroutineFacts DEF Step, MaySign, HasCA, Signing, MakingCA
<1>4. QED
  BY <1>2, <1>3, CoverFrame

LEMMA FillCover ==
  ASSUME NEW r \in Replicas, Rotation(r), CoverInv(r), NEW g \in Goroutines,
         FillWebhook(r, g), \A s : Good(r, s) => Good(r, s)'
  PROVE  CoverInv(r)'
<1>0. TypeOK
  BY DEF Rotation, TrustInv, VersionInv
<1>1. pc[r][g] = "fill" /\ UNCHANGED <<now, disk, ca>>
  BY DEF FillWebhook, At
<1>2. PICK l \in {"fill", "put"} : Goto(r, g, l)
  BY DEF FillWebhook
<1>3. Step(r, g, l)
  BY <1>0, <1>2, StepGoto
<1>4. /\ (MaySign(r)' => MaySign(r)) /\ (HasCA(r)' => HasCA(r))
      /\ (pc'[r]["main"] = "run" => pc[r]["main"] = "run")
  BY <1>1, <1>2, <1>3, GoroutineFacts DEF Step, MaySign, HasCA, Signing, MakingCA
<1>5. QED
  BY <1>1, <1>4, CoverFrame

\* After its update the new CA is published, or known not to be.
LEMMA UpdateCover ==
  ASSUME NEW r \in Replicas, Rotation(r), CoverInv(r), Undisturbed, NEW g \in Goroutines,
         UpdateWebhook(r, g) \/ RetryOnConflict(r, g) \/ UpdateFails(r, g),
         \A s : Good(r, s) => Good(r, s)'
  PROVE  CoverInv(r)'
<1>0. TrustInv /\ PublishInv(r)
  BY DEF Rotation, RotationInv
<1>1. /\ g \in {"main", "rotateCA", "sync"} /\ pc[r][g] = "put"
      /\ g # "main" => pc[r]["main"] = "run"
      /\ g = "main" => UpdateWebhook(r, g)
      /\ UNCHANGED <<now, disk, ca>>
  BY AfterPut
<1>2. PICK l \in {"get", "loadTLS", "scan", "sign"} : Passes(r, g, l) /\ (l = "get" \/ l = Resume(g))
  BY AfterPut
<1>3. Step(r, g, l)
  BY <1>2 DEF Passes
<1>4. /\ HasCA(r)' => HasCA(r)
      /\ pc'[r]["main"] = "run" => pc[r]["main"] = "run"
  BY <1>1, <1>2, <1>3, GoroutineFacts DEF Step, HasCA, MakingCA
<1>5. CASE MaySign(r)' => MaySign(r)
  BY <1>1, <1>4, <1>5, CoverFrame
<1>6. CASE MaySign(r)' /\ ~MaySign(r)
  <2>1. g \in {"main", "rotateCA"} /\ l # "get"
    BY <1>1, <1>2, <1>3, <1>6, GoroutineFacts DEF Step, MaySign, Passes
  <2>2. Covered(r, ca[r].cert.serial)'
    <3>1. CASE UpdateWebhook(r, g)
      <4>1. config'.bundle = upd[r][g].bundle
        BY <3>1 DEF UpdateWebhook, Stored
      <4>2. \A w \in Webhooks : ca[r].cert.serial \in Serials(upd[r][g].bundle[w])
        BY <1>0, <1>1, <2>1 DEF PublishInv, FilledInv, Published, caBundleFound
      <4>3. QED
        BY <1>1, <4>1, <4>2 DEF Covered, Serials
    <3>2. CASE UpdateFails(r, g)
      BY <1>0, <3>2, FailCovers
    <3>3. CASE RetryOnConflict(r, g)
      <4>1. Step(r, g, "get")
        <5>1. TypeOK
          BY <1>0 DEF TrustInv, VersionInv
        <5>2. QED
          BY <1>1, <3>3, <5>1, StepGoto DEF RetryOnConflict, At
      <4>2. QED
        BY <1>3, <2>1, <4>1 DEF Step
    <3>4. QED
      BY <3>1, <3>2, <3>3
  <2>3. pc'[r]["main"] = "run" => Good(r, disk[r]["tlsCrt"].issuer)'
    <3>1. SUFFICES ASSUME pc'[r]["main"] = "run" PROVE Good(r, disk[r]["tlsCrt"].issuer)'
      OBVIOUS
    <3>2. PICK s : s = disk[r]["tlsCrt"].issuer
      OBVIOUS
    <3>3. Good(r, s)'
      BY <1>4, <3>1, <3>2 DEF CoverInv
    <3>4. s = disk'[r]["tlsCrt"].issuer
      BY <1>1, <3>2
    <3>5. QED
      BY <3>3, <3>4 DEF Good, Covered, Alive
  <2>4. HasCA(r)' => ca'[r].cert.notAfter >= now'
    BY <1>1, <1>4 DEF CoverInv
  <2>5. QED
    BY <2>2, <2>3, <2>4 DEF CoverInv
<1>7. QED
  BY <1>5, <1>6

\* The tickers and the loading of nothing.
LEMMA OtherCover ==
  ASSUME NEW r \in Replicas, Rotation(r), CoverInv(r),
         \/ LoadTLS(r) \/ SyncTick(r) \/ SyncNext(r) \/ rotateCACert(r) \/ rotateTLSCert(r),
         \A s : Good(r, s) => Good(r, s)'
  PROVE  CoverInv(r)'
<1>0. TypeOK
  BY DEF Rotation, TrustInv, VersionInv
<1>1. UNCHANGED <<now, disk, ca>>
  BY DEF LoadTLS, SyncTick, SyncNext, rotateCACert, rotateTLSCert, Check
<1>2. /\ (MaySign(r)' => MaySign(r)) /\ (HasCA(r)' => HasCA(r))
      /\ (pc'[r]["main"] = "run" => pc[r]["main"] = "run")
  <2>1. CASE LoadTLS(r)
    <3>1. Step(r, "main", "sign") /\ pc[r]["main"] = "loadTLS"
      BY <2>1, LoadRotation DEF LoadTLS, At, Passes
    <3>2. QED
      BY <3>1, GoroutineFacts DEF Step, MaySign, HasCA, MakingCA
  <2>2. CASE SyncTick(r) \/ SyncNext(r)
    <3>1. PICK l \in {"idle", "get"} : Goto(r, "sync", l)
      BY <2>2 DEF SyncTick, SyncNext, ScanFrom
    <3>2. Step(r, "sync", l)
      BY <1>0, <3>1, StepGoto, GoroutineFacts
    <3>3. QED
      BY <3>2, GoroutineFacts DEF Step, MaySign, HasCA
  <2>3. CASE rotateCACert(r)
    <3>1. pc[r]["rotateCA"] = "idle" /\ \E l \in {"idle", "genCA"} : Step(r, "rotateCA", l)
      BY <1>0, <2>3, CheckFacts, GoroutineFacts DEF rotateCACert
    <3>2. QED
      BY <3>1, GoroutineFacts DEF Step, MaySign, HasCA
  <2>4. CASE rotateTLSCert(r)
    <3>1. \E l \in {"idle", "sign"} : Step(r, "rotateTLS", l)
      BY <1>0, <2>4, CheckFacts, GoroutineFacts DEF rotateTLSCert
    <3>2. QED
      BY <3>1, GoroutineFacts DEF Step, MaySign, HasCA
  <2>5. QED
    BY <2>1, <2>2, <2>3, <2>4
<1>3. QED
  BY <1>1, <1>2, CoverFrame

LEMMA GoroutineCover ==
  ASSUME NEW r \in Replicas, Rotation(r), CoverInv(r), Undisturbed,
         NEW g \in Goroutines, GoroutineStep(r, g)
  PROVE  CoverInv(r)'
<1>0. \A s : Good(r, s) => Good(r, s)'
  BY GoodKept
<1>1. CASE generateCACert(r, g) \/ writeBundle(r, g) \/ generateTLSCert(r, g) \/ SetTLS(r, g)
  BY <1>0, <1>1, GenerateCover, WriteCover, SetTLSCover
<1>2. CASE \/ GetWebhook(r, g) \/ FillWebhook(r, g) \/ UpdateWebhook(r, g)
          \/ RetryOnConflict(r, g) \/ UpdateFails(r, g)
  BY <1>0, <1>2, GetCover, FillCover, UpdateCover
<1>3. CASE SetCAKey(r) \/ SetCACert(r)
  BY <1>0, <1>3, SetCACover
<1>4. CASE LoadTLS(r) \/ SyncTick(r) \/ SyncNext(r) \/ rotateCACert(r) \/ rotateTLSCert(r)
  BY <1>0, <1>4, OtherCover
<1>5. QED
  BY <1>1, <1>2, <1>3, <1>4, NotTaken DEF GoroutineStep

LEMMA EnvironmentCover ==
  ASSUME NEW r \in Replicas, Rotation(r), CoverInv(r),
         Boot(r) \/ CacheSync(r) \/ Reapply
  PROVE  CoverInv(r)'
<1>1. CASE Boot(r)
  <2>1. pc'[r]["main"] = "genCA"
    BY <1>1, BootRotation
  <2>2. QED
    BY <2>1 DEF CoverInv, MaySign, HasCA, MakingCA, Signing
<1>2. CASE CacheSync(r) \/ Reapply
  <2>1. UNCHANGED <<now, disk, ca, pc, upd>>
    BY <1>2 DEF CacheSync, Reapply
  <2>2. HandsKept
    BY <2>1 DEF HandsKept
  <2>3. ServerStep
    BY <1>2, EmptyBundles DEF ServerStep, Replaced, CacheSync, Reapply
  <2>4. ASSUME NEW s, Good(r, s) PROVE Good(r, s)'
    <3>1. Alive(s)'
      BY <2>1, <2>2, <2>3, <2>4, AliveKept DEF Good, Rotation, TrustInv
    <3>2. Covered(r, s)'
      <4>1. CASE CacheSync(r)
        BY <2>4, <4>1 DEF CacheSync, Good, Covered, Serials
      <4>2. CASE Reapply
        BY <2>4, <4>2, ReapplyCovers DEF Good
      <4>3. QED
        BY <1>2, <4>1, <4>2
    <3>3. QED
      BY <3>1, <3>2 DEF Good
  <2>5. (MaySign(r)' => MaySign(r)) /\ (HasCA(r)' => HasCA(r))
    BY <2>1 DEF MaySign, HasCA
  <2>6. QED
    BY <2>1, <2>4, <2>5, CoverFrame
<1>3. QED
  BY <1>1, <1>2

\* Time passes: what is served is issued by the CA in use, which is not overdue.
LEMMA TickCover ==
  ASSUME NEW r \in Replicas, Rotation(r), CoverInv(r), Tick
  PROVE  CoverInv(r)'
<1>0. TrustInv /\ TypeOK /\ PhaseInv(r) /\ DiskInv(r) /\ PhaseInv(r)' /\ now \in Nat
  BY TickRotation DEF Rotation, RotationInv, TrustInv, VersionInv, TypeOK
<1>1. UNCHANGED <<config, disk, ca, tls, pc, upd, behind>> /\ now' = now + 1 /\ Settled(r)
  BY DEF Tick
<1>2. CASE pc[r]["main"] = "down"
  BY <1>1, <1>2 DEF CoverInv, MaySign, HasCA, Signing
<1>3. CASE pc[r]["main"] = "run" /\ \A g \in Loops : pc[r][g] = "idle"
  <2>1. CAIdle(r) /\ TLSIdle(r)
    BY <1>3, GoroutineFacts DEF CAIdle, TLSIdle
  <2>2. disk[r]["tlsCrt"].issuer = ca[r].cert.serial
    <3>1. disk[r]["tlsCrt"] = tls[r]
      BY <1>0, <1>3, GoroutineFacts DEF DiskInv
    <3>2. QED
      BY <1>0, <1>3, <2>1, <3>1 DEF PhaseInv
  <2>3. ca[r].cert.notAfter >= now'
    <3>1. now' <= CADue(r)
      BY <1>0, <1>1, <1>3, <2>1 DEF PhaseInv, CAIdle, CADue
    <3>2. ca[r].cert.notAfter \in Nat
      BY <1>0 DEF TypeOK, Cert
    <3>3. QED
      BY <1>0, <1>1, <3>1, <3>2, Periods DEF CADue
  <2>4. InBundles' = InBundles /\ InHands' = InHands
    BY <1>1 DEF InBundles, InHands, InHand, Certs, Acceptable
  <2>5. Alive(ca[r].cert.serial)'
    <3>1. ASSUME NEW c \in InBundles \cup InHands, c.serial = ca[r].cert.serial
          PROVE  c = ca[r].cert
      <4>1. c \in Known /\ ca[r].cert \in Known
        BY BundlesKnown DEF Known
      <4>2. QED
        BY <1>0, <3>1, <4>1 DEF TrustInv, SerialInv
    <3>2. QED
      BY <1>1, <2>3, <2>4, <3>1 DEF Alive
  <2>6. Covered(r, ca[r].cert.serial)'
    <3>1. MaySign(r)
      BY <1>3, <2>1 DEF MaySign, CAIdle
    <3>2. QED
      BY <1>1, <3>1 DEF CoverInv, Covered, Serials
  <2>7. Good(r, disk[r]["tlsCrt"].issuer)'
    BY <1>1, <2>2, <2>5, <2>6 DEF Good, Covered, Alive
  <2>8. QED
    BY <1>1, <2>3, <2>6, <2>7 DEF CoverInv
<1>4. QED
  BY <1>1, <1>2, <1>3, Places DEF Settled, IsOff, Off, At, Booting, MakingCA, Signing

LEMMA NextCover ==
  ASSUME TrustInv, \A r \in Replicas : RotationInv(r) /\ CoverInv(r), Undisturbed, [Next]_vars
  PROVE  \A r \in Replicas : CoverInv(r)'
<1> SUFFICES ASSUME NEW r \in Replicas PROVE CoverInv(r)'
  OBVIOUS
<1>0. Rotation(r) /\ CoverInv(r) /\ \A q \in Replicas : q = r
  BY DEF Rotation, Undisturbed
<1>1. ASSUME NEW q \in Replicas, NEW g \in Goroutines, GoroutineStep(q, g)
      PROVE  CoverInv(r)'
  BY <1>0, <1>1, GoroutineCover
<1>2. ASSUME NEW q \in Replicas, Boot(q) \/ Cancel(q) \/ CacheSync(q) \/ Crash(q) \/ Replace(q)
      PROVE  CoverInv(r)'
  BY <1>0, <1>2, EnvironmentCover, NotTaken, GoroutineFacts
<1>3. CASE Reapply \/ Tick
  BY <1>0, <1>3, EnvironmentCover, TickCover
<1>4. CASE UNCHANGED vars
  <2>1. UNCHANGED <<now, config, disk, ca, pc, upd, behind>>
    BY <1>4 DEF vars
  <2>2. InBundles' = InBundles /\ InHands' = InHands
    BY <2>1 DEF InBundles, InHands, InHand, Certs, Acceptable
  <2>3. QED
    BY <1>0, <2>1, <2>2 DEF CoverInv, Good, Covered, Alive, Serials, MaySign, HasCA
<1>5. QED
  BY <1>1, <1>2, <1>3, <1>4 DEF Next

\* The certificate that a running replica serves is unexpired, and its issuer is
\* in every CABundle unless the update for that issuer was given up or the chart
\* has wiped it, and no update of the replica has published it since.
THEOREM ServedCertTrustedHolds ==
  ASSUME Undisturbed, RotationsApart
  PROVE  Spec => []ServedCertTrusted
<1> DEFINE I == \A r \in Replicas : RotationInv(r)
           J == \A r \in Replicas : CoverInv(r)
<1>1. Init => J
  BY DEF Init, OffLoops, Goroutines, CoverInv, MaySign, HasCA, Signing
<1>2. TrustInv /\ I /\ J /\ [Next]_vars => J'
  BY NextCover
<1>3. TrustInv /\ I /\ J => ServedCertTrusted
  <2> SUFFICES ASSUME TrustInv, I, J, NEW r \in Replicas, pc[r]["main"] = "run",
                      disk[r]["tlsCrt"].issuer \notin behind[r]
               PROVE  /\ ~Expired(disk[r]["tlsCrt"])
                      /\ \A w \in Webhooks :
                           disk[r]["tlsCrt"].issuer \in Serials(config.bundle[w])
    BY DEF ServedCertTrusted, At
  <2>1. /\ PlaceInv(r) /\ PhaseInv(r) /\ MemoryInv(r) /\ DiskInv(r) /\ CoverInv(r)
        /\ now \in Nat /\ disk[r]["tlsCrt"].notAfter \in Nat /\ tls[r].notAfter \in Nat
    BY DEF RotationInv, TrustInv, VersionInv, TypeOK, Cert, Files
  <2>2. disk[r]["tlsCrt"].notAfter >= now
    <3>1. CASE \E g \in Goroutines : pc[r][g] \in {"tlsKey", "setTLS"}
      <4>1. PICK g \in Goroutines : pc[r][g] \in {"tlsKey", "setTLS"}
        BY <3>1
      <4>2. disk[r]["tlsCrt"].notAfter = now + TLSValidity
        BY <2>1, <4>1 DEF DiskInv, MemoryInv, HoldsTLS
      <4>3. QED
        BY <2>1, <4>2, Periods
    <3>2. CASE \A g \in Goroutines : pc[r][g] \notin {"tlsKey", "setTLS"}
      <4>1. disk[r]["tlsCrt"] = tls[r] /\ now <= TLSDue(r)
        BY <2>1, <3>2 DEF DiskInv, PhaseInv
      <4>2. QED
        BY <2>1, <4>1, Periods DEF TLSDue
    <3>3. QED
      BY <3>1, <3>2
  <2>3. QED
    BY <2>1, <2>2 DEF CoverInv, Good, Covered, Expired
<1> HIDE DEF I, J
<1>4. Spec => []I
  BY RotationInvariant DEF I
<1>5. QED
  BY <1>1, <1>2, <1>3, <1>4, TrustInvariant, PTL DEF Spec
=============================================================================
