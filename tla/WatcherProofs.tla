--------------------------- MODULE WatcherProofs ---------------------------
(***************************************************************************)
(* Proofs about Watcher, for any number of contents, read errors and start *)
(* errors: two children are never alive at once, and none is left behind   *)
(* by a watcher that has handled its signal.                               *)
(***************************************************************************)
EXTENDS Watcher, TLAPS

\* procLock is held exactly inside the critical sections.
Critical == {"firstStart", "start", "stop", "stopping", "draining"}
InStop == {"stopping", "draining"}
LockInv == \A a \in Actors : pc[a] \in Critical <=> lock = a

\* Only the child of the current Process can be alive or unreaped, and there is
\* no current child while main is about to start one.
ChildInv ==
  /\ \A i \in 1..Len(children) : children[i].state # "reaped" => i = cur
  /\ pc["main"] \in {"boot", "lockStart", "firstStart", "start"} => cur = 0
  /\ pc["main"] \in {"boot", "lockStart", "firstStart"} => Len(children) = 0

\* Wait has been called on the child that is being stopped; when nobody is
\* stopping it any more, a child that was waited for has been reaped.
WaitInv ==
  /\ cur = 0 => ~waited
  /\ \A a \in Actors : pc[a] \in InStop => cur # 0 /\ waited
  /\ waited /\ cur # 0 /\ (\A a \in Actors : pc[a] \notin InStop)
       => children[cur].state = "reaped"

\* Once the signal is handled with a child in place that child stays the
\* current one, and stays waited for: every later Stop fails at once.
SigInv ==
  /\ pc["sig"] \in {"notify", "end"} /\ ~unseen
       => cur # 0 /\ waited /\ pc["main"] \notin InStop
  /\ done => pc["sig"] = "end"
  /\ pc["main"] = "exited" => pc["sig"] = "end" \/ Len(children) = 0

WatcherInv == TypeOK /\ LockInv /\ ChildInv /\ WaitInv /\ SigInv

LEMMA InitInv == Init => WatcherInv
<1> SUFFICES ASSUME Init PROVE WatcherInv
  OBVIOUS
<1> USE BoundAssumption
<1>1. TypeOK
  <2>1. queue \in Seq(Hashes) /\ Len(queue) <= QueueCap /\ children \in Seq(Child)
        /\ cur \in 0..Len(children)
    BY DEF Init, QueueCap
  <2>2. /\ pc \in [Actors -> MainLabels \cup SigLabels]
        /\ pc["main"] \in MainLabels /\ pc["sig"] \in SigLabels
    BY DEF Init, Actors, MainLabels, SigLabels
  <2>3. dir \in 1..MaxVersion /\ currentHash \in Hashes
    BY DEF Init, Hashes, NoHash
  <2>4. hashing \in Hashes \cup {Nothing} /\ lock \in Actors \cup {"free"}
    BY DEF Init
  <2>5. /\ waited \in BOOLEAN /\ done \in BOOLEAN
        /\ readErrors \in Nat /\ startErrors \in Nat
        /\ abandoned \in BOOLEAN /\ unseen \in BOOLEAN
    BY DEF Init
  <2>6. QED
    BY <2>1, <2>2, <2>3, <2>4, <2>5 DEF TypeOK
<1>2. LockInv
  BY DEF Init, LockInv, Critical, Actors
<1>3. ChildInv /\ WaitInv /\ SigInv
  BY DEF Init, ChildInv, WaitInv, SigInv, InStop, Actors
<1>4. QED
  BY <1>1, <1>2, <1>3 DEF WatcherInv

\* A new state of the current child keeps the list of children well typed.
LEMMA SetChildFacts ==
  ASSUME TypeOK, NEW k \in 1..Len(children),
         NEW s \in {"running", "killed", "exited", "reaped"},
         children' = [children EXCEPT ![k].state = s]
  PROVE  /\ children' \in Seq(Child)
         /\ Len(children') = Len(children)
         /\ \A i \in 1..Len(children) :
              children'[i].state = IF i = k THEN s ELSE children[i].state
<1>1. children \in Seq(Child)
  BY DEF TypeOK
<1>2. children[k] \in Child
  BY <1>1
<1>3. [children[k] EXCEPT !.state = s] \in Child
  BY <1>2 DEF Child
<1>4. children' = [children EXCEPT ![k] = [children[k] EXCEPT !.state = s]]
  OBVIOUS
<1>5. children' \in Seq(Child) /\ Len(children') = Len(children)
  BY <1>1, <1>3, <1>4
<1>6. \A i \in 1..Len(children) :
        children'[i] = IF i = k THEN [children[k] EXCEPT !.state = s] ELSE children[i]
  BY <1>1, <1>4
<1>7. [children[k] EXCEPT !.state = s].state = s
  BY <1>2 DEF Child
<1>8. QED
  BY <1>5, <1>6, <1>7

-----------------------------------------------------------------------------
(* What the invariants say to the steps of Stop.                           *)

\* A Stop under way has the lock, a child, and the other actor outside.
LEMMA StopFacts ==
  ASSUME WatcherInv, NEW a \in Actors, pc[a] \in {"stop", "stopping", "draining"}
  PROVE  /\ lock = a
         /\ \A b \in Actors : b # a => pc[b] \notin Critical
         /\ a = "main" => Len(children) >= 0 /\ pc["sig"] \notin InStop
         /\ pc[a] \in InStop => cur \in 1..Len(children) /\ waited
  BY DEF WatcherInv, LockInv, WaitInv, TypeOK, Critical, InStop, Actors

\* The result of Stop: it is nil only when there is no child or it is reaped,
\* and an error only when it is reaped.
LEMMA StopReturnsInv ==
  ASSUME WatcherInv, NEW a \in Actors, NEW ok \in BOOLEAN,
         pc[a] \in {"stop", "stopping", "draining"},
         StopReturns(a, ok),
         cur = 0 \/ (waited /\ children[cur].state = "reaped"), ~ok => cur # 0,
         ok => cur = 0 \/ pc[a] \in InStop,
         UNCHANGED <<dir, hashing, queue, currentHash, children, done, readErrors, startErrors>>
  PROVE  WatcherInv'
<1>1. /\ lock = a
      /\ \A b \in Actors : b # a => pc[b] \notin Critical
  BY StopFacts
<1>2. pc \in [Actors -> MainLabels \cup SigLabels] /\ cur \in 0..Len(children)
      /\ children \in Seq(Child)
  BY DEF WatcherInv, TypeOK
<1>3. CASE a = "sig"
  <2>1. /\ pc' = [pc EXCEPT !["sig"] = "notify"] /\ lock' = "free"
        /\ unseen' = (cur = 0) /\ UNCHANGED <<cur, waited, abandoned>>
    BY <1>3 DEF StopReturns
  <2>2. pc'["sig"] = "notify" /\ pc'["main"] = pc["main"]
    BY <1>2, <2>1 DEF Actors
  <2>3. TypeOK'
    BY <1>2, <2>1, <2>2 DEF WatcherInv, TypeOK, Actors, SigLabels
  <2>4. LockInv'
    BY <1>1, <1>3, <2>1, <2>2 DEF LockInv, Critical, Actors
  <2>5. ChildInv'
    BY <2>1, <2>2 DEF WatcherInv, ChildInv
  <2>6. WaitInv'
    BY <1>1, <1>3, <2>1, <2>2 DEF WatcherInv, WaitInv, InStop, Critical, Actors
  <2>7. SigInv'
    BY <1>1, <1>3, <2>1, <2>2 DEF WatcherInv, SigInv, InStop, Critical, Actors
  <2>8. QED
    BY <2>3, <2>4, <2>5, <2>6, <2>7 DEF WatcherInv
<1>4. CASE a = "main" /\ ok
  <2>1. /\ pc' = [pc EXCEPT !["main"] = "start"] /\ cur' = 0 /\ waited' = FALSE
        /\ UNCHANGED <<lock, abandoned, unseen>>
    BY <1>4 DEF StopReturns
  <2>2. pc'["main"] = "start" /\ pc'["sig"] = pc["sig"]
    BY <1>2, <2>1 DEF Actors
  <2>3. TypeOK'
    <3>1. cur' \in 0..Len(children')
      BY <1>2, <2>1
    <3>2. pc' \in [Actors -> MainLabels \cup SigLabels]
      BY <1>2, <2>1 DEF MainLabels, Actors
    <3>3. pc'["main"] \in MainLabels
      BY <2>2 DEF MainLabels
    <3>4. QED
      BY <3>1, <3>2, <3>3, <2>1, <2>2 DEF WatcherInv, TypeOK
  <2>4. LockInv'
    BY <1>1, <1>4, <2>1, <2>2 DEF WatcherInv, LockInv, Critical, Actors
  <2>5. ChildInv'
    BY <1>2, <2>1, <2>2 DEF WatcherInv, ChildInv
  <2>6. WaitInv'
    BY <1>1, <1>4, <2>1, <2>2 DEF WatcherInv, WaitInv, InStop, Critical, Actors
  <2>7. SigInv'
    BY <1>1, <1>4, <2>1, <2>2 DEF WatcherInv, SigInv, InStop
  <2>8. QED
    BY <2>3, <2>4, <2>5, <2>6, <2>7 DEF WatcherInv
<1>5. CASE a = "main" /\ ~ok
  <2>1. /\ pc' = [pc EXCEPT !["main"] = "monitor"] /\ lock' = "free"
        /\ abandoned' = TRUE /\ UNCHANGED <<cur, waited, unseen>>
    BY <1>5 DEF StopReturns
  <2>2. pc'["main"] = "monitor" /\ pc'["sig"] = pc["sig"]
    BY <1>2, <2>1 DEF Actors
  <2>3. TypeOK'
    BY <1>2, <2>1, <2>2 DEF WatcherInv, TypeOK, Actors, MainLabels
  <2>4. LockInv'
    BY <1>1, <1>5, <2>1, <2>2 DEF LockInv, Critical, Actors
  <2>5. ChildInv'
    BY <2>1, <2>2 DEF WatcherInv, ChildInv
  <2>6. WaitInv'
    BY <1>1, <1>5, <2>1, <2>2 DEF WatcherInv, WaitInv, InStop, Critical, Actors
  <2>7. SigInv'
    BY <2>1, <2>2 DEF WatcherInv, SigInv, InStop
  <2>8. QED
    BY <2>3, <2>4, <2>5, <2>6, <2>7 DEF WatcherInv
<1>6. QED
  BY <1>3, <1>4, <1>5 DEF Actors

-----------------------------------------------------------------------------
(* One lemma per group of actions.                                         *)

\* The producer and the directory touch nothing the invariant relates.
LEMMA ProducerInv ==
  ASSUME WatcherInv, HashTick \/ HashSend \/ ChangeDir
  PROVE  WatcherInv'
<1> USE BoundAssumption
<1>1. UNCHANGED <<currentHash, pc, lock, children, cur, waited, done, startErrors,
                  abandoned, unseen>>
  BY DEF HashTick, HashSend, ChangeDir
<1>2. dir' \in 1..MaxVersion
  BY DEF HashTick, HashSend, ChangeDir, WatcherInv, TypeOK
<1>3. hashing' \in Hashes \cup {Nothing}
  BY DEF HashTick, HashSend, ChangeDir, WatcherInv, TypeOK
<1>4. queue' \in Seq(Hashes) /\ Len(queue') <= QueueCap
  <2>1. CASE HashSend
    <3>1. hashing \in Hashes /\ queue \in Seq(Hashes) /\ queue' = Append(queue, hashing)
          /\ Len(queue) < QueueCap
      BY <2>1 DEF HashSend, WatcherInv, TypeOK
    <3>2. QED
      BY <3>1 DEF QueueCap
  <2>2. CASE HashTick \/ ChangeDir
    BY <2>2 DEF HashTick, ChangeDir, WatcherInv, TypeOK
  <2>3. QED
    BY <2>1, <2>2
<1>5. readErrors' \in Nat
  BY DEF HashTick, HashSend, ChangeDir, getTotalHash, WatcherInv, TypeOK
<1>6. TypeOK'
  BY <1>1, <1>2, <1>3, <1>4, <1>5 DEF WatcherInv, TypeOK
<1>7. LockInv' /\ ChildInv' /\ WaitInv' /\ SigInv'
  BY <1>1 DEF WatcherInv, LockInv, ChildInv, WaitInv, SigInv
<1>8. QED
  BY <1>6, <1>7 DEF WatcherInv

\* Boot, the monitor's steps and the signal handler's entry and exit move
\* between labels outside the critical sections.
LEMMA MonitorInv ==
  ASSUME WatcherInv, Boot \/ HashReceived \/ DoneReceived \/ Signal \/ Notify
  PROVE  WatcherInv'
<1>1. UNCHANGED <<dir, hashing, lock, children, cur, waited, startErrors, abandoned, unseen>>
  BY DEF Boot, HashReceived, DoneReceived, Signal, Notify
<1>2. pc \in [Actors -> MainLabels \cup SigLabels] /\ queue \in Seq(Hashes)
  BY DEF WatcherInv, TypeOK
<1>3. \/ /\ pc["main"] = "boot" /\ pc' = [pc EXCEPT !["main"] = "lockStart"]
         /\ done' = done
      \/ /\ pc["main"] = "monitor" /\ done' = done
         /\ pc' = pc \/ pc' = [pc EXCEPT !["main"] = "lockRestart"]
      \/ /\ pc["main"] = "monitor" /\ done /\ done' = FALSE
         /\ pc' = [pc EXCEPT !["main"] = "exited"]
      \/ /\ pc["sig"] = "wait" /\ pc' = [pc EXCEPT !["sig"] = "lockSig"] /\ done' = done
      \/ /\ pc["sig"] = "notify" /\ pc' = [pc EXCEPT !["sig"] = "end"] /\ done' = TRUE
  <2>1. CASE HashReceived
    <3>1. CASE Head(queue) # currentHash
      BY <2>1, <3>1 DEF HashReceived
    <3>2. CASE Head(queue) = currentHash
      BY <2>1, <3>2, <1>2 DEF HashReceived, Actors
    <3>3. QED
      BY <3>1, <3>2
  <2>2. CASE Boot \/ DoneReceived \/ Signal \/ Notify
    BY <2>2 DEF Boot, DoneReceived, Signal, Notify
  <2>3. QED
    BY <2>1, <2>2
<1>4. \/ /\ pc["main"] = "boot" /\ pc'["main"] = "lockStart" /\ pc'["sig"] = pc["sig"]
         /\ done' = done
      \/ /\ pc["main"] = "monitor" /\ done' = done /\ pc'["sig"] = pc["sig"]
         /\ pc'["main"] \in {"monitor", "lockRestart"}
      \/ /\ pc["main"] = "monitor" /\ done /\ done' = FALSE
         /\ pc'["main"] = "exited" /\ pc'["sig"] = pc["sig"]
      \/ /\ pc["sig"] = "wait" /\ pc'["sig"] = "lockSig" /\ done' = done
         /\ pc'["main"] = pc["main"]
      \/ /\ pc["sig"] = "notify" /\ pc'["sig"] = "end" /\ done' = TRUE
         /\ pc'["main"] = pc["main"]
  BY <1>2, <1>3 DEF Actors
<1>5. pc' \in [Actors -> MainLabels \cup SigLabels]
  BY <1>2, <1>3 DEF Actors, MainLabels, SigLabels
<1>6. TypeOK'
  <2>1. pc'["main"] \in MainLabels /\ pc'["sig"] \in SigLabels
    BY <1>4 DEF WatcherInv, TypeOK, MainLabels, SigLabels
  <2>2. queue' \in Seq(Hashes) /\ Len(queue') <= QueueCap
    <3>1. CASE HashReceived
      <4>1. queue # <<>> /\ queue' = Tail(queue) /\ Len(queue) <= QueueCap
        BY <3>1 DEF HashReceived, WatcherInv, TypeOK
      <4>2. QED
        BY <4>1, <1>2 DEF QueueCap
    <3>2. CASE Boot \/ DoneReceived \/ Signal \/ Notify
      BY <3>2 DEF Boot, DoneReceived, Signal, Notify, WatcherInv, TypeOK
    <3>3. QED
      BY <3>1, <3>2
  <2>3. currentHash' \in Hashes
    <3>1. CASE HashReceived
      BY <3>1, <1>2 DEF HashReceived
    <3>2. CASE Boot \/ DoneReceived \/ Signal \/ Notify
      BY <3>2 DEF Boot, DoneReceived, Signal, Notify, WatcherInv, TypeOK
    <3>3. QED
      BY <3>1, <3>2
  <2>4. readErrors' \in Nat
    BY DEF Boot, getTotalHash, HashReceived, DoneReceived, Signal, Notify, WatcherInv, TypeOK
  <2>5. done' \in BOOLEAN
    BY <1>4 DEF WatcherInv, TypeOK
  <2>6. QED
    BY <1>1, <1>5, <2>1, <2>2, <2>3, <2>4, <2>5 DEF WatcherInv, TypeOK
<1>7. LockInv'
  BY <1>1, <1>4 DEF WatcherInv, LockInv, Critical, Actors
<1>8. ChildInv'
  BY <1>1, <1>4 DEF WatcherInv, ChildInv
<1>9. WaitInv'
  BY <1>1, <1>4 DEF WatcherInv, WaitInv, InStop, Actors
<1>10. SigInv'
  BY <1>1, <1>4 DEF WatcherInv, SigInv, InStop
<1>11. QED
  BY <1>6, <1>7, <1>8, <1>9, <1>10 DEF WatcherInv

\* Taking procLock.
LEMMA LockStepInv ==
  ASSUME WatcherInv, NEW a \in Actors, Lock(a)
  PROVE  WatcherInv'
<1>1. /\ lock = "free" /\ lock' = a /\ pc' = [pc EXCEPT ![a] = AfterLock(pc[a])]
      /\ pc[a] \in {"lockStart", "lockRestart", "lockSig"}
      /\ UNCHANGED <<dir, hashing, queue, currentHash, children, cur, waited, done,
                     readErrors, startErrors, abandoned, unseen>>
  BY DEF Lock, Free
<1>2. pc \in [Actors -> MainLabels \cup SigLabels]
  BY DEF WatcherInv, TypeOK
<1>3. /\ pc'[a] = IF pc[a] = "lockStart" THEN "firstStart" ELSE "stop"
      /\ \A b \in Actors : b # a => pc'[b] = pc[b]
  BY <1>1, <1>2 DEF AfterLock
<1>4. \/ a = "main" /\ pc[a] = "lockStart" /\ pc'["main"] = "firstStart"
      \/ a = "main" /\ pc[a] = "lockRestart" /\ pc'["main"] = "stop"
      \/ a = "sig" /\ pc[a] = "lockSig" /\ pc'["sig"] = "stop"
  BY <1>1, <1>3 DEF WatcherInv, TypeOK, Actors, MainLabels, SigLabels
<1>5. TypeOK'
  <2>1. pc' \in [Actors -> MainLabels \cup SigLabels]
    BY <1>1, <1>2 DEF AfterLock, MainLabels
  <2>2. pc'["main"] \in MainLabels /\ pc'["sig"] \in SigLabels
    BY <1>3, <1>4 DEF WatcherInv, TypeOK, Actors, MainLabels, SigLabels
  <2>3. QED
    BY <1>1, <2>1, <2>2 DEF WatcherInv, TypeOK
<1>6. LockInv'
  BY <1>1, <1>3, <1>4 DEF WatcherInv, LockInv, Critical, Actors
<1>7. ChildInv'
  BY <1>1, <1>3, <1>4 DEF WatcherInv, ChildInv, Actors
<1>8. WaitInv'
  BY <1>1, <1>3, <1>4 DEF WatcherInv, WaitInv, InStop, Actors
<1>9. SigInv'
  BY <1>1, <1>3, <1>4 DEF WatcherInv, SigInv, InStop, Actors
<1>10. QED
  BY <1>5, <1>6, <1>7, <1>8, <1>9 DEF WatcherInv

\* Starting a child: there is no current child, so every earlier one is reaped.
LEMMA StartInv ==
  ASSUME WatcherInv, Start
  PROVE  WatcherInv'
<1>1. /\ lock = "main" /\ cur = 0 /\ ~waited
      /\ pc["sig"] \notin Critical
      /\ pc["sig"] \in {"notify", "end"} => unseen
  BY DEF Start, WatcherInv, LockInv, ChildInv, WaitInv, SigInv, Critical, Actors
<1>2. pc \in [Actors -> MainLabels \cup SigLabels] /\ children \in Seq(Child)
      /\ dir \in 1..MaxVersion
  BY DEF WatcherInv, TypeOK
<1>3. \A i \in 1..Len(children) : children[i].state = "reaped"
  BY <1>1, <1>2 DEF WatcherInv, ChildInv
<1>4. lock' = "free" /\ UNCHANGED <<dir, hashing, queue, currentHash, waited, done,
                                   readErrors, abandoned, unseen>>
  BY DEF Start
<1>5. CASE /\ children' = Append(children, [state |-> "running", conf |-> dir])
           /\ cur' = Len(children) + 1
           /\ pc' = [pc EXCEPT !["main"] = "monitor"]
           /\ UNCHANGED startErrors
  <2> DEFINE new == [state |-> "running", conf |-> dir]
  <2>1. new \in Child
    BY <1>2 DEF Child
  <2>2. /\ children' \in Seq(Child) /\ Len(children') = Len(children) + 1
        /\ children'[Len(children) + 1] = new
        /\ \A i \in 1..Len(children) : children'[i] = children[i]
    <3> HIDE DEF new
    <3>1. children' = Append(children, new)
      BY <1>5 DEF new
    <3>2. QED
      BY <3>1, <2>1, <1>2
  <2>3. pc'["main"] = "monitor" /\ pc'["sig"] = pc["sig"]
        /\ pc' \in [Actors -> MainLabels \cup SigLabels]
    BY <1>2, <1>5 DEF Actors, MainLabels
  <2>4. cur' \in 0..Len(children') /\ cur' # 0
    BY <1>2, <1>5, <2>2
  <2>5. TypeOK'
    BY <1>4, <1>5, <2>2, <2>3, <2>4 DEF WatcherInv, TypeOK, Actors, MainLabels
  <2>6. LockInv'
    BY <1>1, <1>4, <2>3 DEF LockInv, Critical, Actors
  <2>7. ChildInv'
    BY <1>2, <1>3, <1>5, <2>2, <2>3 DEF ChildInv
  <2>8. WaitInv'
    BY <1>1, <1>4, <2>3, <2>4 DEF WaitInv, InStop, Critical, Actors
  <2>9. SigInv'
    BY <1>1, <1>4, <2>3 DEF WatcherInv, SigInv, InStop
  <2>10. QED
    BY <2>5, <2>6, <2>7, <2>8, <2>9 DEF WatcherInv
<1>6. CASE /\ startErrors' = startErrors + 1
           /\ pc' = [pc EXCEPT !["main"] =
                       IF pc["main"] = "start" THEN "monitor" ELSE "exited"]
           /\ UNCHANGED <<children, cur>>
  <2>1. /\ pc'["main"] = IF pc["main"] = "start" THEN "monitor" ELSE "exited"
        /\ pc'["sig"] = pc["sig"]
        /\ pc' \in [Actors -> MainLabels \cup SigLabels]
    BY <1>2, <1>6 DEF Actors, MainLabels
  <2>2. pc["main"] = "start" \/ Len(children) = 0
    BY DEF Start, WatcherInv, ChildInv
  <2>3. TypeOK'
    BY <1>4, <1>6, <2>1 DEF WatcherInv, TypeOK, Actors, MainLabels
  <2>4. LockInv'
    BY <1>1, <1>4, <2>1 DEF LockInv, Critical, Actors
  <2>5. ChildInv'
    BY <1>6, <2>1 DEF WatcherInv, ChildInv
  <2>6. WaitInv'
    BY <1>1, <1>4, <1>6, <2>1 DEF WaitInv, InStop, Critical, Actors
  <2>7. SigInv'
    BY <1>1, <1>4, <1>6, <2>1, <2>2 DEF WatcherInv, SigInv, InStop
  <2>8. QED
    BY <2>3, <2>4, <2>5, <2>6, <2>7 DEF WatcherInv
<1>7. QED
  BY <1>5, <1>6 DEF Start

\* Stop up to its select.
LEMMA StopBeginsInv ==
  ASSUME WatcherInv, NEW a \in Actors, StopBegins(a)
  PROVE  WatcherInv'
<1>1. /\ pc[a] = "stop" /\ pc[a] \in {"stop", "stopping", "draining"}
      /\ UNCHANGED <<dir, hashing, queue, currentHash, children, done, readErrors,
                     startErrors>>
  BY DEF StopBegins
<1>2. /\ lock = a
      /\ \A b \in Actors : b # a => pc[b] \notin Critical
  BY <1>1, StopFacts
<1>3. CASE cur = 0 /\ StopReturns(a, TRUE)
  BY <1>1, <1>3, StopReturnsInv
<1>4. CASE cur # 0 /\ waited /\ StopReturns(a, FALSE)
  <2>1. children[cur].state = "reaped"
    BY <1>1, <1>2, <1>4 DEF WatcherInv, WaitInv, InStop, Critical, Actors
  <2>2. QED
    BY <1>1, <1>4, <2>1, StopReturnsInv
<1>5. CASE /\ cur # 0 /\ ~waited
           /\ waited' = TRUE
           /\ pc' = [pc EXCEPT ![a] = "stopping"]
           /\ UNCHANGED <<lock, cur, abandoned, unseen>>
  <2>1. pc \in [Actors -> MainLabels \cup SigLabels]
    BY DEF WatcherInv, TypeOK
  <2>2. /\ pc'[a] = "stopping" /\ \A b \in Actors : b # a => pc'[b] = pc[b]
        /\ pc' \in [Actors -> MainLabels \cup SigLabels]
    BY <1>5, <2>1 DEF MainLabels
  <2>3. TypeOK'
    BY <1>1, <1>5, <2>2 DEF WatcherInv, TypeOK, Actors, MainLabels, SigLabels
  <2>4. LockInv'
    BY <1>1, <1>2, <1>5, <2>2 DEF WatcherInv, LockInv, Critical, Actors
  <2>5. ChildInv'
    BY <1>1, <1>5, <2>2 DEF WatcherInv, ChildInv, Actors
  <2>6. WaitInv'
    BY <1>1, <1>5, <2>2 DEF WatcherInv, WaitInv, InStop, Actors
  <2>7. SigInv'
    BY <1>1, <1>2, <1>5, <2>2 DEF WatcherInv, SigInv, InStop, Actors
  <2>8. QED
    BY <2>3, <2>4, <2>5, <2>6, <2>7 DEF WatcherInv
<1>6. QED
  BY <1>3, <1>4, <1>5 DEF StopBegins

\* Wait's result arrives.
LEMMA StopWaitedInv ==
  ASSUME WatcherInv, NEW a \in Actors, StopWaited(a)
  PROVE  WatcherInv'
<1>1. /\ pc[a] \in InStop /\ pc[a] \in {"stop", "stopping", "draining"}
      /\ children[cur].state = "reaped" /\ StopReturns(a, TRUE)
      /\ UNCHANGED <<dir, hashing, queue, currentHash, children, done, readErrors,
                     startErrors>>
  BY DEF StopWaited, InStop
<1>2. waited
  BY <1>1, StopFacts
<1>3. QED
  BY <1>1, <1>2, StopReturnsInv

\* A step that only moves the current child's state.  When nobody is stopping a
\* child that was waited for, it keeps its state "reaped".
LEMMA ChildStepInv ==
  ASSUME WatcherInv, NEW k \in 1..Len(children),
         NEW s \in {"running", "killed", "exited", "reaped"},
         children' = [children EXCEPT ![k].state = s],
         s # "reaped" => children[k].state # "reaped",
         UNCHANGED <<dir, hashing, queue, currentHash, pc, lock, cur, waited, done,
                     readErrors, startErrors, abandoned, unseen>>
  PROVE  WatcherInv'
<1>1. /\ children' \in Seq(Child) /\ Len(children') = Len(children)
      /\ \A i \in 1..Len(children) :
           children'[i].state = IF i = k THEN s ELSE children[i].state
  BY SetChildFacts DEF WatcherInv
<1>2. TypeOK'
  BY <1>1 DEF WatcherInv, TypeOK
<1>3. LockInv' /\ SigInv'
  BY <1>1 DEF WatcherInv, LockInv, SigInv
<1>4. ChildInv'
  BY <1>1 DEF WatcherInv, ChildInv
<1>5. WaitInv'
  <2>1. cur # 0 => cur \in 1..Len(children)
    BY DEF WatcherInv, TypeOK
  <2>2. QED
    BY <1>1, <2>1 DEF WatcherInv, WaitInv
<1>6. QED
  BY <1>2, <1>3, <1>4, <1>5 DEF WatcherInv

\* The child exits, or its exit is collected.
LEMMA ChildExitsInv ==
  ASSUME WatcherInv, Reap \/ \E i \in 1..Len(children) : ChildExits(i)
  PROVE  WatcherInv'
<1>1. CASE Reap
  <2>1. cur \in 1..Len(children)
    BY <1>1 DEF Reap, WatcherInv, TypeOK
  <2>2. QED
    BY <1>1, <2>1, ChildStepInv DEF Reap, SetChild
<1>2. ASSUME NEW i \in 1..Len(children), ChildExits(i)
      PROVE  WatcherInv'
  BY <1>2, ChildStepInv DEF ChildExits
<1>3. QED
  BY <1>1, <1>2

\* The termination timeout.
LEMMA StopTimeoutInv ==
  ASSUME WatcherInv, NEW a \in Actors, StopTimeout(a)
  PROVE  WatcherInv'
<1>1. /\ pc[a] = "stopping" /\ pc[a] \in InStop
      /\ pc[a] \in {"stop", "stopping", "draining"}
      /\ UNCHANGED <<dir, hashing, queue, currentHash, done, readErrors, startErrors>>
  BY DEF StopTimeout, InStop
<1>2. /\ lock = a /\ cur \in 1..Len(children) /\ waited
      /\ \A b \in Actors : b # a => pc[b] \notin Critical
  BY <1>1, StopFacts
<1>3. CASE children[cur].state = "reaped" /\ StopReturns(a, FALSE) /\ UNCHANGED children
  <2>1. cur # 0
    BY <1>2
  <2>2. QED
    BY <1>1, <1>2, <1>3, <2>1, StopReturnsInv
<1>4. CASE /\ children[cur].state # "reaped"
           /\ SetChild(IF children[cur].state = "running" THEN "killed"
                       ELSE children[cur].state)
           /\ pc' = [pc EXCEPT ![a] = "draining"]
           /\ UNCHANGED <<lock, cur, waited, abandoned, unseen>>
  <2> DEFINE s == IF children[cur].state = "running" THEN "killed" ELSE children[cur].state
  <2>1. pc \in [Actors -> MainLabels \cup SigLabels] /\ children \in Seq(Child)
    BY DEF WatcherInv, TypeOK
  <2>2. s \in {"running", "killed", "exited", "reaped"} /\ s # "reaped"
    <3>1. children[cur] \in Child
      BY <1>2, <2>1
    <3>2. QED
      BY <3>1, <1>4 DEF Child
  <2>3. /\ children' \in Seq(Child) /\ Len(children') = Len(children)
        /\ \A i \in 1..Len(children) :
             children'[i].state = IF i = cur THEN s ELSE children[i].state
    <3> HIDE DEF s
    <3>1. children' = [children EXCEPT ![cur].state = s]
      BY <1>4 DEF SetChild, s
    <3>2. QED
      BY <1>2, <2>2, <3>1, SetChildFacts DEF WatcherInv
  <2>4. /\ pc'[a] = "draining" /\ \A b \in Actors : b # a => pc'[b] = pc[b]
        /\ pc' \in [Actors -> MainLabels \cup SigLabels]
    BY <1>4, <2>1 DEF MainLabels
  <2> HIDE DEF s
  <2>5. TypeOK'
    BY <1>1, <1>4, <2>3, <2>4 DEF WatcherInv, TypeOK, Actors, MainLabels, SigLabels
  <2>6. LockInv'
    BY <1>1, <1>2, <1>4, <2>4 DEF WatcherInv, LockInv, Critical, Actors
  <2>7. ChildInv'
    BY <1>1, <1>2, <1>4, <2>2, <2>3, <2>4 DEF WatcherInv, ChildInv, Actors
  <2>8. WaitInv'
    BY <1>1, <1>2, <1>4, <2>4 DEF WatcherInv, WaitInv, InStop, Actors
  <2>9. SigInv'
    BY <1>1, <1>2, <1>4, <2>3, <2>4 DEF WatcherInv, SigInv, InStop, Actors
  <2>10. QED
    BY <2>5, <2>6, <2>7, <2>8, <2>9 DEF WatcherInv
<1>5. QED
  BY <1>3, <1>4 DEF StopTimeout

-----------------------------------------------------------------------------
(* The theorems.                                                           *)

\* WatcherInv is an invariant of the watcher.
LEMMA WatcherInvariant == Spec => []WatcherInv
<1>1. WatcherInv /\ [Next]_vars => WatcherInv'
  <2> SUFFICES ASSUME WatcherInv, [Next]_vars PROVE WatcherInv'
    OBVIOUS
  <2>1. CASE HashTick \/ HashSend \/ ChangeDir
    BY <2>1, ProducerInv
  <2>2. CASE Boot \/ HashReceived \/ DoneReceived \/ Signal \/ Notify
    BY <2>2, MonitorInv
  <2>3. CASE Start
    BY <2>3, StartInv
  <2>4. ASSUME NEW a \in Actors, Lock(a) \/ StopBegins(a) \/ StopWaited(a) \/ StopTimeout(a)
        PROVE  WatcherInv'
    BY <2>4, LockStepInv, StopBeginsInv, StopWaitedInv, StopTimeoutInv
  <2>5. CASE Reap \/ \E i \in 1..Len(children) : ChildExits(i)
    BY <2>5, ChildExitsInv
  <2>6. CASE UNCHANGED vars
    BY <2>6 DEF vars, WatcherInv, TypeOK, LockInv, ChildInv, WaitInv, SigInv
  <2>7. QED
    BY <2>1, <2>2, <2>3, <2>4, <2>5, <2>6 DEF Next
<1>2. QED
  BY InitInv, <1>1, PTL DEF Spec

\* Two children are never alive at once: both would be the current one.
THEOREM AtMostOneChildHolds == Spec => []AtMostOneChild
<1>1. WatcherInv => AtMostOneChild
  BY DEF WatcherInv, ChildInv, AtMostOneChild, Alive
<1>2. QED
  BY <1>1, WatcherInvariant, PTL

\* A watcher that has exited leaves no child alive, unless its signal came
\* while there was no child: the child the handler stopped is the current one
\* for ever after, waited for and reaped.
THEOREM NoOrphanHolds == Spec => []NoOrphan
<1>1. WatcherInv => NoOrphan
  <2> SUFFICES ASSUME WatcherInv, pc["main"] = "exited", ~unseen,
                      NEW i \in 1..Len(children)
               PROVE  ~Alive(i)
    BY DEF NoOrphan
  <2>1. children \in Seq(Child)
    BY DEF WatcherInv, TypeOK
  <2>2. pc["sig"] = "end"
    BY <2>1 DEF WatcherInv, SigInv
  <2>3. children[cur].state = "reaped"
    BY <2>2 DEF WatcherInv, SigInv, WaitInv, InStop, Actors
  <2>4. QED
    BY <2>3 DEF WatcherInv, ChildInv, Alive
<1>2. QED
  BY <1>1, WatcherInvariant, PTL
\* Type correctness.
THEOREM TypeCorrect == Spec => []TypeOK
<1>1. WatcherInv => TypeOK
  BY DEF WatcherInv
<1>2. QED
  BY <1>1, WatcherInvariant, PTL

-----------------------------------------------------------------------------
(* Every step is a step of Supervisor, or none.                            *)

\* Nothing that Supervisor sees changes while the children's states stay on
\* their side of the line between alive and dead.
LEMMA StutterStep ==
  ASSUME UNCHANGED <<dir, Up, pc["sig"] # "wait", Len(children), Living>>
  PROVE  UNCHANGED Sup!avars
  BY DEF Sup!avars

LEMMA LivingKept ==
  ASSUME Len(children') = Len(children),
         \A i \in 1..Len(children) :
           (Alive(i)' <=> Alive(i)) /\ children'[i].conf = children[i].conf
  PROVE  Living' = Living
  BY DEF Living

\* The states of the children change at k only.
LEMMA SetChildConf ==
  ASSUME TypeOK, NEW k \in 1..Len(children),
         NEW s \in {"running", "killed", "exited", "reaped"},
         children' = [children EXCEPT ![k].state = s]
  PROVE  \A i \in 1..Len(children) : children'[i].conf = children[i].conf
<1>1. children \in Seq(Child) /\ children[k] \in Child
  BY DEF TypeOK
<1>2. children' = [children EXCEPT ![k] = [children[k] EXCEPT !.state = s]]
  OBVIOUS
<1>3. [children[k] EXCEPT !.state = s].conf = children[k].conf
  BY <1>1 DEF Child
<1>4. QED
  BY <1>1, <1>2, <1>3

\* No child is alive exactly when Living is empty.
LEMMA LivingEmpty ==
  Living = {} <=> \A i \in 1..Len(children) : ~Alive(i)
  BY DEF Living

\* Start: the only child alive is the new one.
LEMMA StartStep ==
  ASSUME WatcherInv, Start
  PROVE  [Sup!Next]_(Sup!avars)
<1>1. children \in Seq(Child) /\ dir \in 1..MaxVersion
      /\ pc \in [Actors -> MainLabels \cup SigLabels]
  BY DEF WatcherInv, TypeOK
<1>2. cur = 0 /\ Up /\ dir' = dir
  BY DEF Start, WatcherInv, ChildInv, Up
<1>3. \A i \in 1..Len(children) : ~Alive(i)
  BY <1>1, <1>2 DEF WatcherInv, ChildInv, Alive
<1>4. Living = {}
  BY <1>3, LivingEmpty
<1>5. CASE /\ children' = Append(children, [state |-> "running", conf |-> dir])
           /\ pc' = [pc EXCEPT !["main"] = "monitor"]
  <2> DEFINE new == [state |-> "running", conf |-> dir]
             n == Len(children)
  <2>1. new \in Child /\ new.state = "running" /\ new.conf = dir
    BY <1>1 DEF Child
  <2>2. n \in Nat /\ Len(children') = n + 1 /\ children'[n + 1] = new
        /\ \A i \in 1..n : children'[i] = children[i]
    <3> HIDE DEF new
    <3>1. children' = Append(children, new)
      BY <1>5 DEF new
    <3>2. QED
      BY <3>1, <2>1, <1>1
  <2> HIDE DEF new
  <2>3. \A i \in 1..Len(children') : Alive(i)' <=> i = n + 1
    BY <1>3, <2>1, <2>2 DEF Alive
  <2>4. Living' = {[child |-> Len(children'), conf |-> dir]}
    BY <2>1, <2>2, <2>3 DEF Living
  <2>5. Up' /\ pc'["sig"] = pc["sig"]
    BY <1>1, <1>5 DEF Up, Actors
  <2>6. Sup!Launch
    BY <1>2, <1>4, <2>2, <2>4, <2>5 DEF Sup!Launch
  <2>7. QED
    BY <2>6 DEF Sup!Next
<1>6. CASE /\ pc' = [pc EXCEPT !["main"] =
                       IF pc["main"] = "start" THEN "monitor" ELSE "exited"]
           /\ UNCHANGED children
  <2>1. /\ pc'["main"] = IF pc["main"] = "start" THEN "monitor" ELSE "exited"
        /\ pc'["sig"] = pc["sig"]
    BY <1>1, <1>6 DEF Actors
  <2>2. Living' = Living
    BY <1>6 DEF Living, Alive
  <2>3. CASE pc["main"] = "start"
    <3>1. Up' = Up
      BY <1>2, <2>1, <2>3 DEF Up
    <3>2. QED
      BY <1>2, <1>6, <2>1, <2>2, <3>1 DEF Sup!avars
  <2>4. CASE pc["main"] # "start"
    <3>1. ~Up'
      BY <2>1, <2>4 DEF Up
    <3>2. Sup!Quit
      BY <1>2, <1>4, <1>6, <2>1, <2>2, <3>1 DEF Sup!Quit
    <3>3. QED
      BY <3>2 DEF Sup!Next
  <2>5. QED
    BY <2>3, <2>4
<1>7. QED
  BY <1>5, <1>6 DEF Start

\* A child that exits is the one that was alive.
LEMMA ChildExitsStep ==
  ASSUME WatcherInv, NEW k \in 1..Len(children), ChildExits(k)
  PROVE  Sup!Die
<1>1. /\ Alive(k) /\ children' = [children EXCEPT ![k].state = "exited"]
      /\ UNCHANGED <<dir, pc>>
  BY DEF ChildExits, Alive
<1>2. /\ Len(children') = Len(children)
      /\ \A i \in 1..Len(children) :
           children'[i].state = IF i = k THEN "exited" ELSE children[i].state
  BY <1>1, SetChildFacts DEF WatcherInv
<1>3. \A i \in 1..Len(children) : Alive(i) => i = cur
  BY DEF WatcherInv, ChildInv, Alive
<1>4. \A i \in 1..Len(children') : ~Alive(i)'
  BY <1>1, <1>2, <1>3 DEF Alive
<1>5. Living' = {}
  BY <1>4 DEF Living
<1>6. Living # {}
  BY <1>1, LivingEmpty
<1>7. Up' = Up
  BY <1>1 DEF Up
<1>8. QED
  BY <1>1, <1>2, <1>5, <1>6, <1>7 DEF Sup!Die

\* The steps of Stop leave a child on its side of the line, and main up.
LEMMA StopReturnsStutters ==
  ASSUME WatcherInv, NEW a \in Actors, NEW ok \in BOOLEAN, Up,
         pc[a] \in {"stop", "stopping", "draining"},
         StopReturns(a, ok), UNCHANGED <<dir, children>>
  PROVE  UNCHANGED Sup!avars
<1>1. pc \in [Actors -> MainLabels \cup SigLabels]
  BY DEF WatcherInv, TypeOK
<1>2. \/ a = "sig" /\ pc' = [pc EXCEPT !["sig"] = "notify"]
      \/ a = "main" /\ pc' = [pc EXCEPT !["main"] = "start"]
      \/ a = "main" /\ pc' = [pc EXCEPT !["main"] = "monitor"]
  BY DEF StopReturns
<1>3. (pc'["sig"] # "wait") = (pc["sig"] # "wait") /\ pc'["main"] # "exited"
  BY <1>1, <1>2 DEF Actors, Up
<1>4. Up' = Up /\ Living' = Living
  BY <1>3 DEF Up, Living, Alive
<1>5. QED
  BY <1>3, <1>4, StutterStep

LEMMA StopStutters ==
  ASSUME WatcherInv, NEW a \in Actors,
         Lock(a) \/ StopBegins(a) \/ StopWaited(a) \/ StopTimeout(a)
  PROVE  UNCHANGED Sup!avars
<1>1. Up /\ dir' = dir
  BY DEF Lock, StopBegins, StopWaited, StopTimeout
<1>2. pc \in [Actors -> MainLabels \cup SigLabels] /\ children \in Seq(Child)
  BY DEF WatcherInv, TypeOK
<1>3. ASSUME NEW l, l # "exited", l # "wait", pc[a] # "wait",
             pc' = [pc EXCEPT ![a] = l], Len(children') = Len(children), Living' = Living
      PROVE  UNCHANGED Sup!avars
  <2>1. (pc'["sig"] # "wait") = (pc["sig"] # "wait") /\ pc'["main"] # "exited"
    BY <1>1, <1>2, <1>3 DEF Actors, Up
  <2>2. Up' = Up
    BY <1>1, <2>1 DEF Up
  <2>3. QED
    BY <1>1, <1>3, <2>1, <2>2, StutterStep
<1>4. CASE Lock(a)
  <2>1. /\ pc[a] # "wait" /\ pc' = [pc EXCEPT ![a] = AfterLock(pc[a])]
        /\ children' = children
    BY <1>4 DEF Lock
  <2>2. AfterLock(pc[a]) # "exited" /\ AfterLock(pc[a]) # "wait"
    BY DEF AfterLock
  <2>3. Living' = Living
    BY <2>1 DEF Living, Alive
  <2>4. QED
    BY <2>1, <2>2, <2>3, <1>3
<1>5. CASE StopBegins(a)
  <2>1. pc[a] = "stop" /\ children' = children
    BY <1>5 DEF StopBegins
  <2>2. CASE StopReturns(a, TRUE) \/ StopReturns(a, FALSE)
    BY <1>1, <2>1, <2>2, StopReturnsStutters
  <2>3. CASE pc' = [pc EXCEPT ![a] = "stopping"]
    <3>1. Living' = Living
      BY <2>1 DEF Living, Alive
    <3>2. QED
      BY <2>1, <2>3, <3>1, <1>3
  <2>4. QED
    BY <1>5, <2>2, <2>3 DEF StopBegins
<1>6. CASE StopWaited(a)
  BY <1>1, <1>6, StopReturnsStutters DEF StopWaited
<1>7. CASE StopTimeout(a)
  <2>1. pc[a] = "stopping"
    BY <1>7 DEF StopTimeout
  <2>2. CASE StopReturns(a, FALSE) /\ UNCHANGED children
    BY <1>1, <2>1, <2>2, StopReturnsStutters
  <2>3. CASE /\ children[cur].state # "reaped"
             /\ SetChild(IF children[cur].state = "running" THEN "killed"
                         ELSE children[cur].state)
             /\ pc' = [pc EXCEPT ![a] = "draining"]
    <3> DEFINE s == IF children[cur].state = "running" THEN "killed"
                    ELSE children[cur].state
    <3>1. cur \in 1..Len(children)
      BY <2>1, StopFacts DEF InStop
    <3>2. /\ s \in {"running", "killed", "exited", "reaped"}
          /\ s \in {"running", "killed"} <=> Alive(cur)
      <4>1. children[cur] \in Child
        BY <3>1, <1>2
      <4>2. QED
        BY <4>1, <2>3 DEF Child, Alive
    <3>3. children' = [children EXCEPT ![cur].state = s]
      BY <2>3 DEF SetChild
    <3> HIDE DEF s
    <3>4. /\ Len(children') = Len(children)
          /\ \A i \in 1..Len(children) :
               children'[i].state = IF i = cur THEN s ELSE children[i].state
      BY <3>1, <3>2, <3>3, SetChildFacts DEF WatcherInv
    <3>5. \A i \in 1..Len(children) : children'[i].conf = children[i].conf
      BY <3>1, <3>2, <3>3, SetChildConf DEF WatcherInv
    <3>6. \A i \in 1..Len(children) : Alive(i)' <=> Alive(i)
      BY <3>1, <3>2, <3>4 DEF Alive
    <3>7. Living' = Living
      BY <3>4, <3>5, <3>6, LivingKept
    <3>8. QED
      BY <2>1, <2>3, <3>4, <3>7, <1>3
  <2>4. QED
    BY <1>7, <2>2, <2>3 DEF StopTimeout
<1>8. QED
  BY <1>4, <1>5, <1>6, <1>7

\* Collecting the exit of a dead child.
LEMMA ReapStutters ==
  ASSUME WatcherInv, Reap
  PROVE  UNCHANGED Sup!avars
<1>1. /\ cur \in 1..Len(children) /\ children[cur].state = "exited"
      /\ children' = [children EXCEPT ![cur].state = "reaped"]
      /\ UNCHANGED <<dir, pc>>
  BY DEF Reap, SetChild, WatcherInv, TypeOK
<1>2. /\ Len(children') = Len(children)
      /\ \A i \in 1..Len(children) :
           children'[i].state = IF i = cur THEN "reaped" ELSE children[i].state
  BY <1>1, SetChildFacts DEF WatcherInv
<1>3. \A i \in 1..Len(children) : children'[i].conf = children[i].conf
  BY <1>1, SetChildConf DEF WatcherInv
<1>4. Living' = Living
  <2>1. \A i \in 1..Len(children) : Alive(i)' <=> Alive(i)
    BY <1>1, <1>2 DEF Alive
  <2>2. QED
    BY <1>2, <1>3, <2>1, LivingKept
<1>5. Up' = Up
  BY <1>1 DEF Up
<1>6. QED
  BY <1>1, <1>2, <1>4, <1>5, StutterStep

\* The producer, main outside procLock, and the signal handler.
LEMMA MonitorStep ==
  ASSUME WatcherInv,
         \/ HashTick \/ HashSend \/ ChangeDir
         \/ Boot \/ HashReceived \/ DoneReceived \/ Signal \/ Notify
  PROVE  [Sup!Next]_(Sup!avars)
<1>1. pc \in [Actors -> MainLabels \cup SigLabels] /\ children' = children
  BY DEF WatcherInv, TypeOK, HashTick, HashSend, ChangeDir, Boot, HashReceived,
         DoneReceived, Signal, Notify
<1>2. Living' = Living /\ Len(children') = Len(children)
  BY <1>1 DEF Living, Alive
<1>3. CASE ChangeDir
  <2>1. dir' = dir + 1 /\ pc' = pc
    BY <1>3 DEF ChangeDir
  <2>2. Up' = Up
    BY <2>1 DEF Up
  <2>3. Sup!NewContents
    BY <1>2, <2>1, <2>2 DEF Sup!NewContents
  <2>4. QED
    BY <2>3 DEF Sup!Next
<1>4. CASE DoneReceived
  <2>1. dir' = dir /\ Up /\ ~Up' /\ pc'["sig"] = pc["sig"]
    BY <1>1, <1>4 DEF DoneReceived, Up, Actors
  <2>2. pc["sig"] # "wait"
    BY <1>4 DEF DoneReceived, WatcherInv, SigInv
  <2>3. Sup!Quit
    BY <1>2, <2>1, <2>2 DEF Sup!Quit
  <2>4. QED
    BY <2>3 DEF Sup!Next
<1>5. CASE Signal
  <2>1. /\ dir' = dir /\ Up /\ pc["sig"] = "wait" /\ pc'["sig"] = "lockSig"
        /\ pc'["main"] = pc["main"]
    BY <1>1, <1>5 DEF Signal, Actors
  <2>2. Up' = Up
    BY <2>1 DEF Up
  <2>3. Sup!Ask
    BY <1>2, <2>1, <2>2 DEF Sup!Ask
  <2>4. QED
    BY <2>3 DEF Sup!Next
<1>6. CASE HashTick \/ HashSend \/ Boot \/ HashReceived \/ Notify
  <2>1. /\ dir' = dir
        /\ (pc'["sig"] # "wait") = (pc["sig"] # "wait")
        /\ (pc'["main"] # "exited") = (pc["main"] # "exited")
    BY <1>1, <1>6 DEF HashTick, HashSend, Boot, HashReceived, Notify, Actors
  <2>2. Up' = Up
    BY <2>1 DEF Up
  <2>3. QED
    BY <1>2, <2>1, <2>2, StutterStep
<1>7. QED
  BY <1>3, <1>4, <1>5, <1>6

\* The watcher implements Supervisor.  The lock makes the steps of a restart and
\* of the signal handler exclusive, and WatcherInv says that a child is started
\* only when all the earlier ones are reaped, and that main returns on done only
\* after a signal.
THEOREM SupervisorImplemented == Spec => ImplementsSupervisor
<1>1. Init => Sup!Init
  BY DEF Init, Sup!Init, Living, Alive, Up, Actors
<1>2. WatcherInv /\ [Next]_vars => [Sup!Next]_(Sup!avars)
  <2> SUFFICES ASSUME WatcherInv, [Next]_vars PROVE [Sup!Next]_(Sup!avars)
    OBVIOUS
  <2>1. CASE Start
    BY <2>1, StartStep
  <2>2. CASE \/ HashTick \/ HashSend \/ ChangeDir
             \/ Boot \/ HashReceived \/ DoneReceived \/ Signal \/ Notify
    BY <2>2, MonitorStep
  <2>3. ASSUME NEW a \in Actors, Lock(a) \/ StopBegins(a) \/ StopWaited(a) \/ StopTimeout(a)
        PROVE  UNCHANGED Sup!avars
    BY <2>3, StopStutters
  <2>4. CASE Reap
    BY <2>4, ReapStutters
  <2>5. ASSUME NEW i \in 1..Len(children), ChildExits(i)
        PROVE  Sup!Next
    BY <2>5, ChildExitsStep DEF Sup!Next
  <2>6. CASE UNCHANGED vars
    BY <2>6 DEF vars, Sup!avars, Living, Alive, Up
  <2>7. QED
    BY <2>1, <2>2, <2>3, <2>4, <2>5, <2>6 DEF Next
<1>3. QED
  BY <1>1, <1>2, WatcherInvariant, PTL DEF Spec, Sup!Spec, ImplementsSupervisor
=============================================================================
