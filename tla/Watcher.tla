------------------------------ MODULE Watcher ------------------------------
(***************************************************************************)
(* The kube-rbac-proxy watcher (cmd/watcher, pkg/watcher): it runs a child *)
(* process, hashes a directory every few seconds and restarts the child    *)
(* when the hash changes.  Three goroutines share the process variable     *)
(* under procLock: main (monitorHashChanges), the signal handler, and the  *)
(* hash producer, which only feeds a channel of capacity two.              *)
(***************************************************************************)
EXTENDS Integers, Sequences

CONSTANTS
  MaxVersion,      \* bound: contents of the directory are versions 1..MaxVersion
  MaxReadErrors,   \* bound on failures to read the directory
  MaxStartErrors   \* bound on failures to start the child

ASSUME BoundAssumption ==
  /\ MaxVersion \in Nat \ {0}
  /\ MaxReadErrors \in Nat
  /\ MaxStartErrors \in Nat

QueueCap == 2      \* capacity of the result channel of RunTotalHashCalc

\* Hashes: one per contents, 0 for the "" of a failed ReadDir, -1 for none.
NoHash == 0
Nothing == -1
Hashes == 0..MaxVersion

\* main and the signal handler are the two that take procLock.
Actors == {"main", "sig"}
Child == [state : {"running", "killed", "exited", "reaped"}, conf : 1..MaxVersion]

VARIABLES
  dir,           \* the contents of the watched directory
  hashing,       \* the hash the producer holds, or Nothing
  queue,         \* the hash channel
  currentHash,   \* monitorHashChanges: the last hash acted on
  pc,            \* program counters of main and the signal handler
  lock,          \* procLock: "free" or the actor that holds it
  children,      \* every child started: its state and the contents it read
  cur,           \* proc.Process: the index of its child, 0 for nil
  waited,        \* Wait has been called on proc
  done,          \* the done channel holds a value
  readErrors, startErrors,
  abandoned,     \* history: a restart was given up because Stop failed
  unseen         \* history: the signal was handled while proc had no child

vars == <<dir, hashing, queue, currentHash, pc, lock, children, cur, waited, done,
          readErrors, startErrors, abandoned, unseen>>

Init ==
  /\ dir = 1
  /\ hashing = Nothing
  /\ queue = <<>>
  /\ currentHash = NoHash
  /\ pc = [a \in Actors |-> IF a = "main" THEN "boot" ELSE "wait"]
  /\ lock = "free"
  /\ children = <<>>
  /\ cur = 0
  /\ waited = FALSE
  /\ done = FALSE
  /\ readErrors = 0
  /\ startErrors = 0
  /\ abandoned = FALSE
  /\ unseen = FALSE

Up == pc["main"] # "exited"

-----------------------------------------------------------------------------
(* The hash producer.                                                      *)

\* getTotalHash: the directory as it is now, or "" when it cannot be read.
getTotalHash(h) ==
  \/ h = dir /\ UNCHANGED readErrors
  \/ /\ h = NoHash
     /\ readErrors < MaxReadErrors
     /\ readErrors' = readErrors + 1

\* RunTotalHashCalc: the ticker fires and the hash is computed.
HashTick ==
  /\ Up /\ pc["main"] # "boot"
  /\ hashing = Nothing
  /\ \E h \in Hashes : getTotalHash(h) /\ hashing' = h
  /\ UNCHANGED <<dir, queue, currentHash, pc, lock, children, cur, waited, done,
                 startErrors, abandoned, unseen>>

\* Mutant: the producer does not wait for room.
HashSendUnbounded ==
  /\ Up
  /\ hashing # Nothing
  /\ queue' = Append(queue, hashing)
  /\ hashing' = Nothing
  /\ UNCHANGED <<dir, currentHash, pc, lock, children, cur, waited, done, readErrors,
                 startErrors, abandoned, unseen>>

\* The send blocks while the channel is full.
HashSend ==
  /\ Up
  /\ hashing # Nothing
  /\ Len(queue) < QueueCap
  /\ queue' = Append(queue, hashing)
  /\ hashing' = Nothing
  /\ UNCHANGED <<dir, currentHash, pc, lock, children, cur, waited, done, readErrors,
                 startErrors, abandoned, unseen>>

-----------------------------------------------------------------------------
(* procLock and the child.                                                 *)

\* procLock.Lock: what its three users do with it.
AfterLock(l) == IF l = "lockStart" THEN "firstStart" ELSE "stop"
Free == lock = "free"

Lock(a) ==
  /\ Up
  /\ pc[a] \in {"lockStart", "lockRestart", "lockSig"}
  /\ Free
  /\ lock' = a
  /\ pc' = [pc EXCEPT ![a] = AfterLock(pc[a])]
  /\ UNCHANGED <<dir, hashing, queue, currentHash, children, cur, waited, done,
                 readErrors, startErrors, abandoned, unseen>>

\* main: the first hash is taken from the channel before the child is started.
Boot ==
  /\ pc["main"] = "boot"
  /\ \E h \in Hashes : getTotalHash(h) /\ currentHash' = h
  /\ pc' = [pc EXCEPT !["main"] = "lockStart"]
  /\ UNCHANGED <<dir, hashing, queue, lock, children, cur, waited, done, startErrors,
                 abandoned, unseen>>

\* Start: the child reads the directory as it is now.  When the first start
\* fails main returns, when a restart fails it goes on without a child.
Start ==
  /\ pc["main"] \in {"firstStart", "start"}
  /\ lock' = "free"
  /\ \/ /\ children' = Append(children, [state |-> "running", conf |-> dir])
        /\ cur' = Len(children) + 1
        /\ pc' = [pc EXCEPT !["main"] = "monitor"]
        /\ UNCHANGED startErrors
     \/ /\ startErrors < MaxStartErrors
        /\ startErrors' = startErrors + 1
        /\ pc' = [pc EXCEPT !["main"] = IF pc["main"] = "start" THEN "monitor" ELSE "exited"]
        /\ UNCHANGED <<children, cur>>
  /\ UNCHANGED <<dir, hashing, queue, currentHash, waited, done, readErrors, abandoned,
                 unseen>>

SetChild(s) == children' = [children EXCEPT ![cur].state = s]

\* Mutant: a restart starts a new child whatever Stop returned.
StopReturnsIgnored(a, ok) ==
  \/ /\ a = "sig"
     /\ pc' = [pc EXCEPT !["sig"] = "notify"]
     /\ lock' = "free"
     /\ unseen' = (cur = 0)
     /\ UNCHANGED <<cur, waited, abandoned>>
  \/ /\ a = "main"
     /\ pc' = [pc EXCEPT !["main"] = "start"]
     /\ cur' = 0
     /\ waited' = FALSE
     /\ UNCHANGED <<lock, abandoned, unseen>>

\* Mutant: the handler, or a restart that gives up, keeps the lock.
StopReturnsLocked(a, ok) ==
  /\ pc' = [pc EXCEPT ![a] = IF a = "sig" THEN "notify" ELSE IF ok THEN "start" ELSE "monitor"]
  /\ UNCHANGED <<cur, waited, lock, abandoned, unseen>>

\* What Stop's caller does with its result: the handler ignores it, a restart
\* makes a new Process and starts it, or returns.
StopReturns(a, ok) ==
  \/ /\ a = "sig"
     /\ pc' = [pc EXCEPT !["sig"] = "notify"]
     /\ lock' = "free"
     /\ unseen' = (cur = 0)
     /\ UNCHANGED <<cur, waited, abandoned>>
  \/ /\ a = "main" /\ ok
     /\ pc' = [pc EXCEPT !["main"] = "start"]
     /\ cur' = 0
     /\ waited' = FALSE
     /\ UNCHANGED <<lock, abandoned, unseen>>
  \/ /\ a = "main" /\ ~ok
     /\ pc' = [pc EXCEPT !["main"] = "monitor"]
     /\ lock' = "free"
     /\ abandoned' = TRUE
     /\ UNCHANGED <<cur, waited, unseen>>

\* Mutant: Stop does not wait for the child it has signalled.
StopBeginsNoWait(a) ==
  /\ Up
  /\ pc[a] = "stop"
  /\ StopReturns(a, TRUE)
  /\ UNCHANGED <<dir, hashing, queue, currentHash, children, done, readErrors,
                 startErrors>>

\* Stop up to its select: SIGINT, then Wait in a goroutine of its own.  A second
\* Wait returns an error at once.
StopBegins(a) ==
  /\ Up
  /\ pc[a] = "stop"
  /\ \/ cur = 0 /\ StopReturns(a, TRUE)
     \/ cur # 0 /\ waited /\ StopReturns(a, FALSE)
     \/ /\ cur # 0 /\ ~waited
        /\ waited' = TRUE
        /\ pc' = [pc EXCEPT ![a] = "stopping"]
        /\ UNCHANGED <<lock, cur, abandoned, unseen>>
  /\ UNCHANGED <<dir, hashing, queue, currentHash, children, done, readErrors,
                 startErrors>>

\* Stop: Wait's result arrives, in the select or after the SIGKILL.
StopWaited(a) ==
  /\ Up
  /\ pc[a] \in {"stopping", "draining"}
  /\ children[cur].state = "reaped"
  /\ StopReturns(a, TRUE)
  /\ UNCHANGED <<dir, hashing, queue, currentHash, children, done, readErrors,
                 startErrors>>

\* Stop: the termination timeout.  Kill fails on a process Wait has reaped.
StopTimeout(a) ==
  /\ Up
  /\ pc[a] = "stopping"
  /\ \/ /\ children[cur].state = "reaped"
        /\ StopReturns(a, FALSE)
        /\ UNCHANGED children
     \/ /\ children[cur].state # "reaped"
        /\ SetChild(IF children[cur].state = "running" THEN "killed"
                    ELSE children[cur].state)
        /\ pc' = [pc EXCEPT ![a] = "draining"]
        /\ UNCHANGED <<lock, cur, waited, abandoned, unseen>>
  /\ UNCHANGED <<dir, hashing, queue, currentHash, done, readErrors, startErrors>>

\* The goroutine in Wait collects the child's exit.
Reap ==
  /\ Up
  /\ waited /\ cur # 0
  /\ children[cur].state = "exited"
  /\ SetChild("reaped")
  /\ UNCHANGED <<dir, hashing, queue, currentHash, pc, lock, cur, waited, done,
                 readErrors, startErrors, abandoned, unseen>>

-----------------------------------------------------------------------------
(* monitorHashChanges and handleSignals.                                   *)

\* Mutant: the new hash is stored before it is compared.
HashReceivedStored ==
  /\ pc["main"] = "monitor"
  /\ queue # <<>>
  /\ queue' = Tail(queue)
  /\ currentHash' = Head(queue)
  /\ pc' = [pc EXCEPT !["main"] = IF Head(queue) # currentHash' THEN "lockRestart" ELSE @]
  /\ UNCHANGED <<dir, hashing, lock, children, cur, waited, done, readErrors,
                 startErrors, abandoned, unseen>>

\* case h := <-hash
HashReceived ==
  /\ pc["main"] = "monitor"
  /\ queue # <<>>
  /\ queue' = Tail(queue)
  /\ currentHash' = Head(queue)
  /\ pc' = [pc EXCEPT !["main"] = IF Head(queue) # currentHash THEN "lockRestart" ELSE @]
  /\ UNCHANGED <<dir, hashing, lock, children, cur, waited, done, readErrors,
                 startErrors, abandoned, unseen>>

\* case <-done: main returns and the process ends.
DoneReceived ==
  /\ pc["main"] = "monitor"
  /\ done
  /\ done' = FALSE
  /\ pc' = [pc EXCEPT !["main"] = "exited"]
  /\ UNCHANGED <<dir, hashing, queue, currentHash, lock, children, cur, waited,
                 readErrors, startErrors, abandoned, unseen>>

\* SIGINT or SIGTERM: handleSignals takes the first one.
Signal ==
  /\ Up
  /\ pc["sig"] = "wait"
  /\ pc' = [pc EXCEPT !["sig"] = "lockSig"]
  /\ UNCHANGED <<dir, hashing, queue, currentHash, lock, children, cur, waited, done,
                 readErrors, startErrors, abandoned, unseen>>

\* done <- true, after procLock is released.
Notify ==
  /\ Up
  /\ pc["sig"] = "notify"
  /\ done' = TRUE
  /\ pc' = [pc EXCEPT !["sig"] = "end"]
  /\ UNCHANGED <<dir, hashing, queue, currentHash, lock, children, cur, waited,
                 readErrors, startErrors, abandoned, unseen>>

-----------------------------------------------------------------------------
(* The environment.                                                        *)

\* New contents are mounted.
ChangeDir ==
  /\ dir < MaxVersion
  /\ dir' = dir + 1
  /\ UNCHANGED <<hashing, queue, currentHash, pc, lock, children, cur, waited, done,
                 readErrors, startErrors, abandoned, unseen>>

\* The child ends: by itself, on SIGINT, or killed.
ChildExits(i) ==
  /\ children[i].state \in {"running", "killed"}
  /\ children' = [children EXCEPT ![i].state = "exited"]
  /\ UNCHANGED <<dir, hashing, queue, currentHash, pc, lock, cur, waited, done,
                 readErrors, startErrors, abandoned, unseen>>

-----------------------------------------------------------------------------
Next ==
  \/ HashTick \/ HashSend \/ Boot \/ Start
  \/ \E a \in Actors : Lock(a) \/ StopBegins(a) \/ StopWaited(a) \/ StopTimeout(a)
  \/ Reap \/ HashReceived \/ DoneReceived \/ Signal \/ Notify
  \/ ChangeDir
  \/ \E i \in 1..Len(children) : ChildExits(i)

Spec == Init /\ [][Next]_vars

\* Goroutines that can run do run, timers fire, and a select with several ready
\* cases chooses uniformly, so done is not passed over for ever.  No fairness
\* for what the environment may do: signals, new contents, a child that exits
\* by itself or heeds SIGINT.  SIGKILL does end a child.
Fairness ==
  /\ WF_vars(HashTick) /\ WF_vars(HashSend)
  /\ WF_vars(Boot) /\ WF_vars(Start)
  /\ WF_vars(HashReceived) /\ SF_vars(DoneReceived)
  /\ WF_vars(Notify) /\ WF_vars(Reap)
  /\ \A a \in Actors :
       /\ WF_vars(Lock(a)) /\ WF_vars(StopBegins(a))
       /\ WF_vars(StopWaited(a)) /\ WF_vars(StopTimeout(a))
  /\ WF_vars(cur # 0 /\ children[cur].state = "killed" /\ ChildExits(cur))

FairSpec == Spec /\ Fairness

-----------------------------------------------------------------------------
(* Properties.                                                             *)

MainLabels == {"boot", "lockStart", "firstStart", "monitor", "lockRestart", "stop",
               "stopping", "draining", "start", "exited"}
SigLabels == {"wait", "lockSig", "stop", "stopping", "draining", "notify", "end"}

\* Type invariant.
TypeOK ==
  /\ dir \in 1..MaxVersion
  /\ hashing \in Hashes \cup {Nothing}
  /\ queue \in Seq(Hashes) /\ Len(queue) <= QueueCap
  /\ currentHash \in Hashes
  /\ pc \in [Actors -> MainLabels \cup SigLabels]
  /\ pc["main"] \in MainLabels /\ pc["sig"] \in SigLabels
  /\ lock \in Actors \cup {"free"}
  /\ children \in Seq(Child)
  /\ cur \in 0..Len(children)
  /\ waited \in BOOLEAN /\ done \in BOOLEAN
  /\ readErrors \in Nat /\ startErrors \in Nat
  /\ abandoned \in BOOLEAN /\ unseen \in BOOLEAN

Alive(i) == children[i].state \in {"running", "killed"}

\* Restarts and the signal handler, each stopping and waiting under procLock,
\* never leave two children alive at once.
AtMostOneChild ==
  \A i, j \in 1..Len(children) : Alive(i) /\ Alive(j) => i = j

\* The watcher does not outlive its duty: when it has exited no child is left
\* running, whatever restart was under way when the signal came, unless the
\* signal was handled while there was no child to stop.
NoOrphan ==
  pc["main"] = "exited" /\ ~unseen => \A i \in 1..Len(children) : ~Alive(i)

\* New contents are noticed: a child is started with them, or the contents
\* change again, the watcher exits, a start fails, or a restart was given up
\* because Stop returned an error.
NewConfigServed ==
  \A v \in 1..MaxVersion :
    (dir = v /\ pc["main"] = "monitor") ~>
      \/ \E i \in 1..Len(children) : children[i].conf = v
      \/ dir # v \/ ~Up \/ startErrors > 0 \/ abandoned

\* The children alive, as Supervisor sees them.
Living == {[child |-> i, conf |-> children[i].conf] : i \in {j \in 1..Len(children) : Alive(j)}}

Sup == INSTANCE Supervisor WITH
  want <- dir, launched <- Len(children), living <- Living,
  asked <- pc["sig"] # "wait", up <- Up

\* A signal ends the watcher: the handler, a restart that holds or waits for
\* the lock, and the full hash channel never wait for each other.
SignalEndsWatcher == Sup!EndsWhenAsked

\* Every step of the three goroutines, with their lock, channel and timeouts, is
\* a step of Supervisor or none: restarts, signals and failures in any order look
\* like a supervisor of one child that ends when told to, or without a child.
ImplementsSupervisor == Sup!Spec
=============================================================================
