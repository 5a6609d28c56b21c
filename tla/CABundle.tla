------------------------------ MODULE CABundle ------------------------------
(***************************************************************************)
(* What the certificate managers of all replicas promise of the CABundles  *)
(* they share, without caches, versions, retries and goroutines: a replica *)
(* adds to all webhooks at once, to each of them one CA of its own, which  *)
(* drops nothing but what has expired; it leaves by taking out one of its  *)
(* own; and one that has left publishes nothing before it joins again.     *)
(***************************************************************************)
EXTENDS Naturals

CONSTANTS Replicas, Webhooks

VARIABLES
  now,     \* the clock
  trusted, \* the CAs that each webhook trusts
  active   \* replicas that have not left

avars == <<now, trusted, active>>

All == UNION {trusted[w] : w \in Webhooks}
Own(r, cs) == {c \in cs : c.serial[1] = r}

Init == now = 0 /\ trusted = [w \in Webhooks |-> {}] /\ active = Replicas

\* The CAs differ between the webhooks when the replica rotates its CA meanwhile.
Publish(r) ==
  /\ r \in active
  /\ \E c \in [Webhooks -> Own(r, All')] :
       trusted' = [w \in Webhooks |-> {d \in trusted[w] : ~(d.notAfter < now)} \cup {c[w]}]
  /\ UNCHANGED <<now, active>>

\* The CA that is taken out may be missing already; a replica that does not learn
\* that it is out has not left.
Leave(r) ==
  /\ r \in active
  /\ active' \in {active, active \ {r}}
  /\ \E D \in {{}} \cup {{c} : c \in Own(r, All)} :
       trusted' = [w \in Webhooks |-> trusted[w] \ D]
  /\ UNCHANGED now

Join(r) == r \notin active /\ active' = active \cup {r} /\ UNCHANGED <<now, trusted>>

\* Someone else empties the CABundles.
Wipe == trusted' = [w \in Webhooks |-> {}] /\ UNCHANGED <<now, active>>

Tick == now' = now + 1 /\ UNCHANGED <<trusted, active>>

Next == Wipe \/ Tick \/ \E r \in Replicas : Publish(r) \/ Leave(r) \/ Join(r)

Spec == Init /\ [][Next]_avars
=============================================================================
