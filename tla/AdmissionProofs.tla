--------------------------- MODULE AdmissionProofs ---------------------------
(***************************************************************************)
(* Proofs about module Admission, for any configurations, labels, VPAs,    *)
(* other webhooks and changes.                                             *)
(***************************************************************************)
EXTENDS Admission, FiniteSetTheorems, SequenceTheorems, WellFoundedInduction, TLAPS

-----------------------------------------------------------------------------
(* Sequences: the first element that passes a test, and the containers of a *)
(* pod, whose names differ.                                                 *)

\* A non-empty set of naturals has a smallest element.
LEMMA MinIsLeast ==
  ASSUME NEW I \in SUBSET Nat, I # {}
  PROVE  Min(I) \in I /\ \A i \in I : Min(I) <= i
<1>1. PICK m \in I : \A i \in I : ~(<<i, m>> \in OpToRel(<, Nat))
  BY WFMin, NatLessThanWellFounded
<1>2. \A i \in I : m <= i
  <2> SUFFICES ASSUME NEW i \in I, i < m PROVE FALSE
    OBVIOUS
  <2>1. <<i, m>> \in Nat \X Nat /\ <<i, m>>[1] < <<i, m>>[2]
    OBVIOUS
  <2>2. <<i, m>> \in {ss \in Nat \X Nat : ss[1] < ss[2]}
    BY <2>1
  <2>3. QED
    BY <1>1, <2>2 DEF OpToRel
<1>3. \E x \in I : \A y \in I : x =< y
  BY <1>2
<1>4. QED
  BY <1>3 DEF Min

\* The containers of a pod: a sequence of records with different names.
IsContainer(c) == "name" \in DOMAIN c /\ "args" \in DOMAIN c
Proper(cs) ==
  /\ \E S : cs \in Seq(S)
  /\ \A i \in DOMAIN cs : IsContainer(cs[i])
  /\ \A i, j \in DOMAIN cs : cs[i].name = cs[j].name => i = j

LEMMA AppendContainer ==
  ASSUME NEW cs, Proper(cs), NEW c, IsContainer(c), c.name \notin Names(cs)
  PROVE  /\ Proper(Append(cs, c))
         /\ Names(Append(cs, c)) = Names(cs) \cup {c.name}
         /\ Len(Append(cs, c)) = Len(cs) + 1
         /\ Len(cs) \in Nat /\ DOMAIN cs = 1..Len(cs)
         /\ \A i \in DOMAIN Append(cs, c) :
              Append(cs, c)[i] = c \/ \E j \in DOMAIN cs : Append(cs, c)[i] = cs[j]
<1>1. PICK S : cs \in Seq(S)
  BY DEF Proper
<1>2. cs \in Seq(S \cup {c}) /\ c \in S \cup {c}
  BY <1>1
<1> DEFINE r == Append(cs, c)
<1>3. r \in Seq(S \cup {c}) /\ Len(r) = Len(cs) + 1 /\ Len(cs) \in Nat
  BY <1>2
<1>4. DOMAIN cs = 1..Len(cs) /\ DOMAIN r = 1..(Len(cs) + 1)
  BY <1>2, <1>3
<1>5. r[Len(cs) + 1] = c /\ \A i \in 1..Len(cs) : r[i] = cs[i]
  BY <1>2
<1> HIDE DEF r
<1>6. \A i \in 1..(Len(cs) + 1) : i = Len(cs) + 1 \/ i \in 1..Len(cs)
  BY <1>3
<1>7. Names(r) = Names(cs) \cup {c.name}
  <2>1. Len(cs) + 1 \in DOMAIN r /\ \A i \in 1..Len(cs) : i \in DOMAIN r
    BY <1>3, <1>4
  <2>2. QED
    BY <1>4, <1>5, <1>6, <2>1 DEF Names
<1>8. \A i \in DOMAIN cs : cs[i].name # c.name
  BY DEF Names
<1>9. \A i, j \in DOMAIN r : r[i].name = r[j].name => i = j
  BY <1>4, <1>5, <1>6, <1>8 DEF Proper
<1>10. \A i \in DOMAIN r : IsContainer(r[i])
  BY <1>4, <1>5, <1>6 DEF Proper
<1>11. Proper(r)
  BY <1>3, <1>9, <1>10 DEF Proper
<1>12. \A i \in DOMAIN r : r[i] = c \/ \E j \in DOMAIN cs : r[i] = cs[j]
  BY <1>4, <1>5, <1>6
<1>13. QED
  BY <1>3, <1>4, <1>7, <1>11, <1>12 DEF r

LEMMA RestOf ==
  ASSUME NEW S, NEW s \in Seq(S), NEW m \in Int, 1 <= m, m <= Len(s) + 1
  PROVE  /\ SubSeq(s, m, Len(s)) \in Seq(S)
         /\ Len(SubSeq(s, m, Len(s))) = Len(s) - m + 1
         /\ \A i \in 1..(Len(s) - m + 1) : SubSeq(s, m, Len(s))[i] = s[m + i - 1]
<1>1. PICK n \in Int : n = Len(s)
  OBVIOUS
<1>2. \A i \in m..n : s[i] \in S
  BY <1>1
<1>3. /\ SubSeq(s, m, n) \in Seq(S)
      /\ Len(SubSeq(s, m, n)) = IF m <= n THEN n - m + 1 ELSE 0
      /\ \A i \in 1..(n - m + 1) : SubSeq(s, m, n)[i] = s[m + i - 1]
  BY <1>2, SubSeqProperties
<1>4. QED
  BY <1>1, <1>3

LEMMA RemoveContainer ==
  ASSUME NEW cs, Proper(cs), NEW k \in 1..Len(cs)
  PROVE  /\ Proper(RemoveAt(cs, k))
         /\ Names(RemoveAt(cs, k)) = Names(cs) \ {cs[k].name}
         /\ Len(RemoveAt(cs, k)) = Len(cs) - 1
         /\ \A i \in 1..(Len(cs) - 1) :
              RemoveAt(cs, k)[i] = IF i < k THEN cs[i] ELSE cs[i + 1]
<1>1. PICK S : cs \in Seq(S)
  BY DEF Proper
<1>2. Len(cs) \in Nat /\ DOMAIN cs = 1..Len(cs)
  BY <1>1
<1> DEFINE a == SubSeq(cs, 1, k - 1)
           b == SubSeq(cs, k + 1, Len(cs))
           r == RemoveAt(cs, k)
<1>3. a \in Seq(S) /\ Len(a) = k - 1 /\ \A i \in 1..(k - 1) : a[i] = cs[i]
  BY <1>1, <1>2
<1>4. b \in Seq(S) /\ Len(b) = Len(cs) - k /\ \A i \in 1..(Len(cs) - k) : b[i] = cs[k + i]
  <2>1. PICK m \in Int : m = k + 1
    OBVIOUS
  <2>2. b \in Seq(S) /\ Len(b) = Len(cs) - m + 1
        /\ \A i \in 1..(Len(cs) - m + 1) : b[i] = cs[m + i - 1]
    <3>1. b = SubSeq(cs, m, Len(cs)) /\ 1 <= m /\ m <= Len(cs) + 1
      BY <1>2, <2>1
    <3> HIDE DEF b
    <3>2. QED
      BY <1>1, <3>1, RestOf
  <2>3. Len(cs) - m + 1 = Len(cs) - k /\ \A i \in Int : m + i - 1 = k + i
    BY <1>2, <2>1
  <2> HIDE DEF b
  <2>4. QED
    BY <2>2, <2>3
<1>5. r = a \o b
  BY DEF RemoveAt
<1> HIDE DEF a, b, r
<1>6. r \in Seq(S) /\ Len(r) = Len(cs) - 1
  <2>1. a \o b \in Seq(S) /\ Len(a \o b) = Len(a) + Len(b)
    BY <1>3, <1>4, ConcatProperties, Zenon
  <2>2. QED
    BY <1>2, <1>3, <1>4, <1>5, <2>1
<1>7. DOMAIN r = 1..(Len(cs) - 1)
  BY <1>6
<1>8. \A i \in DOMAIN r : r[i] = IF i < k THEN cs[i] ELSE cs[i + 1]
  <2> SUFFICES ASSUME NEW i \in DOMAIN r PROVE r[i] = IF i < k THEN cs[i] ELSE cs[i + 1]
    OBVIOUS
  <2>1. i \in 1..(Len(cs) - 1)
    BY <1>7
  <2>2. r[i] = IF i <= Len(a) THEN a[i] ELSE b[i - Len(a)]
    BY <1>2, <1>3, <1>4, <1>5, <2>1
  <2>3. CASE i < k
    BY <1>2, <1>3, <2>1, <2>2, <2>3
  <2>4. CASE ~(i < k)
    <3>1. i - (k - 1) \in 1..(Len(cs) - k) /\ k + (i - (k - 1)) = i + 1
      BY <1>2, <2>1, <2>4
    <3>2. r[i] = b[i - (k - 1)]
      BY <1>2, <1>3, <2>1, <2>2, <2>4
    <3>3. QED
      BY <1>4, <2>4, <3>1, <3>2
  <2>5. QED
    BY <2>3, <2>4
<1> DEFINE At(i) == IF i < k THEN i ELSE i + 1
<1>9. \A i \in DOMAIN r : At(i) \in DOMAIN cs /\ At(i) # k /\ r[i] = cs[At(i)]
  BY <1>2, <1>7, <1>8
<1>10. \A i, j \in DOMAIN r : At(i) = At(j) => i = j
  BY <1>2, <1>7
<1>11. \A j \in DOMAIN cs : j # k => \E i \in DOMAIN r : At(i) = j
  <2> SUFFICES ASSUME NEW j \in DOMAIN cs, j # k PROVE \E i \in DOMAIN r : At(i) = j
    OBVIOUS
  <2>1. CASE j < k
    BY <1>2, <1>7, <2>1
  <2>2. CASE j > k
    <3>1. j - 1 \in DOMAIN r /\ At(j - 1) = j
      BY <1>2, <1>7, <2>2
    <3>2. QED
      BY <3>1
  <2>3. QED
    BY <1>2, <2>1, <2>2
<1> HIDE DEF At
<1>12. Proper(r)
  BY <1>6, <1>9, <1>10 DEF Proper
<1>13. Names(r) = Names(cs) \ {cs[k].name}
  BY <1>2, <1>9, <1>11 DEF Proper, Names
<1>14. QED
  BY <1>6, <1>7, <1>8, <1>12, <1>13 DEF r

\* addProxyContainer: the container of that name, or none, is replaced.
LEMMA AddContainer ==
  ASSUME NEW cs, Proper(cs), NEW c, IsContainer(c)
  PROVE  /\ Proper(addProxyContainer(cs, c))
         /\ \A i \in DOMAIN addProxyContainer(cs, c) :
              addProxyContainer(cs, c)[i].name = c.name => addProxyContainer(cs, c)[i] = c
         /\ Names(addProxyContainer(cs, c)) = Names(cs) \cup {c.name}
         /\ Len(addProxyContainer(cs, c)) =
              IF c.name \in Names(cs) THEN Len(cs) ELSE Len(cs) + 1
<1> DEFINE I == {k \in 1..Len(cs) : cs[k].name = c.name}
           i == SelectInSeq(cs, LAMBDA d : d.name = c.name)
<1>1. Len(cs) \in Nat /\ DOMAIN cs = 1..Len(cs)
  BY DEF Proper
<1>2. i = IF I # {} THEN Min(I) ELSE 0
  BY DEF SelectInSeq
<1>3. I # {} <=> c.name \in Names(cs)
  BY <1>1 DEF Names
<1>4. I # {} => i \in 1..Len(cs) /\ cs[i].name = c.name
  <2>1. I \in SUBSET Nat
    OBVIOUS
  <2> HIDE DEF I
  <2>2. I # {} => i \in I
    BY <1>2, <2>1, MinIsLeast
  <2>3. QED
    BY <2>2 DEF I
<1>5. addProxyContainer(cs, c) = Append(IF i = 0 THEN cs ELSE RemoveAt(cs, i), c)
  BY DEF addProxyContainer
<1> HIDE DEF I, i
<1>6. CASE I = {}
  <2>1. i = 0
    BY <1>2, <1>6
  <2>2. addProxyContainer(cs, c) = Append(cs, c) /\ c.name \notin Names(cs)
    BY <1>3, <1>5, <1>6, <2>1
  <2>3. \A j \in DOMAIN cs : cs[j].name # c.name
    BY <2>2 DEF Names
  <2>4. /\ Proper(Append(cs, c)) /\ Names(Append(cs, c)) = Names(cs) \cup {c.name}
        /\ Len(Append(cs, c)) = Len(cs) + 1
        /\ \A k \in DOMAIN Append(cs, c) :
             Append(cs, c)[k] = c \/ \E j \in DOMAIN cs : Append(cs, c)[k] = cs[j]
    BY <2>2, AppendContainer
  <2>5. QED
    BY <2>2, <2>3, <2>4
<1>7. CASE I # {}
  <2>1. i \in 1..Len(cs) /\ i # 0 /\ cs[i].name = c.name
    BY <1>1, <1>4, <1>7
  <2> DEFINE rest == RemoveAt(cs, i)
  <2>2. Proper(rest) /\ Names(rest) = Names(cs) \ {c.name} /\ Len(rest) = Len(cs) - 1
    BY <2>1, RemoveContainer
  <2>3. addProxyContainer(cs, c) = Append(rest, c)
    BY <1>5, <2>1
  <2> HIDE DEF rest
  <2>4. Proper(Append(rest, c)) /\ Names(Append(rest, c)) = (Names(cs) \ {c.name}) \cup {c.name}
        /\ Len(Append(rest, c)) = Len(rest) + 1
        /\ \A k \in DOMAIN Append(rest, c) :
             Append(rest, c)[k] = c \/ \E j \in DOMAIN rest : Append(rest, c)[k] = rest[j]
    BY <2>2, AppendContainer
  <2>5. c.name \in Names(cs) /\ (Names(cs) \ {c.name}) \cup {c.name} = Names(cs) \cup {c.name}
    BY <1>3, <1>7
  <2>6. Len(rest) + 1 = Len(cs)
    BY <1>1, <2>2
  <2>7. \A j \in DOMAIN rest : rest[j].name # c.name
    BY <2>2 DEF Names
  <2>8. QED
    BY <2>3, <2>4, <2>5, <2>6, <2>7
<1>8. QED
  BY <1>6, <1>7

\* The number of different names is the number of containers.
LEMMA NamesCounted ==
  ASSUME NEW cs, Proper(cs)
  PROVE  Cardinality(Names(cs)) = Len(cs)
<1>1. Len(cs) \in Nat /\ DOMAIN cs = 1..Len(cs)
  BY DEF Proper
<1> DEFINE f == [i \in 1..Len(cs) |-> cs[i].name]
<1>2. f \in Bijection(1..Len(cs), Names(cs))
  <2>1. f \in [1..Len(cs) -> Names(cs)]
    BY <1>1 DEF Names
  <2>2. \A i, j \in 1..Len(cs) : f[i] = f[j] => i = j
    BY <1>1 DEF Proper
  <2>3. \A n \in Names(cs) : \E i \in 1..Len(cs) : f[i] = n
    BY <1>1 DEF Names
  <2>4. QED
    <3> HIDE DEF f
    <3> QED
      BY <2>1, <2>2, <2>3 DEF Bijection, Injection, Surjection, IsInjective
<1>3. ExistsBijection(1..Len(cs), Names(cs))
  BY <1>2 DEF ExistsBijection
<1>4. IsFiniteSet(1..Len(cs)) /\ Cardinality(1..Len(cs)) = Len(cs)
  <2>1. 1 \in Int /\ Len(cs) \in Int /\ (IF 1 > Len(cs) THEN 0 ELSE Len(cs) - 1 + 1) = Len(cs)
    BY <1>1
  <2>2. IsFiniteSet(1..Len(cs))
        /\ Cardinality(1..Len(cs)) = IF 1 > Len(cs) THEN 0 ELSE Len(cs) - 1 + 1
    BY <2>1, FS_Interval, Zenon
  <2>3. QED
    BY <2>1, <2>2
<1>5. QED
  BY <1>3, <1>4, FS_Bijection

-----------------------------------------------------------------------------
(* The pod webhook.                                                        *)

\* A pod is a record of these fields, with containers of different names.
IsPod(p) ==
  /\ DOMAIN p = {"kind", "containers", "volumes", "pull", "labelled", "suffix",
                 "host", "checksum", "from"}
  /\ Proper(p.containers)
  /\ Proxies \subseteq DOMAIN p.volumes

\* The configuration that the side-cars of a pod were made from.
RcOf(p) == Resolve(Configs[p.from[1]], p.from[2], Ns)

\* The redirect URL is set in the arguments only.
Redirected(cs, kind, rc) ==
  IF kind # "StatefulSet" THEN cs ELSE [i \in DOMAIN cs |-> SetRedirect(cs[i], rc)]

LEMMA RedirectSet ==
  ASSUME NEW both, Proper(both), NEW kind, NEW rc
  PROVE  /\ Proper(Redirected(both, kind, rc)) /\ Len(Redirected(both, kind, rc)) = Len(both)
         /\ Names(Redirected(both, kind, rc)) = Names(both)
         /\ DOMAIN Redirected(both, kind, rc) = DOMAIN both
         /\ \A i \in DOMAIN both : both[i].name # Oauth2Proxy =>
              Redirected(both, kind, rc)[i] = both[i]
         /\ \A i \in DOMAIN both : Redirected(both, kind, rc)[i].name = both[i].name
<1> DEFINE cs == [i \in DOMAIN both |-> SetRedirect(both[i], rc)]
<1>1. Len(both) \in Nat /\ DOMAIN both = 1..Len(both)
  BY DEF Proper
<1>2. cs \in Seq({SetRedirect(both[i], rc) : i \in DOMAIN both}) /\ Len(cs) = Len(both)
      /\ DOMAIN cs = DOMAIN both
  <2> HIDE DEF cs
  <2> QED
    BY <1>1 DEF cs
<1>3. \A i \in DOMAIN both : /\ IsContainer(cs[i]) /\ cs[i].name = both[i].name
                              /\ (both[i].name # Oauth2Proxy => cs[i] = both[i])
  <2> SUFFICES ASSUME NEW i \in DOMAIN both
               PROVE  /\ IsContainer(cs[i]) /\ cs[i].name = both[i].name
                      /\ (both[i].name # Oauth2Proxy => cs[i] = both[i])
    OBVIOUS
  <2>1. PICK c : c = both[i]
    OBVIOUS
  <2>2. IsContainer(c)
    BY <2>1 DEF Proper
  <2>3. \E args : SetRedirect(c, rc) = c \/ SetRedirect(c, rc) = [c EXCEPT !.args = args]
    BY Zenon DEF SetRedirect
  <2>4. cs[i] = SetRedirect(c, rc)
    BY <2>1
  <2>5. c.name # Oauth2Proxy => SetRedirect(c, rc) = c
    BY Zenon DEF SetRedirect
  <2>6. QED
    BY <2>1, <2>2, <2>3, <2>4, <2>5 DEF IsContainer
<1> HIDE DEF cs
<1>4. Proper(cs)
  BY <1>2, <1>3 DEF Proper
<1>5. Names(cs) = Names(both)
  BY <1>2, <1>3 DEF Names
<1>6. Redirected(both, kind, rc) = both \/ Redirected(both, kind, rc) = cs
  BY DEF Redirected, cs
<1>7. QED
  BY <1>1, <1>2, <1>3, <1>4, <1>5, <1>6

\* The arguments of kube-rbac-proxy.
RbacArgs(rc) ==
  Opt(shallAddKubeConfigSecretName(rc), Flag("kubeconfig"))
    \o Opt(shallAddOidcCaSecretName(rc), Flag("oidc-ca-file"))

\* A call of the webhook for an object that is no target changes nothing; for a
\* target it leaves both side-cars, the checksum and the history of this moment.
LEMMA DefaultedPod ==
  ASSUME NEW p, IsPod(p), isTarget(p)
  PROVE  /\ IsPod(PodDefault(p))
         /\ PodDefault(p).kind = p.kind
         /\ PodDefault(p).checksum = get2ProxySecretChecksum(Rc)
         /\ PodDefault(p).from = Made
         /\ Names(PodDefault(p).containers) = Names(p.containers) \cup Proxies
         /\ Names(p.containers) \cap Proxies = {} =>
              Len(PodDefault(p).containers) = Len(p.containers) + 2
         /\ PodDefault(p).volumes[Oauth2Proxy] =
              Oauth2Sources(p.volumes[Oauth2Proxy], fetchTargetSuffix(seen, Hash), Rc)
         /\ PodDefault(p).volumes[KubeRbacProxy] =
              RbacSources(p.volumes[KubeRbacProxy], fetchTargetSuffix(seen, Hash), Rc)
         /\ \A i \in DOMAIN PodDefault(p).containers :
              PodDefault(p).containers[i].name = KubeRbacProxy =>
                PodDefault(p).containers[i].args = RbacArgs(Rc)
<1>1. PICK c : c = getOIDCProxyContainer(p.containers, Rc)
  OBVIOUS
<1>2. IsContainer(c) /\ c.name = Oauth2Proxy
  BY <1>1 DEF getOIDCProxyContainer, Container, IsContainer
<1>3. PICK one : one = addProxyContainer(p.containers, c)
  OBVIOUS
<1>4. Proper(one) /\ Names(one) = Names(p.containers) \cup {Oauth2Proxy}
      /\ Len(one) = IF Oauth2Proxy \in Names(p.containers) THEN Len(p.containers)
                    ELSE Len(p.containers) + 1
  BY <1>2, <1>3, AddContainer DEF IsPod
<1> DEFINE suffix == fetchTargetSuffix(seen, Hash)
           volumes == [p.volumes EXCEPT ![Oauth2Proxy] = Oauth2Sources(@, suffix, Rc),
                                        ![KubeRbacProxy] = RbacSources(@, suffix, Rc)]
           upstream == buildUpstreamURL(GetUpstreamTarget(Rc), p.containers)
           d == getKubeRbacProxyContainer(one, volumes, upstream, Rc)
           both == addProxyContainer(one, d)
           after == [addPodLabels(addAnnotations(p, Rc)) EXCEPT
                       !.volumes = volumes,
                       !.containers = IF p.kind # "StatefulSet" THEN both
                                      ELSE [i \in DOMAIN both |-> SetRedirect(both[i], Rc)],
                       !.pull = addImagePullSecret(@, Configs[conf].pullSecret),
                       !.from = Made]
<1>5. /\ DOMAIN volumes = DOMAIN p.volumes
      /\ volumes[Oauth2Proxy] = Oauth2Sources(p.volumes[Oauth2Proxy], suffix, Rc)
      /\ volumes[KubeRbacProxy] = RbacSources(p.volumes[KubeRbacProxy], suffix, Rc)
      /\ d = getKubeRbacProxyContainer(one, volumes, upstream, Rc)
      /\ both = addProxyContainer(one, d)
      /\ PodDefault(p) = after
  <2>1. PodDefault(p) = after
    BY <1>1, <1>3, Zenon DEF PodDefault
  <2>2. /\ DOMAIN volumes = DOMAIN p.volumes
        /\ volumes[Oauth2Proxy] = Oauth2Sources(p.volumes[Oauth2Proxy], suffix, Rc)
        /\ volumes[KubeRbacProxy] = RbacSources(p.volumes[KubeRbacProxy], suffix, Rc)
    BY DEF IsPod, Proxies, Oauth2Proxy, KubeRbacProxy
  <2> HIDE DEF volumes, upstream
  <2>3. d = getKubeRbacProxyContainer(one, volumes, upstream, Rc) /\ both = addProxyContainer(one, d)
    OBVIOUS
  <2> HIDE DEF d, both, after
  <2>4. QED
    BY <2>1, <2>2, <2>3
<1> HIDE DEF volumes, upstream, d, both
<1>6. IsContainer(d) /\ d.name = KubeRbacProxy /\ d.args = RbacArgs(Rc)
  BY <1>5 DEF getKubeRbacProxyContainer, Container, IsContainer, RbacArgs
<1>7. Proper(both) /\ Names(both) = Names(one) \cup {KubeRbacProxy}
      /\ (\A i \in DOMAIN both : both[i].name = KubeRbacProxy => both[i] = d)
      /\ Len(both) = IF KubeRbacProxy \in Names(one) THEN Len(one) ELSE Len(one) + 1
  BY <1>4, <1>5, <1>6, AddContainer
<1>8. PICK q : q = addPodLabels(addAnnotations(p, Rc))
  OBVIOUS
<1>9. DOMAIN q = DOMAIN p /\ q.kind = p.kind /\ q.checksum = get2ProxySecretChecksum(Rc)
  BY <1>8 DEF IsPod, addPodLabels, addAnnotations
<1> DEFINE cs == Redirected(both, p.kind, Rc)
           pull == addImagePullSecret(q.pull, Configs[conf].pullSecret)
<1>10. PodDefault(p) = [q EXCEPT !.volumes = volumes, !.containers = cs, !.pull = pull, !.from = Made]
  BY <1>5, <1>8 DEF Redirected
<1>11. /\ Proper(cs) /\ Names(cs) = Names(both) /\ Len(cs) = Len(both)
       /\ DOMAIN cs = DOMAIN both
       /\ \A i \in DOMAIN both : /\ cs[i].name = both[i].name
                                /\ (both[i].name # Oauth2Proxy => cs[i] = both[i])
  BY <1>7, RedirectSet
<1> HIDE DEF cs, pull
<1>12. /\ DOMAIN PodDefault(p) = DOMAIN p
       /\ PodDefault(p).containers = cs /\ PodDefault(p).volumes = volumes
       /\ PodDefault(p).kind = p.kind /\ PodDefault(p).from = Made
       /\ PodDefault(p).checksum = get2ProxySecretChecksum(Rc)
  BY <1>9, <1>10 DEF IsPod
<1>13. IsPod(PodDefault(p))
  BY <1>5, <1>11, <1>12 DEF IsPod
<1>14. Names(cs) = Names(p.containers) \cup Proxies
  BY <1>4, <1>7, <1>11 DEF Proxies
<1>15. Names(p.containers) \cap Proxies = {} => Len(cs) = Len(p.containers) + 2
  <2> HAVE Names(p.containers) \cap Proxies = {}
  <2>1. Oauth2Proxy \notin Names(p.containers) /\ KubeRbacProxy \notin Names(p.containers)
    BY DEF Proxies
  <2>2. KubeRbacProxy \notin Names(one)
    BY <1>4, <2>1 DEF Oauth2Proxy, KubeRbacProxy
  <2>3. Len(cs) = Len(p.containers) + 1 + 1
    BY <1>4, <1>7, <1>11, <2>1, <2>2
  <2>4. Len(p.containers) \in Nat
    BY DEF IsPod, Proper
  <2>5. QED
    BY <2>3, <2>4
<1>16. \A i \in DOMAIN cs : cs[i].name = KubeRbacProxy => cs[i].args = RbacArgs(Rc)
  BY <1>6, <1>7, <1>11 DEF Oauth2Proxy, KubeRbacProxy
<1>17. QED
  BY <1>5, <1>12, <1>13, <1>14, <1>15, <1>16

\* A pod whose checksum is that of the configuration its side-cars were made from.
Sane(p) == IsPod(p) /\ (p.from # <<>> => p.checksum = get2ProxySecretChecksum(RcOf(p)))

LEMMA DefaultSane ==
  ASSUME NEW p, Sane(p)
  PROVE  /\ Sane(PodDefault(p)) /\ PodDefault(p).kind = p.kind
         /\ Names(PodDefault(p).containers) \subseteq Names(p.containers) \cup Proxies
<1>1. CASE ~isTarget(p)
  <2>1. PodDefault(p) = p
    BY <1>1, Zenon DEF PodDefault
  <2>2. QED
    BY <2>1
<1>2. CASE isTarget(p)
  <2>1. PICK q : q = PodDefault(p)
    OBVIOUS
  <2>2. /\ IsPod(q) /\ q.kind = p.kind /\ q.from = Made
        /\ q.checksum = get2ProxySecretChecksum(Rc)
        /\ Names(q.containers) = Names(p.containers) \cup Proxies
    BY <1>2, <2>1, DefaultedPod DEF Sane
  <2>3. RcOf(q) = Rc
    BY <2>2 DEF RcOf, Rc, Made
  <2>4. QED
    BY <2>1, <2>2, <2>3 DEF Sane
<1>3. QED
  BY <1>1, <1>2

LEMMA AdmitSane ==
  ASSUME NEW p, Sane(p)
  PROVE  /\ Sane(AdmitPod(p)) /\ AdmitPod(p).kind = p.kind
         /\ Names(AdmitPod(p).containers) \subseteq Names(p.containers) \cup Proxies
         /\ ~up => AdmitPod(p) = p
BY DefaultSane DEF AdmitPod

\* The other webhook.
WithMesh(p) == [p EXCEPT !.containers = Append(@, Mesh)]

LEMMA MeshSane ==
  ASSUME NEW p, Sane(p), "mesh" \notin Names(p.containers)
  PROVE  /\ Sane(WithMesh(p)) /\ WithMesh(p).kind = p.kind
         /\ Names(WithMesh(p).containers) = Names(p.containers) \cup {"mesh"}
<1>1. IsContainer(Mesh) /\ Mesh.name = "mesh"
  BY DEF Mesh, Container, IsContainer
<1> DEFINE cs == Append(p.containers, Mesh)
<1>2. Proper(cs) /\ Names(cs) = Names(p.containers) \cup {"mesh"}
  BY <1>1, AppendContainer DEF Sane, IsPod
<1>3. WithMesh(p) = [p EXCEPT !.containers = cs]
  BY DEF WithMesh
<1> HIDE DEF cs
<1>4. /\ DOMAIN WithMesh(p) = DOMAIN p /\ WithMesh(p).containers = cs
      /\ WithMesh(p).kind = p.kind /\ WithMesh(p).volumes = p.volumes
      /\ WithMesh(p).from = p.from /\ WithMesh(p).checksum = p.checksum
  BY <1>3 DEF Sane, IsPod
<1>5. QED
  BY <1>2, <1>4 DEF Sane, IsPod, RcOf

LEMMA SubmittedSane ==
  ASSUME NEW kind
  PROVE  /\ Sane(Submitted(kind)) /\ Submitted(kind).kind = kind
         /\ Names(Submitted(kind).containers) = {"app"} /\ ~Injected(Submitted(kind))
<1>1. PICK p : p = Submitted(kind)
  OBVIOUS
<1>2. PICK a : a = App
  OBVIOUS
<1>3. IsContainer(a) /\ a.name = "app"
  BY <1>2 DEF App, Container, IsContainer
<1>4. /\ p.containers = <<a>> /\ p.from = <<>> /\ p.kind = kind
      /\ DOMAIN p = {"kind", "containers", "volumes", "pull", "labelled", "suffix",
                     "host", "checksum", "from"}
      /\ DOMAIN p.volumes = Proxies \cup {"kube-api-access"}
  BY <1>1, <1>2 DEF Submitted
<1>5. <<a>> \in Seq({a}) /\ DOMAIN <<a>> = {1} /\ <<a>>[1] = a
  OBVIOUS
<1>6. Proper(<<a>>)
  BY <1>3, <1>5 DEF Proper
<1>7. Names(p.containers) = {"app"}
  BY <1>3, <1>4, <1>5 DEF Names
<1>8. Sane(p)
  BY <1>4, <1>6 DEF Sane, IsPod
<1>9. ~Injected(p)
  BY <1>7 DEF Injected, Proxies, Oauth2Proxy, KubeRbacProxy
<1>10. QED
  BY <1>1, <1>4, <1>7, <1>8, <1>9

\* Only a webhook that answers injects.
LEMMA AdmittedPod ==
  ASSUME NEW kind, NEW order \in {"none", "before", "after"}
  PROVE  LET q == MutatingAdmission(Submitted(kind), order)
         IN Sane(q) /\ q.kind = kind /\ (Injected(q) => up)
<1>1. PICK p : p = Submitted(kind)
  OBVIOUS
<1>2. Sane(p) /\ p.kind = kind /\ Names(p.containers) = {"app"}
  BY <1>1, SubmittedSane
<1>3. MutatingAdmission(p, order) \in
        {AdmitPod(p), AdmitPod(WithMesh(p)), AdmitPod(WithMesh(AdmitPod(p)))}
  BY DEF MutatingAdmission, WithMesh
<1>4. ~Injected(p)
  BY <1>1, SubmittedSane
<1>5. /\ Sane(WithMesh(p)) /\ WithMesh(p).kind = kind
      /\ Names(WithMesh(p).containers) = {"app", "mesh"} /\ ~Injected(WithMesh(p))
  BY <1>2, MeshSane DEF Injected, Proxies, Oauth2Proxy, KubeRbacProxy
<1>6. PICK q : q = AdmitPod(p)
  OBVIOUS
<1>7. /\ Sane(q) /\ q.kind = kind /\ (~up => q = p)
      /\ Names(q.containers) \subseteq {"app"} \cup Proxies
  BY <1>2, <1>6, AdmitSane
<1>8. "mesh" \notin Names(q.containers)
  BY <1>7 DEF Proxies, Oauth2Proxy, KubeRbacProxy
<1>9. Sane(WithMesh(q)) /\ WithMesh(q).kind = kind
  BY <1>7, <1>8, MeshSane
<1>10. \A m \in {p, WithMesh(p), WithMesh(q)} :
         Sane(AdmitPod(m)) /\ AdmitPod(m).kind = kind /\ (~up => AdmitPod(m) = m)
  BY <1>2, <1>5, <1>9, AdmitSane
<1>11. ~up => \A m \in {p, WithMesh(p), WithMesh(q)} : ~Injected(m)
  BY <1>4, <1>5, <1>7
<1>12. QED
  BY <1>1, <1>3, <1>6, <1>10, <1>11

\* An update that is let through does not inject: two more containers would be
\* refused.
LEMMA UpdateInjectsNothing ==
  ASSUME NEW p, Sane(p), Immutable(PodDefault(p)) = Immutable(p), Injected(PodDefault(p))
  PROVE  Injected(p)
<1>1. CASE ~isTarget(p)
  <2>1. PodDefault(p) = p
    BY <1>1, Zenon DEF PodDefault
  <2>2. QED
    BY <2>1
<1>2. CASE isTarget(p)
  <2>1. PICK q : q = PodDefault(p)
    OBVIOUS
  <2>2. IsPod(q) /\ (Names(p.containers) \cap Proxies = {} => Len(q.containers) = Len(p.containers) + 2)
    BY <1>2, <2>1, DefaultedPod DEF Sane
  <2>3. Immutable(q).containers = Immutable(p).containers
    BY <2>1
  <2>4. DOMAIN q.containers = DOMAIN p.containers
    <3>1. DOMAIN Immutable(q).containers = DOMAIN q.containers
      BY DEF Immutable
    <3>2. DOMAIN Immutable(p).containers = DOMAIN p.containers
      BY DEF Immutable
    <3>3. QED
      BY <2>3, <3>1, <3>2
  <2>5. /\ Len(p.containers) \in Nat /\ DOMAIN p.containers = 1..Len(p.containers)
        /\ Len(q.containers) \in Nat /\ DOMAIN q.containers = 1..Len(q.containers)
    BY <2>2 DEF Sane, IsPod, Proper
  <2>6. Len(p.containers) + 2 \notin DOMAIN q.containers
    BY <2>4, <2>5
  <2>7. Names(p.containers) \cap Proxies # {}
    BY <2>2, <2>5, <2>6
  <2>8. QED
    BY <2>7 DEF Injected
<1>3. QED
  BY <1>1, <1>2

\* A resized container keeps its name.
Resized(p, n, m) ==
  [p EXCEPT !.containers =
     [i \in DOMAIN @ |-> IF @[i].name = n THEN [@[i] EXCEPT !.memory = m] ELSE @[i]]]

LEMMA ResizedPod ==
  ASSUME NEW p, Sane(p), NEW n, NEW m
  PROVE  /\ Sane(Resized(p, n, m)) /\ Resized(p, n, m).kind = p.kind
         /\ Injected(Resized(p, n, m)) <=> Injected(p)
<1>0. PICK q : q = Resized(p, n, m)
  OBVIOUS
<1>1. PICK cs : cs = p.containers
  OBVIOUS
<1>2. Proper(cs) /\ Len(cs) \in Nat /\ DOMAIN cs = 1..Len(cs)
  BY <1>1 DEF Sane, IsPod, Proper
<1> DEFINE e(i) == IF cs[i].name = n THEN [cs[i] EXCEPT !.memory = m] ELSE cs[i]
           ds == [i \in DOMAIN cs |-> e(i)]
<1>3. ds \in Seq({e(i) : i \in DOMAIN cs}) /\ DOMAIN ds = DOMAIN cs
  <2> HIDE DEF e
  <2> QED
    BY <1>2
<1>4. \A i \in DOMAIN cs : IsContainer(ds[i]) /\ ds[i].name = cs[i].name
  <2> SUFFICES ASSUME NEW i \in DOMAIN cs
               PROVE  IsContainer(e(i)) /\ e(i).name = cs[i].name
    OBVIOUS
  <2>1. IsContainer(cs[i])
    BY <1>2 DEF Proper
  <2>2. QED
    BY <2>1 DEF IsContainer
<1>5. q = [p EXCEPT !.containers = ds]
  BY <1>0, <1>1 DEF Resized
<1> HIDE DEF ds, e
<1>6. Proper(ds) /\ Names(ds) = Names(cs)
  BY <1>2, <1>3, <1>4 DEF Proper, Names
<1>7. /\ DOMAIN q = DOMAIN p /\ q.containers = ds /\ q.kind = p.kind
      /\ q.volumes = p.volumes /\ q.from = p.from /\ q.checksum = p.checksum
  BY <1>5 DEF Sane, IsPod
<1>8. QED
  BY <1>0, <1>1, <1>6, <1>7 DEF Sane, IsPod, RcOf, Injected

-----------------------------------------------------------------------------
(* The inductive invariant.                                                *)

IsWorkload(w) == DOMAIN w = {"kind", "labels", "suffix"}

\* Types, without the count of the containers.
StateInv ==
  /\ up \in BOOLEAN /\ queued \in BOOLEAN /\ conf \in DOMAIN Configs
  /\ IsWorkload(wl) /\ IsWorkload(seen)
  /\ wl.kind \in Kinds \cup {"none"} /\ seen.kind \in {wl.kind, "none"}
  /\ pod.kind \in {wl.kind, "none"}
  /\ oauth2 = <<>> \/ \E x : oauth2 = <<x>>
  /\ changes \in 0..MaxChanges /\ errors \in 0..MaxErrors

\* What is not queued has been written: the oauth2 secret of a target with an
\* injected pod is that of the configuration in force for the cached workload.
WrittenInv ==
  up /\ ~queued /\ Target /\ Injected(pod) => oauth2 = <<mutateOauth2Secret(Rc)>>

AdmissionInv == StateInv /\ Sane(pod) /\ WrittenInv

LEMMA InitInv == Init => AdmissionInv
<1> SUFFICES ASSUME Init PROVE AdmissionInv
  OBVIOUS
<1>1. pod = Submitted("none")
  BY DEF Init, NoPod
<1>2. Sane(pod) /\ pod.kind = "none" /\ ~Injected(pod)
  BY <1>1, SubmittedSane
<1>3. StateInv
  <2>1. up \in BOOLEAN /\ queued \in BOOLEAN /\ conf \in DOMAIN Configs
    BY DEF Init
  <2>2. wl.kind = "none" /\ seen.kind = "none" /\ IsWorkload(wl) /\ IsWorkload(seen)
    BY DEF Init, NoWorkload, IsWorkload
  <2>3. changes \in 0..MaxChanges /\ errors \in 0..MaxErrors
    BY AdmissionAssumption DEF Init
  <2>4. oauth2 = <<>>
    BY DEF Init
  <2>5. QED
    BY <1>2, <2>1, <2>2, <2>3, <2>4 DEF StateInv
<1>4. QED
  BY <1>2, <1>3 DEF AdmissionInv, WrittenInv

\* The calls of a reconcile write all that is needed.
Routable(rc) == ShallCreateHTTPRoute(rc) /\ (seen.kind = "StatefulSet" => pod.host # <<>>)
LEMMA ReconcileSteps ==
  ASSUME NEW rc
  PROVE  /\ Len(Steps(rc)) \in Nat
         /\ {"oauth2", "resource-attributes"} \subseteq {Steps(rc)[i] : i \in 1..Len(Steps(rc))}
         /\ Setting(rc, "kubeConfigStr") # None =>
              "kubeconfig" \in {Steps(rc)[i] : i \in 1..Len(Steps(rc))}
         /\ HasOidcCABundle(rc) => "oidc-ca" \in {Steps(rc)[i] : i \in 1..Len(Steps(rc))}
         /\ Routable(rc) => "route" \in {Steps(rc)[i] : i \in 1..Len(Steps(rc))}
<1> DEFINE Calls == {"oauth2", "service", "route", "resource-attributes", "kubeconfig",
                     "oidc-ca", "vpa"}
           sts == seen.kind = "StatefulSet"
           routed == Opt(ShallCreateHTTPRoute(rc), "route")
           optional == Opt(Setting(rc, "kubeConfigStr") # None, "kubeconfig")
                         \o Opt(HasOidcCABundle(rc), "oidc-ca")
           first == <<"oauth2">>
           second == IF sts THEN (IF pod.host # <<>> THEN <<"service">> \o routed ELSE <<>>)
                     ELSE <<"service">>
           third == <<"resource-attributes">>
           fourth == IF sts THEN <<>> ELSE routed
           fifth == <<"vpa">>
<1>0. /\ <<>> \in Seq(Calls) /\ \A x \in Calls : <<x>> \in Seq(Calls)
      /\ \A x \in {"oauth2", "service", "route", "resource-attributes", "kubeconfig", "oidc-ca", "vpa"} : x \in Calls
  <2>1. \A C : <<>> \in Seq(C) /\ \A x \in C : <<x>> \in Seq(C)
    OBVIOUS
  <2>2. QED
    BY <2>1, Zenon
<1> HIDE DEF Calls
<1>1. \A b, x : x \in Calls => Opt(b, x) \in Seq(Calls)
  BY <1>0, Zenon DEF Opt
<1>2. /\ routed \in Seq(Calls) /\ optional \in Seq(Calls)
      /\ Setting(rc, "kubeConfigStr") # None => "kubeconfig" \in Range(optional)
      /\ HasOidcCABundle(rc) => "oidc-ca" \in Range(optional)
  <2>1. PICK x : x = Opt(Setting(rc, "kubeConfigStr") # None, "kubeconfig")
    OBVIOUS
  <2>2. PICK y : y = Opt(HasOidcCABundle(rc), "oidc-ca")
    OBVIOUS
  <2>3. x \in Seq(Calls) /\ y \in Seq(Calls) /\ routed \in Seq(Calls)
    BY <1>0, <1>1, <2>1, <2>2, Zenon
  <2>4. x \o y \in Seq(Calls) /\ Range(x \o y) = Range(x) \cup Range(y)
    BY <2>3, RangeConcatenation
  <2>5. \A z : z \in Range(<<z>>)
    BY DEF Range
  <2>6. (Setting(rc, "kubeConfigStr") # None => x = <<"kubeconfig">>) /\ (HasOidcCABundle(rc) => y = <<"oidc-ca">>)
    BY <2>1, <2>2, Zenon DEF Opt
  <2>7. /\ Setting(rc, "kubeConfigStr") # None => "kubeconfig" \in Range(x)
        /\ HasOidcCABundle(rc) => "oidc-ca" \in Range(y)
    BY <2>5, <2>6, Zenon
  <2>8. QED
    BY <2>1, <2>2, <2>3, <2>4, <2>7
<1>r. Routable(rc) => "route" \in Range(second) \cup Range(fourth)
  <2> HAVE Routable(rc)
  <2>1. routed = <<"route">>
    BY Zenon DEF Routable, Opt
  <2>2. "route" \in Range(<<"route">>) /\ "route" \in Range(<<"service">> \o <<"route">>)
    <3>1. PICK x, y \in Seq(Calls) : x = <<"service">> /\ y = <<"route">>
      BY <1>0, Zenon
    <3>2. "route" \in Range(y)
      BY <3>1 DEF Range
    <3>3. Range(x \o y) = Range(x) \cup Range(y)
      BY RangeConcatenation
    <3>4. QED
      BY <3>1, <3>2, <3>3
  <2>3. sts => second = <<"service">> \o <<"route">>
    BY <2>1, Zenon DEF Routable
  <2>4. ~sts => fourth = <<"route">>
    BY <2>1, Zenon
  <2> HIDE DEF second, fourth
  <2>5. QED
    BY <2>2, <2>3, <2>4, Zenon
<1> HIDE DEF routed, optional
<1>3. first \in Seq(Calls) /\ second \in Seq(Calls) /\ third \in Seq(Calls)
      /\ fourth \in Seq(Calls) /\ fifth \in Seq(Calls)
  <2>1. PICK x \in Seq(Calls) : x = <<"service">>
    BY <1>0
  <2>2. x \o routed \in Seq(Calls)
    BY <1>2
  <2>3. second \in Seq(Calls)
    BY <1>0, <2>1, <2>2, Zenon
  <2>4. fourth \in Seq(Calls)
    BY <1>0, <1>2, Zenon
  <2> HIDE DEF second, fourth
  <2>5. QED
    BY <1>0, <2>3, <2>4
<1>4. Steps(rc) = first \o second \o third \o optional \o fourth \o fifth
  BY DEF Steps, routed, optional
<1>5. "oauth2" \in Range(first) /\ "resource-attributes" \in Range(third)
  BY DEF Range
<1> HIDE DEF first, second, third, fourth, fifth
<1>6. \A s, t \in Seq(Calls) : s \o t \in Seq(Calls) /\ Range(s \o t) = Range(s) \cup Range(t)
  BY RangeConcatenation
<1>7. PICK a : a = first \o second
  OBVIOUS
<1>8. a \in Seq(Calls) /\ "oauth2" \in Range(a) /\ Range(second) \subseteq Range(a)
  BY <1>3, <1>5, <1>6, <1>7
<1>9. PICK b : b = a \o third
  OBVIOUS
<1>10. /\ b \in Seq(Calls) /\ {"oauth2", "resource-attributes"} \subseteq Range(b)
       /\ Range(second) \subseteq Range(b)
  BY <1>3, <1>5, <1>6, <1>8, <1>9
<1>11. PICK c : c = b \o optional
  OBVIOUS
<1>12. c \in Seq(Calls) /\ Range(c) = Range(b) \cup Range(optional)
  BY <1>2, <1>6, <1>10, <1>11
<1>13. PICK d : d = c \o fourth
  OBVIOUS
<1>14. d \in Seq(Calls) /\ Range(c) \subseteq Range(d) /\ Range(fourth) \subseteq Range(d)
  BY <1>3, <1>6, <1>12, <1>13
<1>15. Steps(rc) = d \o fifth
  BY <1>4, <1>7, <1>9, <1>11, <1>13
<1>16. Steps(rc) \in Seq(Calls) /\ Range(d) \subseteq Range(Steps(rc))
  BY <1>3, <1>6, <1>14, <1>15
<1>17. Len(Steps(rc)) \in Nat /\ Range(Steps(rc)) = {Steps(rc)[i] : i \in 1..Len(Steps(rc))}
  BY <1>16, RangeEquality
<1>18. Routable(rc) => "route" \in Range(Steps(rc))
  BY <1>r, <1>10, <1>12, <1>14, <1>16
<1>19. QED
  BY <1>2, <1>10, <1>12, <1>14, <1>16, <1>17, <1>18

\* What a reconcile writes.
KubeConfig == <<"kubeconfig", Hash>>
OidcCA == <<"oidc-ca", Hash>>
Needed(rc) ==
  {<<Oauth2Proxy, Hash>>, <<"resource-attributes", Hash>>}
    \cup {s \in {KubeConfig} : Setting(rc, "kubeConfigStr") # None}
    \cup {s \in {OidcCA} : HasOidcCABundle(rc)}

\* A reconcile after which nothing is queued has written everything.
LEMMA ApplyWrites ==
  ASSUME Apply, errors \in Nat
  PROVE  /\ queued' \in BOOLEAN
         /\ ~queued' => oauth2' = <<mutateOauth2Secret(Rc)>>
         /\ ~queued' => Needed(Rc) \subseteq secrets'
         /\ ~queued' /\ Routable(Rc) => route' = RouteHost(Rc, seen.kind)
         /\ oauth2' \in {oauth2, <<mutateOauth2Secret(Rc)>>}
         /\ errors' = errors \/ (errors < MaxErrors /\ errors' = errors + 1)
<1>1. PICK rc, steps, end, n, done :
        /\ rc \in {Rc} /\ steps \in {Steps(rc)} /\ end \in {Reach(steps, rc)} /\ n \in 0..end
        /\ done \in {{steps[i] : i \in 1..n}}
        /\ n < end => errors < MaxErrors
        /\ errors' = errors + IF n < end THEN 1 ELSE 0
        /\ queued' = (n < Len(steps))
        /\ secrets' = secrets \cup Written(done)
        /\ oauth2' = IF "oauth2" \in done THEN <<mutateOauth2Secret(rc)>> ELSE oauth2
        /\ route' = IF "route" \in done THEN RouteHost(rc, seen.kind) ELSE route
  BY Zenon DEF Apply
<1>2. /\ n \in 0..end /\ done = {steps[i] : i \in 1..n} /\ steps = Steps(Rc)
      /\ n < end => errors < MaxErrors
      /\ errors' = errors + IF n < end THEN 1 ELSE 0
      /\ queued' = (n < Len(steps))
      /\ secrets' = secrets \cup Written(done)
      /\ oauth2' = IF "oauth2" \in done THEN <<mutateOauth2Secret(Rc)>> ELSE oauth2
      /\ route' = IF "route" \in done THEN RouteHost(Rc, seen.kind) ELSE route
  BY <1>1
<1>3. ~(n < Len(steps)) =>
        /\ {"oauth2", "resource-attributes"} \subseteq done
        /\ Setting(Rc, "kubeConfigStr") # None => "kubeconfig" \in done
        /\ HasOidcCABundle(Rc) => "oidc-ca" \in done
        /\ Routable(Rc) => "route" \in done
  <2>1. /\ Len(steps) \in Nat
        /\ {"oauth2", "resource-attributes"} \subseteq {steps[i] : i \in 1..Len(steps)}
        /\ Setting(Rc, "kubeConfigStr") # None => "kubeconfig" \in {steps[i] : i \in 1..Len(steps)}
        /\ HasOidcCABundle(Rc) => "oidc-ca" \in {steps[i] : i \in 1..Len(steps)}
        /\ Routable(Rc) => "route" \in {steps[i] : i \in 1..Len(steps)}
    BY <1>2, ReconcileSteps
  <2>2. ~(n < Len(steps)) => \A i \in 1..Len(steps) : i \in 1..n
    BY <1>2, <2>1
  <2>3. ~(n < Len(steps)) => {steps[i] : i \in 1..Len(steps)} \subseteq done
    BY <1>2, <2>2
  <2>4. QED
    BY <2>1, <2>3
<1>4. ~(n < Len(steps)) => Needed(Rc) \subseteq Written(done)
  BY <1>3 DEF Needed, Written, KubeConfig, OidcCA
<1>5. queued' \in BOOLEAN /\ (~queued' => ~(n < Len(steps)))
  <2>1. queued' = (n < Len(steps))
    BY <1>2
  <2>2. CASE n < Len(steps)
    BY <2>1, <2>2
  <2>3. CASE ~(n < Len(steps))
    BY <2>1, <2>3
  <2>4. QED
    BY <2>2, <2>3
<1>6. errors' = errors \/ (errors < MaxErrors /\ errors' = errors + 1)
  BY <1>2
<1>7. oauth2' \in {oauth2, <<mutateOauth2Secret(Rc)>>}
  BY <1>2
<1>8. ~queued' => oauth2' = <<mutateOauth2Secret(Rc)>>
  BY <1>2, <1>3, <1>5
<1>9. ~queued' => Needed(Rc) \subseteq secrets'
  BY <1>2, <1>4, <1>5
<1>10. ~queued' /\ Routable(Rc) => route' = RouteHost(Rc, seen.kind)
  BY <1>2, <1>3, <1>5
<1>11. QED
  BY <1>5, <1>6, <1>7, <1>8, <1>9, <1>10

\* Steps that leave configuration, workloads and pod alone.
LEMMA ReconcileInv ==
  ASSUME AdmissionInv, Reconcile
  PROVE  AdmissionInv'
<1>1. StateInv /\ Sane(pod) /\ WrittenInv
  BY DEF AdmissionInv
<1>2. up /\ UNCHANGED <<up, conf, wl, seen, pod, changes>>
  BY DEF Reconcile
<1>3. errors \in Nat
  BY <1>1 DEF StateInv
<1>4. Sane(pod)'
  BY <1>1, <1>2 DEF Sane, RcOf
<1>5. Target' = Target /\ Rc' = Rc /\ Injected(pod)' = Injected(pod)
  BY <1>2 DEF Target, Rc
<1>6. CASE Target /\ Injected(pod)
  <2>1. Apply
    BY <1>6 DEF Reconcile, Target
  <2>2. /\ queued' \in BOOLEAN
        /\ ~queued' => oauth2' = <<mutateOauth2Secret(Rc)>>
        /\ oauth2' \in {oauth2, <<mutateOauth2Secret(Rc)>>}
        /\ errors' = errors \/ (errors < MaxErrors /\ errors' = errors + 1)
    BY <1>3, <2>1, ApplyWrites
  <2>3. errors' \in 0..MaxErrors
    BY <1>1, <2>2, AdmissionAssumption DEF StateInv
  <2>4. oauth2' = <<>> \/ \E x : oauth2' = <<x>>
    BY <1>1, <2>2 DEF StateInv
  <2>5. StateInv'
    BY <1>1, <1>2, <2>2, <2>3, <2>4 DEF StateInv, IsWorkload
  <2>6. WrittenInv'
    BY <1>5, <2>2 DEF WrittenInv
  <2>7. QED
    BY <1>4, <2>5, <2>6 DEF AdmissionInv
<1>7. CASE ~(Target /\ Injected(pod))
  <2>1. queued' = FALSE /\ errors' = errors /\ oauth2' \in {oauth2, <<>>}
    BY <1>7 DEF Reconcile, Target
  <2>2. oauth2' = <<>> \/ \E x : oauth2' = <<x>>
    BY <1>1, <2>1 DEF StateInv
  <2>3. StateInv'
    BY <1>1, <1>2, <2>1, <2>2 DEF StateInv, IsWorkload
  <2>4. WrittenInv'
    BY <1>5, <1>7 DEF WrittenInv
  <2>5. QED
    BY <1>4, <2>3, <2>4 DEF AdmissionInv
<1>8. QED
  BY <1>6, <1>7

LEMMA WorkloadInv ==
  ASSUME AdmissionInv, ChangeWorkload \/ CacheWorkload
  PROVE  AdmissionInv'
<1>1. StateInv /\ Sane(pod) /\ WrittenInv
  BY DEF AdmissionInv
<1>2. UNCHANGED <<up, conf, pod, oauth2>>
  BY DEF ChangeWorkload, CacheWorkload
<1>3. Sane(pod)'
  BY <1>1, <1>2 DEF Sane, RcOf
<1>4. CASE ChangeWorkload
  <2>1. seen' = seen /\ queued' = queued
    BY <1>4 DEF ChangeWorkload
  <2>2. WrittenInv'
    BY <1>1, <1>2, <2>1 DEF WrittenInv, Target, Rc
  <2>3. changes' \in 0..MaxChanges /\ errors' = errors
    BY <1>1, <1>4, AdmissionAssumption DEF StateInv, ChangeWorkload, Change
  <2>4. IsWorkload(wl)' /\ wl'.kind \in Kinds \cup {"none"} /\ (wl.kind # "none" => wl'.kind = wl.kind)
    <3>1. CASE wl.kind = "none"
      BY <1>4, <3>1 DEF ChangeWorkload, IsWorkload
    <3>2. CASE wl.kind # "none"
      BY <1>1, <1>4, <3>2 DEF ChangeWorkload, IsWorkload, StateInv
    <3>3. QED
      BY <3>1, <3>2
  <2>5. StateInv'
    BY <1>1, <1>2, <2>1, <2>3, <2>4 DEF StateInv, IsWorkload
  <2>6. QED
    BY <1>3, <2>2, <2>5 DEF AdmissionInv
<1>5. CASE CacheWorkload
  <2>1. queued' = TRUE /\ seen' = wl /\ UNCHANGED <<wl, changes, errors>>
    BY <1>5 DEF CacheWorkload
  <2>2. StateInv'
    BY <1>1, <1>2, <2>1 DEF StateInv, IsWorkload
  <2>3. QED
    BY <1>3, <2>1, <2>2 DEF AdmissionInv, WrittenInv
<1>6. QED
  BY <1>4, <1>5

\* Steps that change the pod, and nothing that StateInv or WrittenInv is about but
\* the queue.
LEMMA PodInv ==
  ASSUME AdmissionInv, UNCHANGED <<up, conf, wl, seen, oauth2>>, queued' \in BOOLEAN,
         changes' \in 0..MaxChanges, errors' \in 0..MaxErrors,
         Sane(pod'), pod'.kind \in {wl.kind, "none"},
         up /\ Injected(pod') /\ ~queued' => ~queued /\ Injected(pod)
  PROVE  AdmissionInv'
<1>1. StateInv /\ WrittenInv
  BY DEF AdmissionInv
<1>2. Sane(pod)'
  BY DEF Sane, RcOf
<1>3. StateInv'
  BY <1>1 DEF StateInv, IsWorkload
<1>4. WrittenInv'
  BY <1>1 DEF WrittenInv, Target, Rc
<1>5. QED
  BY <1>2, <1>3, <1>4 DEF AdmissionInv

LEMMA ChangePodInv ==
  ASSUME AdmissionInv,
         \/ \E order \in Orders : CreatePod(order)
         \/ DeletePod \/ UpdatePod
         \/ \E n \in Proxies : Resize(n)
  PROVE  AdmissionInv'
<1>1. StateInv /\ Sane(pod) /\ WrittenInv
  BY DEF AdmissionInv
<1>2. UNCHANGED <<up, conf, wl, seen, oauth2>> /\ changes' \in 0..MaxChanges /\ errors' \in 0..MaxErrors
  <2>1. UNCHANGED <<up, conf, wl, seen, oauth2>>
    BY DEF CreatePod, DeletePod, UpdatePod, Resize
  <2>2. changes < MaxChanges /\ changes' = changes + 1 /\ errors' = errors
    BY DEF CreatePod, DeletePod, UpdatePod, Resize, Change
  <2>3. QED
    BY <1>1, <2>1, <2>2, AdmissionAssumption DEF StateInv
<1>3. CASE \E order \in Orders : CreatePod(order)
  <2>1. PICK order \in Orders : CreatePod(order)
    BY <1>3
  <2>2. /\ pod' = MutatingAdmission(Submitted(wl.kind), order)
        /\ queued' = (queued \/ (up /\ Injected(pod')))
    BY <2>1 DEF CreatePod
  <2>3. order \in {"none", "before", "after"}
    BY AdmissionAssumption
  <2>4. Sane(pod') /\ pod'.kind = wl.kind
    BY <2>2, <2>3, AdmittedPod
  <2>5. queued' \in BOOLEAN /\ ~(up /\ Injected(pod') /\ ~queued')
    BY <1>1, <2>2, Zenon DEF StateInv
  <2>6. QED
    BY <1>2, <2>4, <2>5, PodInv
<1>4. CASE DeletePod
  <2>1. pod' = NoPod /\ queued' = (queued \/ (up /\ Injected(pod)))
    BY <1>4 DEF DeletePod
  <2>2. Sane(pod') /\ pod'.kind = "none" /\ ~Injected(pod')
    BY <2>1, SubmittedSane DEF NoPod
  <2>3. queued' \in BOOLEAN
    BY <2>1, Zenon DEF StateInv
  <2>4. QED
    BY <1>2, <2>2, <2>3, PodInv
<1>5. CASE UpdatePod
  <2>1. PICK p : p = PodDefault(pod)
    OBVIOUS
  <2>2. pod' = (IF Immutable(p) = Immutable(pod) THEN p ELSE pod) /\ queued' = queued
    BY <1>5, <2>1 DEF UpdatePod
  <2>3. Sane(p) /\ p.kind = pod.kind
    BY <1>1, <2>1, DefaultSane
  <2>4. Immutable(p) = Immutable(pod) /\ Injected(p) => Injected(pod)
    BY <1>1, <2>1, UpdateInjectsNothing
  <2>5. Sane(pod') /\ pod'.kind = pod.kind /\ (Injected(pod') => Injected(pod))
    BY <1>1, <2>2, <2>3, <2>4
  <2>6. QED
    BY <1>1, <1>2, <2>2, <2>5, PodInv DEF StateInv
<1>6. CASE \E n \in Proxies : Resize(n)
  <2>1. PICK n \in Proxies : Resize(n)
    BY <1>6
  <2>2. PICK m \in Sizes : pod' = Resized(pod, n, m)
    BY <2>1 DEF Resize, Resized
  <2>3. Sane(pod') /\ pod'.kind = pod.kind /\ (Injected(pod') <=> Injected(pod))
    BY <1>1, <2>2, ResizedPod
  <2>4. queued' = queued
    BY <2>1 DEF Resize
  <2>5. QED
    BY <1>1, <1>2, <2>3, <2>4, PodInv DEF StateInv
<1>7. QED
  BY <1>3, <1>4, <1>5, <1>6

LEMMA ProcessInv ==
  ASSUME AdmissionInv, ChangeVpa \/ Stop \/ Start
  PROVE  AdmissionInv'
<1>1. StateInv /\ Sane(pod) /\ WrittenInv
  BY DEF AdmissionInv
<1>2. UNCHANGED <<wl, pod, oauth2>>
  BY DEF ChangeVpa, Stop, Start
<1>3. Sane(pod)'
  BY <1>1, <1>2 DEF Sane, RcOf
<1>4. changes' \in 0..MaxChanges /\ errors' \in 0..MaxErrors
  BY <1>1, AdmissionAssumption DEF ChangeVpa, Stop, Start, Change, StateInv
<1>5. CASE ChangeVpa
  <2>1. UNCHANGED <<up, conf, seen, queued>>
    BY <1>5 DEF ChangeVpa
  <2>2. StateInv' /\ WrittenInv'
    BY <1>1, <1>2, <1>4, <2>1 DEF StateInv, IsWorkload, WrittenInv, Target, Rc
  <2>3. QED
    BY <1>3, <2>2 DEF AdmissionInv
<1>6. CASE Stop
  <2>1. up' = FALSE /\ queued' = FALSE /\ UNCHANGED <<conf, seen>>
    BY <1>6 DEF Stop
  <2>2. StateInv' /\ WrittenInv'
    BY <1>1, <1>2, <1>4, <2>1 DEF StateInv, IsWorkload, WrittenInv
  <2>3. QED
    BY <1>3, <2>2 DEF AdmissionInv
<1>7. CASE Start
  <2>1. up' = TRUE /\ conf' \in DOMAIN Configs /\ seen' = wl /\ queued' = (wl.kind # "none")
    BY <1>7 DEF Start
  <2>2. queued' \in BOOLEAN /\ (~queued' => seen'.kind = "none")
    BY <2>1, Zenon
  <2>3. StateInv'
    BY <1>1, <1>2, <1>4, <2>1, <2>2 DEF StateInv, IsWorkload
  <2>4. WrittenInv'
    BY <2>2 DEF WrittenInv, Target
  <2>5. QED
    BY <1>3, <2>3, <2>4 DEF AdmissionInv
<1>8. QED
  BY <1>5, <1>6, <1>7

\* The inductive invariant holds: every pod was made as its history says, and what is
\* not queued has been reconciled under the configuration in force.
THEOREM AdmissionInvariant == Spec => []AdmissionInv
<1>1. AdmissionInv /\ [Next]_vars => AdmissionInv'
  <2> SUFFICES ASSUME AdmissionInv, [Next]_vars PROVE AdmissionInv'
    OBVIOUS
  <2>1. CASE Reconcile
    BY <2>1, ReconcileInv
  <2>2. CASE ChangeWorkload \/ CacheWorkload
    BY <2>2, WorkloadInv
  <2>3. CASE (\E order \in Orders : CreatePod(order)) \/ DeletePod \/ UpdatePod
             \/ \E n \in Proxies : Resize(n)
    BY <2>3, ChangePodInv
  <2>4. CASE ChangeVpa \/ Stop \/ Start
    BY <2>4, ProcessInv
  <2>5. CASE UNCHANGED vars
    BY <2>5 DEF vars, AdmissionInv, StateInv, IsWorkload, Sane, RcOf, WrittenInv, Target, Rc
  <2>6. QED
    BY <2>1, <2>2, <2>3, <2>4, <2>5 DEF Next
<1>2. QED
  BY InitInv, <1>1, PTL DEF Spec

\* Type correctness: the two webhooks of a creation, in any order and called again,
\* updates and resizes leave no pod with two containers of one name.
THEOREM TypeCorrect == Spec => []TypeOK
<1>1. AdmissionInv => TypeOK
  <2> SUFFICES ASSUME AdmissionInv PROVE TypeOK
    OBVIOUS
  <2>1. Cardinality(Names(pod.containers)) = Len(pod.containers)
    BY NamesCounted DEF AdmissionInv, Sane, IsPod
  <2>2. Len(oauth2) <= 1
    <3>1. oauth2 = <<>> \/ \E x : oauth2 = <<x>>
      BY DEF AdmissionInv, StateInv
    <3>2. Len(<<>>) <= 1 /\ \A x : Len(<<x>>) <= 1
      OBVIOUS
    <3>3. QED
      BY <3>1, <3>2
  <2>3. QED
    BY <2>1, <2>2 DEF AdmissionInv, StateInv, Sane, IsPod, TypeOK
<1>2. QED
  BY <1>1, AdmissionInvariant, PTL

\* The checksum that the webhook puts on a pod, from what it expects the reconciler
\* to write, is that of what the reconciler has written once it is idle, whatever
\* restarts with other configurations, failed calls and updates came between; a
\* client secret given by a reference is the exception.
THEOREM ChecksumsAgreeHolds == Spec => []ChecksumsAgree
<1>1. AdmissionInv => ChecksumsAgree
  <2> SUFFICES ASSUME AdmissionInv, Setting(Rc, "clientSecretRef") = None,
                      Quiet, Served, pod.from = Made
               PROVE  pod.checksum = oauth2
    BY DEF ChecksumsAgree, ChecksumOfSecret
  <2>1. pod.from # <<>> /\ RcOf(pod) = Rc
    BY DEF Made, RcOf, Rc
  <2>2. pod.checksum = get2ProxySecretChecksum(Rc)
    BY <2>1 DEF AdmissionInv, Sane
  <2>3. oauth2 = <<mutateOauth2Secret(Rc)>>
    BY DEF AdmissionInv, WrittenInv, Quiet, Served
  <2>4. get2ProxySecretChecksum(Rc) = <<mutateOauth2Secret(Rc)>>
    BY DEF get2ProxySecretChecksum, mutateOauth2Secret
  <2>5. QED
    BY <2>2, <2>3, <2>4
<1>2. QED
  BY <1>1, AdmissionInvariant, PTL

-----------------------------------------------------------------------------
(* The secrets that a pod mounts.                                          *)

\* The configurations that may apply to a workload.
Rcs == {Resolve(Configs[c], l, Ns) : c \in DOMAIN Configs, l \in LabelSets}

\* No secret is the OIDC CA of one configuration and the kubeconfig of another.
ReferencesApart ==
  \A a, b \in Rcs : Setting(a, "oidcCASecretRef") # None =>
    Setting(a, "oidcCASecretRef") # Setting(b, "kubeSecretRef")

\* What one call of the webhook puts into the two volumes.
Oauth2Set(rc) ==
  {<<Oauth2Proxy, Hash>>}
    \cup {s \in {fetchOidcCASecretName(Hash, rc)} : shallAddOidcCaSecretName(rc)}
    \cup {s \in {<<"ref", Setting(rc, "clientSecretRef")>>} : Setting(rc, "clientSecretRef") # None}
RbacSet(rc) ==
  {<<"resource-attributes", Hash>>}
    \cup {s \in {fetchKubconfigSecretName(Hash, rc)} : shallAddKubeConfigSecretName(rc)}
    \cup {s \in {fetchOidcCASecretName(Hash, rc)} : shallAddOidcCaSecretName(rc)}

\* The sources o and r of the two volumes suit rc: all but references are written
\* under it, and beside a secret of the controller's own in the second volume there
\* is no reference for the same purpose.
Suitable(o, r, rc) ==
  /\ \A s \in o \cup r : Reference(s) \/ s \in Needed(rc)
  /\ KubeConfig \notin o /\ (OidcCA \in o => OidcCA \in r)
  /\ KubeConfig \in r => \A x : <<"ref", x>> \in r =>
       x # None /\ \E b \in Rcs : x = Setting(b, "oidcCASecretRef")
  /\ OidcCA \in r => \A x : <<"ref", x>> \in r => \E b \in Rcs : x = Setting(b, "kubeSecretRef")

LEMMA SuitableFresh ==
  ASSUME NEW rc \in Rcs
  PROVE  Suitable(Oauth2Set(rc), RbacSet(rc), rc)
<1> DEFINE k == Setting(rc, "kubeConfigStr")
           ks == Setting(rc, "kubeSecretRef")
           c == Setting(rc, "oidcCASecretRef")
           cl == Setting(rc, "clientSecretRef")
           bundle == HasOidcCABundle(rc)
           ca == fetchOidcCASecretName(Hash, rc)
           kube == fetchKubconfigSecretName(Hash, rc)
<1>1. ca = (IF bundle THEN OidcCA ELSE <<"ref", c>>) /\ kube = (IF k # None THEN KubeConfig ELSE <<"ref", ks>>)
  BY DEF fetchOidcCASecretName, fetchKubconfigSecretName, OidcCA, KubeConfig
<1>2. /\ \A s : s \in Oauth2Set(rc) <=> s = <<Oauth2Proxy, Hash>> \/ (s = ca /\ (bundle \/ c # None))
                                          \/ (s = <<"ref", cl>> /\ cl # None)
      /\ \A s : s \in RbacSet(rc) <=> s = <<"resource-attributes", Hash>>
                   \/ (s = kube /\ (k # None \/ ks # None)) \/ (s = ca /\ (bundle \/ c # None))
      /\ \A s : s \in Needed(rc) <=> s = <<Oauth2Proxy, Hash>> \/ s = <<"resource-attributes", Hash>>
                   \/ (s = KubeConfig /\ k # None) \/ (s = OidcCA /\ bundle)
  BY DEF Oauth2Set, RbacSet, Needed, shallAddOidcCaSecretName, shallAddKubeConfigSecretName
<1>3. /\ \A x : Reference(<<"ref", x>>) /\ <<"ref", x>> # KubeConfig /\ <<"ref", x>> # OidcCA
                  /\ <<"ref", x>> # <<"resource-attributes", Hash>>
      /\ \A x, y : <<"ref", x>> = <<"ref", y>> => x = y
      /\ KubeConfig # OidcCA /\ KubeConfig # <<Oauth2Proxy, Hash>> /\ OidcCA # <<Oauth2Proxy, Hash>>
      /\ KubeConfig # <<"resource-attributes", Hash>> /\ OidcCA # <<"resource-attributes", Hash>>
  BY DEF Reference, KubeConfig, OidcCA, Oauth2Proxy, Hash
<1>4. c = Setting(rc, "oidcCASecretRef") /\ ks = Setting(rc, "kubeSecretRef")
  OBVIOUS
<1> HIDE DEF k, ks, c, cl, bundle, ca, kube
<1>5. \A s \in Oauth2Set(rc) \cup RbacSet(rc) : Reference(s) \/ s \in Needed(rc)
  BY <1>1, <1>2, <1>3
<1>6. KubeConfig \notin Oauth2Set(rc) /\ (OidcCA \in Oauth2Set(rc) => OidcCA \in RbacSet(rc))
  BY <1>1, <1>2, <1>3
<1>7. KubeConfig \in RbacSet(rc) => \A x : <<"ref", x>> \in RbacSet(rc) => x = c /\ c # None
  BY <1>1, <1>2, <1>3
<1>8. OidcCA \in RbacSet(rc) => \A x : <<"ref", x>> \in RbacSet(rc) => x = ks
  BY <1>1, <1>2, <1>3
<1>9. QED
  BY <1>4, <1>5, <1>6, <1>7, <1>8 DEF Suitable

\* The arguments tell which of the two secrets there are.
LEMMA ArgumentsTell ==
  ASSUME NEW a, NEW b, RbacArgs(a) = RbacArgs(b)
  PROVE  /\ shallAddKubeConfigSecretName(a) <=> shallAddKubeConfigSecretName(b)
         /\ shallAddOidcCaSecretName(a) <=> shallAddOidcCaSecretName(b)
<1>1. PICK x : x = Flag("kubeconfig")
  OBVIOUS
<1>2. PICK y : y = Flag("oidc-ca-file")
  OBVIOUS
<1>3. x.flag = "kubeconfig" /\ y.flag = "oidc-ca-file"
  BY <1>1, <1>2 DEF Flag
<1>4. x # y
  BY <1>3
<1>5. PICK w : w = <<x>> \o <<y>>
  OBVIOUS
<1>6. /\ <<>> \o <<>> = <<>> /\ <<x>> \o <<>> = <<x>> /\ <<>> \o <<y>> = <<y>> /\ <<x>> \o <<y>> = w
      /\ <<x>> # <<y>> /\ w # <<x>> /\ w # <<y>> /\ <<x>> # <<>> /\ <<y>> # <<>> /\ w # <<>>
  <2>1. /\ <<>> \in Seq({x, y}) /\ <<x>> \in Seq({x, y}) /\ <<y>> \in Seq({x, y})
        /\ Len(<<>>) = 0 /\ Len(<<x>>) = 1 /\ Len(<<y>>) = 1
        /\ <<x>>[1] = x /\ <<y>>[1] = y
    OBVIOUS
  <2>2. <<>> \o <<>> = <<>> /\ <<x>> \o <<>> = <<x>> /\ <<>> \o <<y>> = <<y>>
    BY <2>1, ConcatEmptySeq, Zenon
  <2>3. Len(w) = Len(<<x>>) + Len(<<y>>)
    BY <1>5, <2>1, ConcatProperties, Zenon
  <2>4. /\ w # <<x>> /\ w # <<y>> /\ <<x>> # <<>> /\ <<y>> # <<>> /\ w # <<>>
    BY <2>1, <2>3
  <2>5. <<x>> # <<y>>
    BY <1>4, <2>1
  <2>6. QED
    BY <1>5, <2>2, <2>4, <2>5
<1>7. \A rc : RbacArgs(rc) =
        (IF shallAddKubeConfigSecretName(rc) THEN <<x>> ELSE <<>>)
          \o (IF shallAddOidcCaSecretName(rc) THEN <<y>> ELSE <<>>)
  BY <1>1, <1>2, Zenon DEF RbacArgs, Opt
<1>8. ASSUME NEW rc
      PROVE  /\ shallAddKubeConfigSecretName(rc) /\ shallAddOidcCaSecretName(rc) => RbacArgs(rc) = w
             /\ shallAddKubeConfigSecretName(rc) /\ ~shallAddOidcCaSecretName(rc) => RbacArgs(rc) = <<x>>
             /\ ~shallAddKubeConfigSecretName(rc) /\ shallAddOidcCaSecretName(rc) => RbacArgs(rc) = <<y>>
             /\ ~shallAddKubeConfigSecretName(rc) /\ ~shallAddOidcCaSecretName(rc) => RbacArgs(rc) = <<>>
  <2>1. CASE shallAddKubeConfigSecretName(rc)
    BY <1>6, <1>7, <2>1, Zenon
  <2>2. CASE ~shallAddKubeConfigSecretName(rc)
    BY <1>6, <1>7, <2>2, Zenon
  <2>3. QED
    BY <2>1, <2>2
<1>9. QED
  BY <1>6, <1>8, Zenon

\* An update under another configuration that neither adds a source nor changes an
\* argument leaves volumes that suit that configuration.
LEMMA SuitableKept ==
  ASSUME ReferencesApart, NEW a \in Rcs, NEW b \in Rcs, NEW o, NEW r, Suitable(o, r, a),
         RbacSet(b) \subseteq r, RbacArgs(a) = RbacArgs(b)
  PROVE  Suitable(o, r, b)
<1>1. /\ shallAddKubeConfigSecretName(a) <=> shallAddKubeConfigSecretName(b)
      /\ shallAddOidcCaSecretName(a) <=> shallAddOidcCaSecretName(b)
  BY ArgumentsTell
<1>2. KubeConfig \in r => Setting(b, "kubeConfigStr") # None
  <2> SUFFICES ASSUME KubeConfig \in r, Setting(b, "kubeConfigStr") = None PROVE FALSE
    OBVIOUS
  <2>1. KubeConfig \in Needed(a)
    BY DEF Suitable, Reference, KubeConfig
  <2>2. Setting(a, "kubeConfigStr") # None
    BY <2>1 DEF Needed, KubeConfig, OidcCA, Oauth2Proxy
  <2>3. Setting(b, "kubeSecretRef") # None /\ shallAddKubeConfigSecretName(b)
    BY <1>1, <2>2 DEF shallAddKubeConfigSecretName
  <2>4. <<"ref", Setting(b, "kubeSecretRef")>> \in r
    BY <2>3 DEF RbacSet, fetchKubconfigSecretName
  <2>5. \E d \in Rcs : Setting(b, "kubeSecretRef") = Setting(d, "oidcCASecretRef")
    BY <2>4 DEF Suitable
  <2>6. QED
    BY <2>3, <2>5 DEF ReferencesApart
<1>3. OidcCA \in r => HasOidcCABundle(b)
  <2> SUFFICES ASSUME OidcCA \in r, ~HasOidcCABundle(b) PROVE FALSE
    OBVIOUS
  <2>1. OidcCA \in Needed(a)
    BY DEF Suitable, Reference, OidcCA
  <2>2. HasOidcCABundle(a)
    BY <2>1 DEF Needed, KubeConfig, OidcCA, Oauth2Proxy
  <2>3. Setting(b, "oidcCASecretRef") # None /\ shallAddOidcCaSecretName(b)
    BY <1>1, <2>2 DEF shallAddOidcCaSecretName
  <2>4. <<"ref", Setting(b, "oidcCASecretRef")>> \in r
    BY <2>3 DEF RbacSet, fetchOidcCASecretName
  <2>5. \E d \in Rcs : Setting(b, "oidcCASecretRef") = Setting(d, "kubeSecretRef")
    BY <2>4 DEF Suitable
  <2>6. QED
    BY <2>3, <2>5 DEF ReferencesApart
<1>4. \A s \in o \cup r : Reference(s) \/ s \in Needed(b)
  <2> SUFFICES ASSUME NEW s \in o \cup r, ~Reference(s) PROVE s \in Needed(b)
    OBVIOUS
  <2>1. s \in Needed(a)
    BY DEF Suitable
  <2>2. (s = KubeConfig => s \in r) /\ (s = OidcCA => s \in r)
    BY DEF Suitable
  <2>3. QED
    BY <1>2, <1>3, <2>1, <2>2 DEF Needed
<1>5. QED
  BY <1>4 DEF Suitable

IsSeq(s) == \E S : s \in Seq(S)

LEMMA AddSource ==
  ASSUME NEW sources, IsSeq(sources), NEW x
  PROVE  /\ IsSeq(addProjectedSecretSourceVolume(sources, x))
         /\ Range(addProjectedSecretSourceVolume(sources, x)) = Range(sources) \cup {x}
<1>1. CASE x \in Range(sources)
  BY <1>1, Zenon DEF addProjectedSecretSourceVolume
<1>2. CASE x \notin Range(sources)
  <2>1. PICK S : sources \in Seq(S)
    BY DEF IsSeq
  <2>2. sources \in Seq(S \cup {x}) /\ <<x>> \in Seq(S \cup {x})
    BY <2>1
  <2>3. PICK r : r = Append(sources, x)
    OBVIOUS
  <2>4. r \in Seq(S \cup {x})
    BY <2>2, <2>3
  <2>5. DOMAIN r = 1..(Len(sources) + 1) /\ DOMAIN sources = 1..Len(sources) /\ Len(sources) \in Nat
    BY <2>2, <2>3
  <2>6. r[Len(sources) + 1] = x /\ \A i \in 1..Len(sources) : r[i] = sources[i]
    BY <2>2, <2>3
  <2>7. Range(r) = Range(sources) \cup {x}
    BY <2>5, <2>6 DEF Range
  <2>8. addProjectedSecretSourceVolume(sources, x) = r
    BY <1>2, <2>3, Zenon DEF addProjectedSecretSourceVolume
  <2>9. QED
    BY <2>4, <2>7, <2>8 DEF IsSeq
<1>3. QED
  BY <1>1, <1>2

LEMMA AddSources ==
  ASSUME NEW sources, IsSeq(sources), NEW rc
  PROVE  /\ IsSeq(Oauth2Sources(sources, Hash, rc)) /\ IsSeq(RbacSources(sources, Hash, rc))
         /\ Range(Oauth2Sources(sources, Hash, rc)) = Range(sources) \cup Oauth2Set(rc)
         /\ Range(RbacSources(sources, Hash, rc)) = Range(sources) \cup RbacSet(rc)
<1> DEFINE kube == fetchKubconfigSecretName(Hash, rc)
           ca == fetchOidcCASecretName(Hash, rc)
           client == Setting(rc, "clientSecretRef")
           a == addProjectedSecretSourceVolume(sources, <<Oauth2Proxy, Hash>>)
           b == IF ~shallAddOidcCaSecretName(rc) THEN a ELSE addProjectedSecretSourceVolume(a, ca)
           c == IF client = None THEN b ELSE addProjectedSecretSourceVolume(b, <<"ref", client>>)
           d == addProjectedSecretSourceVolume(sources, <<"resource-attributes", Hash>>)
           e == IF ~shallAddKubeConfigSecretName(rc) THEN d ELSE addProjectedSecretSourceVolume(d, kube)
           f == IF ~shallAddOidcCaSecretName(rc) THEN e ELSE addProjectedSecretSourceVolume(e, ca)
<1>1. Oauth2Sources(sources, Hash, rc) = c /\ RbacSources(sources, Hash, rc) = f
  BY Zenon DEF Oauth2Sources, RbacSources
<1>2. /\ Oauth2Set(rc) = {<<Oauth2Proxy, Hash>>} \cup (IF shallAddOidcCaSecretName(rc) THEN {ca} ELSE {})
                            \cup (IF client = None THEN {} ELSE {<<"ref", client>>})
      /\ RbacSet(rc) = {<<"resource-attributes", Hash>>}
                         \cup (IF shallAddKubeConfigSecretName(rc) THEN {kube} ELSE {})
                         \cup (IF shallAddOidcCaSecretName(rc) THEN {ca} ELSE {})
  BY DEF Oauth2Set, RbacSet
<1>3. IsSeq(a) /\ Range(a) = Range(sources) \cup {<<Oauth2Proxy, Hash>>}
  BY AddSource
<1>4. IsSeq(b) /\ Range(b) = Range(a) \cup (IF shallAddOidcCaSecretName(rc) THEN {ca} ELSE {})
  <2> HIDE DEF a, ca
  <2> QED
    BY <1>3, AddSource
<1>5. IsSeq(c) /\ Range(c) = Range(b) \cup (IF client = None THEN {} ELSE {<<"ref", client>>})
  <2> HIDE DEF b, client
  <2> QED
    BY <1>4, AddSource
<1>6. IsSeq(d) /\ Range(d) = Range(sources) \cup {<<"resource-attributes", Hash>>}
  BY AddSource
<1>7. IsSeq(e) /\ Range(e) = Range(d) \cup (IF shallAddKubeConfigSecretName(rc) THEN {kube} ELSE {})
  <2> HIDE DEF d, kube
  <2> QED
    BY <1>6, AddSource
<1>8. IsSeq(f) /\ Range(f) = Range(e) \cup (IF shallAddOidcCaSecretName(rc) THEN {ca} ELSE {})
  <2> HIDE DEF e, ca
  <2> QED
    BY <1>7, AddSource
<1> HIDE DEF a, b, c, d, e, f, ca, kube, client
<1>9. QED
  BY <1>1, <1>2, <1>3, <1>4, <1>5, <1>6, <1>7, <1>8

\* The arguments of a pod's kube-rbac-proxy, if it has one.
Argued(p, rc) ==
  \A i \in DOMAIN p.containers :
    p.containers[i].name = KubeRbacProxy => p.containers[i].args = RbacArgs(rc)

\* The volumes of a pod: empty if no webhook has seen it, else they suit the
\* configuration that the side-cars were made from.
Mounting(p) ==
  /\ IsSeq(p.volumes[Oauth2Proxy]) /\ IsSeq(p.volumes[KubeRbacProxy])
  /\ p.from = <<>> => Range(p.volumes[Oauth2Proxy]) = {} /\ Range(p.volumes[KubeRbacProxy]) = {}
  /\ p.from # <<>> =>
       /\ RcOf(p) \in Rcs /\ Argued(p, RcOf(p))
       /\ Suitable(Range(p.volumes[Oauth2Proxy]), Range(p.volumes[KubeRbacProxy]), RcOf(p))

\* The same at a creation, where all calls are made under one configuration.
Fresh(p) ==
  /\ IsSeq(p.volumes[Oauth2Proxy]) /\ IsSeq(p.volumes[KubeRbacProxy])
  /\ \/ /\ p.from = <<>>
        /\ Range(p.volumes[Oauth2Proxy]) = {} /\ Range(p.volumes[KubeRbacProxy]) = {}
     \/ /\ p.from = Made /\ Rc \in Rcs /\ Argued(p, Rc)
        /\ Range(p.volumes[Oauth2Proxy]) = Oauth2Set(Rc)
        /\ Range(p.volumes[KubeRbacProxy]) = RbacSet(Rc)

\* The cached workload has labels it may have, and no suffix of its own.
KnownWorkload(w) == w.suffix = None /\ (w.kind # "none" => w.labels \in LabelSets)

LEMMA FreshMounts ==
  ASSUME NEW p, Fresh(p)
  PROVE  Mounting(p)
<1>1. CASE p.from = <<>>
  BY <1>1 DEF Fresh, Mounting, Made
<1>2. CASE p.from = Made /\ p.from # <<>>
  <2>1. RcOf(p) = Rc
    BY <1>2 DEF RcOf, Rc, Made
  <2>2. QED
    BY <1>2, <2>1, SuitableFresh DEF Fresh, Mounting
<1>3. QED
  BY <1>1, <1>2 DEF Fresh

LEMMA DefaultFresh ==
  ASSUME NEW p, IsPod(p), Fresh(p), p.kind # "none", KnownWorkload(seen), conf \in DOMAIN Configs
  PROVE  Fresh(PodDefault(p))
<1>1. CASE ~isTarget(p)
  <2>1. PodDefault(p) = p
    BY <1>1, Zenon DEF PodDefault
  <2>2. QED
    BY <2>1
<1>2. CASE isTarget(p)
  <2>1. PICK q : q = PodDefault(p)
    OBVIOUS
  <2>2. fetchTargetSuffix(seen, Hash) = Hash
    BY DEF fetchTargetSuffix, KnownWorkload
  <2>3. /\ q.from = Made /\ Argued(q, Rc)
        /\ q.volumes[Oauth2Proxy] = Oauth2Sources(p.volumes[Oauth2Proxy], Hash, Rc)
        /\ q.volumes[KubeRbacProxy] = RbacSources(p.volumes[KubeRbacProxy], Hash, Rc)
    BY <1>2, <2>1, <2>2, DefaultedPod DEF Argued
  <2>4. PICK o : o = p.volumes[Oauth2Proxy]
    OBVIOUS
  <2>5. PICK r : r = p.volumes[KubeRbacProxy]
    OBVIOUS
  <2>6. IsSeq(o) /\ IsSeq(r) /\ Range(o) \subseteq Oauth2Set(Rc) /\ Range(r) \subseteq RbacSet(Rc)
    BY <2>4, <2>5 DEF Fresh
  <2>7. /\ IsSeq(q.volumes[Oauth2Proxy]) /\ IsSeq(q.volumes[KubeRbacProxy])
        /\ Range(q.volumes[Oauth2Proxy]) = Oauth2Set(Rc)
        /\ Range(q.volumes[KubeRbacProxy]) = RbacSet(Rc)
    <3>1. PICK o2 : o2 = Oauth2Sources(o, Hash, Rc)
      OBVIOUS
    <3>2. PICK r2 : r2 = RbacSources(r, Hash, Rc)
      OBVIOUS
    <3>3. /\ IsSeq(o2) /\ IsSeq(r2)
          /\ Range(o2) = Range(o) \cup Oauth2Set(Rc) /\ Range(r2) = Range(r) \cup RbacSet(Rc)
      BY <2>6, <3>1, <3>2, AddSources
    <3>4. Range(o2) = Oauth2Set(Rc) /\ Range(r2) = RbacSet(Rc)
      BY <2>6, <3>3
    <3>5. q.volumes[Oauth2Proxy] = o2 /\ q.volumes[KubeRbacProxy] = r2
      BY <2>3, <2>4, <2>5, <3>1, <3>2
    <3>6. QED
      BY <3>3, <3>4, <3>5
  <2>8. Rc \in Rcs
    BY <1>2 DEF isTarget, KnownWorkload, Rcs, Rc
  <2>9. QED
    BY <2>1, <2>3, <2>7, <2>8 DEF Fresh
<1>3. QED
  BY <1>1, <1>2

LEMMA MeshFresh ==
  ASSUME NEW p, Sane(p), Fresh(p)
  PROVE  Fresh(WithMesh(p))
<1>1. PICK cs : cs = Append(p.containers, Mesh)
  OBVIOUS
<1>2. WithMesh(p) = [p EXCEPT !.containers = cs]
  BY <1>1 DEF WithMesh
<1>3. PICK q : q = WithMesh(p)
  OBVIOUS
<1>4. q.containers = cs /\ q.volumes = p.volumes /\ q.from = p.from
  BY <1>2, <1>3 DEF Sane, IsPod
<1>5. PICK S : p.containers \in Seq(S)
  BY DEF Sane, IsPod, Proper
<1>6. p.containers \in Seq(S \cup {Mesh}) /\ Mesh \in S \cup {Mesh}
  BY <1>5
<1>7. /\ Len(p.containers) \in Nat /\ DOMAIN p.containers = 1..Len(p.containers)
      /\ DOMAIN cs = 1..(Len(p.containers) + 1)
      /\ cs[Len(p.containers) + 1] = Mesh
      /\ \A i \in 1..Len(p.containers) : cs[i] = p.containers[i]
  BY <1>1, <1>6
<1>8. Mesh.name # KubeRbacProxy
  BY DEF Mesh, Container, KubeRbacProxy
<1>9. \A i \in DOMAIN cs : i \in DOMAIN p.containers \/ cs[i].name # KubeRbacProxy
  BY <1>7, <1>8
<1>10. Argued(p, Rc) => Argued(q, Rc)
  BY <1>4, <1>7, <1>9 DEF Argued
<1>11. QED
  BY <1>3, <1>4, <1>10 DEF Fresh

LEMMA SubmittedFresh ==
  ASSUME NEW kind
  PROVE  Fresh(Submitted(kind))
<1>1. PICK p : p = Submitted(kind)
  OBVIOUS
<1>2. p.from = <<>> /\ p.volumes[Oauth2Proxy] = <<>> /\ p.volumes[KubeRbacProxy] = <<>>
  BY <1>1 DEF Submitted, Proxies
<1>3. <<>> \in Seq({}) /\ Range(<<>>) = {}
  BY DEF Range
<1>4. QED
  BY <1>1, <1>2, <1>3 DEF Fresh, IsSeq

LEMMA AdmittedFresh ==
  ASSUME NEW kind, kind # "none", NEW order \in {"none", "before", "after"},
         KnownWorkload(seen), conf \in DOMAIN Configs
  PROVE  Mounting(MutatingAdmission(Submitted(kind), order))
<1>1. PICK p : p = Submitted(kind)
  OBVIOUS
<1>2. Sane(p) /\ p.kind = kind /\ Names(p.containers) = {"app"} /\ Fresh(p)
  BY <1>1, SubmittedSane, SubmittedFresh
<1>3. MutatingAdmission(p, order) \in
        {AdmitPod(p), AdmitPod(WithMesh(p)), AdmitPod(WithMesh(AdmitPod(p)))}
  BY DEF MutatingAdmission, WithMesh
<1>4. \A m : Sane(m) /\ m.kind = kind /\ Fresh(m) => Fresh(AdmitPod(m))
  BY DefaultFresh DEF AdmitPod, Sane
<1>5. Sane(WithMesh(p)) /\ WithMesh(p).kind = kind /\ Fresh(WithMesh(p))
  BY <1>2, MeshSane, MeshFresh
<1>6. PICK q : q = AdmitPod(p)
  OBVIOUS
<1>7. Sane(q) /\ q.kind = kind /\ Names(q.containers) \subseteq {"app"} \cup Proxies /\ Fresh(q)
  BY <1>2, <1>4, <1>6, AdmitSane
<1>8. "mesh" \notin Names(q.containers)
  BY <1>7 DEF Proxies, Oauth2Proxy, KubeRbacProxy
<1>9. Sane(WithMesh(q)) /\ WithMesh(q).kind = kind /\ Fresh(WithMesh(q))
  BY <1>7, <1>8, MeshSane, MeshFresh
<1>10. Fresh(AdmitPod(p)) /\ Fresh(AdmitPod(WithMesh(p))) /\ Fresh(AdmitPod(WithMesh(q)))
  BY <1>2, <1>4, <1>5, <1>9
<1>11. Fresh(MutatingAdmission(p, order))
  BY <1>3, <1>6, <1>10
<1>12. QED
  BY <1>1, <1>11, FreshMounts

\* An update that is let through keeps the names and arguments of the containers.
LEMMA ImmutableArguments ==
  ASSUME NEW p, NEW q, IsPod(p), IsPod(q), Immutable(q) = Immutable(p)
  PROVE  /\ DOMAIN q.containers = DOMAIN p.containers
         /\ \A i \in DOMAIN q.containers : /\ q.containers[i].name = p.containers[i].name
                                           /\ q.containers[i].args = p.containers[i].args
<1>1. Immutable(q).containers = Immutable(p).containers
  OBVIOUS
<1>2. DOMAIN q.containers = DOMAIN p.containers
  <2>1. DOMAIN Immutable(q).containers = DOMAIN q.containers
    BY DEF Immutable
  <2>2. DOMAIN Immutable(p).containers = DOMAIN p.containers
    BY DEF Immutable
  <2>3. QED
    BY <1>1, <2>1, <2>2
<1>3. ASSUME NEW i \in DOMAIN q.containers
      PROVE  /\ q.containers[i].name = p.containers[i].name
             /\ q.containers[i].args = p.containers[i].args
  <2>1. PICK c : c = q.containers[i]
    OBVIOUS
  <2>2. PICK d : d = p.containers[i]
    OBVIOUS
  <2>3. IsContainer(c) /\ IsContainer(d)
    BY <1>2, <2>1, <2>2 DEF IsPod, Proper
  <2>4. [c EXCEPT !.image = None] = [d EXCEPT !.image = None]
    <3>1. Immutable(q).containers[i] = [c EXCEPT !.image = None]
      BY <2>1 DEF Immutable
    <3>2. Immutable(p).containers[i] = [d EXCEPT !.image = None]
      BY <1>2, <2>2 DEF Immutable
    <3>3. QED
      BY <1>1, <3>1, <3>2
  <2>5. \A x : IsContainer(x) => [x EXCEPT !.image = None].name = x.name
                                   /\ [x EXCEPT !.image = None].args = x.args
    BY DEF IsContainer
  <2>6. QED
    BY <2>1, <2>2, <2>3, <2>4, <2>5
<1>4. QED
  BY <1>2, <1>3

\* An update that is let through, under whatever configuration.
LEMMA UpdatedMounts ==
  ASSUME ReferencesApart, KnownWorkload(seen), conf \in DOMAIN Configs,
         NEW p, IsPod(p), Mounting(p), p.kind # "none", Immutable(PodDefault(p)) = Immutable(p)
  PROVE  Mounting(PodDefault(p))
<1>1. CASE ~isTarget(p)
  <2>1. PodDefault(p) = p
    BY <1>1, Zenon DEF PodDefault
  <2>2. QED
    BY <2>1
<1>2. CASE isTarget(p)
  <2>1. PICK q : q = PodDefault(p)
    OBVIOUS
  <2>2. fetchTargetSuffix(seen, Hash) = Hash
    BY DEF fetchTargetSuffix, KnownWorkload
  <2>3. /\ q.from = Made /\ Argued(q, Rc) /\ KubeRbacProxy \in Names(q.containers)
        /\ q.volumes[KubeRbacProxy] = RbacSources(p.volumes[KubeRbacProxy], Hash, Rc)
    BY <1>2, <2>1, <2>2, DefaultedPod DEF Argued, Proxies
  <2>4. q.volumes = p.volumes
    <3>1. Immutable(q).volumes = q.volumes /\ Immutable(p).volumes = p.volumes
      BY DEF Immutable
    <3>2. QED
      BY <2>1, <3>1
  <2>5. PICK r : r = p.volumes[KubeRbacProxy]
    OBVIOUS
  <2>6. PICK r2 : r2 = RbacSources(r, Hash, Rc)
    OBVIOUS
  <2>7. RbacSet(Rc) \subseteq Range(r) /\ <<"resource-attributes", Hash>> \in Range(r)
    <3>1. Range(r2) = Range(r) \cup RbacSet(Rc)
      BY <2>5, <2>6, AddSources DEF Mounting
    <3>2. r2 = r
      BY <2>3, <2>4, <2>5, <2>6
    <3>3. <<"resource-attributes", Hash>> \in RbacSet(Rc)
      BY DEF RbacSet
    <3>4. QED
      BY <3>1, <3>2, <3>3
  <2>8. p.from # <<>>
    BY <2>5, <2>7 DEF Mounting
  <2>9. RbacArgs(RcOf(p)) = RbacArgs(Rc)
    <3>1. PICK i \in DOMAIN q.containers : q.containers[i].name = KubeRbacProxy
      BY <2>3 DEF Names
    <3>2. q.containers[i].args = RbacArgs(Rc)
      BY <2>3, <3>1 DEF Argued
    <3>3. /\ i \in DOMAIN p.containers /\ q.containers[i].name = p.containers[i].name
          /\ q.containers[i].args = p.containers[i].args
      BY <1>2, <2>1, <3>1, DefaultedPod, ImmutableArguments
    <3>4. QED
      BY <2>8, <3>1, <3>2, <3>3 DEF Mounting, Argued
  <2>10. Rc \in Rcs /\ RcOf(q) = Rc /\ q.from # <<>>
    BY <1>2, <2>3 DEF isTarget, KnownWorkload, Rcs, Rc, RcOf, Made
  <2>11. RcOf(p) \in Rcs /\ Suitable(Range(p.volumes[Oauth2Proxy]), Range(r), RcOf(p))
    BY <2>5, <2>8 DEF Mounting
  <2>12. Suitable(Range(p.volumes[Oauth2Proxy]), Range(r), Rc)
    BY <2>7, <2>9, <2>10, <2>11, SuitableKept
  <2>13. QED
    BY <2>1, <2>3, <2>4, <2>5, <2>10, <2>12 DEF Mounting
<1>3. QED
  BY <1>1, <1>2

LEMMA ResizedMounts ==
  ASSUME NEW p, IsPod(p), Mounting(p), NEW n, NEW m
  PROVE  Mounting(Resized(p, n, m))
<1>1. PICK q : q = Resized(p, n, m)
  OBVIOUS
<1>2. PICK cs : cs = p.containers
  OBVIOUS
<1> DEFINE e(i) == IF cs[i].name = n THEN [cs[i] EXCEPT !.memory = m] ELSE cs[i]
           ds == [i \in DOMAIN cs |-> e(i)]
<1>3. q = [p EXCEPT !.containers = ds]
  BY <1>1, <1>2 DEF Resized
<1>4. \A i \in DOMAIN cs : ds[i].name = cs[i].name /\ ds[i].args = cs[i].args
  <2> SUFFICES ASSUME NEW i \in DOMAIN cs
               PROVE  e(i).name = cs[i].name /\ e(i).args = cs[i].args
    OBVIOUS
  <2>1. IsContainer(cs[i])
    BY <1>2 DEF IsPod, Proper
  <2>2. QED
    BY <2>1 DEF IsContainer
<1>5. DOMAIN ds = DOMAIN cs
  OBVIOUS
<1> HIDE DEF ds, e
<1>6. q.containers = ds /\ q.volumes = p.volumes /\ q.from = p.from
  BY <1>3 DEF IsPod
<1>7. RcOf(q) = RcOf(p)
  BY <1>6 DEF RcOf
<1>8. \A rc : Argued(p, rc) => Argued(q, rc)
  BY <1>2, <1>4, <1>5, <1>6 DEF Argued
<1>9. QED
  BY <1>1, <1>6, <1>7, <1>8 DEF Mounting

-----------------------------------------------------------------------------
(* The invariant of the mounted secrets, for workloads without a suffix of *)
(* their own.                                                              *)

\* What is not queued has been written: all secrets of the configuration in force.
NeededInv == up /\ ~queued /\ Target /\ Injected(pod) => Needed(Rc) \subseteq secrets

MountInv ==
  /\ AdmissionInv /\ KnownWorkload(wl) /\ KnownWorkload(seen)
  /\ (pod = NoPod \/ pod.kind # "none") /\ Mounting(pod)
  /\ NeededInv

LEMMA InitMount == Init => MountInv
<1> SUFFICES ASSUME Init PROVE MountInv
  OBVIOUS
<1>1. AdmissionInv
  BY InitInv
<1>2. pod = NoPod /\ Mounting(pod) /\ ~Injected(pod)
  BY SubmittedFresh, SubmittedSane, FreshMounts DEF Init, NoPod
<1>3. KnownWorkload(wl) /\ KnownWorkload(seen)
  BY DEF Init, NoWorkload, KnownWorkload
<1>4. QED
  BY <1>1, <1>2, <1>3 DEF MountInv, NeededInv

LEMMA ReconcileMount ==
  ASSUME MountInv, AdmissionInv', Reconcile
  PROVE  MountInv'
<1>1. up /\ UNCHANGED <<up, conf, wl, seen, pod>>
  BY DEF Reconcile
<1>2. errors \in Nat
  BY DEF MountInv, AdmissionInv, StateInv
<1>3. Target' = Target /\ Rc' = Rc /\ Injected(pod)' = Injected(pod)
  BY <1>1 DEF Target, Rc
<1>4. NeededInv'
  <2>1. CASE Target /\ Injected(pod)
    <3>1. Apply
      BY <2>1 DEF Reconcile, Target
    <3>2. ~queued' => Needed(Rc) \subseteq secrets'
      BY <1>2, <3>1, ApplyWrites
    <3>3. QED
      BY <1>3, <3>2 DEF NeededInv
  <2>2. CASE ~(Target /\ Injected(pod))
    BY <1>3, <2>2 DEF NeededInv
  <2>3. QED
    BY <2>1, <2>2
<1>5. QED
  BY <1>1, <1>4 DEF MountInv, KnownWorkload, Mounting, RcOf, NoPod

LEMMA ProcessMount ==
  ASSUME OwnerSuffixes \subseteq {None}, MountInv, AdmissionInv',
         ChangeWorkload \/ CacheWorkload \/ ChangeVpa \/ Stop \/ Start
  PROVE  MountInv'
<1>1. UNCHANGED <<pod, secrets>>
  BY DEF ChangeWorkload, CacheWorkload, ChangeVpa, Stop, Start
<1>2. (pod = NoPod \/ pod.kind # "none")' /\ Mounting(pod)'
  BY <1>1 DEF MountInv, Mounting, RcOf, NoPod
<1>3. KnownWorkload(wl)'
  <2>1. CASE ChangeWorkload
    <3>1. CASE wl.kind = "none"
      BY <2>1, <3>1 DEF ChangeWorkload, KnownWorkload
    <3>2. CASE wl.kind # "none"
      BY <2>1, <3>2 DEF ChangeWorkload, KnownWorkload, MountInv, AdmissionInv, StateInv, IsWorkload
    <3>3. QED
      BY <3>1, <3>2
  <2>2. CASE ~ChangeWorkload
    BY <2>2 DEF CacheWorkload, ChangeVpa, Stop, Start, KnownWorkload, MountInv
  <2>3. QED
    BY <2>1, <2>2
<1>4. KnownWorkload(seen)'
  BY DEF ChangeWorkload, CacheWorkload, ChangeVpa, Stop, Start, KnownWorkload, MountInv
<1>5. NeededInv'
  <2>1. CASE ChangeWorkload \/ ChangeVpa
    BY <1>1, <2>1 DEF ChangeWorkload, ChangeVpa, NeededInv, MountInv, Target, Rc
  <2>2. CASE CacheWorkload \/ Stop
    BY <2>2 DEF CacheWorkload, Stop, NeededInv
  <2>3. CASE Start
    <3>1. seen' = wl /\ queued' = (wl.kind # "none")
      BY <2>3 DEF Start
    <3>2. ~queued' => seen'.kind = "none"
      BY <3>1, Zenon
    <3>3. QED
      BY <3>2 DEF NeededInv, Target
  <2>4. QED
    BY <2>1, <2>2, <2>3
<1>6. QED
  BY <1>2, <1>3, <1>4, <1>5 DEF MountInv

LEMMA PodMount ==
  ASSUME ReferencesApart, MountInv, AdmissionInv',
         \/ \E order \in Orders : CreatePod(order)
         \/ DeletePod \/ UpdatePod
         \/ \E n \in Proxies : Resize(n)
  PROVE  MountInv'
<1>1. UNCHANGED <<up, conf, wl, seen, secrets>>
  BY DEF CreatePod, DeletePod, UpdatePod, Resize
<1>2. KnownWorkload(wl)' /\ KnownWorkload(seen)'
  BY <1>1 DEF MountInv, KnownWorkload
<1>3. Sane(pod) /\ StateInv /\ conf \in DOMAIN Configs /\ KnownWorkload(seen) /\ Mounting(pod)
  BY DEF MountInv, AdmissionInv, StateInv
<1>4. SUFFICES /\ pod' = NoPod \/ pod'.kind # "none"
               /\ Mounting(pod')
               /\ up /\ Injected(pod') /\ ~queued' => ~queued /\ Injected(pod)
  <2>1. NeededInv'
    BY <1>1, <1>4 DEF NeededInv, MountInv, Target, Rc
  <2>2. Mounting(pod)' /\ (pod = NoPod \/ pod.kind # "none")'
    BY <1>4 DEF Mounting, RcOf, NoPod
  <2>3. QED
    BY <1>2, <2>1, <2>2 DEF MountInv
<1>5. CASE \E order \in Orders : CreatePod(order)
  <2>1. PICK order \in Orders : CreatePod(order)
    BY <1>5
  <2>2. /\ pod' = MutatingAdmission(Submitted(wl.kind), order) /\ wl.kind # "none"
        /\ queued' = (queued \/ (up /\ Injected(pod')))
    BY <2>1 DEF CreatePod
  <2>3. order \in {"none", "before", "after"}
    BY AdmissionAssumption
  <2>4. pod'.kind = wl.kind
    BY <2>2, <2>3, AdmittedPod
  <2>5. Mounting(pod')
    BY <1>3, <2>2, <2>3, AdmittedFresh
  <2>6. ~(up /\ Injected(pod') /\ ~queued')
    BY <2>2, Zenon
  <2>7. QED
    BY <2>2, <2>4, <2>5, <2>6
<1>6. CASE DeletePod
  <2>1. pod' = NoPod
    BY <1>6 DEF DeletePod
  <2>2. Mounting(NoPod) /\ ~Injected(NoPod)
    BY SubmittedFresh, SubmittedSane, FreshMounts DEF NoPod
  <2>3. QED
    BY <2>1, <2>2
<1>7. CASE UpdatePod
  <2>1. PICK p : p = PodDefault(pod)
    OBVIOUS
  <2>2. pod' = (IF Immutable(p) = Immutable(pod) THEN p ELSE pod) /\ queued' = queued /\ pod # NoPod
    BY <1>7, <2>1 DEF UpdatePod
  <2>3. p.kind = pod.kind /\ pod.kind # "none"
    BY <1>3, <2>1, <2>2, DefaultSane DEF MountInv
  <2>4. Immutable(p) = Immutable(pod) /\ Injected(p) => Injected(pod)
    BY <1>3, <2>1, UpdateInjectsNothing
  <2>5. Immutable(p) = Immutable(pod) => Mounting(p)
    BY <1>3, <2>1, <2>3, UpdatedMounts DEF Sane
  <2>6. QED
    BY <1>3, <2>2, <2>3, <2>4, <2>5
<1>8. CASE \E n \in Proxies : Resize(n)
  <2>1. PICK n \in Proxies : Resize(n)
    BY <1>8
  <2>2. PICK m \in Sizes : pod' = Resized(pod, n, m)
    BY <2>1 DEF Resize, Resized
  <2>3. pod'.kind = pod.kind /\ (Injected(pod') <=> Injected(pod))
    BY <1>3, <2>2, ResizedPod
  <2>4. Mounting(pod')
    BY <1>3, <2>2, ResizedMounts DEF Sane
  <2>5. Injected(pod) /\ queued' = queued
    BY <2>1 DEF Resize, Injected
  <2>6. pod # NoPod
    BY <2>5, SubmittedSane DEF NoPod
  <2>7. QED
    BY <2>3, <2>4, <2>5, <2>6 DEF MountInv
<1>9. QED
  BY <1>5, <1>6, <1>7, <1>8

\* Once the controller is idle, the pod of a target mounts no secret that neither
\* the reconciler has written nor the configuration refers to: in spite of the
\* webhook and the reconciler deriving the names apart, of restarts with other
\* configurations between admission and reconcile, and of updates of the pod under
\* a configuration that takes it for its own.  Two hypotheses: no workload carries
\* a suffix of its own, and no secret is referred to both as an OIDC CA and as a
\* kubeconfig.
THEOREM MountsProvidedHolds ==
  ASSUME OwnerSuffixes \subseteq {None}, ReferencesApart
  PROVE  Spec => []MountsProvided
<1>1. MountInv /\ [Next]_vars /\ AdmissionInv' => MountInv'
  <2> SUFFICES ASSUME MountInv, [Next]_vars, AdmissionInv' PROVE MountInv'
    OBVIOUS
  <2>1. CASE Reconcile
    BY <2>1, ReconcileMount
  <2>2. CASE ChangeWorkload \/ CacheWorkload \/ ChangeVpa \/ Stop \/ Start
    BY <2>2, ProcessMount
  <2>3. CASE (\E order \in Orders : CreatePod(order)) \/ DeletePod \/ UpdatePod
             \/ \E n \in Proxies : Resize(n)
    BY <2>3, PodMount
  <2>4. CASE UNCHANGED vars
    BY <2>4 DEF vars, MountInv, KnownWorkload, Mounting, RcOf, NoPod, NeededInv, Target, Rc
  <2>5. QED
    BY <2>1, <2>2, <2>3, <2>4 DEF Next
<1>2. MountInv => MountsProvided
  <2> SUFFICES ASSUME MountInv, Quiet, Served, pod.from = Made, NEW s \in Mounted
               PROVE  s \in secrets \/ Reference(s)
    BY DEF MountsProvided
  <2>1. pod.from # <<>> /\ RcOf(pod) = Rc
    BY DEF Made, RcOf, Rc
  <2>2. Suitable(Range(pod.volumes[Oauth2Proxy]), Range(pod.volumes[KubeRbacProxy]), Rc)
    BY <2>1 DEF MountInv, Mounting
  <2>3. s \in Range(pod.volumes[Oauth2Proxy]) \cup Range(pod.volumes[KubeRbacProxy])
    BY DEF Mounted, Proxies
  <2>4. Needed(Rc) \subseteq secrets
    BY DEF MountInv, NeededInv, Quiet, Served
  <2>5. QED
    BY <2>2, <2>3, <2>4 DEF Suitable
<1>3. QED
  BY InitMount, AdmissionInvariant, <1>1, <1>2, PTL DEF Spec

-----------------------------------------------------------------------------
(* The configuration.                                                      *)

\* Match and FetchTarget look through the targets apart from each other and agree:
\* the webhooks and the reconcilers, which first ask whether an object is a target
\* and then resolve its values, never take them from no target, and take them from
\* the first of several that match.
THEOREM FirstTargetFetched ==
  ASSUME NEW c, NEW T, c.targets \in Seq(T), NEW labels, NEW ns
  PROVE  /\ Match(c, labels, ns) =>
              \E i \in DOMAIN c.targets :
                /\ FetchTarget(c, labels, ns) = c.targets[i]
                /\ targetMatchesLabels(c.targets[i], labels, ns)
                /\ \A j \in 1..(i - 1) : ~targetMatchesLabels(c.targets[j], labels, ns)
         /\ ~Match(c, labels, ns) => FetchTarget(c, labels, ns) = NoTarget
<1> DEFINE I == {i \in 1..Len(c.targets) : targetMatchesLabels(c.targets[i], labels, ns)}
           first == SelectInSeq(c.targets, LAMBDA t : targetMatchesLabels(t, labels, ns))
<1>1. Len(c.targets) \in Nat /\ DOMAIN c.targets = 1..Len(c.targets)
  OBVIOUS
<1>2. first = IF I # {} THEN Min(I) ELSE 0
  BY DEF SelectInSeq
<1>3. FetchTarget(c, labels, ns) = IF first = 0 THEN NoTarget ELSE c.targets[first]
  BY DEF FetchTarget
<1>4. Match(c, labels, ns) <=> I # {}
  BY <1>1 DEF Match
<1>5. I \in SUBSET Nat
  OBVIOUS
<1>6. \A i : i \in I <=> i \in 1..Len(c.targets) /\ targetMatchesLabels(c.targets[i], labels, ns)
  OBVIOUS
<1> HIDE DEF I, first
<1>7. CASE I # {}
  <2>1. first \in I /\ \A i \in I : first <= i
    BY <1>2, <1>5, <1>7, MinIsLeast
  <2>2. first \in 1..Len(c.targets) /\ first # 0
    BY <1>1, <1>6, <2>1
  <2>3. \A j \in 1..(first - 1) : j \in 1..Len(c.targets) /\ j \notin I
    BY <1>1, <2>1, <2>2
  <2>4. QED
    BY <1>1, <1>3, <1>4, <1>6, <1>7, <2>1, <2>2, <2>3
<1>8. CASE I = {}
  BY <1>2, <1>3, <1>4, <1>8
<1>9. QED
  BY <1>7, <1>8

-----------------------------------------------------------------------------
(* The side-cars of a pod in full: where they stand, what they are made of. *)

\* Where addProxyContainer puts the containers.
LEMMA AddAt ==
  ASSUME NEW cs, Proper(cs), NEW c, IsContainer(c)
  PROVE  /\ c.name \notin Names(cs) =>
              /\ \A i \in 1..Len(cs) : addProxyContainer(cs, c)[i] = cs[i]
              /\ addProxyContainer(cs, c)[Len(cs) + 1] = c
         /\ \A k \in 1..Len(cs) : cs[k].name = c.name =>
              /\ \A i \in 1..(Len(cs) - 1) :
                   addProxyContainer(cs, c)[i] = IF i < k THEN cs[i] ELSE cs[i + 1]
              /\ addProxyContainer(cs, c)[Len(cs)] = c
<1> DEFINE I == {k \in 1..Len(cs) : cs[k].name = c.name}
           i == SelectInSeq(cs, LAMBDA d : d.name = c.name)
<1>1. Len(cs) \in Nat /\ DOMAIN cs = 1..Len(cs)
  BY DEF Proper
<1>2. i = IF I # {} THEN Min(I) ELSE 0
  BY DEF SelectInSeq
<1>3. I # {} <=> c.name \in Names(cs)
  BY <1>1 DEF Names
<1>4. I # {} => i \in 1..Len(cs) /\ cs[i].name = c.name
  <2>1. I \in SUBSET Nat
    OBVIOUS
  <2> HIDE DEF I
  <2>2. I # {} => i \in I
    BY <1>2, <2>1, MinIsLeast
  <2>3. QED
    BY <2>2 DEF I
<1>5. addProxyContainer(cs, c) = Append(IF i = 0 THEN cs ELSE RemoveAt(cs, i), c)
  BY DEF addProxyContainer
<1>6. \A k \in 1..Len(cs) : cs[k].name = c.name => I # {} /\ k = i
  <2> SUFFICES ASSUME NEW k \in 1..Len(cs), cs[k].name = c.name PROVE I # {} /\ k = i
    OBVIOUS
  <2>1. k \in I
    OBVIOUS
  <2>2. QED
    BY <1>1, <1>4, <2>1 DEF Proper
<1> HIDE DEF I, i
<1>7. CASE I = {}
  <2>1. addProxyContainer(cs, c) = Append(cs, c)
    BY <1>2, <1>5, <1>7
  <2>2. PICK S : cs \in Seq(S)
    BY DEF Proper
  <2>3. cs \in Seq(S \cup {c}) /\ c \in S \cup {c}
    BY <2>2
  <2>4. Append(cs, c)[Len(cs) + 1] = c /\ \A k \in 1..Len(cs) : Append(cs, c)[k] = cs[k]
    BY <2>3
  <2>5. QED
    BY <1>6, <1>7, <2>1, <2>4
<1>8. CASE I # {}
  <2>1. i \in 1..Len(cs) /\ i # 0
    BY <1>1, <1>4, <1>8
  <2> DEFINE rest == RemoveAt(cs, i)
  <2>2. /\ Proper(rest) /\ Len(rest) = Len(cs) - 1
        /\ \A k \in 1..(Len(cs) - 1) : rest[k] = IF k < i THEN cs[k] ELSE cs[k + 1]
    BY <2>1, RemoveContainer
  <2>3. addProxyContainer(cs, c) = Append(rest, c)
    BY <1>5, <2>1
  <2> HIDE DEF rest
  <2>4. PICK S : rest \in Seq(S)
    BY <2>2 DEF Proper
  <2>5. rest \in Seq(S \cup {c}) /\ c \in S \cup {c}
    BY <2>4
  <2>6. Append(rest, c)[Len(rest) + 1] = c /\ \A k \in 1..Len(rest) : Append(rest, c)[k] = rest[k]
    BY <2>5
  <2>7. Len(rest) + 1 = Len(cs)
    BY <1>1, <2>2
  <2>8. /\ addProxyContainer(cs, c)[Len(cs)] = c
        /\ \A k \in 1..(Len(cs) - 1) :
             addProxyContainer(cs, c)[k] = IF k < i THEN cs[k] ELSE cs[k + 1]
    BY <2>2, <2>3, <2>6, <2>7
  <2>9. QED
    BY <1>3, <1>6, <1>8, <2>8
<1>9. QED
  BY <1>7, <1>8

\* The side-cars become the last two; if they were, all others stay in place.
LEMMA AddBoth ==
  ASSUME NEW cs, Proper(cs), NEW c, IsContainer(c), c.name = Oauth2Proxy,
         NEW d, IsContainer(d), d.name = KubeRbacProxy,
         NEW one, one = addProxyContainer(cs, c), NEW both, both = addProxyContainer(one, d)
  PROVE  /\ Len(both) \in Nat /\ Len(both) >= 2 /\ DOMAIN both = 1..Len(both)
         /\ both[Len(both) - 1] = c /\ both[Len(both)] = d
         /\ Len(cs) \in Nat /\ DOMAIN cs = 1..Len(cs)
         /\ /\ Len(cs) >= 2
            /\ cs[Len(cs) - 1].name = Oauth2Proxy /\ cs[Len(cs)].name = KubeRbacProxy
            => Len(both) = Len(cs) /\ \A i \in 1..(Len(cs) - 2) : both[i] = cs[i]
<1>1. /\ Len(cs) \in Nat /\ DOMAIN cs = 1..Len(cs)
      /\ Len(cs) = 0 => Names(cs) = {}
  BY DEF Proper, Names
<1>2. /\ Proper(one) /\ Names(one) = Names(cs) \cup {Oauth2Proxy}
      /\ Len(one) = IF Oauth2Proxy \in Names(cs) THEN Len(cs) ELSE Len(cs) + 1
  BY AddContainer
<1>3. /\ Proper(both)
      /\ Len(both) = IF KubeRbacProxy \in Names(one) THEN Len(one) ELSE Len(one) + 1
  BY <1>2, AddContainer
<1>4. /\ Len(one) \in Nat /\ DOMAIN one = 1..Len(one)
      /\ Len(both) \in Nat /\ DOMAIN both = 1..Len(both)
  BY <1>2, <1>3 DEF Proper
<1>5. Len(one) >= 1 /\ one[Len(one)] = c
  <2>1. CASE Oauth2Proxy \notin Names(cs)
    BY <1>1, <1>2, <2>1, AddAt
  <2>2. CASE Oauth2Proxy \in Names(cs)
    <3>1. PICK k \in 1..Len(cs) : cs[k].name = Oauth2Proxy
      BY <1>1, <2>2 DEF Names
    <3>2. QED
      BY <1>1, <1>2, <2>2, <3>1, AddAt
  <2>3. QED
    BY <2>1, <2>2
<1>6. Len(both) >= 2 /\ both[Len(both) - 1] = c /\ both[Len(both)] = d
  <2>1. CASE KubeRbacProxy \notin Names(one)
    <3>1. Len(both) = Len(one) + 1 /\ both[Len(one) + 1] = d /\ both[Len(one)] = one[Len(one)]
      BY <1>2, <1>3, <1>4, <1>5, <2>1, AddAt
    <3>2. Len(one) + 1 - 1 = Len(one)
      BY <1>4
    <3>3. QED
      BY <1>4, <1>5, <3>1, <3>2
  <2>2. CASE KubeRbacProxy \in Names(one)
    <3>1. PICK k \in 1..Len(one) : one[k].name = KubeRbacProxy
      BY <1>4, <2>2 DEF Names
    <3>2. k # Len(one)
      BY <1>5, <3>1 DEF Oauth2Proxy, KubeRbacProxy
    <3>3. /\ Len(both) = Len(one) /\ both[Len(one)] = d
          /\ \A i \in 1..(Len(one) - 1) : both[i] = IF i < k THEN one[i] ELSE one[i + 1]
      BY <1>2, <1>3, <2>2, <3>1, AddAt
    <3>4. Len(one) - 1 \in 1..(Len(one) - 1) /\ ~(Len(one) - 1 < k) /\ Len(one) - 1 + 1 = Len(one)
      <4>1. \A n \in Nat : \A j \in 1..n : j # n =>
              n - 1 \in 1..(n - 1) /\ ~(n - 1 < j) /\ n - 1 + 1 = n
        OBVIOUS
      <4>2. QED
        BY <1>4, <3>2, <4>1
    <3>5. both[Len(one) - 1] = one[Len(one)]
      BY <3>3, <3>4
    <3>6. Len(one) >= 2
      BY <1>4, <3>4
    <3>7. QED
      BY <1>5, <3>3, <3>5, <3>6
  <2>3. QED
    BY <2>1, <2>2
<1>7. ASSUME Len(cs) >= 2, cs[Len(cs) - 1].name = Oauth2Proxy, cs[Len(cs)].name = KubeRbacProxy
      PROVE  Len(both) = Len(cs) /\ \A i \in 1..(Len(cs) - 2) : both[i] = cs[i]
  <2>1. PICK k \in 1..Len(cs) : k = Len(cs) - 1
    <3>1. \A n \in Nat : n >= 2 => n - 1 \in 1..n
      OBVIOUS
    <3>2. Len(cs) - 1 \in 1..Len(cs)
      BY <1>1, <1>7, <3>1
    <3>3. QED
      BY <3>2
  <2>2. cs[k].name = Oauth2Proxy /\ Oauth2Proxy \in Names(cs)
    <3>1. cs[k].name = Oauth2Proxy
      BY <1>7, <2>1
    <3>2. QED
      BY <1>1, <3>1 DEF Names
  <2>3. /\ Len(one) = Len(cs)
        /\ \A i \in 1..(Len(cs) - 1) : one[i] = IF i < k THEN cs[i] ELSE cs[i + 1]
    BY <1>2, <2>2, AddAt
  <2>4. one[k] = cs[Len(cs)]
    <3>1. k \in 1..(Len(cs) - 1) /\ ~(k < k) /\ k + 1 = Len(cs)
      BY <1>1, <2>1
    <3>2. QED
      BY <2>3, <3>1
  <2>5. k \in 1..Len(one) /\ one[k].name = KubeRbacProxy /\ KubeRbacProxy \in Names(one)
    BY <1>4, <1>7, <2>1, <2>3, <2>4 DEF Names
  <2>6. /\ Len(both) = Len(one)
        /\ \A i \in 1..(Len(one) - 1) : both[i] = IF i < k THEN one[i] ELSE one[i + 1]
    BY <1>2, <1>3, <2>5, AddAt
  <2>7. \A i \in 1..(Len(cs) - 2) : i \in 1..(Len(cs) - 1) /\ i < k
    BY <1>1, <2>1
  <2>8. QED
    BY <2>3, <2>6, <2>7
<1>8. QED
  BY <1>1, <1>4, <1>6, <1>7

\* The side-cars as the webhook makes them.
FlagArgs(rc) == Opt(shallAddOidcCaSecretName(rc), Flag("provider-ca-file")) \o ExtraArgs(rc)
Oauth2Args(rc, kind) ==
  IF kind # "StatefulSet" THEN FlagArgs(rc)
  ELSE Append(WithoutRedirect(FlagArgs(rc)),
              [flag |-> "redirect-url", value |-> PodHost(GetRedirectURL(rc)), valid |-> TRUE])
Fields == {"name", "image", "settings", "args", "ports", "mounts", "memory"}
Oauth2Side(c, rc, args, memory) ==
  /\ DOMAIN c = Fields /\ c.name = Oauth2Proxy
  /\ c.settings = [f \in {"codeChallengeMethod", "cookieRefresh", "emailDomain",
                          "skipProviderButton", "approvalPrompt"} |-> Setting(rc, f)]
  /\ c.args = args /\ c.ports = {"oauth2"} /\ c.mounts = {Oauth2Proxy} /\ c.memory = memory
RbacSide(c, rc, upstream, mounts, memory) ==
  /\ DOMAIN c = Fields /\ c.name = KubeRbacProxy
  /\ c.settings = [clientID |-> Setting(rc, "clientID"), upstream |-> upstream,
                   oidcIssuerURL |-> Setting(rc, "oidcIssuerURL")]
  /\ c.args = RbacArgs(rc) /\ c.ports = {"rbac"} /\ c.mounts = mounts /\ c.memory = memory
TokenMounts(vs) == {KubeRbacProxy} \cup {v \in DOMAIN vs : Token \in Range(vs[v])}

\* A call of the webhook for a target, in full.
LEMMA DefaultShape ==
  ASSUME NEW p, IsPod(p), isTarget(p)
  PROVE  LET q == PodDefault(p)
             suffix == fetchTargetSuffix(seen, Hash)
         IN /\ q.host = GetHost(Rc)
            /\ q.pull = addImagePullSecret(p.pull, Configs[conf].pullSecret)
            /\ q.volumes = [p.volumes EXCEPT ![Oauth2Proxy] = Oauth2Sources(@, suffix, Rc),
                                             ![KubeRbacProxy] = RbacSources(@, suffix, Rc)]
            /\ \E c, d, one, both :
                 /\ Oauth2Side(c, Rc, FlagArgs(Rc), Requests(p.containers, Oauth2Proxy))
                 /\ one = addProxyContainer(p.containers, c)
                 /\ RbacSide(d, Rc, buildUpstreamURL(GetUpstreamTarget(Rc), p.containers),
                             TokenMounts(q.volumes), Requests(one, KubeRbacProxy))
                 /\ both = addProxyContainer(one, d)
                 /\ q.containers = Redirected(both, p.kind, Rc)
<1> DEFINE suffix == fetchTargetSuffix(seen, Hash)
           volumes == [p.volumes EXCEPT ![Oauth2Proxy] = Oauth2Sources(@, suffix, Rc),
                                        ![KubeRbacProxy] = RbacSources(@, suffix, Rc)]
           upstream == buildUpstreamURL(GetUpstreamTarget(Rc), p.containers)
           c == getOIDCProxyContainer(p.containers, Rc)
           one == addProxyContainer(p.containers, c)
           d == getKubeRbacProxyContainer(one, volumes, upstream, Rc)
           both == addProxyContainer(one, d)
           cs == Redirected(both, p.kind, Rc)
           a == addPodLabels(addAnnotations(p, Rc))
           pull == addImagePullSecret(a.pull, Configs[conf].pullSecret)
<1>1. PodDefault(p) = [a EXCEPT !.volumes = volumes, !.containers = cs, !.pull = pull, !.from = Made]
  BY Zenon DEF PodDefault, Redirected
<1>2. Oauth2Side(c, Rc, FlagArgs(Rc), Requests(p.containers, Oauth2Proxy))
  BY DEF getOIDCProxyContainer, Container, Oauth2Side, FlagArgs, Fields
<1>3. RbacSide(d, Rc, upstream, TokenMounts(volumes), Requests(one, KubeRbacProxy))
  <2> HIDE DEF volumes, upstream, one
  <2> QED
    BY DEF getKubeRbacProxyContainer, Container, RbacSide, RbacArgs, TokenMounts, Fields
<1>4. DOMAIN a = DOMAIN p /\ a.host = GetHost(Rc) /\ a.pull = p.pull
  BY DEF IsPod, addPodLabels, addAnnotations
<1>5. one = addProxyContainer(p.containers, c) /\ both = addProxyContainer(one, d)
  OBVIOUS
<1> HIDE DEF volumes, upstream, c, one, d, both, cs, a, pull
<1>6. /\ PodDefault(p).host = GetHost(Rc) /\ PodDefault(p).pull = pull
      /\ PodDefault(p).volumes = volumes /\ PodDefault(p).containers = cs
  BY <1>1, <1>4 DEF IsPod
<1>7. pull = addImagePullSecret(p.pull, Configs[conf].pullSecret)
  BY <1>4 DEF pull
<1>8. \E c1, d1, x, y :
        /\ Oauth2Side(c1, Rc, FlagArgs(Rc), Requests(p.containers, Oauth2Proxy))
        /\ x = addProxyContainer(p.containers, c1)
        /\ RbacSide(d1, Rc, upstream, TokenMounts(volumes), Requests(x, KubeRbacProxy))
        /\ y = addProxyContainer(x, d1)
        /\ cs = Redirected(y, p.kind, Rc)
  BY <1>2, <1>3, <1>5, Zenon DEF cs
<1>9. QED
  BY <1>6, <1>7, <1>8 DEF volumes, upstream

\* The containers of a pod are those of Admission, with their ports.
PortsOf(n) ==
  IF n = "app" THEN {"web"} ELSE IF n = "mesh" THEN {"metrics"}
  ELSE IF n = Oauth2Proxy THEN {"oauth2"} ELSE {"rbac"}
Known(cs) ==
  \A i \in DOMAIN cs :
    /\ cs[i].name \in {"app", "mesh"} \cup Proxies
    /\ "ports" \in DOMAIN cs[i] /\ cs[i].ports = PortsOf(cs[i].name)

\* A pod that the webhook has seen ends with the two side-cars, as it would make
\* them again; their memory is what a call keeps.
Lasting == {"32Mi", "large"}
Formed(p) ==
  LET cs == p.containers
      n == Len(p.containers)
      rc == RcOf(p)
  IN /\ n >= 2 /\ rc \in Rcs
     /\ \E m \in Lasting : Oauth2Side(cs[n - 1], rc, Oauth2Args(rc, p.kind), m)
     /\ \E m \in Lasting :
          RbacSide(cs[n], rc, buildUpstreamURL(GetUpstreamTarget(rc), cs), TokenMounts(p.volumes), m)

\* Its volumes and pull secrets have what a call would add.
Provided(p, suffix) ==
  /\ Oauth2Sources(p.volumes[Oauth2Proxy], suffix, RcOf(p)) = p.volumes[Oauth2Proxy]
  /\ RbacSources(p.volumes[KubeRbacProxy], suffix, RcOf(p)) = p.volumes[KubeRbacProxy]
  /\ addImagePullSecret(p.pull, Configs[p.from[1]].pullSecret) = p.pull

IsFunction(f) == f = [x \in DOMAIN f |-> f[x]]
Plain(p) ==
  /\ Known(p.containers) /\ IsFunction(p.volumes)
  /\ IsSeq(p.volumes[Oauth2Proxy]) /\ IsSeq(p.volumes[KubeRbacProxy])
Shaped(p, suffix) == Plain(p) /\ (p.from # <<>> => Formed(p) /\ Provided(p, suffix))

LabelsKnown(w) == w.kind # "none" => w.labels \in LabelSets

ShapeInv ==
  /\ AdmissionInv /\ LabelsKnown(wl) /\ LabelsKnown(seen)
  /\ seen.kind # "none" => seen.suffix = wl.suffix
  /\ pod = NoPod \/ pod.kind # "none"
  /\ Shaped(pod, fetchTargetSuffix(wl, Hash))

\* The upstream of a target is no port of the side-cars.
UpstreamOfOthers == \A rc \in Rcs : GetUpstreamTarget(rc).port \notin {"oauth2", "rbac"}

\* A call adds no source twice.
LEMMA SourcesTwice ==
  ASSUME NEW sources, IsSeq(sources), NEW suffix, NEW rc
  PROVE  /\ \E s : /\ s = Oauth2Sources(sources, suffix, rc)
                   /\ IsSeq(s) /\ Oauth2Sources(s, suffix, rc) = s
         /\ \E s : /\ s = RbacSources(sources, suffix, rc)
                   /\ IsSeq(s) /\ RbacSources(s, suffix, rc) = s
<1> DEFINE kube == fetchKubconfigSecretName(suffix, rc)
           ca == fetchOidcCASecretName(suffix, rc)
           client == Setting(rc, "clientSecretRef")
           a == addProjectedSecretSourceVolume(sources, <<Oauth2Proxy, suffix>>)
           b == IF ~shallAddOidcCaSecretName(rc) THEN a ELSE addProjectedSecretSourceVolume(a, ca)
           c == IF client = None THEN b ELSE addProjectedSecretSourceVolume(b, <<"ref", client>>)
           d == addProjectedSecretSourceVolume(sources, <<"resource-attributes", suffix>>)
           e == IF ~shallAddKubeConfigSecretName(rc) THEN d ELSE addProjectedSecretSourceVolume(d, kube)
           f == IF ~shallAddOidcCaSecretName(rc) THEN e ELSE addProjectedSecretSourceVolume(e, ca)
<1>1. Oauth2Sources(sources, suffix, rc) = c /\ RbacSources(sources, suffix, rc) = f
  BY Zenon DEF Oauth2Sources, RbacSources
<1>2. IsSeq(a) /\ <<Oauth2Proxy, suffix>> \in Range(a)
  BY AddSource
<1>3. /\ IsSeq(b) /\ Range(a) \subseteq Range(b)
      /\ shallAddOidcCaSecretName(rc) => ca \in Range(b)
  <2> HIDE DEF a, ca
  <2> QED
    BY <1>2, AddSource
<1>4. /\ IsSeq(c) /\ Range(b) \subseteq Range(c)
      /\ client # None => <<"ref", client>> \in Range(c)
  <2> HIDE DEF b, client
  <2> QED
    BY <1>3, AddSource
<1>5. IsSeq(d) /\ <<"resource-attributes", suffix>> \in Range(d)
  BY AddSource
<1>6. /\ IsSeq(e) /\ Range(d) \subseteq Range(e)
      /\ shallAddKubeConfigSecretName(rc) => kube \in Range(e)
  <2> HIDE DEF d, kube
  <2> QED
    BY <1>5, AddSource
<1>7. /\ IsSeq(f) /\ Range(e) \subseteq Range(f)
      /\ shallAddOidcCaSecretName(rc) => ca \in Range(f)
  <2> HIDE DEF e, ca
  <2> QED
    BY <1>6, AddSource
<1>8. \A s, x : x \in Range(s) => addProjectedSecretSourceVolume(s, x) = s
  BY Zenon DEF addProjectedSecretSourceVolume
<1> HIDE DEF a, b, c, d, e, f
<1>9. Oauth2Sources(c, suffix, rc) = c
  <2>1. /\ addProjectedSecretSourceVolume(c, <<Oauth2Proxy, suffix>>) = c
        /\ shallAddOidcCaSecretName(rc) => addProjectedSecretSourceVolume(c, ca) = c
        /\ client # None => addProjectedSecretSourceVolume(c, <<"ref", client>>) = c
    <3> HIDE DEF ca, client
    <3> QED
      BY <1>2, <1>3, <1>4, <1>8
  <2>2. QED
    BY <2>1, Zenon DEF Oauth2Sources
<1>10. RbacSources(f, suffix, rc) = f
  <2>1. /\ addProjectedSecretSourceVolume(f, <<"resource-attributes", suffix>>) = f
        /\ shallAddKubeConfigSecretName(rc) => addProjectedSecretSourceVolume(f, kube) = f
        /\ shallAddOidcCaSecretName(rc) => addProjectedSecretSourceVolume(f, ca) = f
    <3> HIDE DEF ca, kube
    <3> QED
      BY <1>5, <1>6, <1>7, <1>8
  <2>2. QED
    BY <2>1, Zenon DEF RbacSources
<1>11. QED
  BY <1>1, <1>4, <1>7, <1>9, <1>10

\* The first container with a port.
PortIndex(cs, port) == SelectInSeq(cs, LAMBDA c : port \in c.ports)
LEMMA PortFound ==
  ASSUME NEW cs, Proper(cs), NEW port, NEW i, i = PortIndex(cs, port)
  PROVE  /\ i # 0 => i \in DOMAIN cs /\ port \in cs[i].ports
         /\ \A k \in DOMAIN cs : port \in cs[k].ports => i # 0
<1> DEFINE I == {k \in 1..Len(cs) : port \in cs[k].ports}
<1>1. Len(cs) \in Nat /\ DOMAIN cs = 1..Len(cs)
  BY DEF Proper
<1>2. i = IF I # {} THEN Min(I) ELSE 0
  BY DEF PortIndex, SelectInSeq
<1>3. I \in SUBSET Nat
  OBVIOUS
<1>4. \A k : k \in I <=> k \in DOMAIN cs /\ port \in cs[k].ports
  BY <1>1
<1>5. 0 \notin I
  BY <1>1
<1> HIDE DEF I
<1>6. I # {} => i \in I
  BY <1>2, <1>3, MinIsLeast
<1>7. QED
  BY <1>2, <1>4, <1>5, <1>6

\* A named port leads to the same container before and after the side-cars are
\* added.
LEMMA UpstreamKept ==
  ASSUME NEW cs, Proper(cs), Known(cs), NEW ds, Proper(ds), Known(ds),
         Names(cs) \ Proxies = Names(ds) \ Proxies,
         NEW up1, up1.port \notin {"oauth2", "rbac"}
  PROVE  buildUpstreamURL(up1, cs) = buildUpstreamURL(up1, ds)
<1>1. PICK port : port = up1.port
  OBVIOUS
<1>2. PICK i : i = PortIndex(cs, port)
  OBVIOUS
<1>3. PICK j : j = PortIndex(ds, port)
  OBVIOUS
<1>4. /\ i # 0 => i \in DOMAIN cs /\ port \in cs[i].ports
      /\ \A k \in DOMAIN cs : port \in cs[k].ports => i # 0
  BY <1>2, PortFound
<1>5. /\ j # 0 => j \in DOMAIN ds /\ port \in ds[j].ports
      /\ \A k \in DOMAIN ds : port \in ds[k].ports => j # 0
  BY <1>3, PortFound
<1>6. \A n \in Proxies : port \notin PortsOf(n)
  BY <1>1 DEF Proxies, PortsOf, Oauth2Proxy, KubeRbacProxy
<1>7. \A n, m \in {"app", "mesh"} : port \in PortsOf(n) /\ port \in PortsOf(m) => n = m
  BY DEF PortsOf
<1>8. ASSUME i # 0 PROVE j # 0
  <2>1. cs[i].name \in Names(cs) \ Proxies /\ port \in PortsOf(cs[i].name)
    BY <1>4, <1>6, <1>8 DEF Known, Names
  <2>2. PICK k \in DOMAIN ds : ds[k].name = cs[i].name
    BY <2>1 DEF Names
  <2>3. QED
    BY <1>5, <2>1, <2>2 DEF Known
<1>9. ASSUME j # 0 PROVE i # 0
  <2>1. ds[j].name \in Names(ds) \ Proxies /\ port \in PortsOf(ds[j].name)
    BY <1>5, <1>6, <1>9 DEF Known, Names
  <2>2. PICK k \in DOMAIN cs : cs[k].name = ds[j].name
    BY <2>1 DEF Names
  <2>3. QED
    BY <1>4, <2>1, <2>2 DEF Known
<1>10. i # 0 => cs[i].name = ds[j].name
  <2> HAVE i # 0
  <2>1. j # 0
    BY <1>8
  <2>2. cs[i].name \in {"app", "mesh"} /\ port \in PortsOf(cs[i].name)
    BY <1>4, <1>6 DEF Known
  <2>3. ds[j].name \in {"app", "mesh"} /\ port \in PortsOf(ds[j].name)
    BY <1>5, <1>6, <2>1 DEF Known
  <2>4. QED
    BY <1>7, <2>2, <2>3
<1>11. PICK x : x = <<up1.protocol, cs[i].name, port>>
  OBVIOUS
<1>12. i # 0 => x = <<up1.protocol, ds[j].name, port>>
  BY <1>10, <1>11
<1>13. /\ buildUpstreamURL(up1, cs) =
            CASE port = None -> <<up1.protocol>>
              [] port = "number" -> <<up1.protocol, port>>
              [] OTHER -> IF i = 0 THEN <<>> ELSE <<up1.protocol, cs[i].name, port>>
       /\ buildUpstreamURL(up1, ds) =
            CASE port = None -> <<up1.protocol>>
              [] port = "number" -> <<up1.protocol, port>>
              [] OTHER -> IF j = 0 THEN <<>> ELSE <<up1.protocol, ds[j].name, port>>
  <2>1. \A bs : buildUpstreamURL(up1, bs) =
          CASE up1.port = None -> <<up1.protocol>>
            [] up1.port = "number" -> <<up1.protocol, up1.port>>
            [] OTHER -> IF PortIndex(bs, up1.port) = 0 THEN <<>>
                        ELSE <<up1.protocol, bs[PortIndex(bs, up1.port)].name, up1.port>>
    BY Zenon DEF buildUpstreamURL, PortIndex
  <2>2. QED
    BY <1>1, <1>2, <1>3, <2>1
<1>14. (i = 0) <=> (j = 0)
  BY <1>8, <1>9
<1>15. QED
  BY <1>11, <1>12, <1>13, <1>14

\* addProxyContainer keeps the containers of other names.
LEMMA AddMembers ==
  ASSUME NEW cs, Proper(cs), NEW c, IsContainer(c), NEW r, r = addProxyContainer(cs, c)
  PROVE  /\ \A i \in DOMAIN r : r[i] = c \/ \E j \in DOMAIN cs : r[i] = cs[j]
         /\ \A j \in DOMAIN cs : cs[j].name # c.name => \E i \in DOMAIN r : r[i] = cs[j]
<1>1. Len(cs) \in Nat /\ DOMAIN cs = 1..Len(cs)
  BY DEF Proper
<1>2. Proper(r) /\ Len(r) = IF c.name \in Names(cs) THEN Len(cs) ELSE Len(cs) + 1
  BY AddContainer
<1>3. DOMAIN r = 1..Len(r)
  BY <1>2 DEF Proper
<1>4. CASE c.name \notin Names(cs)
  <2>1. r[Len(cs) + 1] = c /\ \A i \in 1..Len(cs) : r[i] = cs[i]
    BY <1>4, AddAt
  <2>2. \A i \in DOMAIN r : i = Len(cs) + 1 \/ i \in 1..Len(cs)
    BY <1>1, <1>2, <1>3, <1>4
  <2>3. \A i \in DOMAIN cs : i \in DOMAIN r
    BY <1>1, <1>2, <1>3, <1>4
  <2>4. QED
    BY <1>1, <2>1, <2>2, <2>3
<1>5. CASE c.name \in Names(cs)
  <2>1. PICK k \in 1..Len(cs) : cs[k].name = c.name
    BY <1>1, <1>5 DEF Names
  <2>2. r[Len(cs)] = c /\ \A i \in 1..(Len(cs) - 1) : r[i] = IF i < k THEN cs[i] ELSE cs[i + 1]
    BY <2>1, AddAt
  <2>3. \A i \in DOMAIN r : \/ i = Len(cs)
                            \/ i \in 1..(Len(cs) - 1) /\ i \in DOMAIN cs /\ i + 1 \in DOMAIN cs
    BY <1>1, <1>2, <1>3, <1>5
  <2>4. \A i \in DOMAIN r : r[i] = c \/ \E j \in DOMAIN cs : r[i] = cs[j]
    BY <2>2, <2>3
  <2>5. ASSUME NEW j \in DOMAIN cs, cs[j].name # c.name
        PROVE  \E i \in DOMAIN r : r[i] = cs[j]
    <3>1. j # k
      BY <2>1, <2>5
    <3>2. CASE j < k
      <4>1. j \in 1..(Len(cs) - 1) /\ j \in DOMAIN r
        BY <1>1, <1>2, <1>3, <1>5, <3>2
      <4>2. QED
        BY <2>2, <3>2, <4>1
    <3>3. CASE k < j
      <4>1. j - 1 \in 1..(Len(cs) - 1) /\ j - 1 \in DOMAIN r /\ ~(j - 1 < k) /\ j - 1 + 1 = j
        BY <1>1, <1>2, <1>3, <1>5, <3>3
      <4>2. r[j - 1] = cs[j]
        BY <2>2, <4>1
      <4>3. QED
        BY <4>1, <4>2
    <3>4. QED
      BY <1>1, <3>1, <3>2, <3>3
  <2>6. QED
    BY <2>4, <2>5
<1>6. QED
  BY <1>4, <1>5

\* The side-cars that are added have ports of their own.
LEMMA AddKnown ==
  ASSUME NEW cs, Proper(cs), Known(cs), NEW c, IsContainer(c),
         c.name \in Proxies, "ports" \in DOMAIN c, c.ports = PortsOf(c.name)
  PROVE  Known(addProxyContainer(cs, c))
<1>1. PICK r : r = addProxyContainer(cs, c)
  OBVIOUS
<1>2. \A i \in DOMAIN r : r[i] = c \/ \E j \in DOMAIN cs : r[i] = cs[j]
  BY <1>1, AddMembers
<1>3. QED
  BY <1>1, <1>2 DEF Known

\* The redirect URL changes the arguments of oauth2-proxy and nothing else.
LEMMA SideDirected ==
  ASSUME NEW both, NEW i \in DOMAIN both, NEW kind, NEW rc, NEW m,
         Oauth2Side(both[i], rc, FlagArgs(rc), m)
  PROVE  Oauth2Side(Redirected(both, kind, rc)[i], rc, Oauth2Args(rc, kind), m)
<1>1. CASE kind # "StatefulSet"
  BY <1>1 DEF Redirected, Oauth2Args
<1>2. CASE kind = "StatefulSet"
  <2>1. PICK c : c = both[i]
    OBVIOUS
  <2>2. PICK args : args = Oauth2Args(rc, kind)
    OBVIOUS
  <2>3. Oauth2Side(c, rc, FlagArgs(rc), m)
    BY <2>1
  <2>4. c.name = Oauth2Proxy /\ c.args = FlagArgs(rc)
    BY <2>3 DEF Oauth2Side
  <2>5. SetRedirect(c, rc) = [c EXCEPT !.args = args]
    <3>1. SetRedirect(c, rc) =
            [c EXCEPT !.args = Append(WithoutRedirect(c.args),
               [flag |-> "redirect-url", value |-> PodHost(GetRedirectURL(rc)), valid |-> TRUE])]
      BY <2>4, Zenon DEF SetRedirect
    <3>2. args = Append(WithoutRedirect(c.args),
               [flag |-> "redirect-url", value |-> PodHost(GetRedirectURL(rc)), valid |-> TRUE])
      BY <1>2, <2>2, <2>4, Zenon DEF Oauth2Args
    <3>3. QED
      BY <3>1, <3>2
  <2>6. Redirected(both, kind, rc)[i] = SetRedirect(c, rc)
    BY <1>2, <2>1 DEF Redirected
  <2>7. Oauth2Side([c EXCEPT !.args = args], rc, args, m)
    BY <2>3 DEF Oauth2Side, Fields
  <2>8. QED
    BY <2>2, <2>5, <2>6, <2>7
<1>3. QED
  BY <1>1, <1>2

\* The side-cars after a call: what they are made of and where they stand.
LEMMA DefaultSides ==
  ASSUME NEW p, IsPod(p), isTarget(p), NEW q, q = PodDefault(p), NEW n, n = Len(q.containers)
  PROVE  /\ n \in Nat /\ n >= 2 /\ DOMAIN q.containers = 1..n
         /\ Oauth2Side(q.containers[n - 1], Rc, Oauth2Args(Rc, p.kind),
                       Requests(p.containers, Oauth2Proxy))
         /\ RbacSide(q.containers[n], Rc, buildUpstreamURL(GetUpstreamTarget(Rc), p.containers),
                     TokenMounts(q.volumes), Requests(p.containers, KubeRbacProxy))
         /\ Known(p.containers) => Known(q.containers)
         /\ LET cs == p.containers
            IN /\ Len(cs) \in Nat /\ DOMAIN cs = 1..Len(cs)
               /\ /\ Len(cs) >= 2
                  /\ cs[Len(cs) - 1].name = Oauth2Proxy /\ cs[Len(cs)].name = KubeRbacProxy
                  => n = Len(cs) /\ \A i \in 1..(n - 2) : q.containers[i] = cs[i]
<1>1. PICK cs : cs = p.containers
  OBVIOUS
<1>2. PICK up1 : up1 = buildUpstreamURL(GetUpstreamTarget(Rc), cs)
  OBVIOUS
<1>3. PICK c, d, one, both :
        /\ Oauth2Side(c, Rc, FlagArgs(Rc), Requests(cs, Oauth2Proxy))
        /\ one = addProxyContainer(cs, c)
        /\ RbacSide(d, Rc, up1, TokenMounts(q.volumes), Requests(one, KubeRbacProxy))
        /\ both = addProxyContainer(one, d)
        /\ q.containers = Redirected(both, p.kind, Rc)
  <2>1. \E c, d, one, both :
          /\ Oauth2Side(c, Rc, FlagArgs(Rc), Requests(p.containers, Oauth2Proxy))
          /\ one = addProxyContainer(p.containers, c)
          /\ RbacSide(d, Rc, buildUpstreamURL(GetUpstreamTarget(Rc), p.containers),
                      TokenMounts(PodDefault(p).volumes), Requests(one, KubeRbacProxy))
          /\ both = addProxyContainer(one, d)
          /\ PodDefault(p).containers = Redirected(both, p.kind, Rc)
    BY DefaultShape, Zenon
  <2>2. QED
    BY <1>1, <1>2, <2>1
<1>4. /\ IsContainer(c) /\ c.name = Oauth2Proxy /\ c.ports = PortsOf(c.name)
      /\ IsContainer(d) /\ d.name = KubeRbacProxy /\ d.ports = PortsOf(d.name)
      /\ "ports" \in DOMAIN c /\ "ports" \in DOMAIN d
  BY <1>3 DEF Oauth2Side, RbacSide, IsContainer, Fields, PortsOf, Oauth2Proxy, KubeRbacProxy
<1>5. Proper(cs) /\ Proper(one) /\ Proper(both)
  BY <1>1, <1>3, <1>4, AddContainer DEF IsPod
<1>6. /\ Len(both) \in Nat /\ Len(both) >= 2 /\ DOMAIN both = 1..Len(both)
      /\ both[Len(both) - 1] = c /\ both[Len(both)] = d
      /\ Len(cs) \in Nat /\ DOMAIN cs = 1..Len(cs)
      /\ /\ Len(cs) >= 2
         /\ cs[Len(cs) - 1].name = Oauth2Proxy /\ cs[Len(cs)].name = KubeRbacProxy
         => Len(both) = Len(cs) /\ \A i \in 1..(Len(cs) - 2) : both[i] = cs[i]
  BY <1>3, <1>4, <1>5, AddBoth
<1>7. /\ Len(q.containers) = Len(both) /\ DOMAIN q.containers = DOMAIN both
      /\ \A i \in DOMAIN both : both[i].name # Oauth2Proxy => q.containers[i] = both[i]
  BY <1>3, <1>5, RedirectSet
<1>8. n = Len(both) /\ n \in Nat /\ n >= 2
  BY <1>6, <1>7
<1>9. PICK k : k = n - 1
  OBVIOUS
<1>10. k \in DOMAIN both /\ n \in DOMAIN both /\ both[k] = c /\ both[n] = d
  BY <1>6, <1>8, <1>9
<1>11. Oauth2Side(q.containers[k], Rc, Oauth2Args(Rc, p.kind), Requests(cs, Oauth2Proxy))
  BY <1>3, <1>10, SideDirected
<1>12. q.containers[n] = d
  BY <1>4, <1>7, <1>10 DEF Oauth2Proxy, KubeRbacProxy
<1>13. Requests(one, KubeRbacProxy) = Requests(cs, KubeRbacProxy)
  <2>1. /\ \A i \in DOMAIN one : one[i] = c \/ \E j \in DOMAIN cs : one[i] = cs[j]
        /\ \A j \in DOMAIN cs : cs[j].name # Oauth2Proxy => \E i \in DOMAIN one : one[i] = cs[j]
    BY <1>3, <1>4, <1>5, AddMembers
  <2>2. c.name # KubeRbacProxy /\ KubeRbacProxy # Oauth2Proxy
    BY <1>4 DEF Oauth2Proxy, KubeRbacProxy
  <2>3. (\E i \in DOMAIN one : one[i].name = KubeRbacProxy /\ one[i].memory = "large")
          <=> \E i \in DOMAIN cs : cs[i].name = KubeRbacProxy /\ cs[i].memory = "large"
    BY <2>1, <2>2
  <2>4. QED
    BY <2>3 DEF Requests
<1>14. ASSUME Known(cs) PROVE Known(q.containers)
  <2>1. Known(one) /\ Known(both)
    BY <1>3, <1>4, <1>5, <1>14, AddKnown DEF Proxies
  <2>2. /\ q.containers[k].name = c.name /\ q.containers[k].ports = c.ports
        /\ "ports" \in DOMAIN q.containers[k]
    BY <1>3, <1>11 DEF Oauth2Side, Fields
  <2>3. \A i \in DOMAIN both : i # k => q.containers[i] = both[i]
    BY <1>4, <1>5, <1>7, <1>10 DEF Proper
  <2>4. QED
    BY <1>7, <1>10, <2>1, <2>2, <2>3 DEF Known
<1>15. ASSUME Len(cs) >= 2, cs[Len(cs) - 1].name = Oauth2Proxy, cs[Len(cs)].name = KubeRbacProxy
       PROVE  n = Len(cs) /\ \A i \in 1..(n - 2) : q.containers[i] = cs[i]
  <2>1. n = Len(cs) /\ \A i \in 1..(n - 2) : both[i] = cs[i]
    BY <1>6, <1>8, <1>15
  <2>2. \A i \in 1..(n - 2) : i \in DOMAIN both /\ i # k
    <3>1. \A l \in Nat : \A i \in 1..(l - 2) : i \in 1..l /\ i # l - 1
      OBVIOUS
    <3>2. QED
      BY <1>6, <1>8, <1>9, <3>1
  <2>3. \A i \in 1..(n - 2) : both[i].name # Oauth2Proxy
    BY <1>4, <1>5, <1>10, <2>2 DEF Proper
  <2>4. QED
    BY <1>7, <2>1, <2>2, <2>3
<1>16. DOMAIN q.containers = 1..n
  BY <1>6, <1>7, <1>8
<1>17. RbacSide(q.containers[n], Rc, up1, TokenMounts(q.volumes), Requests(cs, KubeRbacProxy))
  BY <1>3, <1>12, <1>13
<1>18. QED
  BY <1>1, <1>2, <1>6, <1>8, <1>9, <1>11, <1>14, <1>15, <1>16, <1>17

\* What the webhook returns for a target it would return again.
LEMMA DefaultShaped ==
  ASSUME UpstreamOfOthers, Rc \in Rcs, NEW p, IsPod(p), isTarget(p), Plain(p)
  PROVE  Shaped(PodDefault(p), fetchTargetSuffix(seen, Hash))
<1>1. PICK q : q = PodDefault(p)
  OBVIOUS
<1>2. PICK n : n = Len(q.containers)
  OBVIOUS
<1>3. PICK suffix : suffix = fetchTargetSuffix(seen, Hash)
  OBVIOUS
<1>4. /\ IsPod(q) /\ q.kind = p.kind /\ q.from = Made
      /\ Names(q.containers) = Names(p.containers) \cup Proxies
      /\ q.volumes[Oauth2Proxy] = Oauth2Sources(p.volumes[Oauth2Proxy], suffix, Rc)
      /\ q.volumes[KubeRbacProxy] = RbacSources(p.volumes[KubeRbacProxy], suffix, Rc)
  BY <1>1, <1>3, DefaultedPod
<1>5. RcOf(q) = Rc /\ q.from[1] = conf
  BY <1>4 DEF RcOf, Rc, Made
<1>6. /\ n >= 2
      /\ Oauth2Side(q.containers[n - 1], Rc, Oauth2Args(Rc, p.kind),
                    Requests(p.containers, Oauth2Proxy))
      /\ RbacSide(q.containers[n], Rc, buildUpstreamURL(GetUpstreamTarget(Rc), p.containers),
                  TokenMounts(q.volumes), Requests(p.containers, KubeRbacProxy))
      /\ Known(q.containers)
  BY <1>1, <1>2, DefaultSides DEF Plain
<1>7. buildUpstreamURL(GetUpstreamTarget(Rc), p.containers)
        = buildUpstreamURL(GetUpstreamTarget(Rc), q.containers)
  <2>1. PICK t : t = GetUpstreamTarget(Rc)
    OBVIOUS
  <2>2. t.port \notin {"oauth2", "rbac"}
    BY <2>1 DEF UpstreamOfOthers
  <2>3. Names(p.containers) \ Proxies = Names(q.containers) \ Proxies
    BY <1>4
  <2>4. Proper(p.containers) /\ Known(p.containers) /\ Proper(q.containers) /\ Known(q.containers)
    BY <1>4, <1>6 DEF IsPod, Plain
  <2>5. QED
    BY <2>1, <2>2, <2>3, <2>4, UpstreamKept
<1>8. \A cs, name : Requests(cs, name) \in Lasting
  BY DEF Requests, Lasting
<1>9. Formed(q)
  BY <1>2, <1>4, <1>5, <1>6, <1>7, <1>8, Zenon DEF Formed
<1>10. /\ IsSeq(q.volumes[Oauth2Proxy]) /\ IsSeq(q.volumes[KubeRbacProxy])
       /\ Oauth2Sources(q.volumes[Oauth2Proxy], suffix, Rc) = q.volumes[Oauth2Proxy]
       /\ RbacSources(q.volumes[KubeRbacProxy], suffix, Rc) = q.volumes[KubeRbacProxy]
  <2>1. PICK s : s = p.volumes[Oauth2Proxy]
    OBVIOUS
  <2>2. PICK t : t = p.volumes[KubeRbacProxy]
    OBVIOUS
  <2>3. IsSeq(s) /\ IsSeq(t)
    BY <2>1, <2>2 DEF Plain
  <2>4. PICK u : u = Oauth2Sources(s, suffix, Rc) /\ IsSeq(u) /\ Oauth2Sources(u, suffix, Rc) = u
    BY <2>3, SourcesTwice
  <2>5. PICK v : v = RbacSources(t, suffix, Rc) /\ IsSeq(v) /\ RbacSources(v, suffix, Rc) = v
    BY <2>3, SourcesTwice
  <2>6. q.volumes[Oauth2Proxy] = u /\ q.volumes[KubeRbacProxy] = v
    BY <1>4, <2>1, <2>2, <2>4, <2>5
  <2>7. QED
    BY <2>4, <2>5, <2>6
<1>11. addImagePullSecret(q.pull, Configs[conf].pullSecret) = q.pull
  <2>1. PICK x : x = Configs[conf].pullSecret
    OBVIOUS
  <2>2. q.pull = addImagePullSecret(p.pull, x)
    BY <1>1, <2>1, DefaultShape
  <2>3. QED
    BY <2>1, <2>2 DEF addImagePullSecret
<1>12. Provided(q, suffix)
  BY <1>5, <1>10, <1>11, Zenon DEF Provided
<1>13. IsFunction(q.volumes)
  <2>1. PICK f : f = p.volumes
    OBVIOUS
  <2>2. \A a, b, x, y : IsFunction([f EXCEPT ![a] = x, ![b] = y])
    BY DEF IsFunction
  <2>3. q.volumes = [f EXCEPT ![Oauth2Proxy] = Oauth2Sources(f[Oauth2Proxy], suffix, Rc),
                              ![KubeRbacProxy] = RbacSources(f[KubeRbacProxy], suffix, Rc)]
    BY <1>1, <1>3, <2>1, DefaultShape
  <2>4. QED
    BY <2>2, <2>3
<1>14. QED
  BY <1>1, <1>3, <1>6, <1>9, <1>10, <1>12, <1>13, Zenon DEF Shaped, Plain

LEMMA MeshPlain ==
  ASSUME NEW p, IsPod(p), Plain(p)
  PROVE  Plain(WithMesh(p)) /\ WithMesh(p).from = p.from
<1>1. PICK cs : cs = Append(p.containers, Mesh)
  OBVIOUS
<1>2. PICK q : q = WithMesh(p)
  OBVIOUS
<1>3. q = [p EXCEPT !.containers = cs]
  BY <1>1, <1>2 DEF WithMesh
<1>4. q.containers = cs /\ q.volumes = p.volumes /\ q.from = p.from
  BY <1>3 DEF IsPod
<1>5. PICK S : p.containers \in Seq(S)
  BY DEF IsPod, Proper
<1>6. p.containers \in Seq(S \cup {Mesh}) /\ Mesh \in S \cup {Mesh}
  BY <1>5
<1>7. /\ Len(p.containers) \in Nat /\ DOMAIN p.containers = 1..Len(p.containers)
      /\ DOMAIN cs = 1..(Len(p.containers) + 1)
      /\ cs[Len(p.containers) + 1] = Mesh
      /\ \A i \in 1..Len(p.containers) : cs[i] = p.containers[i]
  BY <1>1, <1>6
<1>8. Mesh.name = "mesh" /\ "ports" \in DOMAIN Mesh /\ Mesh.ports = PortsOf("mesh")
  BY DEF Mesh, Container, PortsOf
<1>9. \A i \in DOMAIN cs : i \in DOMAIN p.containers \/ i = Len(p.containers) + 1
  BY <1>7
<1>10. Known(cs)
  BY <1>7, <1>8, <1>9 DEF Plain, Known
<1>11. QED
  BY <1>2, <1>4, <1>10 DEF Plain

LEMMA SubmittedPlain ==
  ASSUME NEW kind
  PROVE  Plain(Submitted(kind)) /\ Submitted(kind).from = <<>>
<1>1. PICK p : p = Submitted(kind)
  OBVIOUS
<1>2. PICK a : a = App
  OBVIOUS
<1>3. a.name = "app" /\ "ports" \in DOMAIN a /\ a.ports = PortsOf("app")
  BY <1>2 DEF App, Container, PortsOf
<1>4. /\ p.containers = <<a>> /\ p.from = <<>>
      /\ p.volumes[Oauth2Proxy] = <<>> /\ p.volumes[KubeRbacProxy] = <<>>
  BY <1>1, <1>2 DEF Submitted, Proxies
<1>5. DOMAIN <<a>> = {1} /\ <<a>>[1] = a /\ <<>> \in Seq({})
  OBVIOUS
<1>6. Known(p.containers)
  BY <1>3, <1>4, <1>5 DEF Known
<1>7. IsFunction(p.volumes)
  <2>1. \E f : p.volumes = [v \in Proxies \cup {"kube-api-access"} |-> IF v \in Proxies THEN <<>> ELSE f]
    BY <1>1 DEF Submitted
  <2>2. QED
    BY <2>1 DEF IsFunction
<1>8. QED
  BY <1>1, <1>4, <1>5, <1>6, <1>7 DEF Plain, IsSeq

\* A pod is as the webhook would make it again after all the calls of its creation.
LEMMA AdmittedShaped ==
  ASSUME UpstreamOfOthers, LabelsKnown(seen), conf \in DOMAIN Configs,
         NEW kind, kind # "none", NEW order \in {"none", "before", "after"},
         NEW suffix, seen.kind = kind => suffix = fetchTargetSuffix(seen, Hash)
  PROVE  Shaped(MutatingAdmission(Submitted(kind), order), suffix)
<1>1. PICK p : p = Submitted(kind)
  OBVIOUS
<1>2. Sane(p) /\ p.kind = kind /\ Names(p.containers) = {"app"} /\ Plain(p) /\ p.from = <<>>
  BY <1>1, SubmittedSane, SubmittedPlain
<1>3. MutatingAdmission(p, order) \in
        {AdmitPod(p), AdmitPod(WithMesh(p)), AdmitPod(WithMesh(AdmitPod(p)))}
  BY DEF MutatingAdmission, WithMesh
<1> DEFINE T == up /\ seen.kind = kind /\ Match(Configs[conf], seen.labels, Ns)
<1>4. ASSUME NEW m, Sane(m), m.kind = kind, Plain(m), m.from = <<>> \/ T
      PROVE  Shaped(AdmitPod(m), suffix) /\ (AdmitPod(m).from = <<>> \/ T)
  <2>1. CASE T
    <3>1. isTarget(m) /\ Rc \in Rcs
      BY <1>4, <2>1 DEF isTarget, LabelsKnown, Rcs, Rc
    <3>2. Shaped(PodDefault(m), suffix)
      BY <1>4, <2>1, <3>1, DefaultShaped DEF Sane
    <3>3. QED
      BY <2>1, <3>2 DEF AdmitPod
  <2>2. CASE ~T
    <3>1. AdmitPod(m) = m
      BY <1>4, <2>2, Zenon DEF AdmitPod, PodDefault, isTarget
    <3>2. QED
      BY <1>4, <2>2, <3>1 DEF Shaped
  <2>3. QED
    BY <2>1, <2>2
<1> HIDE DEF T
<1>5. Sane(WithMesh(p)) /\ WithMesh(p).kind = kind /\ Plain(WithMesh(p)) /\ WithMesh(p).from = <<>>
  BY <1>2, MeshSane, MeshPlain DEF Sane
<1>6. PICK q : q = AdmitPod(p)
  OBVIOUS
<1>7. /\ Sane(q) /\ q.kind = kind /\ Names(q.containers) \subseteq {"app"} \cup Proxies
      /\ Shaped(q, suffix) /\ (q.from = <<>> \/ T)
  BY <1>2, <1>4, <1>6, AdmitSane
<1>8. "mesh" \notin Names(q.containers)
  BY <1>7 DEF Proxies, Oauth2Proxy, KubeRbacProxy
<1>9. /\ Sane(WithMesh(q)) /\ WithMesh(q).kind = kind /\ Plain(WithMesh(q))
      /\ WithMesh(q).from = q.from
  BY <1>7, <1>8, MeshSane, MeshPlain DEF Sane, Shaped
<1>10. /\ Shaped(q, suffix) /\ Shaped(AdmitPod(WithMesh(p)), suffix)
       /\ Shaped(AdmitPod(WithMesh(q)), suffix)
  BY <1>4, <1>5, <1>7, <1>9
<1>11. QED
  BY <1>1, <1>3, <1>6, <1>10

\* The containers of a resized pod.
LEMMA ResizedAt ==
  ASSUME NEW p, IsPod(p), NEW n, NEW m, NEW q, q = Resized(p, n, m)
  PROVE  /\ DOMAIN q = DOMAIN p /\ q.kind = p.kind /\ q.volumes = p.volumes /\ q.pull = p.pull
         /\ q.from = p.from /\ q.host = p.host
         /\ DOMAIN q.containers = DOMAIN p.containers
         /\ \A i \in DOMAIN p.containers :
              q.containers[i] = IF p.containers[i].name = n
                                THEN [p.containers[i] EXCEPT !.memory = m] ELSE p.containers[i]
<1>1. PICK cs : cs = p.containers
  OBVIOUS
<1> DEFINE e(i) == IF cs[i].name = n THEN [cs[i] EXCEPT !.memory = m] ELSE cs[i]
           ds == [i \in DOMAIN cs |-> e(i)]
<1>2. q = [p EXCEPT !.containers = ds]
  BY <1>1 DEF Resized
<1>3. DOMAIN ds = DOMAIN cs /\ \A i \in DOMAIN cs : ds[i] = e(i)
  OBVIOUS
<1> HIDE DEF ds, e
<1>4. /\ DOMAIN q = DOMAIN p /\ q.kind = p.kind /\ q.volumes = p.volumes /\ q.pull = p.pull
      /\ q.from = p.from /\ q.host = p.host /\ q.containers = ds
  BY <1>2 DEF IsPod
<1>5. QED
  BY <1>1, <1>3, <1>4 DEF e

LEMMA ResizedShaped ==
  ASSUME UpstreamOfOthers, NEW p, Sane(p), NEW suffix, Shaped(p, suffix), NEW n, NEW m \in Lasting
  PROVE  Shaped(Resized(p, n, m), suffix)
<1>1. PICK q : q = Resized(p, n, m)
  OBVIOUS
<1>2. PICK cs : cs = p.containers
  OBVIOUS
<1>3. PICK ds : ds = q.containers
  OBVIOUS
<1>4. /\ q.kind = p.kind /\ q.volumes = p.volumes /\ q.pull = p.pull /\ q.from = p.from
      /\ DOMAIN ds = DOMAIN cs
      /\ \A i \in DOMAIN cs : ds[i] = IF cs[i].name = n THEN [cs[i] EXCEPT !.memory = m] ELSE cs[i]
  BY <1>1, <1>2, <1>3, ResizedAt DEF Sane
<1>5. Proper(cs) /\ Proper(ds) /\ Known(cs)
  BY <1>1, <1>2, <1>3, ResizedPod DEF Sane, IsPod, Shaped, Plain
<1>6. \A i \in DOMAIN cs : ds[i].name = cs[i].name /\ "ports" \in DOMAIN ds[i] /\ ds[i].ports = cs[i].ports
  <2> SUFFICES ASSUME NEW i \in DOMAIN cs
               PROVE  ds[i].name = cs[i].name /\ "ports" \in DOMAIN ds[i] /\ ds[i].ports = cs[i].ports
    OBVIOUS
  <2>1. PICK c : c = cs[i]
    OBVIOUS
  <2>2. "name" \in DOMAIN c /\ "ports" \in DOMAIN c
    BY <1>5, <2>1 DEF Proper, IsContainer, Known
  <2>3. ds[i] = c \/ ds[i] = [c EXCEPT !.memory = m]
    BY <1>4, <2>1
  <2>4. QED
    BY <2>1, <2>2, <2>3
<1>7. Known(ds) /\ Names(ds) = Names(cs)
  BY <1>4, <1>5, <1>6 DEF Known, Names
<1>8. RcOf(q) = RcOf(p)
  BY <1>4 DEF RcOf
<1>9. ASSUME p.from # <<>> PROVE Formed(q)
  <2>1. PICK rc : rc = RcOf(p)
    OBVIOUS
  <2>2. PICK k : k = Len(cs)
    OBVIOUS
  <2>3. PICK u : u = buildUpstreamURL(GetUpstreamTarget(rc), cs)
    OBVIOUS
  <2>4. k \in Nat /\ DOMAIN cs = 1..k /\ Len(ds) = k
    BY <1>4, <1>5, <2>2 DEF Proper
  <2>5. /\ k >= 2 /\ rc \in Rcs
        /\ \E l \in Lasting : Oauth2Side(cs[k - 1], rc, Oauth2Args(rc, p.kind), l)
        /\ \E l \in Lasting : RbacSide(cs[k], rc, u, TokenMounts(p.volumes), l)
    BY <1>2, <1>9, <2>1, <2>2, <2>3 DEF Shaped, Formed
  <2>6. \A args : \A i \in DOMAIN cs :
          (\E l \in Lasting : Oauth2Side(cs[i], rc, args, l))
            => \E l \in Lasting : Oauth2Side(ds[i], rc, args, l)
    <3> SUFFICES ASSUME NEW i \in DOMAIN cs, NEW args, NEW l \in Lasting, Oauth2Side(cs[i], rc, args, l)
                 PROVE  \E x \in Lasting : Oauth2Side(ds[i], rc, args, x)
      OBVIOUS
    <3>1. PICK c : c = cs[i]
      OBVIOUS
    <3>2. Oauth2Side([c EXCEPT !.memory = m], rc, args, m)
      BY <3>1 DEF Oauth2Side, Fields
    <3>3. QED
      BY <1>4, <3>1, <3>2
  <2>7. \A mounts : \A i \in DOMAIN cs :
          (\E l \in Lasting : RbacSide(cs[i], rc, u, mounts, l))
            => \E l \in Lasting : RbacSide(ds[i], rc, u, mounts, l)
    <3> SUFFICES ASSUME NEW i \in DOMAIN cs, NEW mounts, NEW l \in Lasting, RbacSide(cs[i], rc, u, mounts, l)
                 PROVE  \E x \in Lasting : RbacSide(ds[i], rc, u, mounts, x)
      OBVIOUS
    <3>1. PICK c : c = cs[i]
      OBVIOUS
    <3>2. RbacSide([c EXCEPT !.memory = m], rc, u, mounts, m)
      BY <3>1 DEF RbacSide, Fields
    <3>3. QED
      BY <1>4, <3>1, <3>2
  <2>8. buildUpstreamURL(GetUpstreamTarget(rc), ds) = u
    <3>1. PICK t : t = GetUpstreamTarget(rc)
      OBVIOUS
    <3>2. t.port \notin {"oauth2", "rbac"}
      BY <2>5, <3>1 DEF UpstreamOfOthers
    <3>3. buildUpstreamURL(t, ds) = buildUpstreamURL(t, cs)
      BY <1>5, <1>7, <3>2, UpstreamKept
    <3>4. QED
      BY <2>3, <3>1, <3>3
  <2>9. k - 1 \in DOMAIN cs /\ k \in DOMAIN cs
    BY <2>4, <2>5
  <2>10. /\ \E l \in Lasting : Oauth2Side(ds[k - 1], rc, Oauth2Args(rc, p.kind), l)
         /\ \E l \in Lasting : RbacSide(ds[k], rc, u, TokenMounts(p.volumes), l)
    BY <2>5, <2>6, <2>7, <2>9
  <2>11. QED
    BY <1>3, <1>4, <1>8, <2>1, <2>4, <2>5, <2>8, <2>10, Zenon DEF Formed
<1>10. p.from # <<>> => Provided(q, suffix)
  BY <1>4, <1>8 DEF Shaped, Provided
<1>11. QED
  BY <1>1, <1>3, <1>4, <1>7, <1>9, <1>10 DEF Shaped, Plain

LEMMA InitShape == Init => ShapeInv
<1> SUFFICES ASSUME Init PROVE ShapeInv
  OBVIOUS
<1>1. AdmissionInv
  BY InitInv
<1>2. pod = NoPod /\ Plain(pod) /\ pod.from = <<>>
  BY SubmittedPlain DEF Init, NoPod
<1>3. LabelsKnown(wl) /\ LabelsKnown(seen) /\ seen.kind = "none"
  BY DEF Init, NoWorkload, LabelsKnown
<1>4. QED
  BY <1>1, <1>2, <1>3 DEF ShapeInv, Shaped

\* Steps that leave the pod alone.
LEMMA OtherShape ==
  ASSUME ShapeInv, AdmissionInv',
         Reconcile \/ ChangeWorkload \/ CacheWorkload \/ ChangeVpa \/ Stop \/ Start
  PROVE  ShapeInv'
<1>1. pod' = pod /\ StateInv
  BY DEF Reconcile, ChangeWorkload, CacheWorkload, ChangeVpa, Stop, Start, ShapeInv, AdmissionInv
<1>2. (pod = NoPod \/ pod.kind # "none")'
  BY <1>1 DEF ShapeInv, NoPod
<1>3. CASE ChangeWorkload /\ wl.kind = "none"
  <2>1. \E l \in LabelSets : wl'.labels = l
    BY <1>3 DEF ChangeWorkload
  <2>2. seen' = seen /\ seen.kind = "none"
    BY <1>1, <1>3 DEF ChangeWorkload, StateInv
  <2>3. pod = NoPod /\ pod.from = <<>>
    BY <1>1, <1>3, SubmittedPlain DEF ShapeInv, StateInv, NoPod
  <2>4. Shaped(pod, fetchTargetSuffix(wl, Hash))'
    BY <1>1, <2>3 DEF ShapeInv, Shaped, Plain
  <2>5. QED
    BY <1>2, <2>1, <2>2, <2>4 DEF ShapeInv, LabelsKnown
<1>4. CASE ~(ChangeWorkload /\ wl.kind = "none")
  <2>1. wl'.suffix = wl.suffix /\ LabelsKnown(wl)'
    <3>1. CASE ChangeWorkload
      BY <1>1, <1>4, <3>1 DEF ChangeWorkload, LabelsKnown, StateInv, IsWorkload
    <3>2. CASE ~ChangeWorkload
      <4>1. wl' = wl
        BY <3>2 DEF Reconcile, CacheWorkload, ChangeVpa, Stop, Start
      <4>2. QED
        BY <4>1 DEF LabelsKnown, ShapeInv
    <3>3. QED
      BY <3>1, <3>2
  <2>2. seen' = seen \/ (seen' = wl /\ wl' = wl)
    BY DEF Reconcile, ChangeWorkload, CacheWorkload, ChangeVpa, Stop, Start
  <2>3. LabelsKnown(seen)' /\ (seen.kind # "none" => seen.suffix = wl.suffix)'
    BY <2>1, <2>2 DEF ShapeInv, LabelsKnown
  <2>4. fetchTargetSuffix(wl', Hash) = fetchTargetSuffix(wl, Hash)
    BY <2>1 DEF fetchTargetSuffix
  <2>5. Shaped(pod', fetchTargetSuffix(wl', Hash))
    BY <1>1, <2>4 DEF ShapeInv
  <2>6. Shaped(pod, fetchTargetSuffix(wl, Hash))'
    BY <2>5 DEF Shaped, Plain, Formed, Provided, RcOf
  <2>7. QED
    BY <1>2, <2>1, <2>3, <2>6 DEF ShapeInv
<1>5. QED
  BY <1>3, <1>4

LEMMA PodShape ==
  ASSUME UpstreamOfOthers, Sizes \subseteq {"large"}, ShapeInv, AdmissionInv',
         \/ \E order \in Orders : CreatePod(order)
         \/ DeletePod \/ UpdatePod
         \/ \E n \in Proxies : Resize(n)
  PROVE  ShapeInv'
<1>1. UNCHANGED <<up, conf, wl, seen>>
  BY DEF CreatePod, DeletePod, UpdatePod, Resize
<1>2. PICK suffix : suffix = fetchTargetSuffix(wl, Hash)
  OBVIOUS
<1>3. /\ Sane(pod) /\ StateInv /\ conf \in DOMAIN Configs /\ LabelsKnown(seen)
      /\ Shaped(pod, suffix)
  BY <1>2 DEF ShapeInv, AdmissionInv, StateInv
<1>4. seen.kind # "none" => suffix = fetchTargetSuffix(seen, Hash)
  BY <1>2 DEF ShapeInv, fetchTargetSuffix
<1>5. SUFFICES (pod' = NoPod \/ pod'.kind # "none") /\ Shaped(pod', suffix)
  <2>1. Shaped(pod', fetchTargetSuffix(wl', Hash))
    BY <1>1, <1>2, <1>5
  <2>2. Shaped(pod, fetchTargetSuffix(wl, Hash))'
    BY <2>1 DEF Shaped, Plain, Formed, Provided, RcOf
  <2>3. (pod = NoPod \/ pod.kind # "none")'
    BY <1>5 DEF NoPod
  <2>4. QED
    BY <1>1, <2>2, <2>3 DEF ShapeInv, LabelsKnown
<1>6. CASE \E order \in Orders : CreatePod(order)
  <2>1. PICK order \in Orders : CreatePod(order)
    BY <1>6
  <2>2. pod' = MutatingAdmission(Submitted(wl.kind), order) /\ wl.kind # "none"
    BY <2>1 DEF CreatePod
  <2>3. order \in {"none", "before", "after"}
    BY AdmissionAssumption
  <2>4. pod'.kind = wl.kind
    BY <2>2, <2>3, AdmittedPod
  <2>5. PICK kind : kind = wl.kind
    OBVIOUS
  <2>6. Shaped(MutatingAdmission(Submitted(kind), order), suffix)
    BY <1>3, <1>4, <2>2, <2>3, <2>5, AdmittedShaped
  <2>7. QED
    BY <2>2, <2>4, <2>5, <2>6
<1>7. CASE DeletePod
  <2>1. pod' = NoPod /\ Plain(NoPod) /\ NoPod.from = <<>>
    BY <1>7, SubmittedPlain DEF DeletePod, NoPod
  <2>2. QED
    BY <2>1 DEF Shaped
<1>8. CASE UpdatePod
  <2>1. PICK p : p = PodDefault(pod)
    OBVIOUS
  <2>2. pod' \in {p, pod} /\ pod # NoPod
    BY <1>8, <2>1 DEF UpdatePod
  <2>3. p.kind = pod.kind /\ pod.kind # "none"
    BY <1>3, <2>1, <2>2, DefaultSane DEF ShapeInv
  <2>4. CASE isTarget(pod)
    <3>1. seen.kind # "none" /\ Rc \in Rcs
      BY <1>3, <2>3, <2>4 DEF isTarget, LabelsKnown, Rcs, Rc
    <3>2. Shaped(p, suffix)
      BY <1>3, <1>4, <2>1, <2>4, <3>1, DefaultShaped DEF Sane, Shaped
    <3>3. QED
      BY <1>3, <2>2, <2>3, <3>2
  <2>5. CASE ~isTarget(pod)
    <3>1. p = pod
      BY <2>1, <2>5, Zenon DEF PodDefault
    <3>2. QED
      BY <1>3, <2>2, <2>3, <3>1
  <2>6. QED
    BY <2>4, <2>5
<1>9. CASE \E n \in Proxies : Resize(n)
  <2>1. PICK n \in Proxies : Resize(n)
    BY <1>9
  <2>2. PICK m \in Sizes : pod' = Resized(pod, n, m)
    BY <2>1 DEF Resize, Resized
  <2>3. m \in Lasting
    BY DEF Lasting
  <2>4. Shaped(pod', suffix)
    BY <1>3, <2>2, <2>3, ResizedShaped
  <2>5. pod'.kind = pod.kind /\ Injected(pod)
    BY <1>3, <2>1, <2>2, ResizedPod DEF Resize, Injected
  <2>6. pod # NoPod
    BY <2>5, SubmittedSane DEF NoPod
  <2>7. QED
    BY <2>4, <2>5, <2>6 DEF ShapeInv
<1>10. QED
  BY <1>6, <1>7, <1>8, <1>9

\* Containers that differ in their image only.
LEMMA Alike ==
  ASSUME NEW c, NEW d, DOMAIN c = Fields, DOMAIN d = Fields,
         c.name = d.name, c.settings = d.settings, c.args = d.args, c.ports = d.ports,
         c.mounts = d.mounts, c.memory = d.memory
  PROVE  [c EXCEPT !.image = None] = [d EXCEPT !.image = None]
<1> DEFINE e == [c EXCEPT !.image = None]
           f == [d EXCEPT !.image = None]
<1>1. DOMAIN e = Fields /\ DOMAIN f = Fields /\ IsFunction(e) /\ IsFunction(f)
  BY DEF IsFunction
<1>2. \A x \in Fields : e[x] = f[x]
  BY DEF Fields
<1> HIDE DEF e, f
<1>3. e = f
  BY <1>1, <1>2 DEF IsFunction
<1>4. QED
  BY <1>3 DEF e, f

\* The memory of a side-car that a call keeps.
LEMMA RequestsKeep ==
  ASSUME NEW cs, Proper(cs), NEW k \in DOMAIN cs, cs[k].memory \in Lasting
  PROVE  Requests(cs, cs[k].name) = cs[k].memory
<1>1. \A i \in DOMAIN cs : cs[i].name = cs[k].name => i = k
  BY DEF Proper
<1>2. (\E i \in DOMAIN cs : cs[i].name = cs[k].name /\ cs[i].memory = "large") <=> cs[k].memory = "large"
  BY <1>1
<1>3. QED
  BY <1>2 DEF Requests, Lasting

LEMMA ShapeUpdatable ==
  ASSUME ShapeInv
  PROVE  InjectedPodUpdatable
<1> SUFFICES ASSUME Target, Injected(pod), pod.from = Made
             PROVE  Immutable(PodDefault(pod)) = Immutable(pod)
  BY DEF InjectedPodUpdatable
<1>1. IsPod(pod) /\ StateInv
  BY DEF ShapeInv, AdmissionInv, Sane
<1>2. pod # NoPod
  BY SubmittedSane DEF NoPod
<1>3. isTarget(pod)
  BY <1>1, <1>2 DEF Target, StateInv, ShapeInv, isTarget
<1>4. RcOf(pod) = Rc /\ pod.from # <<>> /\ pod.from[1] = conf
  BY DEF RcOf, Rc, Made
<1>5. PICK suffix : suffix = fetchTargetSuffix(seen, Hash)
  OBVIOUS
<1>6. suffix = fetchTargetSuffix(wl, Hash)
  BY <1>5 DEF Target, ShapeInv, fetchTargetSuffix
<1>7. Plain(pod) /\ Formed(pod) /\ Provided(pod, suffix)
  BY <1>4, <1>6 DEF ShapeInv, Shaped
<1>8. PICK cs : cs = pod.containers
  OBVIOUS
<1>9. PICK q : q = PodDefault(pod)
  OBVIOUS
<1>10. PICK ds : ds = q.containers
  OBVIOUS
<1>11. PICK n : n = Len(ds)
  OBVIOUS
<1>12. PICK u : u = buildUpstreamURL(GetUpstreamTarget(Rc), cs)
  OBVIOUS
<1>13. q.volumes = pod.volumes
  <2>1. PICK f : f = pod.volumes
    OBVIOUS
  <2>2. /\ q.volumes = [f EXCEPT ![Oauth2Proxy] = Oauth2Sources(f[Oauth2Proxy], suffix, Rc),
                                 ![KubeRbacProxy] = RbacSources(f[KubeRbacProxy], suffix, Rc)]
    BY <1>1, <1>3, <1>5, <1>9, <2>1, DefaultShape
  <2>3. /\ Oauth2Sources(f[Oauth2Proxy], suffix, Rc) = f[Oauth2Proxy]
        /\ RbacSources(f[KubeRbacProxy], suffix, Rc) = f[KubeRbacProxy]
    BY <1>4, <1>7, <2>1 DEF Provided
  <2>4. q.volumes = [f EXCEPT ![Oauth2Proxy] = f[Oauth2Proxy], ![KubeRbacProxy] = f[KubeRbacProxy]]
    BY <2>2, <2>3
  <2>5. IsFunction(f)
    BY <1>7, <2>1 DEF Plain
  <2>6. QED
    BY <2>1, <2>4, <2>5 DEF IsFunction
<1>14. q.pull = pod.pull
  <2>1. PICK x : x = Configs[conf].pullSecret
    OBVIOUS
  <2>2. q.pull = addImagePullSecret(pod.pull, x)
    BY <1>1, <1>3, <1>9, <2>1, DefaultShape
  <2>3. QED
    BY <1>4, <1>7, <2>1, <2>2 DEF Provided
<1>15. PICK l, m \in Lasting :
         /\ Len(cs) >= 2
         /\ Oauth2Side(cs[Len(cs) - 1], Rc, Oauth2Args(Rc, pod.kind), l)
         /\ RbacSide(cs[Len(cs)], Rc, u, TokenMounts(pod.volumes), m)
  BY <1>4, <1>7, <1>8, <1>12 DEF Formed
<1>16. cs[Len(cs) - 1].name = Oauth2Proxy /\ cs[Len(cs)].name = KubeRbacProxy
  BY <1>15 DEF Oauth2Side, RbacSide
<1>17. /\ n \in Nat /\ DOMAIN ds = 1..n
       /\ Oauth2Side(ds[n - 1], Rc, Oauth2Args(Rc, pod.kind), Requests(cs, Oauth2Proxy))
       /\ RbacSide(ds[n], Rc, u, TokenMounts(q.volumes), Requests(cs, KubeRbacProxy))
       /\ Len(cs) \in Nat /\ DOMAIN cs = 1..Len(cs)
       /\ n = Len(cs) /\ \A i \in 1..(n - 2) : ds[i] = cs[i]
  BY <1>1, <1>3, <1>8, <1>9, <1>10, <1>11, <1>12, <1>15, <1>16, DefaultSides
<1>18. PICK k : k = n - 1
  OBVIOUS
<1>19. k \in DOMAIN cs /\ n \in DOMAIN cs /\ \A i \in DOMAIN cs : i = k \/ i = n \/ i \in 1..(n - 2)
  <2>1. \A a \in Nat : a >= 2 =>
          a - 1 \in 1..a /\ a \in 1..a /\ \A i \in 1..a : i = a - 1 \/ i = a \/ i \in 1..(a - 2)
    OBVIOUS
  <2>2. QED
    BY <1>15, <1>17, <1>18, <2>1
<1>20. /\ Oauth2Side(cs[k], Rc, Oauth2Args(Rc, pod.kind), l)
       /\ RbacSide(cs[n], Rc, u, TokenMounts(pod.volumes), m)
       /\ Oauth2Side(ds[k], Rc, Oauth2Args(Rc, pod.kind), Requests(cs, Oauth2Proxy))
       /\ RbacSide(ds[n], Rc, u, TokenMounts(pod.volumes), Requests(cs, KubeRbacProxy))
  BY <1>13, <1>15, <1>17, <1>18
<1>21. Requests(cs, Oauth2Proxy) = l /\ Requests(cs, KubeRbacProxy) = m
  <2>1. Proper(cs)
    BY <1>1, <1>8 DEF IsPod
  <2>2. /\ cs[k].name = Oauth2Proxy /\ cs[k].memory = l
        /\ cs[n].name = KubeRbacProxy /\ cs[n].memory = m
    BY <1>20 DEF Oauth2Side, RbacSide
  <2>3. QED
    BY <1>19, <2>1, <2>2, RequestsKeep
<1>22. [ds[k] EXCEPT !.image = None] = [cs[k] EXCEPT !.image = None]
  <2>1. PICK c : c = ds[k]
    OBVIOUS
  <2>2. PICK d : d = cs[k]
    OBVIOUS
  <2>3. Oauth2Side(c, Rc, Oauth2Args(Rc, pod.kind), l) /\ Oauth2Side(d, Rc, Oauth2Args(Rc, pod.kind), l)
    BY <1>20, <1>21, <2>1, <2>2
  <2>4. /\ DOMAIN c = Fields /\ DOMAIN d = Fields
        /\ c.name = d.name /\ c.settings = d.settings /\ c.args = d.args /\ c.ports = d.ports
        /\ c.mounts = d.mounts /\ c.memory = d.memory
    BY <2>3, Zenon DEF Oauth2Side
  <2>5. QED
    BY <2>1, <2>2, <2>4, Alike
<1>23. [ds[n] EXCEPT !.image = None] = [cs[n] EXCEPT !.image = None]
  <2>1. PICK c : c = ds[n]
    OBVIOUS
  <2>2. PICK d : d = cs[n]
    OBVIOUS
  <2>3. RbacSide(c, Rc, u, TokenMounts(pod.volumes), m) /\ RbacSide(d, Rc, u, TokenMounts(pod.volumes), m)
    BY <1>20, <1>21, <2>1, <2>2
  <2>4. /\ DOMAIN c = Fields /\ DOMAIN d = Fields
        /\ c.name = d.name /\ c.settings = d.settings /\ c.args = d.args /\ c.ports = d.ports
        /\ c.mounts = d.mounts /\ c.memory = d.memory
    BY <2>3, Zenon DEF RbacSide
  <2>5. QED
    BY <2>1, <2>2, <2>4, Alike
<1>24. \A i \in DOMAIN cs : [ds[i] EXCEPT !.image = None] = [cs[i] EXCEPT !.image = None]
  BY <1>17, <1>19, <1>22, <1>23
<1>25. [i \in DOMAIN ds |-> [ds[i] EXCEPT !.image = None]]
         = [i \in DOMAIN cs |-> [cs[i] EXCEPT !.image = None]]
  BY <1>17, <1>24
<1>26. QED
  BY <1>8, <1>9, <1>10, <1>13, <1>14, <1>25, Zenon DEF Immutable

\* A pod with side-cars can be updated for as long as the configuration resolves to
\* what they were made from: the webhook, called once more after any number of calls
\* in any order with the other webhook, of updates, restarts and resizes, changes no
\* container but its image, no volume and no pull secret.  Two hypotheses: no target
\* is proxied to a port of its own side-cars, whose place in the list of containers
\* changes with the calls, and the autoscaler requests more than 100Mi if it resizes
\* a side-car (Admission_resize shows what a smaller request leads to).
THEOREM InjectedPodUpdatableHolds ==
  ASSUME UpstreamOfOthers, Sizes \subseteq {"large"}
  PROVE  Spec => []InjectedPodUpdatable
<1>1. ShapeInv /\ [Next]_vars /\ AdmissionInv' => ShapeInv'
  <2> SUFFICES ASSUME ShapeInv, [Next]_vars, AdmissionInv' PROVE ShapeInv'
    OBVIOUS
  <2>1. CASE Reconcile \/ ChangeWorkload \/ CacheWorkload \/ ChangeVpa \/ Stop \/ Start
    BY <2>1, OtherShape
  <2>2. CASE (\E order \in Orders : CreatePod(order)) \/ DeletePod \/ UpdatePod
             \/ \E n \in Proxies : Resize(n)
    BY <2>2, PodShape
  <2>3. CASE UNCHANGED vars
    <3>1. UNCHANGED <<wl, seen, pod>>
      BY <2>3 DEF vars
    <3>2. Shaped(pod, fetchTargetSuffix(wl, Hash))'
      BY <3>1 DEF ShapeInv, Shaped, Plain, Formed, Provided, RcOf
    <3>3. QED
      BY <3>1, <3>2 DEF ShapeInv, LabelsKnown, NoPod
  <2>4. QED
    BY <2>1, <2>2, <2>3 DEF Next
<1>2. ShapeInv => InjectedPodUpdatable
  BY ShapeUpdatable
<1>3. QED
  BY InitShape, AdmissionInvariant, <1>1, <1>2, PTL DEF Spec

-----------------------------------------------------------------------------
(* The redirect URL in the arguments of oauth2-proxy and the HTTP route.   *)

\* What the redirect URL in the arguments of a pod and the annotated host come from.
Directed(p) ==
  /\ Injected(p) => p.from # <<>>
  /\ p.from # <<>> =>
       /\ RcOf(p) \in Rcs /\ p.host = GetHost(RcOf(p)) /\ Oauth2Proxy \in Names(p.containers)
       /\ \A i \in DOMAIN p.containers :
            p.containers[i].name = Oauth2Proxy => p.containers[i].args = Oauth2Args(RcOf(p), p.kind)

RouteInv ==
  up /\ ~queued /\ Target /\ Injected(pod) /\ ShallCreateHTTPRoute(Rc) =>
    route = IF seen.kind = "Deployment" THEN GetHost(Rc) ELSE PodHost(pod.host)

DirectInv ==
  /\ AdmissionInv /\ LabelsKnown(wl) /\ LabelsKnown(seen)
  /\ pod = NoPod \/ pod.kind # "none"
  /\ Directed(pod) /\ RouteInv

\* Hosts and redirect URLs have a domain.
IsHost(h) == (\E S : h \in Seq(Seq(S))) /\ Len(h) > 1
HostsDotted == \A rc \in Rcs : IsHost(GetHost(rc)) /\ IsHost(GetRedirectURL(rc))

\* Targets with the same redirect URL have the same host, in all configurations.
RedirectTellsHost ==
  \A a, b \in Rcs : GetRedirectURL(a) = GetRedirectURL(b) => GetHost(a) = GetHost(b)

\* The arguments that a configuration gives are a sequence.
ArgumentsListed == \A rc \in Rcs : IsSeq(Setting(rc, "extraArgs"))

LEMMA KeptIsSeq ==
  ASSUME NEW s, IsSeq(s), NEW I \in SUBSET DOMAIN s
  PROVE  IsSeq(Kept(s, I))
<1>1. PICK S : s \in Seq(S)
  BY DEF IsSeq
<1>2. Len(s) \in Nat /\ DOMAIN s = 1..Len(s)
  BY <1>1
<1>3. IsFiniteSet(1..Len(s))
  BY <1>2, FS_Interval
<1>4. IsFiniteSet(I)
  BY <1>2, <1>3, FS_Subset
<1>5. Cardinality(I) \in Nat
  BY <1>4, FS_CardinalityType
<1> DEFINE e(j) == s[CHOOSE i \in I : Cardinality({k \in I : k <= i}) = j]
<1>6. PICK n \in Nat : n = Cardinality(I)
  BY <1>5
<1>7. Kept(s, I) = [j \in 1..n |-> e(j)]
  BY <1>6, Zenon DEF Kept
<1> HIDE DEF e
<1>8. [j \in 1..n |-> e(j)] \in Seq({e(j) : j \in 1..n})
  OBVIOUS
<1>9. QED
  BY <1>7, <1>8 DEF IsSeq

LEMMA ExtraListed ==
  ASSUME NEW rc, IsSeq(Setting(rc, "extraArgs"))
  PROVE  IsSeq(ExtraArgs(rc))
<1>1. PICK extra : extra = Setting(rc, "extraArgs")
  OBVIOUS
<1>2. ExtraArgs(rc) = Kept(extra, {i \in DOMAIN extra : extra[i].valid})
  BY <1>1, Zenon DEF ExtraArgs
<1>3. PICK I : I = {i \in DOMAIN extra : extra[i].valid}
  OBVIOUS
<1>4. I \in SUBSET DOMAIN extra
  BY <1>3
<1>5. QED
  BY <1>1, <1>2, <1>3, <1>4, KeptIsSeq

\* The arguments apart from the redirect URL of a stateful set.
LEMMA FlagsListed ==
  ASSUME NEW rc, IsSeq(Setting(rc, "extraArgs"))
  PROVE  /\ IsSeq(FlagArgs(rc))
         /\ \A i \in DOMAIN FlagArgs(rc) : FlagArgs(rc)[i].flag = "redirect-url" =>
              \E j \in DOMAIN ExtraArgs(rc) : ExtraArgs(rc)[j].flag = "redirect-url"
<1>1. PICK x : x = ExtraArgs(rc)
  OBVIOUS
<1>2. PICK y : y = Opt(shallAddOidcCaSecretName(rc), Flag("provider-ca-file"))
  OBVIOUS
<1>3. PICK args : args = FlagArgs(rc)
  OBVIOUS
<1>4. args = y \o x
  BY <1>1, <1>2, <1>3 DEF FlagArgs
<1>5. PICK S : x \in Seq(S)
  BY <1>1, ExtraListed DEF IsSeq
<1>6. PICK c : c = Flag("provider-ca-file")
  OBVIOUS
<1>7. c.flag # "redirect-url"
  BY <1>6 DEF Flag
<1>8. y = <<>> \/ y = <<c>>
  BY <1>2, <1>6 DEF Opt
<1>9. y \in Seq({c}) /\ \A i \in DOMAIN y : y[i].flag # "redirect-url"
  <2>1. \A i \in DOMAIN <<c>> : <<c>>[i].flag # "redirect-url"
    <3>1. \A i \in DOMAIN <<c>> : <<c>>[i] = c
      OBVIOUS
    <3>2. QED
      BY <1>7, <3>1
  <2>2. <<c>> \in Seq({c}) /\ <<>> \in Seq({c}) /\ DOMAIN <<>> = {}
    OBVIOUS
  <2>3. CASE y = <<>>
    BY <2>2, <2>3
  <2>4. CASE y = <<c>>
    BY <2>1, <2>2, <2>4
  <2>5. QED
    BY <1>8, <2>3, <2>4
<1>10. x \in Seq(S \cup {c}) /\ y \in Seq(S \cup {c})
  BY <1>5, <1>9
<1>11. args \in Seq(S \cup {c})
  BY <1>4, <1>10
<1>12. \A i \in DOMAIN args :
         \/ i \in DOMAIN y /\ args[i] = y[i]
         \/ i - Len(y) \in DOMAIN x /\ args[i] = x[i - Len(y)]
  BY <1>4, <1>10
<1>13. \A i \in DOMAIN args : args[i].flag = "redirect-url" =>
         \E j \in DOMAIN x : x[j].flag = "redirect-url"
  <2>1. TAKE i \in DOMAIN args
  <2>2. HAVE args[i].flag = "redirect-url"
  <2>3. PICK j : j = i - Len(y)
    OBVIOUS
  <2>4. ~(i \in DOMAIN y /\ args[i] = y[i])
    BY <1>9, <2>2
  <2>5. j \in DOMAIN x /\ args[i] = x[j]
    BY <1>12, <2>3, <2>4
  <2>6. QED
    BY <2>2, <2>5
<1>14. QED
  BY <1>1, <1>3, <1>11, <1>13 DEF IsSeq

\* Of the arguments that set a redirect URL an appended one is the last.
LEMMA AppendedIsLast ==
  ASSUME NEW z, IsSeq(z), NEW e, e.flag = "redirect-url",
         NEW a, a = Append(z, e), NEW R, R = {i \in DOMAIN a : a[i].flag = "redirect-url"}
  PROVE  Last(a) = e /\ R # {} /\ a[Max(R)] = e
<1>1. PICK S : z \in Seq(S)
  BY DEF IsSeq
<1>2. PICK n : n = Len(z) + 1
  OBVIOUS
<1>3. z \in Seq(S \cup {e}) /\ e \in S \cup {e}
  BY <1>1
<1>4. n \in Nat /\ a \in Seq(S \cup {e}) /\ Len(a) = n /\ a[n] = e /\ DOMAIN a = 1..n /\ n \in 1..n
  BY <1>2, <1>3
<1>5. n \in R /\ R \subseteq 1..n
  BY <1>4
<1>6. \A x \in R : (\A y \in R : x >= y) <=> x = n
  BY <1>4, <1>5
<1>7. Max(R) = n
  BY <1>5, <1>6 DEF Max
<1>8. QED
  BY <1>4, <1>5, <1>7 DEF Last

\* The last argument that oauth2-proxy of a stateful set gets is the redirect URL.
LEMMA RedirectIsLast ==
  ASSUME NEW rc, IsSeq(Setting(rc, "extraArgs")),
         NEW a, a = Oauth2Args(rc, "StatefulSet"),
         NEW R, R = {i \in DOMAIN a : a[i].flag = "redirect-url"}
  PROVE  /\ Last(a).value = PodHost(GetRedirectURL(rc))
         /\ R # {} /\ a[Max(R)].value = PodHost(GetRedirectURL(rc))
<1>1. PICK args : args = FlagArgs(rc)
  OBVIOUS
<1>2. PICK z : z = WithoutRedirect(args)
  OBVIOUS
<1>3. IsSeq(z)
  <2>1. \E I \in SUBSET DOMAIN args : z = Kept(args, I)
    BY <1>2 DEF WithoutRedirect
  <2>2. QED
    BY <1>1, <2>1, FlagsListed, KeptIsSeq
<1>4. PICK e : e = [flag |-> "redirect-url", value |-> PodHost(GetRedirectURL(rc)), valid |-> TRUE]
  OBVIOUS
<1>5. e.flag = "redirect-url" /\ e.value = PodHost(GetRedirectURL(rc))
  BY <1>4
<1>6. a = Append(z, e)
  BY <1>1, <1>2, <1>4, Zenon DEF Oauth2Args
<1>7. Last(a) = e /\ R # {} /\ a[Max(R)] = e
  BY <1>3, <1>5, <1>6, AppendedIsLast
<1>8. QED
  BY <1>5, <1>7

\* The hosts of the pods of different hosts are different.
LEMMA PodHostTells ==
  ASSUME NEW g, NEW h, IsHost(g), IsHost(h), PodHost(g) = PodHost(h)
  PROVE  g = h
<1>1. PICK S : g \in Seq(Seq(S))
  BY DEF IsHost
<1>2. PICK T : h \in Seq(Seq(T))
  BY DEF IsHost
<1>3. PICK U : U = S \cup T \cup {Index}
  OBVIOUS
<1>4. \A s \in Seq(S) : s \in Seq(U)
  BY <1>3
<1>5. \A s \in Seq(T) : s \in Seq(U)
  BY <1>3
<1>6. PICK V : V = Seq(U)
  OBVIOUS
<1>7. Seq(S) \subseteq V /\ Seq(T) \subseteq V
  BY <1>4, <1>5, <1>6
<1>8. g \in Seq(V) /\ h \in Seq(V)
  <2>1. \A A, B : A \subseteq B => \A s \in Seq(A) : s \in Seq(B)
    OBVIOUS
  <2>2. QED
    BY <1>1, <1>2, <1>7, <2>1
<1>9. Len(g) > 1 /\ Len(h) > 1 /\ g # <<>> /\ h # <<>>
  BY <1>8 DEF IsHost
<1>10. /\ Head(g) \in V /\ Tail(g) \in Seq(V) /\ Len(Tail(g)) = Len(g) - 1
       /\ Head(h) \in V /\ Tail(h) \in Seq(V) /\ Len(Tail(h)) = Len(h) - 1
       /\ \A i \in 1..Len(Tail(g)) : Tail(g)[i] = g[i + 1]
       /\ \A i \in 1..Len(Tail(h)) : Tail(h)[i] = h[i + 1]
  BY <1>8, <1>9, HeadTailProperties
<1>11. PICK a : a = Append(Head(g), Index)
  OBVIOUS
<1>12. PICK b : b = Append(Head(h), Index)
  OBVIOUS
<1>13. Index \in U /\ Head(g) \in Seq(U) /\ Head(h) \in Seq(U)
  BY <1>3, <1>6, <1>10
<1>14. a \in V /\ b \in V
  BY <1>6, <1>11, <1>12, <1>13
<1>15. PodHost(g) = <<a>> \o Tail(g) /\ PodHost(h) = <<b>> \o Tail(h)
  BY <1>9, <1>11, <1>12, Zenon DEF PodHost
<1>16. PICK r, s \in Seq(V) : r = <<a>> \o Tail(g) /\ s = <<b>> \o Tail(h)
  <2>1. <<a>> \o Tail(g) \in Seq(V)
    BY <1>10, <1>14
  <2>2. <<b>> \o Tail(h) \in Seq(V)
    BY <1>10, <1>14
  <2>3. QED
    BY <2>1, <2>2, Zenon
<1>17. r = s
  BY <1>15, <1>16
<1>18. /\ Len(r) = Len(g) /\ r[1] = a /\ \A i \in 2..Len(g) : r[i] = g[i]
       /\ Len(s) = Len(h) /\ s[1] = b /\ \A i \in 2..Len(h) : s[i] = h[i]
  <2>1. \A x \in V, t, u \in Seq(V) :
          t # <<>> /\ u = <<x>> \o Tail(t) => 
            Len(u) = Len(t) /\ u[1] = x /\ \A i \in 2..Len(t) : u[i] = t[i]
    OBVIOUS
  <2>2. QED
    BY <1>8, <1>9, <1>14, <1>16, <2>1
<1>19. Len(g) = Len(h) /\ a = b
  BY <1>17, <1>18
<1>20. Head(g) = Head(h)
  <2>1. \A s1, t1 \in Seq(U), e \in U : Append(s1, e) = Append(t1, e) => s1 = t1
    BY AppendInjective
  <2>2. QED
    BY <1>11, <1>12, <1>13, <1>19, <2>1
<1>21. g[1] = h[1]
  BY <1>8, <1>9, <1>20
<1>22. \A i \in 1..Len(g) : g[i] = h[i]
  <2>1. \A i \in 1..Len(g) : i = 1 \/ i \in 2..Len(g)
    BY <1>8
  <2>2. QED
    BY <1>17, <1>18, <1>19, <1>21, <2>1
<1>23. QED
  BY <1>8, <1>19, <1>22

\* The arguments of oauth2-proxy.
LEMMA ArgumentsFound ==
  ASSUME NEW p, IsPod(p), NEW k \in DOMAIN p.containers, p.containers[k].name = Oauth2Proxy
  PROVE  Arguments(p) = p.containers[k].args
<1>1. PICK cs : cs = p.containers
  OBVIOUS
<1>2. Len(cs) \in Nat /\ DOMAIN cs = 1..Len(cs) /\ Proper(cs)
  BY <1>1 DEF IsPod, Proper
<1> DEFINE I == {j \in 1..Len(cs) : cs[j].name = Oauth2Proxy}
           i == SelectInSeq(cs, LAMBDA c : c.name = Oauth2Proxy)
<1>3. i = IF I # {} THEN Min(I) ELSE 0
  BY DEF SelectInSeq
<1>4. Arguments(p) = cs[i].args
  BY <1>1, Zenon DEF Arguments
<1>5. I \in SUBSET Nat /\ k \in I
  BY <1>1, <1>2
<1>6. \A j \in I : j = k
  BY <1>1, <1>2 DEF Proper
<1> HIDE DEF I, i
<1>7. i = k
  BY <1>3, <1>5, <1>6, MinIsLeast
<1>8. QED
  BY <1>1, <1>4, <1>7

LEMMA DefaultDirected ==
  ASSUME NEW p, IsPod(p), isTarget(p), Rc \in Rcs
  PROVE  Directed(PodDefault(p))
<1>1. PICK q : q = PodDefault(p)
  OBVIOUS
<1>2. PICK n : n = Len(q.containers)
  OBVIOUS
<1>3. /\ IsPod(q) /\ q.kind = p.kind /\ q.from = Made
      /\ Names(q.containers) = Names(p.containers) \cup Proxies
  BY <1>1, DefaultedPod
<1>4. RcOf(q) = Rc /\ q.from # <<>>
  BY <1>3 DEF RcOf, Rc, Made
<1>5. q.host = GetHost(Rc)
  BY <1>1, DefaultShape
<1>6. /\ n \in Nat /\ n >= 2 /\ DOMAIN q.containers = 1..n
      /\ Oauth2Side(q.containers[n - 1], Rc, Oauth2Args(Rc, p.kind), Requests(p.containers, Oauth2Proxy))
  BY <1>1, <1>2, DefaultSides
<1>7. PICK k \in DOMAIN q.containers : k = n - 1
  <2>1. n - 1 \in DOMAIN q.containers
    BY <1>6
  <2>2. QED
    BY <2>1
<1>8. q.containers[k].name = Oauth2Proxy /\ q.containers[k].args = Oauth2Args(Rc, p.kind)
  BY <1>6, <1>7 DEF Oauth2Side
<1>9. \A i \in DOMAIN q.containers : q.containers[i].name = Oauth2Proxy => i = k
  BY <1>3, <1>8 DEF IsPod, Proper
<1>10. Oauth2Proxy \in Names(q.containers)
  BY <1>3 DEF Proxies
<1>11. QED
  BY <1>1, <1>3, <1>4, <1>5, <1>8, <1>9, <1>10 DEF Directed

LEMMA MeshDirected ==
  ASSUME NEW p, Sane(p), Directed(p), "mesh" \notin Names(p.containers)
  PROVE  Directed(WithMesh(p))
<1>1. PICK cs : cs = Append(p.containers, Mesh)
  OBVIOUS
<1>2. PICK q : q = WithMesh(p)
  OBVIOUS
<1>3. q = [p EXCEPT !.containers = cs]
  BY <1>1, <1>2 DEF WithMesh
<1>4. /\ q.containers = cs /\ q.kind = p.kind /\ q.from = p.from /\ q.host = p.host
      /\ Names(q.containers) = Names(p.containers) \cup {"mesh"}
  BY <1>2, <1>3, MeshSane DEF Sane, IsPod
<1>5. PICK S : p.containers \in Seq(S)
  BY DEF Sane, IsPod, Proper
<1>6. p.containers \in Seq(S \cup {Mesh}) /\ Mesh \in S \cup {Mesh}
  BY <1>5
<1>7. /\ Len(p.containers) \in Nat /\ DOMAIN p.containers = 1..Len(p.containers)
      /\ DOMAIN cs = 1..(Len(p.containers) + 1)
      /\ cs[Len(p.containers) + 1] = Mesh
      /\ \A i \in 1..Len(p.containers) : cs[i] = p.containers[i]
  BY <1>1, <1>6
<1>8. Mesh.name # Oauth2Proxy
  BY DEF Mesh, Container, Oauth2Proxy
<1>9. \A i \in DOMAIN cs : i \in DOMAIN p.containers \/ cs[i].name # Oauth2Proxy
  BY <1>7, <1>8
<1>10. Injected(q) <=> Injected(p)
  BY <1>4 DEF Injected, Proxies, Oauth2Proxy, KubeRbacProxy
<1>11. RcOf(q) = RcOf(p)
  BY <1>4 DEF RcOf
<1>12. QED
  BY <1>2, <1>4, <1>7, <1>9, <1>10, <1>11 DEF Directed

LEMMA ResizedDirected ==
  ASSUME NEW p, Sane(p), Directed(p), NEW n, NEW m
  PROVE  Directed(Resized(p, n, m)) /\ Resized(p, n, m).host = p.host
<1>1. PICK q : q = Resized(p, n, m)
  OBVIOUS
<1>2. PICK cs : cs = p.containers
  OBVIOUS
<1>3. PICK ds : ds = q.containers
  OBVIOUS
<1>4. /\ q.kind = p.kind /\ q.from = p.from /\ q.host = p.host /\ DOMAIN ds = DOMAIN cs
      /\ \A i \in DOMAIN cs : ds[i] = IF cs[i].name = n THEN [cs[i] EXCEPT !.memory = m] ELSE cs[i]
  BY <1>1, <1>2, <1>3, ResizedAt DEF Sane
<1>5. \A i \in DOMAIN cs : ds[i].name = cs[i].name /\ ds[i].args = cs[i].args
  <2> SUFFICES ASSUME NEW i \in DOMAIN cs PROVE ds[i].name = cs[i].name /\ ds[i].args = cs[i].args
    OBVIOUS
  <2>1. PICK c : c = cs[i]
    OBVIOUS
  <2>2. "name" \in DOMAIN c /\ "args" \in DOMAIN c
    BY <1>2, <2>1 DEF Sane, IsPod, Proper, IsContainer
  <2>3. ds[i] = c \/ ds[i] = [c EXCEPT !.memory = m]
    BY <1>4, <2>1
  <2>4. QED
    BY <2>1, <2>2, <2>3
<1>6. Names(ds) = Names(cs)
  BY <1>4, <1>5 DEF Names
<1>7. RcOf(q) = RcOf(p) /\ (Injected(q) <=> Injected(p))
  BY <1>2, <1>3, <1>4, <1>6 DEF RcOf, Injected
<1>8. QED
  BY <1>1, <1>2, <1>3, <1>4, <1>5, <1>6, <1>7 DEF Directed

LEMMA AdmittedDirected ==
  ASSUME LabelsKnown(seen), conf \in DOMAIN Configs,
         NEW kind, kind # "none", NEW order \in {"none", "before", "after"}
  PROVE  Directed(MutatingAdmission(Submitted(kind), order))
<1>1. PICK p : p = Submitted(kind)
  OBVIOUS
<1>2. Sane(p) /\ p.kind = kind /\ Names(p.containers) = {"app"} /\ Directed(p)
  BY <1>1, SubmittedSane, SubmittedPlain DEF Directed
<1>3. MutatingAdmission(p, order) \in
        {AdmitPod(p), AdmitPod(WithMesh(p)), AdmitPod(WithMesh(AdmitPod(p)))}
  BY DEF MutatingAdmission, WithMesh
<1>4. ASSUME NEW m, Sane(m), m.kind = kind, Directed(m) PROVE Directed(AdmitPod(m))
  <2>1. CASE up /\ isTarget(m)
    <3>1. Rc \in Rcs
      BY <1>4, <2>1 DEF isTarget, LabelsKnown, Rcs, Rc
    <3>2. QED
      BY <1>4, <2>1, <3>1, DefaultDirected DEF AdmitPod, Sane
  <2>2. CASE ~(up /\ isTarget(m))
    <3>1. AdmitPod(m) = m
      BY <2>2, Zenon DEF AdmitPod, PodDefault
    <3>2. QED
      BY <1>4, <3>1
  <2>3. QED
    BY <2>1, <2>2
<1>5. Sane(WithMesh(p)) /\ WithMesh(p).kind = kind /\ Directed(WithMesh(p))
  BY <1>2, MeshSane, MeshDirected
<1>6. PICK q : q = AdmitPod(p)
  OBVIOUS
<1>7. Sane(q) /\ q.kind = kind /\ Names(q.containers) \subseteq {"app"} \cup Proxies /\ Directed(q)
  BY <1>2, <1>4, <1>6, AdmitSane
<1>8. "mesh" \notin Names(q.containers)
  BY <1>7 DEF Proxies, Oauth2Proxy, KubeRbacProxy
<1>9. Sane(WithMesh(q)) /\ WithMesh(q).kind = kind /\ Directed(WithMesh(q))
  BY <1>7, <1>8, MeshSane, MeshDirected
<1>10. Directed(q) /\ Directed(AdmitPod(WithMesh(p))) /\ Directed(AdmitPod(WithMesh(q)))
  BY <1>4, <1>5, <1>7, <1>9
<1>11. QED
  BY <1>1, <1>3, <1>6, <1>10

\* An update that is let through keeps the host of a pod of a stateful set: the
\* redirect URL in its arguments tells it.
LEMMA UpdatedHost ==
  ASSUME HostsDotted, RedirectTellsHost, ArgumentsListed, Rc \in Rcs,
         NEW p, IsPod(p), Directed(p), Injected(p), isTarget(p), p.kind = "StatefulSet",
         Immutable(PodDefault(p)) = Immutable(p)
  PROVE  PodDefault(p).host = p.host
<1>1. PICK q : q = PodDefault(p)
  OBVIOUS
<1>2. IsPod(q) /\ Directed(q) /\ q.kind = "StatefulSet" /\ q.from # <<>> /\ RcOf(q) = Rc
  BY <1>1, DefaultedPod, DefaultDirected DEF Made, RcOf, Rc
<1>3. PICK k \in DOMAIN q.containers : q.containers[k].name = Oauth2Proxy
  BY <1>2 DEF Directed, Names
<1>4. /\ k \in DOMAIN p.containers /\ p.containers[k].name = Oauth2Proxy
      /\ q.containers[k].args = p.containers[k].args
  BY <1>1, <1>2, <1>3, ImmutableArguments
<1>5. PICK rc : rc = RcOf(p)
  OBVIOUS
<1>6. rc \in Rcs /\ p.host = GetHost(rc) /\ p.containers[k].args = Oauth2Args(rc, "StatefulSet")
  BY <1>4, <1>5 DEF Directed
<1>7. q.host = GetHost(Rc) /\ q.containers[k].args = Oauth2Args(Rc, "StatefulSet")
  BY <1>2, <1>3 DEF Directed
<1>8. PodHost(GetRedirectURL(rc)) = PodHost(GetRedirectURL(Rc))
  <2>1. Oauth2Args(rc, "StatefulSet") = Oauth2Args(Rc, "StatefulSet")
    BY <1>4, <1>6, <1>7
  <2>2. IsSeq(Setting(rc, "extraArgs")) /\ IsSeq(Setting(Rc, "extraArgs"))
    BY <1>6 DEF ArgumentsListed
  <2>3. PICK a : a = Oauth2Args(rc, "StatefulSet")
    OBVIOUS
  <2>4. PICK b : b = Oauth2Args(Rc, "StatefulSet")
    OBVIOUS
  <2>5. Last(a).value = PodHost(GetRedirectURL(rc))
    BY <2>2, <2>3, RedirectIsLast
  <2>6. Last(b).value = PodHost(GetRedirectURL(Rc))
    BY <2>2, <2>4, RedirectIsLast
  <2>7. QED
    BY <2>1, <2>3, <2>4, <2>5, <2>6
<1>9. GetRedirectURL(rc) = GetRedirectURL(Rc)
  BY <1>6, <1>8, PodHostTells DEF HostsDotted
<1>10. GetHost(rc) = GetHost(Rc)
  BY <1>6, <1>9 DEF RedirectTellsHost
<1>11. QED
  BY <1>1, <1>6, <1>7, <1>10

LEMMA InitDirect == Init => DirectInv
<1> SUFFICES ASSUME Init PROVE DirectInv
  OBVIOUS
<1>1. AdmissionInv
  BY InitInv
<1>2. pod = NoPod /\ pod.from = <<>> /\ ~Injected(pod)
  BY SubmittedPlain, SubmittedSane DEF Init, NoPod
<1>3. LabelsKnown(wl) /\ LabelsKnown(seen)
  BY DEF Init, NoWorkload, LabelsKnown
<1>4. QED
  BY <1>1, <1>2, <1>3 DEF DirectInv, Directed, RouteInv

\* A reconcile writes the route of the host that the pod was given.
LEMMA ReconcileDirect ==
  ASSUME HostsDotted, DirectInv, AdmissionInv', Reconcile
  PROVE  DirectInv'
<1>1. up /\ UNCHANGED <<up, conf, wl, seen, pod>>
  BY DEF Reconcile
<1>2. errors \in Nat /\ StateInv
  BY DEF DirectInv, AdmissionInv, StateInv
<1>3. /\ Target' = Target /\ Rc' = Rc /\ Injected(pod)' = Injected(pod)
  BY <1>1 DEF Target, Rc
<1>4. RouteInv'
  <2>1. CASE Target /\ Injected(pod)
    <3>1. Apply
      BY <2>1 DEF Reconcile, Target
    <3>2. ~queued' /\ Routable(Rc) => route' = RouteHost(Rc, seen.kind)
      BY <1>2, <3>1, ApplyWrites
    <3>3. PICK h : h = pod.host
      OBVIOUS
    <3>4. IsHost(h)
      BY <2>1, <3>3 DEF DirectInv, Directed, HostsDotted
    <3>5. h # <<>> /\ Len(h) > 1
      BY <3>4 DEF IsHost
    <3>6. ShallCreateHTTPRoute(Rc) => Routable(Rc)
      BY <3>3, <3>5 DEF Routable
    <3>7. RouteHost(Rc, seen.kind) = IF seen.kind = "Deployment" THEN GetHost(Rc) ELSE PodHost(h)
      BY <3>3, <3>5, Zenon DEF RouteHost, PodHost
    <3>8. ~queued' /\ ShallCreateHTTPRoute(Rc) =>
            route' = IF seen.kind = "Deployment" THEN GetHost(Rc) ELSE PodHost(pod.host)
      BY <3>2, <3>3, <3>6, <3>7
    <3>9. QED
      BY <1>1, <1>3, <3>8 DEF RouteInv
  <2>2. CASE ~(Target /\ Injected(pod))
    BY <1>3, <2>2 DEF RouteInv
  <2>3. QED
    BY <2>1, <2>2
<1>5. Directed(pod)'
  BY <1>1 DEF DirectInv, Directed, RcOf
<1>6. QED
  BY <1>1, <1>4, <1>5 DEF DirectInv, LabelsKnown, NoPod

LEMMA ProcessDirect ==
  ASSUME DirectInv, AdmissionInv',
         ChangeWorkload \/ CacheWorkload \/ ChangeVpa \/ Stop \/ Start
  PROVE  DirectInv'
<1>1. UNCHANGED <<pod, route>> /\ StateInv
  BY DEF ChangeWorkload, CacheWorkload, ChangeVpa, Stop, Start, DirectInv, AdmissionInv
<1>2. (pod = NoPod \/ pod.kind # "none")' /\ Directed(pod)'
  BY <1>1 DEF DirectInv, Directed, RcOf, NoPod
<1>3. LabelsKnown(wl)'
  <2>1. CASE ChangeWorkload /\ wl.kind = "none"
    BY <2>1 DEF ChangeWorkload, LabelsKnown
  <2>2. CASE ChangeWorkload /\ wl.kind # "none"
    BY <1>1, <2>2 DEF ChangeWorkload, LabelsKnown, StateInv, IsWorkload
  <2>3. CASE ~ChangeWorkload
    BY <2>3 DEF CacheWorkload, ChangeVpa, Stop, Start, LabelsKnown, DirectInv
  <2>4. QED
    BY <2>1, <2>2, <2>3
<1>4. LabelsKnown(seen)'
  BY DEF ChangeWorkload, CacheWorkload, ChangeVpa, Stop, Start, LabelsKnown, DirectInv
<1>5. RouteInv'
  <2>1. CASE ChangeWorkload \/ ChangeVpa
    BY <1>1, <2>1 DEF ChangeWorkload, ChangeVpa, RouteInv, DirectInv, Target, Rc
  <2>2. CASE CacheWorkload \/ Stop
    BY <2>2 DEF CacheWorkload, Stop, RouteInv
  <2>3. CASE Start
    <3>1. seen' = wl /\ queued' = (wl.kind # "none")
      BY <2>3 DEF Start
    <3>2. ~queued' => seen'.kind = "none"
      BY <3>1, Zenon
    <3>3. QED
      BY <3>2 DEF RouteInv, Target
  <2>4. QED
    BY <2>1, <2>2, <2>3
<1>6. QED
  BY <1>2, <1>3, <1>4, <1>5 DEF DirectInv

LEMMA PodDirect ==
  ASSUME HostsDotted, RedirectTellsHost, ArgumentsListed, DirectInv, AdmissionInv',
         \/ \E order \in Orders : CreatePod(order)
         \/ DeletePod \/ UpdatePod
         \/ \E n \in Proxies : Resize(n)
  PROVE  DirectInv'
<1>1. UNCHANGED <<up, conf, wl, seen>>
  BY DEF CreatePod, DeletePod, UpdatePod, Resize
<1>2. LabelsKnown(wl)' /\ LabelsKnown(seen)'
  BY <1>1 DEF DirectInv, LabelsKnown
<1>3. /\ Sane(pod) /\ StateInv /\ conf \in DOMAIN Configs /\ LabelsKnown(seen) /\ Directed(pod)
      /\ RouteInv
  BY DEF DirectInv, AdmissionInv, StateInv
<1>4. SUFFICES /\ pod' = NoPod \/ pod'.kind # "none"
               /\ Directed(pod')
               /\ up /\ Target /\ Injected(pod') /\ ~queued' =>
                    /\ ~queued /\ Injected(pod) /\ route' = route
                    /\ seen.kind # "Deployment" => pod'.host = pod.host
  <2>1. RouteInv'
    BY <1>1, <1>3, <1>4 DEF RouteInv, Target, Rc
  <2>2. Directed(pod)' /\ (pod = NoPod \/ pod.kind # "none")'
    BY <1>4 DEF Directed, RcOf, NoPod
  <2>3. QED
    BY <1>2, <2>1, <2>2 DEF DirectInv
<1>5. CASE \E order \in Orders : CreatePod(order)
  <2>1. PICK order \in Orders : CreatePod(order)
    BY <1>5
  <2>2. /\ pod' = MutatingAdmission(Submitted(wl.kind), order) /\ wl.kind # "none"
        /\ queued' = (queued \/ (up /\ Injected(pod')))
    BY <2>1 DEF CreatePod
  <2>3. order \in {"none", "before", "after"}
    BY AdmissionAssumption
  <2>4. pod'.kind = wl.kind
    BY <2>2, <2>3, AdmittedPod
  <2>5. Directed(pod')
    BY <1>3, <2>2, <2>3, AdmittedDirected
  <2>6. ~(up /\ Injected(pod') /\ ~queued')
    BY <2>2, Zenon
  <2>7. QED
    BY <2>2, <2>4, <2>5, <2>6
<1>6. CASE DeletePod
  <2>1. pod' = NoPod
    BY <1>6 DEF DeletePod
  <2>2. NoPod.from = <<>> /\ ~Injected(NoPod)
    BY SubmittedSane, SubmittedPlain DEF NoPod
  <2>3. QED
    BY <2>1, <2>2 DEF Directed
<1>7. CASE UpdatePod
  <2>1. PICK p : p = PodDefault(pod)
    OBVIOUS
  <2>2. /\ pod' = (IF Immutable(p) = Immutable(pod) THEN p ELSE pod) /\ queued' = queued
        /\ route' = route /\ pod # NoPod
    BY <1>7, <2>1 DEF UpdatePod
  <2>3. p.kind = pod.kind /\ pod.kind # "none"
    BY <1>3, <2>1, <2>2, DefaultSane DEF DirectInv
  <2>4. CASE Immutable(p) = Immutable(pod) /\ isTarget(pod)
    <3>1. Rc \in Rcs
      BY <1>3, <2>3, <2>4 DEF isTarget, LabelsKnown, Rcs, Rc
    <3>2. Directed(p)
      BY <1>3, <2>1, <2>4, <3>1, DefaultDirected DEF Sane
    <3>3. Injected(p) => Injected(pod)
      BY <1>3, <2>1, <2>4, UpdateInjectsNothing
    <3>4. seen.kind # "Deployment" => pod.kind = "StatefulSet"
      BY <1>3, <2>3, <2>4, AdmissionAssumption DEF isTarget, StateInv
    <3>5. Injected(pod) /\ seen.kind # "Deployment" => p.host = pod.host
      BY <1>3, <2>1, <2>4, <3>1, <3>4, UpdatedHost DEF Sane
    <3>6. QED
      BY <2>2, <2>3, <2>4, <3>2, <3>3, <3>5
  <2>5. CASE ~(Immutable(p) = Immutable(pod) /\ isTarget(pod))
    <3>1. ~isTarget(pod) => p = pod
      BY <2>1, Zenon DEF PodDefault
    <3>2. pod' = pod
      BY <2>2, <2>5, <3>1
    <3>3. QED
      BY <1>3, <2>2, <2>3, <3>2
  <2>6. QED
    BY <2>4, <2>5
<1>8. CASE \E n \in Proxies : Resize(n)
  <2>1. PICK n \in Proxies : Resize(n)
    BY <1>8
  <2>2. PICK m \in Sizes : pod' = Resized(pod, n, m)
    BY <2>1 DEF Resize, Resized
  <2>3. pod'.kind = pod.kind /\ Directed(pod') /\ pod'.host = pod.host
    BY <1>3, <2>2, ResizedPod, ResizedDirected
  <2>4. Injected(pod) /\ queued' = queued /\ route' = route
    BY <2>1 DEF Resize, Injected
  <2>5. pod # NoPod
    BY <2>4, SubmittedSane DEF NoPod
  <2>6. QED
    BY <2>3, <2>4, <2>5 DEF DirectInv
<1>9. QED
  BY <1>5, <1>6, <1>7, <1>8

LEMMA DirectRouted ==
  ASSUME ArgumentsListed, DirectInv
  PROVE  RedirectRouted
<1>1. /\ IsPod(pod) /\ StateInv /\ WrittenInv /\ Directed(pod) /\ RouteInv
      /\ pod = NoPod \/ pod.kind # "none"
  BY DEF DirectInv, AdmissionInv, Sane
<1> SUFFICES ASSUME Quiet, Served, ShallCreateHTTPRoute(Rc), ~OwnRedirect
             PROVE  Redirect(pod) = route
  BY DEF RedirectRouted
<1>2. pod # NoPod
  BY SubmittedSane DEF NoPod, Served
<1>3. pod.kind = seen.kind /\ seen.kind \in {"Deployment", "StatefulSet"}
  BY <1>1, <1>2, AdmissionAssumption DEF StateInv, Served, Target
<1>4. route = IF seen.kind = "Deployment" THEN GetHost(Rc) ELSE PodHost(pod.host)
  BY <1>1 DEF RouteInv, Quiet, Served
<1>5. PICK rc : rc = RcOf(pod)
  OBVIOUS
<1>6. /\ rc \in Rcs /\ pod.host = GetHost(rc) /\ Oauth2Proxy \in Names(pod.containers)
      /\ \A i \in DOMAIN pod.containers : pod.containers[i].name = Oauth2Proxy =>
           pod.containers[i].args = Oauth2Args(rc, pod.kind)
  BY <1>1, <1>5 DEF Directed, Served
<1>7. PICK k \in DOMAIN pod.containers : pod.containers[k].name = Oauth2Proxy
  BY <1>6 DEF Names
<1>8. PICK a : a = Arguments(pod)
  OBVIOUS
<1>9. a = Oauth2Args(rc, pod.kind)
  BY <1>1, <1>6, <1>7, <1>8, ArgumentsFound
<1>10. PICK R : R = {i \in DOMAIN a : a[i].flag = "redirect-url"}
  OBVIOUS
<1>11. RedirectArgs(pod) = R
  BY <1>8, <1>10, Zenon DEF RedirectArgs
<1>12. IsSeq(Setting(rc, "extraArgs"))
  BY <1>6 DEF ArgumentsListed
<1>13. CASE pod.kind = "StatefulSet"
  <2>1. R # {} /\ a[Max(R)].value = PodHost(GetRedirectURL(rc))
    BY <1>9, <1>10, <1>12, <1>13, RedirectIsLast
  <2>2. rc.target.redirectURL = <<>>
    BY <1>5, <1>13 DEF OwnRedirect, RcOf
  <2>3. GetRedirectURL(rc) = GetHost(rc)
    BY <2>2 DEF GetRedirectURL
  <2>4. Redirect(pod) = a[Max(R)].value
    BY <1>8, <1>11, <2>1, Zenon DEF Redirect
  <2>5. QED
    BY <1>3, <1>4, <1>6, <1>13, <2>1, <2>3, <2>4
<1>14. CASE pod.kind # "StatefulSet"
  <2>1. a = FlagArgs(rc)
    BY <1>9, <1>14 DEF Oauth2Args
  <2>2. /\ Rc.target.redirectURL = <<>>
        /\ ~\E i \in DOMAIN ExtraArgs(rc) : ExtraArgs(rc)[i].flag = "redirect-url"
    BY <1>5, <1>14 DEF OwnRedirect, RcOf
  <2>3. R = {}
    BY <1>10, <1>12, <2>1, <2>2, FlagsListed
  <2>4. Redirect(pod) = oauth2[1].redirectURL
    BY <1>11, <2>3 DEF Redirect
  <2>5. oauth2 = <<mutateOauth2Secret(Rc)>>
    BY <1>1 DEF WrittenInv, Quiet, Served
  <2>6. mutateOauth2Secret(Rc).redirectURL = GetRedirectURL(Rc)
    BY DEF mutateOauth2Secret, Parse
  <2>7. GetRedirectURL(Rc) = GetHost(Rc)
    BY <2>2 DEF GetRedirectURL
  <2>8. oauth2[1] = mutateOauth2Secret(Rc)
    BY <2>5
  <2>9. QED
    BY <1>3, <1>4, <1>14, <2>4, <2>6, <2>7, <2>8
<1>15. QED
  BY <1>13, <1>14

\* Once the controller is idle, the browser comes back to a host that is routed:
\* for a stateful set the redirect URL in the arguments of the pod, which no update
\* may change, and the HTTP route, written from the host annotated on it, stay
\* together in spite of restarts with other configurations before, between and after
\* the calls, of failed reconciles and of updates that annotate the pod anew.  For a
\* deployment the one in the file counts, unless an extra argument overrides it; a
\* redirect URL configured either way is no concern of the property.  Of the
\* configurations: hosts have a domain, the extra arguments are a list, and targets
\* with the same redirect URL have the same host.  Without the last one an update can
\* annotate another host under the same arguments.
THEOREM RedirectRoutedHolds ==
  ASSUME HostsDotted, RedirectTellsHost, ArgumentsListed
  PROVE  Spec => []RedirectRouted
<1>1. DirectInv /\ [Next]_vars /\ AdmissionInv' => DirectInv'
  <2> SUFFICES ASSUME DirectInv, [Next]_vars, AdmissionInv' PROVE DirectInv'
    OBVIOUS
  <2>1. CASE Reconcile
    BY <2>1, ReconcileDirect
  <2>2. CASE ChangeWorkload \/ CacheWorkload \/ ChangeVpa \/ Stop \/ Start
    BY <2>2, ProcessDirect
  <2>3. CASE (\E order \in Orders : CreatePod(order)) \/ DeletePod \/ UpdatePod
             \/ \E n \in Proxies : Resize(n)
    BY <2>3, PodDirect
  <2>4. CASE UNCHANGED vars
    BY <2>4 DEF vars, DirectInv, LabelsKnown, Directed, RcOf, NoPod, RouteInv, Target, Rc
  <2>5. QED
    BY <2>1, <2>2, <2>3, <2>4 DEF Next
<1>2. DirectInv => RedirectRouted
  BY DirectRouted
<1>3. QED
  BY InitDirect, AdmissionInvariant, <1>1, <1>2, PTL DEF Spec
=============================================================================
