------------------------------ MODULE Admission ------------------------------
(***************************************************************************)
(* The mutating webhooks for pods and for vertical pod autoscalers         *)
(* (pkg/webhook), and what they and the reconcilers must agree on.         *)
(*                                                                         *)
(* A pod is fixed when it is admitted; secrets and HTTP route are written  *)
(* later, by a reconcile that may run in another process under another     *)
(* configuration.  The API server calls a webhook again when another one   *)
(* has changed the pod (reinvocationPolicy), on every update of it, and    *)
(* not at all while the controller is down (failurePolicy Ignore).         *)
(*                                                                         *)
(* One workload with one pod, index 0 if it is a stateful set.  Reconcile  *)
(* is one step that may fail after any of its calls; module Workload has   *)
(* it call by call against lagging caches.                                 *)
(***************************************************************************)
EXTENDS Targets, Integers, FiniteSets

CONSTANTS
  Kinds,         \* kinds of workload: "Deployment", "StatefulSet"
  Configs,       \* configurations the controller may be started with, by name
  LabelSets,     \* labels a workload may have
  Ns,            \* the namespace: [found, labels]
  OwnerSuffixes, \* values of the suffix annotation on the workload, None for none
  Manifests,     \* the VPAs that users may apply
  Orders,        \* another webhook that adds a container: "none", "before", "after"
  Sizes,         \* memory requests that the autoscaler may set
  Changes,       \* what users and operators may do
  MaxChanges, MaxErrors

ASSUME AdmissionAssumption ==
  /\ Kinds \subseteq {"Deployment", "StatefulSet"}
  /\ Orders \subseteq {"none", "before", "after"}
  /\ Sizes \subseteq {"small", "large"}   \* at most 100Mi, more
  /\ Changes \subseteq {"relabel", "pod", "update", "vpa", "resize", "stop"}
  /\ MaxChanges \in Nat /\ MaxErrors \in Nat

VARIABLES
  up,          \* the controller runs
  conf,        \* the configuration it runs with
  wl,          \* the workload at the API server
  seen,        \* the workload in the cache
  pod,         \* its pod
  vpa,         \* the autoscaler that refers to it
  secrets,     \* names of the secrets that exist
  oauth2,      \* contents of the oauth2 secret, <<>> for none
  route,       \* host of the HTTP route, <<>> for none
  queued,      \* the workload is in the work queue
  changes, errors

vars == <<up, conf, wl, seen, pod, vpa, secrets, oauth2, route, queued, changes, errors>>

Oauth2Proxy == "oauth2-proxy"
KubeRbacProxy == "kube-rbac-proxy"
Proxies == {Oauth2Proxy, KubeRbacProxy}
Hash == "hash"   \* GenerateSha256 of the workload's name and namespace
PodHash == "pod-hash"   \* of the pod's
Index == "0"

NoWorkload == [kind |-> "none", labels |-> {}, suffix |-> None]

\* Containers: arguments that are settings, further arguments, names of ports,
\* mounted volumes, requested memory.
Container(n, ports) ==
  [name |-> n, image |-> None, settings |-> <<>>, args |-> <<>>, ports |-> ports,
   mounts |-> {}, memory |-> None]
App == Container("app", {"web"})
Mesh == Container("mesh", {"metrics"})

\* A pod as its controller submits it, with the token volume of its service
\* account.  from is history: what the side-cars were made from.
Token == <<"token">>
Submitted(kind) ==
  [kind |-> kind, containers |-> <<App>>,
   volumes |-> [v \in Proxies \cup {"kube-api-access"} |-> IF v \in Proxies THEN <<>> ELSE <<Token>>],
   pull |-> {}, labelled |-> FALSE, suffix |-> None, host |-> <<>>,
   checksum |-> <<>>, from |-> <<>>]
NoPod == Submitted("none")
NoVpa == [labels |-> {}, ref |-> "none", given |-> FALSE, policies |-> <<>>]

Init ==
  /\ up = TRUE /\ conf \in DOMAIN Configs
  /\ wl = NoWorkload /\ seen = NoWorkload /\ pod = NoPod /\ vpa = NoVpa
  /\ secrets = {} /\ oauth2 = <<>> /\ route = <<>>
  /\ queued = FALSE /\ changes = 0 /\ errors = 0

Names(cs) == {cs[i].name : i \in DOMAIN cs}
Injected(p) == Names(p.containers) \cap Proxies # {}
Made == <<conf, seen.labels>>
Rc == Resolve(Configs[conf], seen.labels, Ns)
Opt(b, s) == IF b THEN <<s>> ELSE <<>>

-----------------------------------------------------------------------------
(* The pod webhook.                                                        *)

\* The owner as the cache shows it: a replica set, deployment or stateful set
\* that is not there makes the pod no target.
isTarget(p) == seen.kind = p.kind /\ Match(Configs[conf], seen.labels, Ns)

\* The suffix annotated on an object, else the hash of its name.
fetchTargetSuffix(object, hash) == IF object.suffix # None THEN object.suffix ELSE hash

shallAddOidcCaSecretName(rc) ==
  HasOidcCABundle(rc) \/ Setting(rc, "oidcCASecretRef") # None

\* Mutant: the text of the bundle decides, whether it can be decoded or not.
fetchOidcCASecretNameUndecoded(suffix, rc) ==
  IF Setting(rc, "oidcCABundle") # None THEN <<"oidc-ca", suffix>>
  ELSE <<"ref", Setting(rc, "oidcCASecretRef")>>

fetchOidcCASecretName(suffix, rc) ==
  IF HasOidcCABundle(rc) THEN <<"oidc-ca", suffix>> ELSE <<"ref", Setting(rc, "oidcCASecretRef")>>
shallAddKubeConfigSecretName(rc) ==
  Setting(rc, "kubeConfigStr") # None \/ Setting(rc, "kubeSecretRef") # None

fetchKubconfigSecretName(suffix, rc) ==
  IF Setting(rc, "kubeConfigStr") # None THEN <<"kubeconfig", suffix>>
  ELSE <<"ref", Setting(rc, "kubeSecretRef")>>

\* Mutant: the configuration without its client secret.
get2ProxySecretChecksumBare(rc) == <<Parse(rc, "/dev/null")>>

\* The checksum of the configuration the reconciler is expected to write.
get2ProxySecretChecksum(rc) ==
  LET inline == Setting(rc, "clientSecret")
  IN <<Parse(rc, IF inline = None THEN "/dev/null" ELSE inline)>>

\* The suffix is that of the pod itself, which has no name yet if it is generated.
addAnnotations(p, rc) ==
  [p EXCEPT !.host = GetHost(rc), !.suffix = fetchTargetSuffix(p, PodHash),
            !.checksum = get2ProxySecretChecksum(rc)]

addPodLabels(p) == [p EXCEPT !.labelled = TRUE]

addImagePullSecret(pull, name) == IF name = None THEN pull ELSE pull \cup {name}

\* One more source of a projected volume, unless it is there.
addProjectedSecretSourceVolume(sources, secret) ==
  IF secret \in Range(sources) THEN sources ELSE Append(sources, secret)

\* Mutant: the container is appended again.
addProxyContainerTwice(cs, c) == Append(cs, c)

\* The first container of that name goes, the new one becomes the last.
addProxyContainer(cs, c) ==
  LET i == SelectInSeq(cs, LAMBDA d : d.name = c.name)
  IN Append(IF i = 0 THEN cs ELSE RemoveAt(cs, i), c)

\* Requests above 100Mi are kept, others are reset.
Requests(cs, name) ==
  IF \E i \in DOMAIN cs : cs[i].name = name /\ cs[i].memory = "large" THEN "large" ELSE "32Mi"

\* A named port is looked up in the containers as they are.
buildUpstreamURL(upstream, cs) ==
  LET i == SelectInSeq(cs, LAMBDA c : upstream.port \in c.ports)
  IN CASE upstream.port = None -> <<upstream.protocol>>
       [] upstream.port = "number" -> <<upstream.protocol, upstream.port>>
       [] OTHER -> IF i = 0 THEN <<>> ELSE <<upstream.protocol, cs[i].name, upstream.port>>

Flag(f) == [flag |-> f, value |-> <<>>, valid |-> TRUE]

\* The elements of s at the positions I, in their order.
Kept(s, I) ==
  [j \in 1..Cardinality(I) |-> s[CHOOSE i \in I : Cardinality({k \in I : k <= i}) = j]]

\* The configured arguments; those that are no flags are left out.
ExtraArgs(rc) ==
  LET extra == Setting(rc, "extraArgs") IN Kept(extra, {i \in DOMAIN extra : extra[i].valid})

getOIDCProxyContainer(cs, rc) ==
  [Container(Oauth2Proxy, {"oauth2"}) EXCEPT
     !.image = Configs[conf].image,
     !.settings = [f \in {"codeChallengeMethod", "cookieRefresh", "emailDomain",
                          "skipProviderButton", "approvalPrompt"} |-> Setting(rc, f)],
     !.args = Opt(shallAddOidcCaSecretName(rc), Flag("provider-ca-file"))
                \o ExtraArgs(rc),
     !.mounts = {Oauth2Proxy},
     !.memory = Requests(cs, Oauth2Proxy)]

getKubeRbacProxyContainer(cs, volumes, upstream, rc) ==
  [Container(KubeRbacProxy, {"rbac"}) EXCEPT
     !.image = Configs[conf].image,
     !.settings = [clientID |-> Setting(rc, "clientID"), upstream |-> upstream,
                   oidcIssuerURL |-> Setting(rc, "oidcIssuerURL")],
     !.args = Opt(shallAddKubeConfigSecretName(rc), Flag("kubeconfig"))
                \o Opt(shallAddOidcCaSecretName(rc), Flag("oidc-ca-file")),
     !.mounts = {KubeRbacProxy} \cup {v \in DOMAIN volumes : Token \in Range(volumes[v])},
     !.memory = Requests(cs, KubeRbacProxy)]

\* The host of one pod of a stateful set, if there is a domain to put it before.
PodHost(host) ==
  IF Len(host) > 1 THEN <<Append(Head(host), Index)>> \o Tail(host) ELSE host

\* Deleting while ranging over the arguments: the one after a deleted one is not
\* looked at.
WithoutRedirect(args) ==
  LET deleted[i \in DOMAIN args] ==
        args[i].flag = "redirect-url" /\ (i > 1 => ~deleted[i - 1])
  IN Kept(args, {i \in DOMAIN args : ~deleted[i]})

\* The redirect URL of a pod of a stateful set is an argument of its oauth2-proxy.
SetRedirect(c, rc) ==
  IF c.name # Oauth2Proxy THEN c
  ELSE [c EXCEPT !.args = Append(WithoutRedirect(@),
          [flag |-> "redirect-url", value |-> PodHost(GetRedirectURL(rc)), valid |-> TRUE])]

\* The secrets of the two volumes, those that apply one after the other.
Oauth2Sources(sources, suffix, rc) ==
  LET own == addProjectedSecretSourceVolume(sources, <<Oauth2Proxy, suffix>>)
      withCA == IF ~shallAddOidcCaSecretName(rc) THEN own
                ELSE addProjectedSecretSourceVolume(own, fetchOidcCASecretName(suffix, rc))
      client == Setting(rc, "clientSecretRef")
  IN IF client = None THEN withCA ELSE addProjectedSecretSourceVolume(withCA, <<"ref", client>>)

RbacSources(sources, suffix, rc) ==
  LET own == addProjectedSecretSourceVolume(sources, <<"resource-attributes", suffix>>)
      withKube == IF ~shallAddKubeConfigSecretName(rc) THEN own
                  ELSE addProjectedSecretSourceVolume(own, fetchKubconfigSecretName(suffix, rc))
  IN IF ~shallAddOidcCaSecretName(rc) THEN withKube
     ELSE addProjectedSecretSourceVolume(withKube, fetchOidcCASecretName(suffix, rc))

\* PodMutator.Default.
PodDefault(p) ==
  LET rc == Rc
      suffix == fetchTargetSuffix(seen, Hash)
      volumes == [p.volumes EXCEPT ![Oauth2Proxy] = Oauth2Sources(@, suffix, rc),
                                   ![KubeRbacProxy] = RbacSources(@, suffix, rc)]
      upstream == buildUpstreamURL(GetUpstreamTarget(rc), p.containers)
      one == addProxyContainer(p.containers, getOIDCProxyContainer(p.containers, rc))
      both == addProxyContainer(one, getKubeRbacProxyContainer(one, volumes, upstream, rc))
  IN IF ~isTarget(p) THEN p
     ELSE [addPodLabels(addAnnotations(p, rc)) EXCEPT
                    !.volumes = volumes,
                    !.containers = IF p.kind # "StatefulSet" THEN both
                                   ELSE [i \in DOMAIN both |-> SetRedirect(both[i], rc)],
                    !.pull = addImagePullSecret(@, Configs[conf].pullSecret),
                    !.from = Made]

-----------------------------------------------------------------------------
(* The VPA webhook.                                                        *)

isTargetRefMatched(v) ==
  v.ref = "workload" /\ seen.kind # "none" /\ Match(Configs[conf], seen.labels, Ns)

Off(n) == [name |-> n, mode |-> "Off"]

\* Mutant: policies that users gave for the side-cars are kept.
VpaDefaultKeeps(v) ==
  IF v.ref = "none" \/ ~(Match(Configs[conf], v.labels, Ns) \/ isTargetRefMatched(v)) THEN v
  ELSE [v EXCEPT !.given = TRUE,
                 !.policies = IF @ # <<>> THEN @ ELSE <<Off(Oauth2Proxy), Off(KubeRbacProxy)>>]

\* VPAMutator.Default: the policies of the side-cars are replaced.
VpaDefault(v) ==
  IF v.ref = "none" \/ ~(Match(Configs[conf], v.labels, Ns) \/ isTargetRefMatched(v)) THEN v
  ELSE [v EXCEPT !.given = TRUE,
                 !.policies = SelectSeq(@, LAMBDA c : c.name \notin Proxies)
                                \o <<Off(Oauth2Proxy), Off(KubeRbacProxy)>>]

-----------------------------------------------------------------------------
(* Reconcile: what the webhooks' work is completed with.                   *)

\* mutateOauth2Secret: a reference to a secret before the configured text.
mutateOauth2Secret(rc) ==
  LET inline == Setting(rc, "clientSecret")
  IN Parse(rc, CASE Setting(rc, "clientSecretRef") # None -> "/etc/oauth2-proxy/client_secret"
                 [] inline # None -> inline
                 [] OTHER -> "/dev/null")

\* Mutant: the host of the configuration in force, not the one the pod was given.
RouteHostOfConfig(rc, kind) ==
  IF kind = "Deployment" THEN GetHost(rc) ELSE <<Append(Head(GetHost(rc)), Index)>> \o Tail(GetHost(rc))

\* mutateHTTPRouteForDeployment, and mutateHTTPRouteForStatefulSetPod from the
\* annotation on the pod; a host without a dot gets an empty domain.
RouteHost(rc, kind) ==
  IF kind = "Deployment" THEN GetHost(rc)
  ELSE <<Append(Head(pod.host), Index)>>
         \o (IF Len(pod.host) > 1 THEN Tail(pod.host) ELSE <<<<None>>>>)

\* The VPAs that patchVpa lists, by the labels of the target's selector.
Listed(rc) ==
  vpa # NoVpa /\ GetTargetLabelSelector(rc).matchLabels \subseteq vpa.labels

\* Mutant: the policies of the side-cars alone lead to the patch.
patchVpaForProxies(rc) ==
  IF Listed(rc) /\ Names(vpa.policies) \cap Proxies # {} THEN VpaDefault(vpa) ELSE vpa

\* patchVpa: an empty patch for each policy of another container, so that the
\* webhook sees the object.
patchVpa(rc) ==
  IF Listed(rc) /\ Names(vpa.policies) \ Proxies # {} THEN VpaDefault(vpa) ELSE vpa

\* The calls of reconcileDeploymentDependencies and reconcileStatefulSetDependencies.
Steps(rc) ==
  LET sts == seen.kind = "StatefulSet"
      routed == Opt(ShallCreateHTTPRoute(rc), "route")
      optional == Opt(Setting(rc, "kubeConfigStr") # None, "kubeconfig")
                    \o Opt(HasOidcCABundle(rc), "oidc-ca")
  IN <<"oauth2">>
       \o (IF sts THEN (IF pod.host # <<>> THEN <<"service">> \o routed ELSE <<>>) ELSE <<"service">>)
       \o <<"resource-attributes">> \o optional \o (IF sts THEN <<>> ELSE routed) \o <<"vpa">>

\* A call that returns an error, or panics, every time: the target has no label
\* selector, the kubeconfig cannot be decoded, the VPA has no resource policy.
Blocked(s, rc) ==
  \/ s = "service" /\ seen.kind = "Deployment" /\ ~GetTargetLabelSelector(rc).given
  \/ s = "kubeconfig" /\ Setting(rc, "kubeConfigStr") = Undecodable
  \/ s = "vpa" /\ (~GetTargetLabelSelector(rc).given \/ (Listed(rc) /\ ~vpa.given))

\* The number of calls before one that cannot succeed.
Reach(steps, rc) ==
  LET i == SelectInSeq(steps, LAMBDA s : Blocked(s, rc)) IN IF i = 0 THEN Len(steps) ELSE i - 1

\* The secrets that the calls write.
Written(done) ==
  {<<k, Hash>> : k \in done \cap {"resource-attributes", "kubeconfig", "oidc-ca"}}
    \cup {<<Oauth2Proxy, Hash>> : k \in done \cap {"oauth2"}}

\* reconcile*Dependencies, up to a call that fails.
Apply ==
  \E rc \in {Rc} : \E steps \in {Steps(rc)} : \E end \in {Reach(steps, rc)} : \E n \in 0..end :
    \E done \in {{steps[i] : i \in 1..n}} :
      /\ n < end => errors < MaxErrors
      /\ errors' = errors + IF n < end THEN 1 ELSE 0
      /\ queued' = (n < Len(steps))
      /\ secrets' = secrets \cup Written(done)
      /\ oauth2' = IF "oauth2" \in done THEN <<mutateOauth2Secret(rc)>> ELSE oauth2
      /\ route' = IF "route" \in done THEN RouteHost(rc, seen.kind) ELSE route
      /\ vpa' = IF "vpa" \in done THEN patchVpa(rc) ELSE vpa

\* The workload is gone from the cache, is no target any more (routes that a pod
\* owns are not pruned), is a target without injected pods, or is served.
Reconcile ==
  /\ up /\ queued
  /\ LET matched == Match(Configs[conf], seen.labels, Ns)
     IN \/ /\ seen.kind # "none" /\ ~matched
           /\ queued' = FALSE
           /\ oauth2' = <<>> /\ secrets' = secrets \ {<<Oauth2Proxy, Hash>>}
           /\ route' = IF seen.kind = "Deployment" THEN <<>> ELSE route
           /\ UNCHANGED <<vpa, errors>>
        \/ /\ seen.kind = "none" \/ (matched /\ ~Injected(pod))
           /\ queued' = FALSE
           /\ UNCHANGED <<secrets, oauth2, route, vpa, errors>>
        \/ seen.kind # "none" /\ matched /\ Injected(pod) /\ Apply
  /\ UNCHANGED <<up, conf, wl, seen, pod, changes>>

-----------------------------------------------------------------------------
(* The API server, Kubernetes' controllers and users.                      *)

Change(c) ==
  /\ c \in Changes /\ changes < MaxChanges
  /\ changes' = changes + 1
  /\ UNCHANGED errors

\* A webhook that does not answer is ignored.
AdmitPod(p) == IF up THEN PodDefault(p) ELSE p
AdmitVpa(v) == IF up THEN VpaDefault(v) ELSE v

\* Mutant: webhooks are called once each.
MutatingAdmissionOnce(p, order) ==
  LET other(q) == [q EXCEPT !.containers = Append(@, Mesh)]
  IN CASE order = "none" -> AdmitPod(p)
       [] order = "before" -> AdmitPod(other(p))
       [] order = "after" -> other(AdmitPod(p))

\* The webhooks at a creation: after the other one has added its container, this
\* one is called again.
MutatingAdmission(p, order) ==
  LET other(q) == [q EXCEPT !.containers = Append(@, Mesh)]
  IN CASE order = "none" -> AdmitPod(p)
       [] order = "before" -> AdmitPod(other(p))
       [] order = "after" -> AdmitPod(other(AdmitPod(p)))

\* The part of a pod that no update may change.
Immutable(p) ==
  [containers |-> [i \in DOMAIN p.containers |-> [p.containers[i] EXCEPT !.image = None]],
   volumes |-> p.volumes, pull |-> p.pull]

\* The workload is created, or applied again with other labels and another spec.
ChangeWorkload ==
  /\ \/ /\ wl.kind = "none" /\ \E k \in Kinds, l \in LabelSets, s \in OwnerSuffixes :
             wl' = [kind |-> k, labels |-> l, suffix |-> s]
        /\ UNCHANGED <<changes, errors>>
     \/ /\ wl.kind # "none" /\ Change("relabel")
        /\ \E l \in LabelSets \ {wl.labels} : wl' = [wl EXCEPT !.labels = l]
  /\ UNCHANGED <<up, conf, seen, pod, vpa, secrets, oauth2, route, queued>>

CacheWorkload ==
  /\ up /\ seen # wl
  /\ seen' = wl /\ queued' = TRUE
  /\ UNCHANGED <<up, conf, wl, pod, vpa, secrets, oauth2, route, changes, errors>>

\* A pod is created; one with side-cars leads to a reconcile of its owner.
CreatePod(order) ==
  /\ Change("pod")
  /\ wl.kind # "none" /\ pod = NoPod
  /\ pod' = MutatingAdmission(Submitted(wl.kind), order)
  /\ queued' = (queued \/ (up /\ Injected(pod')))
  /\ UNCHANGED <<up, conf, wl, seen, vpa, secrets, oauth2, route>>

\* With a pod of a stateful set goes the route it owns.
DeletePod ==
  /\ Change("pod")
  /\ pod # NoPod /\ pod' = NoPod
  /\ route' = IF pod.kind = "StatefulSet" THEN <<>> ELSE route
  /\ queued' = (queued \/ (up /\ Injected(pod)))
  /\ UNCHANGED <<up, conf, wl, seen, vpa, secrets, oauth2>>

\* Someone updates the pod: the webhook is called, and the update is refused if
\* what comes back differs where it may not.
UpdatePod ==
  /\ Change("update")
  /\ up /\ pod # NoPod
  /\ \E p \in {PodDefault(pod)} : pod' = IF Immutable(p) = Immutable(pod) THEN p ELSE pod
  /\ UNCHANGED <<up, conf, wl, seen, vpa, secrets, oauth2, route, queued>>

\* A VPA is created, applied again, or deleted.
ChangeVpa ==
  /\ Change("vpa")
  /\ \/ \E m \in Manifests : vpa' = AdmitVpa(m)
     \/ vpa # NoVpa /\ vpa' = NoVpa
  /\ UNCHANGED <<up, conf, wl, seen, pod, secrets, oauth2, route, queued>>

Pinned(v) == \A n \in Proxies : Off(n) \in Range(v.policies)
PinnedOne(v, n) == Off(n) \in Range(v.policies)

\* The autoscaler resizes a container in place, unless its policy is Off.
Resize(n) ==
  /\ Change("resize")
  /\ vpa.ref = "workload" /\ n \in Names(pod.containers) /\ ~PinnedOne(vpa, n)
  /\ \E m \in Sizes :
       pod' = [pod EXCEPT !.containers =
                 [i \in DOMAIN @ |-> IF @[i].name = n THEN [@[i] EXCEPT !.memory = m] ELSE @[i]]]
  /\ UNCHANGED <<up, conf, wl, seen, vpa, secrets, oauth2, route, queued>>

Stop ==
  /\ up /\ Change("stop")
  /\ up' = FALSE /\ queued' = FALSE
  /\ UNCHANGED <<conf, wl, seen, pod, vpa, secrets, oauth2, route>>

\* The controller starts: it reads its configuration, fills its caches, and the
\* creation events of what is there queue the workload.
Start ==
  /\ ~up
  /\ up' = TRUE /\ conf' \in DOMAIN Configs
  /\ seen' = wl /\ queued' = (wl.kind # "none")
  /\ UNCHANGED <<wl, pod, vpa, secrets, oauth2, route, changes, errors>>

-----------------------------------------------------------------------------
Next ==
  \/ Reconcile \/ ChangeWorkload \/ CacheWorkload
  \/ (\E order \in Orders : CreatePod(order)) \/ DeletePod \/ UpdatePod
  \/ ChangeVpa \/ (\E n \in Proxies : Resize(n)) \/ Stop \/ Start

Spec == Init /\ [][Next]_vars

\* The informer delivers, the worker works, and a controller that is down is
\* started again.
Fairness == WF_vars(CacheWorkload) /\ WF_vars(Reconcile) /\ WF_vars(Start)

FairSpec == Spec /\ Fairness

-----------------------------------------------------------------------------
(* Properties.                                                             *)

Quiet == up /\ ~queued /\ seen = wl
Target == seen.kind # "none" /\ Match(Configs[conf], seen.labels, Ns)
Served == Target /\ Injected(pod)

\* Type invariant; the containers of a pod have different names.
TypeOK ==
  /\ up \in BOOLEAN /\ queued \in BOOLEAN /\ conf \in DOMAIN Configs
  /\ wl.kind \in Kinds \cup {"none"} /\ seen.kind \in {wl.kind, "none"}
  /\ pod.kind \in {wl.kind, "none"}
  /\ Proxies \subseteq DOMAIN pod.volumes
  /\ Cardinality(Names(pod.containers)) = Len(pod.containers)
  /\ Len(oauth2) <= 1 /\ changes \in 0..MaxChanges /\ errors \in 0..MaxErrors

\* A pod with side-cars can be updated, for as long as the configuration resolves
\* to what they were made from: however often the webhooks have been called, in
\* whatever order, the next call changes nothing that the API server refuses.
InjectedPodUpdatable ==
  Target /\ Injected(pod) /\ pod.from = Made => Immutable(PodDefault(pod)) = Immutable(pod)

\* The secrets a pod mounts, none of them optional.
Mounted == UNION {Range(pod.volumes[v]) : v \in Proxies}
Reference(s) == s[1] = "ref"

\* Once the controller is idle, every secret that the pod of a target cannot
\* start without exists, or is one that the configuration refers to.
MountsProvided ==
  Quiet /\ Served /\ pod.from = Made => \A s \in Mounted : s \in secrets \/ Reference(s)

Arguments(p) == p.containers[SelectInSeq(p.containers, LAMBDA c : c.name = Oauth2Proxy)].args

RedirectArgs(p) == {i \in DOMAIN Arguments(p) : Arguments(p)[i].flag = "redirect-url"}

\* The redirect URL that oauth2-proxy uses: the last one among its arguments, the
\* configured ones included, else the one in its file.
Redirect(p) ==
  IF RedirectArgs(p) = {} THEN oauth2[1].redirectURL ELSE Arguments(p)[Max(RedirectArgs(p))].value

\* The redirect URL is not made from the host but configured: for the target or,
\* which counts for a deployment, among the arguments that the pod was made with.
OwnRedirect ==
  LET made == Resolve(Configs[pod.from[1]], pod.from[2], Ns)
  IN IF pod.kind = "StatefulSet" THEN made.target.redirectURL # <<>>
     ELSE \/ Rc.target.redirectURL # <<>>
          \/ \E i \in DOMAIN ExtraArgs(made) : ExtraArgs(made)[i].flag = "redirect-url"

\* Once the controller is idle, the browser comes back to a host that is routed:
\* the redirect URL, fixed at admission for a stateful set, and the HTTP route,
\* written under a configuration that may be another one, name the same host.
RedirectRouted ==
  Quiet /\ Served /\ ShallCreateHTTPRoute(Rc) /\ ~OwnRedirect => Redirect(pod) = route

\* Once the controller is idle, the checksum on a pod is that of the oauth2
\* secret's configuration.
ChecksumOfSecret == Quiet /\ Served /\ pod.from = Made => pod.checksum = oauth2

\* The same, unless the client secret is given by a reference.
ChecksumsAgree == Setting(Rc, "clientSecretRef") = None => ChecksumOfSecret

\* The suffix annotated on a pod is that of the configuration secrets it mounts.
SuffixAnnotated == Injected(pod) => <<Oauth2Proxy, pod.suffix>> \in Mounted

\* A pod that a running controller admits has the side-cars if the workload, as
\* it is at the API server, is a target.
NoTargetWithoutSidecars ==
  [][pod = NoPod /\ pod' # NoPod /\ up /\ Match(Configs[conf], wl.labels, Ns)
       => Injected(pod')]_vars

\* The work queue drains again and again.
QueueDrains == []<>(up /\ ~queued)

\* A VPA with the labels of a target, and a policy for another container, that
\* gets past the webhook has the side-cars' policies switched off in the end.
Concerned == Served /\ up /\ vpa.ref # "none" /\ vpa.given /\ Listed(Rc)
               /\ Names(vpa.policies) \ Proxies # {}
SidecarsPinned == <>[]Concerned => <>[]Pinned(vpa)
=============================================================================
