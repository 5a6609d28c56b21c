----------------------------- MODULE MCAdmission -----------------------------
(***************************************************************************)
(* Configurations, workloads and VPAs of Admission for TLC.                *)
(***************************************************************************)
EXTENDS Admission

Sel(ls) == [given |-> TRUE, matchLabels |-> ls, matchExpressions |-> {}]
Expr(op, l) == [given |-> TRUE, matchLabels |-> {}, matchExpressions |-> {[op |-> op, label |-> l]}]
Route(prefix, host) == [create |-> TRUE, hostPrefix |-> prefix, host |-> host]
Tgt(ls, settings, r) ==
  [NoTarget EXCEPT !.labelSelector = Sel(ls), !.settings = settings, !.route = r,
                   !.upstream.port = "web"]
Redirects(h) == [flag |-> "redirect-url", value |-> <<<<h>>>>, valid |-> TRUE]

\* One target; secrets made by the controller, arguments that set a redirect URL.
MadeConf ==
  [targets |-> <<Tgt({"a"}, [kubeConfigStr |-> "kubeconfig",
                                extraArgs |-> <<Redirects("u"), Redirects("v"), Flag("x"),
                                                [Flag("y") EXCEPT !.valid = FALSE]>>],
                        Route(None, <<>>))>>,
   settings |-> [oidcCABundle |-> "bundle", kubeSecretRef |-> "kube", clientSecret |-> "s"],
   domain |-> "d1", image |-> "i1", pullSecret |-> "registry"]

\* Two targets, the first for some namespaces only; secrets that exist already.
ReferredConf ==
  [targets |-> <<[Tgt({"b"}, [oidcCABundle |-> Undecodable], Route(None, <<<<"shop">>, <<"x">>>>))
                    EXCEPT !.namespaceSelector = Expr("Exists", "n"), !.upstream.port = "number"],
                 Tgt({"a"}, <<>>, Route("pre", <<>>))>>,
   settings |-> [oidcCASecretRef |-> "ca", kubeSecretRef |-> "kube", clientSecretRef |-> "client",
                 approvalPrompt |-> "force"],
   domain |-> "d2", image |-> "i2", pullSecret |-> None]

\* A redirect URL of its own, and no target for the label "b" alone.
OwnConf ==
  [targets |-> <<[Tgt({"a"}, [clientID |-> "id"], Route(None, <<>>))
                    EXCEPT !.redirectURL = <<<<"login">>, <<"d1">>>>, !.labelSelector = Sel({"a"})]>>,
   settings |-> <<>>, domain |-> "d1", image |-> "i1", pullSecret |-> None]

\* As the first, without a domain name.
NoDomainConf == [MadeConf EXCEPT !.domain = None]

ThreeConfigs == [made |-> MadeConf, referred |-> ReferredConf, own |-> OwnConf]
MadeOnly == [made |-> MadeConf]
ReferredOnly == [referred |-> ReferredConf]
NoDomainOnly == [nodomain |-> NoDomainConf]

InNamespace == [found |-> TRUE, labels |-> {"n"}]

Policy(n) == [name |-> n, mode |-> "Auto"]
Vpa(ls, ps) == [labels |-> ls, ref |-> "workload", given |-> TRUE, policies |-> ps]
SomeVpas == {Vpa({"a"}, <<Policy("app")>>), Vpa({"a"}, <<Policy(Oauth2Proxy), Policy("app")>>)}
NilPolicy == {[Vpa({"a"}, <<>>) EXCEPT !.given = FALSE]}
Unlabelled == {Vpa({}, <<Policy("app")>>)}
=============================================================================
