------------------------------- MODULE Targets -------------------------------
(***************************************************************************)
(* The configuration (pkg/configuration): which target an object belongs   *)
(* to, and which values apply to it.  Operators only: a configuration is   *)
(* read once, when the controller starts.                                  *)
(*                                                                         *)
(* A label is one key with one value; an object has a set of them.  A host *)
(* name is the sequence of its parts between dots, each the sequence of    *)
(* its parts between dashes; an URL https://host/oauth2/callback is its    *)
(* host.  Settings that may be left out are a function on those given.     *)
(***************************************************************************)
EXTENDS Sequences, SequencesExt, TLC

None == ""

-----------------------------------------------------------------------------
(* Matching.                                                               *)

\* A selector that is not given, and the four operators of an expression in two
\* kinds; any other operator makes the selector unparseable.
NoSelector == [given |-> FALSE, matchLabels |-> {}, matchExpressions |-> {}]
Operators == {"Exists", "DoesNotExist"}
Parses(s) == \A e \in s.matchExpressions : e.op \in Operators

\* Size() = 0: not given, or given without content.
IsEmpty(s) == s.matchLabels = {} /\ s.matchExpressions = {}

\* LabelSelectorAsSelector: nothing matches a selector that is not given, and
\* everything one that is given and empty.
Matches(s, labels) ==
  /\ s.given
  /\ s.matchLabels \subseteq labels
  /\ \A e \in s.matchExpressions : (e.op = "Exists") <=> (e.label \in labels)

\* ns is the namespace of the object as Get returns it, if it does.
targetMatchesLabels(t, labels, ns) ==
  /\ Parses(t.labelSelector)
  /\ IF IsEmpty(t.namespaceSelector)
     THEN Matches(t.labelSelector, labels)
     ELSE /\ ns.found
          /\ Parses(t.namespaceSelector) /\ Matches(t.namespaceSelector, ns.labels)
          /\ IsEmpty(t.labelSelector) \/ Matches(t.labelSelector, labels)

Match(c, labels, ns) ==
  \E i \in DOMAIN c.targets : targetMatchesLabels(c.targets[i], labels, ns)

NoTarget ==
  [labelSelector |-> NoSelector, namespaceSelector |-> NoSelector, settings |-> <<>>,
   redirectURL |-> <<>>, upstream |-> [protocol |-> None, port |-> None],
   route |-> [create |-> FALSE, hostPrefix |-> None, host |-> <<>>]]

\* FetchTarget: the first one that matches.
FetchTarget(c, labels, ns) ==
  LET i == SelectInSeq(c.targets, LAMBDA t : targetMatchesLabels(t, labels, ns))
  IN IF i = 0 THEN NoTarget ELSE c.targets[i]

\* Resolve: the snapshot from which all values of one object are taken.
Resolve(c, labels, ns) ==
  [target |-> FetchTarget(c, labels, ns), settings |-> c.settings, domain |-> c.domain]

-----------------------------------------------------------------------------
(* Values.                                                                 *)

\* The values used when neither the target nor the global section gives one.
ClientDefaults ==
  [clientID |-> None, clientSecret |-> None, clientSecretRef |-> None, scope |-> None]
ProxyDefaults ==
  [oidcIssuerURL |-> None, sslInsecureSkipVerify |-> FALSE,
   insecureOidcSkipIssuerVerification |-> FALSE, insecureOidcSkipNonce |-> FALSE,
   approvalPrompt |-> "auto", cookieRefresh |-> "3600s", emailDomain |-> "*",
   skipProviderButton |-> TRUE, codeChallengeMethod |-> "S256", extraArgs |-> <<>>]
KubeDefaults == [kubeSecretRef |-> None, kubeConfigStr |-> None]
CADefaults == [oidcCASecretRef |-> None, oidcCABundle |-> None]
Defaults == ClientDefaults @@ ProxyDefaults @@ KubeDefaults @@ CADefaults

\* The target's value before the global one before the default.
Setting(rc, f) ==
  IF f \in DOMAIN rc.target.settings THEN rc.target.settings[f]
  ELSE IF f \in DOMAIN rc.settings THEN rc.settings[f] ELSE Defaults[f]

\* GetOidcCABundle gives something: a bundle that cannot be decoded is none, and
\* one of the target hides the global one even so.
Undecodable == "not base64"
HasOidcCABundle(rc) == Setting(rc, "oidcCABundle") \notin {None, Undecodable}

\* GetHost: "name" stands for the object's name and namespace.
GetHost(rc) ==
  LET r == rc.target.route
      prefix == IF r.hostPrefix # None THEN <<r.hostPrefix, "hash">> ELSE <<"name">>
  IN IF r.host # <<>> THEN r.host
     ELSE IF rc.domain = None THEN <<prefix>> ELSE <<prefix, <<rc.domain>>>>

\* GetRedirectURL: the target's own, else made from the host, never the global one.
GetRedirectURL(rc) ==
  IF rc.target.redirectURL # <<>> THEN rc.target.redirectURL ELSE GetHost(rc)

ShallCreateHTTPRoute(rc) == rc.target.route.create
GetTargetLabelSelector(rc) == rc.target.labelSelector
GetUpstreamTarget(rc) ==
  [protocol |-> IF rc.target.upstream.protocol = "https" THEN "https" ELSE "http",
   port |-> rc.target.upstream.port]

\* The oauth2-proxy configuration file as Parse writes it: the fields of the
\* template, and one of client_secret and client_secret_file.
RenderedFields ==
  {"clientID", "scope", "oidcIssuerURL", "sslInsecureSkipVerify",
   "insecureOidcSkipIssuerVerification", "insecureOidcSkipNonce"}
Parse(rc, secretSource) ==
  [fields |-> [f \in RenderedFields |-> Setting(rc, f)],
   redirectURL |-> GetRedirectURL(rc), clientSecret |-> secretSource]
=============================================================================
