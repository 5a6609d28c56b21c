----------------------------- MODULE MCWorkload -----------------------------
(***************************************************************************)
(* Configurations of Workload for TLC.                                     *)
(***************************************************************************)
EXTENDS Workload

Conf(sel, opt, c) == [labelSelector |-> sel, optional |-> opt, content |-> c]

\* With the route, and other contents without it.
TwoConfigs == {Conf(TRUE, {"route"}, 1), Conf(TRUE, {}, 2)}

\* With one of the optional secrets.
RouteAndCa == {Conf(TRUE, {"oidc-ca", "route"}, 1)}

\* One small configuration.
RouteOnly == {Conf(TRUE, {"route"}, 1)}

\* A target that is selected by its namespace alone.
NamespaceOnly == {Conf(FALSE, {"route"}, 1)}
=============================================================================
