------------------------------ MODULE MCGateway ------------------------------
(***************************************************************************)
(* Configurations and edits of Gateway for TLC.                            *)
(***************************************************************************)
EXTENDS Gateway

Https ==
  [name |-> "https", hostname |-> "d1",
   tls |-> {[mode |-> None, kinds |-> {None, "ConfigMap"}]}, allowedRoutes |-> {}]
Http ==
  [name |-> "http", hostname |-> None, tls |-> {},
   allowedRoutes |-> {[from |-> None, kinds |-> {"HTTPRoute"}]}]

Conf0 ==
  [managed |-> TRUE, name |-> None, class |-> "c1", labels |-> None, listeners |-> {Https},
   infrastructure |-> {}, parentRefs |-> {}]

SomeConfs ==
  [plain |-> Conf0,
   named |-> [Conf0 EXCEPT !.name = "named", !.listeners = {Https, Http}, !.labels = "more",
                           !.infrastructure = {[labels |-> {}, parametersRef |-> None]}],
   classless |-> [Conf0 EXCEPT !.class = None],
   own |-> [Conf0 EXCEPT !.class = "c2", !.parentRefs = {"elsewhere"}],
   off |-> [Conf0 EXCEPT !.managed = FALSE]]

Relabelled == [plain |-> [Conf0 EXCEPT !.labels = "other"]]

\* Someone else's gateway, and a managed one with another class.
Foreign == [NoGateway EXCEPT !.spec.class = "c3"]
Edited == [Defaulted(Desired(Conf0)) EXCEPT !.spec.class = "c3"]
SomeEdits == {Foreign, Edited}
=============================================================================
