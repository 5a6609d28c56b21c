----------------------------- MODULE Supervisor -----------------------------
(***************************************************************************)
(* What the kube-rbac-proxy watcher promises, without locks, channels,     *)
(* timeouts and hashes: one child at a time, started with the contents of  *)
(* the directory at that moment, none started after the watcher has ended, *)
(* no end of its own accord while a child lives, and an end when asked.    *)
(***************************************************************************)
EXTENDS Naturals

VARIABLES
  want,     \* the contents of the directory
  launched, \* the number of children started
  living,   \* those alive: their number and the contents they were started with
  asked,    \* the watcher was told to end
  up

avars == <<want, launched, living, asked, up>>

Init == want = 1 /\ launched = 0 /\ living = {} /\ asked = FALSE /\ up = TRUE

NewContents == want' = want + 1 /\ UNCHANGED <<launched, living, asked, up>>

Launch ==
  /\ up /\ living = {}
  /\ launched' = launched + 1
  /\ living' = {[child |-> launched', conf |-> want]}
  /\ UNCHANGED <<want, asked, up>>

\* A child ends, whoever wants it.
Die == living # {} /\ living' = {} /\ UNCHANGED <<want, launched, asked, up>>

Ask == up /\ ~asked /\ asked' = TRUE /\ UNCHANGED <<want, launched, living, up>>

\* The end when asked, or of its own accord without a child.
Quit == up /\ (asked \/ living = {}) /\ up' = FALSE /\ UNCHANGED <<want, launched, living, asked>>

Next == NewContents \/ Launch \/ Die \/ Ask \/ Quit

Spec == Init /\ [][Next]_avars

\* A supervisor that is told to end does.
EndsWhenAsked == asked ~> ~up
=============================================================================
