--------------------------- MODULE MCNamespaceScope ---------------------------
(***************************************************************************)
(* NamespaceScope for TLC: the scenarios of its runs.                      *)
(***************************************************************************)
EXTENDS NamespaceScope

(* Clicks that each wait for the one before to settle, and a failure.      *)
Settled == [offers |-> Resources, calm |-> TRUE, inOrder |-> FALSE,
            clicks |-> 4, events |-> 0, failures |-> 1]

(* Clicks and changes of the namespaces at any time, before a resource is  *)
(* selected.                                                               *)
Busy == [offers |-> {}, calm |-> FALSE, inOrder |-> TRUE,
         clicks |-> 2, events |-> 2, failures |-> 0]

(* Two clicks, and a change of the namespaces that waits for them.         *)
Changed == [offers |-> {Pods}, calm |-> TRUE, inOrder |-> FALSE,
            clicks |-> 2, events |-> 1, failures |-> 0]

SettledOrBusy == {Settled, Busy}
OnlyChanged   == {Changed}

=============================================================================
