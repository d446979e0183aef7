------------------------------ MODULE WatchScope ------------------------------
(***************************************************************************)
(* What the watch registry of a cluster promises its user interface: each  *)
(* API resource has at most one scope, the one of the reconcile that took  *)
(* effect last; the watches that are active cover sources of that scope    *)
(* and no other; a new scope, or a new session, starts with none.          *)
(***************************************************************************)
CONSTANTS
  Apis,    \* the API resources
  Scopes,  \* the sources a reconcile can ask for
  Seqs     \* the identities of reconciles

VARIABLES
  scope,   \* per resource, the reconcile in effect and its sources
  active   \* per resource, the sources under watch, each with its reconcile

NoScope == [seq |-> 0, sources |-> {}]

Init ==
  /\ scope = [a \in Apis |-> NoScope]
  /\ active = [a \in Apis |-> {}]

Replace(a, seq, sources) ==
  /\ scope' = [scope EXCEPT ![a] = [seq |-> seq, sources |-> sources]]
  /\ active' = [active EXCEPT ![a] = {}]

Activate(a, s) ==
  /\ s \in scope[a].sources
  /\ active' = [active EXCEPT ![a] = @ \cup {<<s, scope[a].seq>>}]
  /\ UNCHANGED scope

NewSession ==
  /\ scope' = [a \in Apis |-> NoScope]
  /\ active' = [a \in Apis |-> {}]

Next ==
  \/ \E a \in Apis, seq \in Seqs, sources \in SUBSET Scopes :
       Replace(a, seq, sources)
  \/ \E a \in Apis, s \in Scopes : Activate(a, s)
  \/ NewSession

Spec == Init /\ [][Next]_<<scope, active>>

=============================================================================
