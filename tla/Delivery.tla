------------------------------- MODULE Delivery ------------------------------
(***************************************************************************)
(* What the delivery ledger promises the person who reads the chat.  Every *)
(* chunk of a message is owed until a send is permitted; from then on it   *)
(* may have been posted, until a receipt, a refusal or the operator        *)
(* settles it.  A chunk is posted at most once, plus once for every time   *)
(* the operator asked for it to be sent again, and no chunk is sent before *)
(* the ones in front of it are done.  TransportDelivery implements this    *)
(* with leases, fenced revisions, several workers and a lossy wire.        *)
(***************************************************************************)
EXTENDS Naturals

CONSTANTS Messages, Chunks

VARIABLES
    st,         \* owed, maybe, done or refused: every chunk of every message
    sent,       \* how often each chunk was posted
    again       \* how often the operator asked for it again

States == {"owed", "maybe", "done", "refused"}

Init ==
    /\ st = [m \in Messages |-> [i \in Chunks |-> "owed"]]
    /\ sent = [m \in Messages |-> [i \in Chunks |-> 0]]
    /\ again = sent

Set(m, i, s) == st' = [st EXCEPT ![m][i] = s]

Permit(m, i) ==
    /\ st[m][i] = "owed"
    /\ \A j \in Chunks : j < i => st[m][j] = "done"
    /\ Set(m, i, "maybe")
    /\ UNCHANGED <<sent, again>>

(* The provider posts a frame: now, or long after its sender gave up.      *)
Post(m, i) ==
    /\ sent' = [sent EXCEPT ![m][i] = @ + 1]
    /\ sent[m][i] <= again[m][i]
    /\ st[m][i] \in {"maybe", "done"} \/ again[m][i] > 0
    /\ UNCHANGED <<st, again>>

(* A settled chunk stays settled.  A send that may have happened is owed   *)
(* again only with proof that it did not.                                  *)
Settle(m, i) ==
    /\ \/ st[m][i] = "maybe" /\ \E s \in States \ {"maybe"} : Set(m, i, s)
       \/ st[m][i] = "owed" /\ Set(m, i, "refused")
    /\ UNCHANGED <<sent, again>>

(* The operator accepts that the chunk may be posted twice.                *)
AskAgain(m, i) ==
    /\ again' = [again EXCEPT ![m][i] = @ + 1]
    /\ st[m][i] = "maybe"
    /\ Set(m, i, "owed")
    /\ UNCHANGED sent

Next ==
    \E m \in Messages, i \in Chunks :
        Permit(m, i) \/ Post(m, i) \/ Settle(m, i) \/ AskAgain(m, i)

vars == <<st, sent, again>>

Spec == Init /\ [][Next]_vars
=============================================================================
