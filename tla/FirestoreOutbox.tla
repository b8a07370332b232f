--------------------------- MODULE FirestoreOutbox ----------------------------
(***************************************************************************)
(* What the Firestore client promises an app about its writes, without     *)
(* streams, tokens and queues: each user has an outbox, which outlives the *)
(* app; the server takes what is in it in order; a write leaves the outbox *)
(* from the front, once it was committed or refused; and the app is told   *)
(* of it then or, if it was restarted meanwhile, never.                    *)
(***************************************************************************)
EXTENDS Naturals, Sequences

CONSTANTS User, Write

VARIABLES outbox, committed, refused, told

vars == <<outbox, committed, refused, told>>

Init ==
    /\ outbox = [u \in User |-> <<>>]
    /\ committed = {}
    /\ refused = {}
    /\ told = [w \in Write |-> "nothing"]

Store(u, w) ==
    /\ \A v \in User : \A i \in 1..Len(outbox[v]) : outbox[v][i] # w
    /\ outbox' = [outbox EXCEPT ![u] = Append(@, w)]
    /\ UNCHANGED <<committed, refused, told>>

(* The server commits a write when all those before it in its outbox are   *)
(* committed.                                                              *)
Commit(u, i) ==
    /\ \A j \in 1..(i - 1) : outbox[u][j] \in committed
    /\ committed' = committed \cup {outbox[u][i]}
    /\ UNCHANGED <<outbox, refused, told>>

(* A request that was on its way when another one for the same write was   *)
(* refused.                                                                *)
CommitRefused(w) ==
    /\ w \in refused
    /\ committed' = committed \cup {w}
    /\ UNCHANGED <<outbox, refused, told>>

Refuse(u, i) ==
    /\ \A j \in 1..(i - 1) : outbox[u][j] \in committed
    /\ refused' = refused \cup {outbox[u][i]}
    /\ UNCHANGED <<outbox, committed, told>>

Settle(u) ==
    LET w == Head(outbox[u])
    IN  /\ outbox[u] # <<>>
        /\ outbox' = [outbox EXCEPT ![u] = Tail(@)]
        /\ \/ told' = told /\ w \in committed \cup refused
           \/ told' = [told EXCEPT ![w] = "ok"] /\ w \in committed
           \/ told' = [told EXCEPT ![w] = "rejected"] /\ w \in refused
        /\ told[w] = "nothing"
        /\ UNCHANGED <<committed, refused>>

Next ==
    \/ \E u \in User, w \in Write : Store(u, w)
    \/ \E u \in User : \E i \in 1..Len(outbox[u]) : Commit(u, i) \/ Refuse(u, i)
    \/ \E w \in Write : CommitRefused(w)
    \/ \E u \in User : Settle(u)

Spec == Init /\ [][Next]_vars

=============================================================================
