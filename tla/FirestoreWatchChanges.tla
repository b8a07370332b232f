------------------------ MODULE FirestoreWatchChanges -----------------------
(***************************************************************************)
(* The aggregator of the watch stream                                      *)
(* (Pods/FirebaseFirestore/Firestore/core/src/remote/remote_event.cc): it  *)
(* collects what the server says of the targets until the server says      *)
(* that all of it is consistent, and makes one event of it.  What is said  *)
(* of a target while an answer to a request for it is outstanding is about *)
(* an earlier listen and is ignored.                                       *)
(*                                                                         *)
(* Of the client's record c the operators here read and change             *)
(*   c.states[t]   for each target the answers outstanding, whether it is  *)
(*                 current, and for each document how it changed           *)
(*   c.updates     the documents that came, by key                         *)
(*   c.mismatch    whether the query was reset by an existence filter      *)
(* and read c.active, the limbo documents listened to, and the view.       *)
(* Every target gets a resume token with each snapshot, so that each       *)
(* active one has pending changes by then.                                 *)
(***************************************************************************)
EXTENDS FirestoreLocal

CONSTANT LimboTarget    \* ids of limbo targets, > 0: an id is used again only
                        \* when nothing remembers it; a bound

Query == 0
Target == {Query} \union LimboTarget

NewState == [outstanding |-> 0, current |-> FALSE, changes |-> [d \in Doc |-> "none"]]

NewAggregator(c) ==
    [c EXCEPT !.states = [t \in Target |-> NewState], !.updates = <<>>, !.mismatch = FALSE]

IsListenedTo(c, t) == t = Query \/ t \in DOMAIN c.active

IsActiveTarget(c, t) == IsListenedTo(c, t) /\ c.states[t].outstanding = 0

RemoteKeys(c, t) ==
    IF t = Query THEN c.view.synced
    ELSE IF t \in DOMAIN c.active /\ c.active[t].received THEN {c.active[t].doc}
    ELSE {}

(***************************************************************************)
(* A document came to a target, or was taken from it.                      *)
(***************************************************************************)
Came(c, t, d) == IF d \in RemoteKeys(c, t) THEN "modified" ELSE "added"
Went(c, t, d) == IF d \in RemoteKeys(c, t) THEN "removed" ELSE "none"

Mark(c, T, d, exists) ==
    [t \in Target |->
        IF t \in T
        THEN [c.states[t] EXCEPT
                !.changes[d] = IF exists THEN Came(c, t, d) ELSE Went(c, t, d)]
        ELSE c.states[t]]

HandleDocumentChange(c, targets, d, document) ==
    LET active == {t \in targets : IsActiveTarget(c, t)}
    IN  IF active = {} THEN c
        ELSE [c EXCEPT !.states = Mark(c, active, d, document.val # 0),
                       !.updates = (d :> document) @@ @]

(***************************************************************************)
(* The answers to the requests.                                            *)
(***************************************************************************)
HandleAdded(c, t) ==
    LET left == c.states[t].outstanding - 1
    IN  [c EXCEPT !.states[t] =
            [@ EXCEPT !.outstanding = left,
                      !.changes = IF left = 0 THEN NewState.changes ELSE @]]

HandleRemoved(c, t) ==
    LET left == c.states[t].outstanding - 1
    IN  [c EXCEPT !.states[t] =
            IF left = 0 THEN NewState ELSE [@ EXCEPT !.outstanding = left]]

HandleCurrent(c, t) ==
    IF IsActiveTarget(c, t) THEN [c EXCEPT !.states[t].current = TRUE] ELSE c

(***************************************************************************)
(* An existence filter.  For a limbo document the only news it can bring   *)
(* is that it is gone; for the query, a count that is not the client's     *)
(* resets it: everything in it is taken out.                               *)
(***************************************************************************)
DocumentCount(c, t) ==
    Cardinality(RemoteKeys(c, t))
    + Cardinality({d \in Doc : c.states[t].changes[d] = "added"})
    - Cardinality({d \in Doc : c.states[t].changes[d] = "removed"})

ResetTarget(c, t) ==
    [c EXCEPT !.states[t] =
        [NewState EXCEPT !.changes =
            [d \in Doc |-> IF d \in RemoteKeys(c, t) THEN "removed" ELSE "none"]]]

HandleExistenceFilter(c, t, count) ==
    IF ~IsActiveTarget(c, t) THEN c
    ELSE IF t # Query
    THEN IF count = 0
         THEN HandleDocumentChange(c, {t}, c.active[t].doc, [val |-> 0, version |-> 0])
         ELSE c
    ELSE IF DocumentCount(c, t) = count THEN c
    ELSE [ResetTarget(c, t) EXCEPT !.mismatch = TRUE]

(***************************************************************************)
(* The event.  A limbo document that is current and of which nothing was   *)
(* heard does not exist: the event says so in the server's place.          *)
(***************************************************************************)
Unheard(c) ==
    {t \in DOMAIN c.active :
        /\ IsActiveTarget(c, t)
        /\ c.states[t].current
        /\ c.active[t].doc \notin DOMAIN c.updates
        /\ ~c.active[t].received}

Synthesized(c, version) ==
    LET docs == {c.active[t].doc : t \in Unheard(c)}
    IN  [c EXCEPT !.updates = @ @@ [d \in docs |-> [val |-> 0, version |-> version]]]

TargetChange(state) ==
    [added |-> {d \in Doc : state.changes[d] = "added"},
     modified |-> {d \in Doc : state.changes[d] = "modified"},
     removed |-> {d \in Doc : state.changes[d] = "removed"},
     current |-> state.current]

RemoteEvent(c, version) ==
    [version |-> version,
     changes |-> [t \in {u \in Target : IsActiveTarget(c, u)} |-> TargetChange(c.states[t])],
     mismatch |-> c.mismatch,
     updates |-> Synthesized(c, version).updates]

ClearPendingChanges(c) ==
    [c EXCEPT !.states = [t \in Target |->
                  IF IsActiveTarget(c, t) THEN [@[t] EXCEPT !.changes = NewState.changes]
                  ELSE @[t]],
              !.updates = <<>>,
              !.mismatch = FALSE]
=============================================================================
