--------------------------- MODULE FirestoreViews ---------------------------
(***************************************************************************)
(* The view of one query, as Firestore keeps it for its listeners          *)
(* (Pods/FirebaseFirestore/Firestore/core/src/core/view.cc): which         *)
(* documents it shows, which of them the server has confirmed, which are   *)
(* in limbo, and whether what it shows is as of the server or of the       *)
(* cache.  The query has no limit and matches every document there is, as  *)
(* the chat's does.                                                        *)
(*                                                                         *)
(* A document shown is its value and whether it has local mutations, a     *)
(* document that changed also says whether the server has committed them   *)
(* before it sent them.  Value 0 is no document.                           *)
(***************************************************************************)
EXTENDS Naturals

CONSTANT Doc

NotShown == [val |-> 0, local |-> FALSE]

(***************************************************************************)
(* A new view, over the keys the server is known to have matched with the  *)
(* query.                                                                  *)
(***************************************************************************)
NewView(remoteKeys) ==
    [docs |-> [d \in Doc |-> NotShown], synced |-> remoteKeys, limbo |-> {},
     current |-> FALSE, sync |-> FALSE]

(***************************************************************************)
(* The event for a write that was acknowledged is held back: the watch     *)
(* stream is expected to send that document again.                         *)
(***************************************************************************)
ShouldWaitForSyncedDocument(new, old) ==
    old.local /\ new.committed /\ ~new.local

(***************************************************************************)
(* Whether a changed document changes the view.  Committed mutations count *)
(* as pending only for documents that were mutated while the view was      *)
(* there.                                                                  *)
(***************************************************************************)
ChangeApplied(old, new) ==
    IF old.val = 0 \/ new.val = 0 THEN old.val # new.val
    ELSE IF old.val # new.val THEN ~ShouldWaitForSyncedDocument(new, old)
    ELSE old.local # (new.local \/ (old.local /\ new.committed))

ComputeDocumentChanges(view, changes) ==
    [d \in Doc |->
        IF d \in DOMAIN changes /\ ChangeApplied(view.docs[d], changes[d])
        THEN [val |-> changes[d].val, local |-> changes[d].local]
        ELSE view.docs[d]]

(***************************************************************************)
(* A document is in limbo when it is shown, the server does not count it   *)
(* to the query, and no local change explains why.                         *)
(***************************************************************************)
ShouldBeInLimbo(view, d) ==
    /\ d \notin view.synced
    /\ view.docs[d].val # 0
    /\ ~view.docs[d].local

(***************************************************************************)
(* A target change says which documents came to the target, changed in it  *)
(* and left it, and whether the target is current.  NoTargetChange is the  *)
(* absent one.                                                             *)
(***************************************************************************)
NoTargetChange == [added |-> {}, modified |-> {}, removed |-> {}, none |-> TRUE]

Fault_StaysSynced(view, change) ==
    IF change = NoTargetChange THEN view
    ELSE [view EXCEPT !.synced = @ \union change.added,
                      !.current = change.current]

ApplyTargetChange(view, change) ==
    IF change = NoTargetChange THEN view
    ELSE [view EXCEPT !.synced = (@ \union change.added) \ change.removed,
                      !.current = change.current]

(***************************************************************************)
(* The assertion of ApplyTargetChange: what changed was known.             *)
(***************************************************************************)
ModifiedAreSynced(view, change) ==
    change.modified \subseteq view.synced \union change.added

UpdateLimboDocuments(view) ==
    IF ~view.current THEN view
    ELSE [view EXCEPT !.limbo = {d \in Doc : ShouldBeInLimbo(view, d)}]

(***************************************************************************)
(* A view is as of the server when it is current and nothing in it is in   *)
(* limbo; else it is raised as from the cache.                             *)
(***************************************************************************)
Synced(view) == view.limbo = {} /\ view.current

ApplyChanges(view, docs, change) ==
    LET applied == UpdateLimboDocuments(
                       ApplyTargetChange([view EXCEPT !.docs = docs], change))
    IN  [applied EXCEPT !.sync = Synced(applied)]

(***************************************************************************)
(* Whether the listeners are told: something shown changed, or whether it  *)
(* is from the cache did.                                                  *)
(***************************************************************************)
SnapshotRaised(old, new) == old.docs # new.docs \/ old.sync # new.sync

(***************************************************************************)
(* Going offline, a view is not current any more; what is in limbo stays.  *)
(***************************************************************************)
ApplyOnlineStateChange(view) ==
    IF view.current
    THEN ApplyChanges([view EXCEPT !.current = FALSE], view.docs, NoTargetChange)
    ELSE view
=============================================================================
