--------------------------- MODULE FirestoreLocal ---------------------------
(***************************************************************************)
(* What Firestore keeps on the device for one query                        *)
(* (Pods/FirebaseFirestore/Firestore/core/src/local/local_store.cc and     *)
(* what it is built on): the documents as the server last sent them, the   *)
(* queue of the user's writes, the keys that match the query, the version  *)
(* up to which the query was followed, and how a query is answered from    *)
(* all that.                                                               *)
(*                                                                         *)
(* The store is the record c of the client, of which the operators here    *)
(* read and change                                                         *)
(*   c.cache[d]    value (0: none), version, whether the value is one the  *)
(*                 server committed but has not sent yet, and the latest   *)
(*                 time it was read at                                     *)
(*   c.queue       the writes: document, value, whether it has a server    *)
(*                 transform, and the version of its commit (0: none)      *)
(*   c.keys        the keys that match the query                           *)
(*   c.token       the version the query's resume token stands for         *)
(*   c.limboFree   the version of the last view that was as of the server  *)
(*   c.disk        token and limboFree as persisted                        *)
(*   c.snapshot    the last global snapshot version                        *)
(* A version is a position in the server's log, 0 is SnapshotVersion::None.*)
(***************************************************************************)
EXTENDS FirestoreViews, Integers, Sequences, FiniteSets, SequencesExt

CONSTANT Transforms     \* of the writes: whether they have a server transform

ASSUME TransformsAssumption == Transforms \subseteq BOOLEAN

NoDocument == [val |-> 0, version |-> 0, committed |-> FALSE, read |-> 0]

(***************************************************************************)
(* What the server makes of a write: a transform, as the server's time     *)
(* is, gives it another value than the one the client shows till then.     *)
(* Values from 51 to 99 are those, from 100 on those of other clients.     *)
(***************************************************************************)
Stored(write) == IF write.transform THEN 50 + write.val ELSE write.val

(***************************************************************************)
(* A document as the device has it: the last write in the queue, or the    *)
(* document of the cache.                                                  *)
(***************************************************************************)
WritesTo(c, d) == {i \in DOMAIN c.queue : c.queue[i].doc = d}

Fault_FirstWrite(c, d) ==
    IF WritesTo(c, d) # {}
    THEN [val |-> c.queue[Min(WritesTo(c, d))].val, local |-> TRUE, committed |-> FALSE]
    ELSE [val |-> c.cache[d].val, local |-> FALSE, committed |-> c.cache[d].committed]

LocalView(c, d) ==
    IF WritesTo(c, d) # {}
    THEN [val |-> c.queue[Max(WritesTo(c, d))].val, local |-> TRUE, committed |-> FALSE]
    ELSE [val |-> c.cache[d].val, local |-> FALSE, committed |-> c.cache[d].committed]

(***************************************************************************)
(* The documents a query finds: every one there is, or, when there was a   *)
(* view as of the server, those that matched the query and those read      *)
(* since.  A document counts when it is found.                             *)
(***************************************************************************)
Matching(c, D) == {d \in D : LocalView(c, d).val # 0}

FullCollectionScan(c) == Matching(c, Doc)

Mutated(c) == {w.doc : w \in Range(c.queue)}

GetDocumentsMatchingQuery(c, limboFree) ==
    IF limboFree = 0 THEN FullCollectionScan(c)
    ELSE Matching(c, c.keys \union Mutated(c)
                     \union {d \in Doc : c.cache[d].read > limboFree})

(***************************************************************************)
(* An acknowledged write goes into the cache, unless the cache knows       *)
(* better, and out of the queue.                                           *)
(***************************************************************************)
Later(a, b) == IF a > b THEN a ELSE b

Acknowledged(c, w) ==
    [c.cache EXCEPT ![w.doc] =
        IF @.version < w.version
        THEN [val |-> Stored(w), version |-> w.version,
              committed |-> TRUE, read |-> Later(@.read, w.version)]
        ELSE @]

AcknowledgeBatch(c) ==
    [c EXCEPT !.cache = Acknowledged(c, Head(c.queue)), !.queue = Tail(@)]

RejectBatch(c) == [c EXCEPT !.queue = Tail(@)]

(***************************************************************************)
(* Of the documents an event brings: those that are news.  A document that *)
(* is none at version 0 was made up when a listen was rejected or an       *)
(* existence filter said so, and takes the cached one away.                *)
(***************************************************************************)
Fault_TakesOlder(c, updates) == DOMAIN updates

News(c, updates) ==
    {d \in DOMAIN updates :
        \/ updates[d].version = 0
        \/ c.cache[d].version = 0
        \/ updates[d].version > c.cache[d].version
        \/ updates[d].version = c.cache[d].version /\ c.cache[d].committed}

PopulateDocumentChanges(c, updates, version) ==
    [c EXCEPT !.cache = [d \in Doc |->
        IF d \notin News(c, updates) THEN @[d]
        ELSE IF updates[d].version = 0 THEN [NoDocument EXCEPT !.read = c.cache[d].read]
        ELSE [val |-> updates[d].val, version |-> updates[d].version,
              committed |-> FALSE, read |-> Later(c.cache[d].read, version)]]]

FollowTarget(c, change, mismatch, version) ==
    LET token == IF mismatch THEN 0 ELSE version
        free == IF mismatch THEN 0 ELSE c.limboFree
        persist == c.token = 0 \/ change.added \union change.modified \union change.removed # {}
    IN  [c EXCEPT !.keys = (@ \ change.removed) \union change.added,
                  !.token = token,
                  !.limboFree = free,
                  !.disk = IF persist THEN [token |-> token, limboFree |-> free] ELSE @]

(***************************************************************************)
(* After a view was raised as of the server, its target is free of limbo   *)
(* up to its version; this is not persisted before the target is.          *)
(***************************************************************************)
NotifyLocalViewChanges(c) == [c EXCEPT !.limboFree = c.token]

(***************************************************************************)
(* What a new process finds.  The writes whose answer did not come are     *)
(* sent again.                                                             *)
(***************************************************************************)
Resend(queue) == [i \in DOMAIN queue |-> [queue[i] EXCEPT !.version = 0]]

Reloaded(c) ==
    [c EXCEPT !.token = c.disk.token, !.limboFree = c.disk.limboFree,
              !.queue = Resend(@)]
=============================================================================
