---------------------------- MODULE ChatMessages -----------------------------
(***************************************************************************)
(* UIKit/Flash Chat: the chat screens of several devices on one Firestore  *)
(* collection.                                                             *)
(*                                                                         *)
(* ChatViewController keeps an array, messages, and a table that counts it *)
(* when it is told to reload.  The snapshot listener empties the array and *)
(* fills it again, but leaves the reloading to blocks it puts on the main  *)
(* queue, one for each message; each block looks at the array as it is by  *)
(* the time it runs.  Between the two, the table is drawn from an array it *)
(* has not counted.                                                        *)
(*                                                                         *)
(* A document is named by its date field: order(by: date) makes the order  *)
(* of a set of documents a function of the set, so snapshots are sets, and *)
(* the row of a message is the place of its date.                          *)
(*                                                                         *)
(* Taken from Firestore: a write is shown to the local listener at once,   *)
(* is stored on the device until the server takes or rejects it, and its   *)
(* closure is called on the main queue; snapshots of one listener come on  *)
(* the main queue in order; a listener that fails gets nothing more.       *)
(***************************************************************************)
EXTENDS Integers, Sequences, FiniteSets

CONSTANTS
    Device,
    Doc,            \* the documents that may be sent: a bound
    MaxQueue,       \* a bound on the main queue, for what is put on it from outside
    MayReject,      \* may the server reject a write?
    MayFail,        \* may a listener fail?
    MayKill         \* may the app be killed and started again?

ASSUME DocAssumption == Doc \subseteq Nat
ASSUME BoundAssumption == MaxQueue \in Nat
ASSUME MayAssumption == MayReject \in BOOLEAN /\ MayFail \in BOOLEAN /\ MayKill \in BOOLEAN

VARIABLES
    server,         \* the documents of the collection
    unsent,         \* per device: its writes that are not acknowledged
    rejected,       \* per device: its writes the server has rejected
    known,          \* per device: the server's documents it has been told of
    closures,       \* per device: the writes addDocument will report to the app
    listening,      \* per device: is its listener alive?
    queue,          \* per device: the main queue
    messages,       \* per device: ChatViewController.messages
    rows,           \* per device: the rows its table has counted
    text,           \* per device: is there something in the text field?
    crashed         \* per device

firestore == <<server, unsent, rejected, known, closures, listening>>
screen == <<messages, rows, text, crashed>>
messagesVars == <<firestore, queue, screen>>

(* What may wait on a main queue: a call of the snapshot listener, a call  *)
(* of it with an error, the block that reloads and scrolls, the closure of *)
(* addDocument for a write that was taken, the block it enqueues.          *)
Snapshot(docs) == [what |-> "snapshot", docs |-> docs]
ListenerError == [what |-> "error", docs |-> {}]
Reload == [what |-> "reload", docs |-> {}]
Sent(m) == [what |-> "sent", docs |-> {m}]
ClearText(m) == [what |-> "clear", docs |-> {m}]

Block == [what : {"snapshot", "error", "reload", "sent", "clear"}, docs : SUBSET Doc]

Repeat(block, n) == [i \in 1..n |-> block]

(* What a device's listener is shown: the server's documents it knows and  *)
(* its own that are on the way.                                            *)
Visible(d) == known[d] \cup unsent[d]

MessagesInit ==
    /\ server = {}
    /\ unsent = [d \in Device |-> {}]
    /\ rejected = [d \in Device |-> {}]
    /\ known = [d \in Device |-> {}]
    /\ closures = [d \in Device |-> {}]
    /\ listening = [d \in Device |-> TRUE]
    /\ queue = [d \in Device |-> <<Snapshot({})>>]
    /\ messages = [d \in Device |-> {}]
    /\ rows = [d \in Device |-> 0]
    /\ text = [d \in Device |-> FALSE]
    /\ crashed = [d \in Device |-> FALSE]

-----------------------------------------------------------------------------
(* The main queue of a device: one block at a time, in order.              *)

Runs(d, what) ==
    /\ ~crashed[d]
    /\ queue[d] # <<>>
    /\ Head(queue[d]).what = what

DequeueThen(d, more) == queue' = [queue EXCEPT ![d] = Tail(@) \o more]

(* Fault: the listener fills the array and enqueues nothing.               *)
Fault_SnapshotWithoutReload(d) ==
    /\ Runs(d, "snapshot")
    /\ messages' = [messages EXCEPT ![d] = Head(queue[d]).docs]
    /\ DequeueThen(d, <<>>)
    /\ UNCHANGED <<firestore, rows, text, crashed>>

(* Fault: the emptied array is filled with documentChanges.                *)
Fault_OnlyChanges(d) ==
    LET docs == Head(queue[d]).docs
    IN  /\ Runs(d, "snapshot")
        /\ messages' = [messages EXCEPT ![d] = docs \ @]
        /\ DequeueThen(d, Repeat(Reload, Cardinality(docs)))
        /\ UNCHANGED <<firestore, rows, text, crashed>>

(* loadMessages' listener: the array is emptied and filled with the        *)
(* snapshot, and a block goes to the main queue for each document in it.   *)
RunSnapshot(d) ==
    LET docs == Head(queue[d]).docs
    IN  /\ Runs(d, "snapshot")
        /\ messages' = [messages EXCEPT ![d] = docs]
        /\ DequeueThen(d, Repeat(Reload, Cardinality(docs)))
        /\ UNCHANGED <<firestore, rows, text, crashed>>

(* With an error the array is emptied too, and nobody reloads.             *)
RunListenerError(d) ==
    /\ Runs(d, "error")
    /\ messages' = [messages EXCEPT ![d] = {}]
    /\ DequeueThen(d, <<>>)
    /\ UNCHANGED <<firestore, rows, text, crashed>>

(* reloadData, then scrollToRow(messages.count - 1), which raises when     *)
(* there is no such row.                                                   *)
RunReload(d) ==
    /\ Runs(d, "reload")
    /\ rows' = [rows EXCEPT ![d] = Cardinality(messages[d])]
    /\ crashed' = [crashed EXCEPT ![d] = messages[d] = {}]
    /\ DequeueThen(d, <<>>)
    /\ UNCHANGED <<firestore, messages, text>>

(* The closure of addDocument, without an error.                           *)
RunSent(d) ==
    /\ Runs(d, "sent")
    /\ DequeueThen(d, <<[Head(queue[d]) EXCEPT !.what = "clear"]>>)
    /\ UNCHANGED <<firestore, screen>>

RunClearText(d) ==
    /\ Runs(d, "clear")
    /\ text' = [text EXCEPT ![d] = FALSE]
    /\ DequeueThen(d, <<>>)
    /\ UNCHANGED <<firestore, messages, rows, crashed>>

RunMainQueue(d) ==
    \/ RunSnapshot(d)
    \/ RunListenerError(d)
    \/ RunReload(d)
    \/ RunSent(d)
    \/ RunClearText(d)

(* The table is scrolled to a row it has counted: cellForRowAt reads       *)
(* messages[indexPath.row], out of range if the array is shorter by now.   *)
DrawMissingRow(d) ==
    /\ ~crashed[d]
    /\ rows[d] > Cardinality(messages[d])
    /\ crashed' = [crashed EXCEPT ![d] = TRUE]
    /\ UNCHANGED <<firestore, queue, messages, rows, text>>

-----------------------------------------------------------------------------
(* The user of a device, and Firestore                                     *)

(* What comes from outside finds the process alive, and waits while the    *)
(* queue is at its bound.                                                  *)
RoomFor(d) == ~crashed[d] /\ Len(queue[d]) <= MaxQueue

Notify(d, blocks) == queue' = [queue EXCEPT ![d] = @ \o blocks]

(* The listener is told what there is to see from now on, if it changes.   *)
Told(d, seen) ==
    IF listening[d] /\ seen # Visible(d) THEN <<Snapshot(seen)>> ELSE <<>>

Type(d) ==
    /\ ~crashed[d]
    /\ text' = [text EXCEPT ![d] = TRUE]
    /\ UNCHANGED <<firestore, queue, messages, rows, crashed>>

Fresh(m) == m \notin server /\ \A d \in Device : m \notin unsent[d] \cup rejected[d]

(* sendPressed: whatever is in the text field is sent, were it nothing,    *)
(* and stays there until the server has answered.                          *)
SendPressed(d, m) ==
    /\ RoomFor(d)
    /\ Fresh(m)
    /\ unsent' = [unsent EXCEPT ![d] = @ \cup {m}]
    /\ closures' = [closures EXCEPT ![d] = @ \cup {m}]
    /\ Notify(d, Told(d, Visible(d) \cup {m}))
    /\ UNCHANGED <<server, rejected, known, listening, screen>>

(* The server takes a write.  What the device sees does not change, and    *)
(* addDocument's closure is called, unless the app was killed meanwhile.   *)
Accept(d, m) ==
    /\ RoomFor(d)
    /\ m \in unsent[d]
    /\ server' = server \cup {m}
    /\ known' = [known EXCEPT ![d] = @ \cup {m}]
    /\ unsent' = [unsent EXCEPT ![d] = @ \ {m}]
    /\ closures' = [closures EXCEPT ![d] = @ \ {m}]
    /\ Notify(d, IF m \in closures[d] THEN <<Sent(m)>> ELSE <<>>)
    /\ UNCHANGED <<rejected, listening, screen>>

(* Fault: the closure does not ask for the error.                          *)
Fault_RejectedAsSent(d, m) ==
    /\ MayReject
    /\ RoomFor(d)
    /\ m \in unsent[d]
    /\ rejected' = [rejected EXCEPT ![d] = @ \cup {m}]
    /\ unsent' = [unsent EXCEPT ![d] = @ \ {m}]
    /\ closures' = [closures EXCEPT ![d] = @ \ {m}]
    /\ Notify(d, Told(d, Visible(d) \ {m}) \o <<Sent(m)>>)
    /\ UNCHANGED <<server, known, listening, screen>>

(* The server rejects it: the device takes it back, the listener sees it   *)
(* go, the closure prints the error.                                       *)
Reject(d, m) ==
    /\ MayReject
    /\ RoomFor(d)
    /\ m \in unsent[d]
    /\ rejected' = [rejected EXCEPT ![d] = @ \cup {m}]
    /\ unsent' = [unsent EXCEPT ![d] = @ \ {m}]
    /\ closures' = [closures EXCEPT ![d] = @ \ {m}]
    /\ Notify(d, Told(d, Visible(d) \ {m}))
    /\ UNCHANGED <<server, known, listening, screen>>

(* A device hears of what the others have sent.                            *)
Deliver(d) ==
    /\ RoomFor(d)
    /\ known[d] # server
    /\ known' = [known EXCEPT ![d] = server]
    /\ Notify(d, Told(d, server \cup unsent[d]))
    /\ UNCHANGED <<server, unsent, rejected, closures, listening, screen>>

FailListener(d) ==
    /\ MayFail
    /\ RoomFor(d)
    /\ listening[d]
    /\ listening' = [listening EXCEPT ![d] = FALSE]
    /\ Notify(d, <<ListenerError>>)
    /\ UNCHANGED <<server, unsent, rejected, known, closures, screen>>

(* The app is killed, or has crashed, and the chat is opened again.        *)
(* Firestore has kept the writes; their closures are lost.                 *)
Relaunch(d) ==
    /\ MayKill
    /\ closures' = [closures EXCEPT ![d] = {}]
    /\ listening' = [listening EXCEPT ![d] = TRUE]
    /\ queue' = [queue EXCEPT ![d] = <<Snapshot(Visible(d))>>]
    /\ messages' = [messages EXCEPT ![d] = {}]
    /\ rows' = [rows EXCEPT ![d] = 0]
    /\ text' = [text EXCEPT ![d] = FALSE]
    /\ crashed' = [crashed EXCEPT ![d] = FALSE]
    /\ UNCHANGED <<server, unsent, rejected, known>>

MessagesNext ==
    \E d \in Device :
        \/ RunMainQueue(d)
        \/ DrawMissingRow(d)
        \/ Type(d)
        \/ \E m \in Doc : SendPressed(d, m) \/ Accept(d, m) \/ Reject(d, m)
        \/ Deliver(d)
        \/ FailListener(d)
        \/ Relaunch(d)

(* The main queue is served and the network delivers; nobody has to send,  *)
(* and no write has to be taken.                                           *)
MessagesFairness ==
    \A d \in Device : WF_messagesVars(RunMainQueue(d)) /\ WF_messagesVars(Deliver(d))

MessagesSpec == MessagesInit /\ [][MessagesNext]_messagesVars /\ MessagesFairness

-----------------------------------------------------------------------------
(* Every variable holds a value of its kind.                               *)
MessagesTypeOK ==
    /\ server \subseteq Doc
    /\ unsent \in [Device -> SUBSET Doc]
    /\ rejected \in [Device -> SUBSET Doc]
    /\ known \in [Device -> SUBSET Doc]
    /\ closures \in [Device -> SUBSET Doc]
    /\ listening \in [Device -> BOOLEAN]
    /\ queue \in [Device -> Seq(Block)]
    /\ messages \in [Device -> SUBSET Doc]
    /\ rows \in [Device -> Nat]
    /\ text \in [Device -> BOOLEAN]
    /\ crashed \in [Device -> BOOLEAN]

(* The table asks for a row the array does not have, or has crashed for    *)
(* it, only on a device of which a write was rejected or whose listener    *)
(* has failed: no message that comes, and nothing another device does,     *)
(* makes scrollToRow or cellForRowAt go out of range.                      *)
OutOfRangeNeedsLoss ==
    \A d \in Device :
        crashed[d] \/ rows[d] > Cardinality(messages[d]) =>
            rejected[d] # {} \/ ~listening[d]

(* When a device has nothing left to do, its array is what Firestore knows *)
(* there, and its table has counted it; or there is nothing to show, and   *)
(* then the table may still have rows.                                     *)
SettledShowsAll ==
    \A d \in Device :
        queue[d] = <<>> /\ listening[d] /\ ~crashed[d] =>
            /\ messages[d] = Visible(d)
            /\ messages[d] # {} => rows[d] = Cardinality(messages[d])

(* The text field is emptied for messages the server has, never for one it *)
(* rejected: whatever asks for it is about such a message.                 *)
ClearedForStored ==
    \A d \in Device : \A i \in 1..Len(queue[d]) :
        queue[d][i].what \in {"sent", "clear"} => queue[d][i].docs \subseteq server

(* A message the server has is not taken off a screen that shows it, by    *)
(* no order of snapshots, except by an error of the listener or with the   *)
(* whole screen.                                                           *)
StoredNeverVanishes ==
    [][\A d \in Device :
         (server \cap messages[d]) \subseteq messages'[d]
           \/ RunListenerError(d)
           \/ Relaunch(d)]_messagesVars

(* What can be shown of a screen at any moment.                            *)
MessagesInv == MessagesTypeOK /\ OutOfRangeNeedsLoss /\ ClearedForStored

(* The chat is being opened: the first snapshot waits for the main queue.  *)
Opening(d) == queue[d] # <<>> /\ messages[d] = {} /\ rows[d] = 0

(* What the server has, every screen comes to show, and its table to       *)
(* count, whatever is rejected or killed in between: no screen that        *)
(* listens, has not crashed and is not being opened anew lacks a message   *)
(* the server has for ever.                                                *)
StoredReachesEveryScreen ==
    \A d \in Device :
        []<>(\/ /\ server \subseteq messages[d]
                /\ messages[d] # {} => rows[d] = Cardinality(messages[d])
             \/ crashed[d]
             \/ ~listening[d]
             \/ Opening(d))
=============================================================================
