------------------------------ MODULE TodoList -------------------------------
(***************************************************************************)
(* What Todoey promises its user: a to-do list that survives anything.     *)
(* It is a set of categories, each with items of its own; it changes only  *)
(* by one of five edits, each of which happens at once or not at all.      *)
(* There is no screen here, no alert, no transaction and no restart.       *)
(***************************************************************************)
EXTENDS Integers

CONSTANTS CategoryDate, ItemDate, Title

VARIABLE lists  \* category |-> (item |-> [title, done])

Entry == [title : Title, done : BOOLEAN]

TypeOK ==
    /\ DOMAIN lists \subseteq CategoryDate
    /\ \A c \in DOMAIN lists :
         /\ DOMAIN lists[c] \subseteq ItemDate
         /\ \A i \in DOMAIN lists[c] : lists[c][i] \in Entry

Init == lists = [c \in {} |-> {}]

AddCategory(c) ==
    /\ c \notin DOMAIN lists
    /\ lists' = [d \in DOMAIN lists \cup {c} |->
                   IF d = c THEN [i \in {} |-> {}] ELSE lists[d]]

DeleteCategory(c) ==
    /\ c \in DOMAIN lists
    /\ lists' = [d \in DOMAIN lists \ {c} |-> lists[d]]

AddItem(c, i, t) ==
    /\ c \in DOMAIN lists
    /\ \A d \in DOMAIN lists : i \notin DOMAIN lists[d]
    /\ lists' = [lists EXCEPT ![c] =
                   [j \in DOMAIN @ \cup {i} |->
                      IF j = i THEN [title |-> t, done |-> FALSE] ELSE @[j]]]

ToggleItem(c, i) ==
    /\ c \in DOMAIN lists
    /\ i \in DOMAIN lists[c]
    /\ lists' = [lists EXCEPT ![c][i].done = ~@]

DeleteItem(c, i) ==
    /\ c \in DOMAIN lists
    /\ i \in DOMAIN lists[c]
    /\ lists' = [lists EXCEPT ![c] = [j \in DOMAIN @ \ {i} |-> @[j]]]

Next ==
    \E c \in CategoryDate :
        \/ AddCategory(c)
        \/ DeleteCategory(c)
        \/ \E i \in ItemDate :
              \/ \E t \in Title : AddItem(c, i, t)
              \/ ToggleItem(c, i)
              \/ DeleteItem(c, i)

Spec == Init /\ [][Next]_lists
=============================================================================
