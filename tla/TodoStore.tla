------------------------------ MODULE TodoStore ------------------------------
(***************************************************************************)
(* The Realm of Todoey: the Category and Item objects of Model/ and the    *)
(* bodies of the app's five realm.write blocks, as functions from a store  *)
(* to the store.                                                           *)
(*                                                                         *)
(* An object's identity is its creation date: the app sorts both lists by  *)
(* dateCreated, a time in sub-microsecond resolution, and creates one      *)
(* object per tap.  Dates need not increase: the clock may be set back.    *)
(***************************************************************************)
EXTENDS Integers, FiniteSets

CONSTANTS
    CategoryDate,   \* the dates at which a category may be created
    ItemDate,       \* the dates at which an item may be created
    Title,          \* the non-empty titles of items
    Nil             \* Swift's nil: no title, no object

ASSUME DateAssumption == CategoryDate \subseteq Nat /\ ItemDate \subseteq Nat
ASSUME NilAssumption == Nil \notin Title \cup CategoryDate \cup ItemDate

(* categories and items are realm.objects(Category.self) and               *)
(* realm.objects(Item.self); list[c] is c.items; done is the set of the    *)
(* items whose flag is true.                                               *)
Store ==
    [categories : SUBSET CategoryDate,
     items      : SUBSET ItemDate,
     list       : [CategoryDate -> SUBSET ItemDate],
     title      : [ItemDate -> Title \cup {Nil}],
     done       : SUBSET ItemDate]

EmptyStore ==
    [categories |-> {},
     items      |-> {},
     list       |-> [c \in CategoryDate |-> {}],
     title      |-> [i \in ItemDate |-> Nil],
     done       |-> {}]

(* realm.add(category)                                                     *)
CategoryAdded(s, c) == [s EXCEPT !.categories = @ \cup {c}]

(* realm.delete(objects): they are gone, with every link to them.          *)
ItemsDeleted(s, D) ==
    [s EXCEPT !.items = @ \ D,
              !.list  = [c \in CategoryDate |-> @[c] \ D],
              !.title = [i \in ItemDate |-> IF i \in D THEN Nil ELSE @[i]],
              !.done  = @ \ D]

(* Faults: the category deleted without its items, and its items deleted   *)
(* without it.                                                             *)
Fault_ItemsLeftBehind(s, c) ==
    [s EXCEPT !.categories = @ \ {c}, !.list[c] = {}]
Fault_OnlyItemsDeleted(s, c) == ItemsDeleted(s, s.list[c])

(* realm.delete(category.items); realm.delete(category)                    *)
CategoryDeleted(s, c) ==
    LET t == ItemsDeleted(s, s.list[c])
    IN  [t EXCEPT !.categories = @ \ {c}, !.list[c] = {}]

(* let item = Item(); item.title = title; currentCategory.items.append     *)
ItemAppended(s, c, i, title) ==
    [s EXCEPT !.items    = @ \cup {i},
              !.list[c]  = @ \cup {i},
              !.title[i] = title]

(* item.done = !item.done                                                  *)
DoneToggled(s, i) ==
    [s EXCEPT !.done = IF i \in @ THEN @ \ {i} ELSE @ \cup {i}]

(* What makes a store sound: every item is in the list of exactly one      *)
(* category, lists hold existing items only, a category that is gone has   *)
(* no list, only existing items are done and only they have a title.       *)
NoOrphan(s) == \A i \in s.items : \E c \in s.categories : i \in s.list[c]

OneOwner(s) ==
    \A c1, c2 \in CategoryDate : c1 # c2 => s.list[c1] \cap s.list[c2] = {}

NoDanglingLink(s) ==
    \A c \in CategoryDate : /\ s.list[c] \subseteq s.items
                            /\ c \notin s.categories => s.list[c] = {}

NoGhostData(s) ==
    /\ s.done \subseteq s.items
    /\ \A i \in ItemDate : i \in s.items <=> s.title[i] # Nil

SoundStore(s) ==
    /\ NoOrphan(s)
    /\ OneOwner(s)
    /\ NoDanglingLink(s)
    /\ NoGhostData(s)
=============================================================================
