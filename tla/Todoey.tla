------------------------------- MODULE Todoey --------------------------------
(***************************************************************************)
(* UIKit/Todoey: a list of categories, a list of the items of one          *)
(* category, and the Realm both are kept in.                               *)
(*                                                                         *)
(* Everything the app does runs on the main thread, one handler at a time. *)
(* A handler that writes is two steps here, so that the process can be     *)
(* killed between them: the body of realm.write changes the objects        *)
(* (realm), then the commit makes the change durable (disk), or throws and *)
(* takes it back, and in the same step the rest of the handler runs.  The  *)
(* Results both screens read are live: they are a function of realm, while *)
(* the cells of a table keep what was last rendered into them.  The        *)
(* hazards are in the distance between these three.                        *)
(***************************************************************************)
EXTENDS TodoStore, TableRows

CONSTANTS
    Term,           \* what may be typed into the search bar
    Match,          \* Match[t]: the titles for which "CONTAINS[cd] t" holds
    WriteMayFail    \* may a commit throw (the disk is full)?

ASSUME MatchAssumption == Match \in [Term -> SUBSET Title] /\ Nil \notin Term
ASSUME FailAssumption == WriteMayFail \in BOOLEAN

VARIABLES
    disk,           \* the store the last commit left in the file
    realm,          \* the objects as the app sees them, in a write or not
    handler,        \* the write block that has run and is not committed
    status,         \* "running", or "crashed" by an exception of UIKit
    screen,         \* the view controller on top of the stack
    categoryCells,  \* CategoryViewController.tableView: key |-> items shown
    itemCells,      \* ItemViewController.tableView: key |-> is it checked?
    selected,       \* ItemViewController.selectedCategory
    filter,         \* the terms ItemViewController.items is filtered by
    text,           \* searchBar.text, Nil when it is empty
    alert           \* the alert on screen, with what its closures captured

store == <<disk, realm, handler>>
categoryView == <<categoryCells>>
itemView == <<itemCells, selected, filter, text>>
vars == <<store, status, screen, categoryView, itemView, alert>>

Alert ==
    [kind   : {"none", "addCategory", "addItem", "deleteCategory", "deleteItem"},
     target : CategoryDate \cup ItemDate \cup {Nil},
     row    : Nat]

NoAlert == [kind |-> "none", target |-> Nil, row |-> 0]
AddAlert(kind) == [kind |-> kind, target |-> Nil, row |-> 0]

(* self.items: the live result of sorting and filtering a category's list. *)
LiveItems(s, c, f) ==
    {i \in s.list[c] : \A t \in f : s.title[i] \in Match[t]}

(* What reloadData renders into the cells of each screen.                  *)
CategoryCells(s) == [c \in s.categories |-> Cardinality(s.list[c])]
ItemCells(s, c, f) == [i \in LiveItems(s, c, f) |-> i \in s.done]
NoCells == [i \in {} |-> FALSE]

Init ==
    /\ disk = EmptyStore
    /\ realm = EmptyStore
    /\ handler = "none"
    /\ status = "running"
    /\ screen = "categories"
    /\ categoryCells = CategoryCells(EmptyStore)
    /\ itemCells = NoCells
    /\ selected = Nil
    /\ filter = {}
    /\ text = Nil
    /\ alert = NoAlert

-----------------------------------------------------------------------------
(* A tap is delivered when no handler is running; an alert takes all taps. *)
Ready == status = "running" /\ handler = "none"
Tap(onScreen) == Ready /\ alert = NoAlert /\ screen = onScreen
Answer(kind) == Ready /\ alert.kind = kind

(* The body of realm.write { ... }.  The alert's closure, with what it     *)
(* captured, lives on until the handler returns.                           *)
Write(name, s) ==
    /\ handler' = name
    /\ realm' = s
    /\ UNCHANGED <<disk, status, screen, categoryView, selected, filter, text, alert>>

(* Cancel on any of the four alerts: dismiss.                              *)
CancelAlert ==
    /\ Ready
    /\ alert # NoAlert
    /\ alert' = NoAlert
    /\ UNCHANGED <<store, status, screen, categoryView, itemView>>

ShowAlert(a) ==
    /\ alert' = a
    /\ UNCHANGED <<store, status, screen, categoryView, itemView>>

-----------------------------------------------------------------------------
(* CategoryViewController                                                  *)

CategoryAddPressed == Tap("categories") /\ ShowAlert(AddAlert("addCategory"))

(* Add with an empty title: nothing is saved, the table is reloaded.       *)
ConfirmUntitledCategory ==
    /\ Answer("addCategory")
    /\ alert' = NoAlert
    /\ categoryCells' = CategoryCells(realm)
    /\ UNCHANGED <<store, status, screen, itemView>>

ConfirmAddCategory(c) ==
    /\ Answer("addCategory")
    /\ c \notin realm.categories
    /\ Write("addCategory", CategoryAdded(realm, c))
    /\ UNCHANGED itemCells

(* The alert captures the object at the row, and the row.                  *)
SwipeCategory(r) ==
    /\ Tap("categories")
    /\ r \in 1..Cardinality(DOMAIN categoryCells)
    /\ ShowAlert([kind   |-> "deleteCategory",
                  target |-> KeyAt(realm.categories, r),
                  row    |-> r])

ConfirmDeleteCategory ==
    /\ Answer("deleteCategory")
    /\ Write("deleteCategory", CategoryDeleted(realm, alert.target))
    /\ UNCHANGED itemCells

(* didSelectRowAt -> performSegue -> prepare, which sets selectedCategory, *)
(* whose didSet loads the items before they are on screen.                 *)
SelectCategory(r) ==
    /\ Tap("categories")
    /\ r \in 1..Cardinality(DOMAIN categoryCells)
    /\ screen' = "items"
    /\ selected' = KeyAt(realm.categories, r)
    /\ filter' = {}
    /\ text' = Nil
    /\ itemCells' = ItemCells(realm, selected', {})
    /\ UNCHANGED <<store, status, categoryView, alert>>

-----------------------------------------------------------------------------
(* ItemViewController                                                      *)

ItemAddPressed == Tap("items") /\ ShowAlert(AddAlert("addItem"))

ConfirmUntitledItem ==
    /\ Answer("addItem")
    /\ alert' = NoAlert
    /\ itemCells' = ItemCells(realm, selected, filter)
    /\ UNCHANGED <<store, status, screen, categoryView, selected, filter, text>>

ConfirmAddItem(i, title) ==
    /\ Answer("addItem")
    /\ i \notin realm.items
    /\ Write("addItem", ItemAppended(realm, selected, i, title))
    /\ UNCHANGED itemCells

(* Fault: the cell shows the flag as it was before the toggle.             *)
Fault_MarkBeforeToggle(r) ==
    LET i == KeyAt(LiveItems(realm, selected, filter), r)
    IN  /\ Tap("items")
        /\ Write("toggleItem", DoneToggled(realm, i))
        /\ itemCells' = [itemCells EXCEPT ![KeyAt(DOMAIN itemCells, r)] = i \in realm.done]

(* The check mark is set inside the write block, before the commit.        *)
SelectItem(r) ==
    LET i == KeyAt(LiveItems(realm, selected, filter), r)
        cell == KeyAt(DOMAIN itemCells, r)
        toggled == DoneToggled(realm, i)
    IN  /\ Tap("items")
        /\ r \in 1..Cardinality(DOMAIN itemCells)
        /\ Write("toggleItem", toggled)
        /\ itemCells' = [itemCells EXCEPT ![cell] = i \in toggled.done]

SwipeItem(r) ==
    /\ Tap("items")
    /\ r \in 1..Cardinality(DOMAIN itemCells)
    /\ ShowAlert([kind   |-> "deleteItem",
                  target |-> KeyAt(LiveItems(realm, selected, filter), r),
                  row    |-> r])

(* Fault: everything the table shows is deleted, not the captured item.    *)
Fault_DeleteAllShown ==
    /\ Answer("deleteItem")
    /\ Write("deleteItem", ItemsDeleted(realm, DOMAIN itemCells))
    /\ UNCHANGED itemCells

ConfirmDeleteItem ==
    /\ Answer("deleteItem")
    /\ Write("deleteItem", ItemsDeleted(realm, {alert.target}))
    /\ UNCHANGED itemCells

(* A cell that scrolls out and back in is rendered again.                  *)
RedrawItem(r) ==
    LET cell == KeyAt(DOMAIN itemCells, r)
        i == KeyAt(LiveItems(realm, selected, filter), r)
    IN  /\ Tap("items")
        /\ r \in 1..Cardinality(DOMAIN itemCells)
        /\ itemCells' = [itemCells EXCEPT ![cell] = i \in realm.done]
        /\ UNCHANGED <<store, status, screen, categoryView, selected, filter, text, alert>>

(* Typing reloads nothing until the text is empty; then load() takes every *)
(* filter away.                                                            *)
TypeText(t) ==
    /\ Tap("items")
    /\ t # text
    /\ text' = t
    /\ UNCHANGED <<store, status, screen, categoryView, itemCells, selected, filter, alert>>

(* Fault: the text is emptied and nothing is loaded.                       *)
Fault_ClearWithoutLoad ==
    /\ Tap("items")
    /\ text # Nil
    /\ text' = Nil
    /\ UNCHANGED <<store, status, screen, categoryView, itemCells, selected, filter, alert>>

ClearText ==
    /\ Tap("items")
    /\ text # Nil
    /\ text' = Nil
    /\ filter' = {}
    /\ itemCells' = ItemCells(realm, selected, {})
    /\ UNCHANGED <<store, status, screen, categoryView, selected, alert>>

(* Search filters what is already filtered.                                *)
SearchPressed ==
    /\ Tap("items")
    /\ text # Nil
    /\ filter' = filter \cup {text}
    /\ itemCells' = ItemCells(realm, selected, filter')
    /\ UNCHANGED <<store, status, screen, categoryView, selected, text, alert>>

(* Back: viewWillAppear of the categories loads them; the items' view      *)
(* controller is gone.                                                     *)
Back ==
    /\ Tap("items")
    /\ screen' = "categories"
    /\ categoryCells' = CategoryCells(realm)
    /\ itemCells' = NoCells
    /\ selected' = Nil
    /\ filter' = {}
    /\ text' = Nil
    /\ UNCHANGED <<store, status, alert>>

(* A swipe back that the user takes back: the categories were about to     *)
(* appear, so they were loaded, but the items stay.                        *)
CancelledBackSwipe ==
    /\ Tap("items")
    /\ categoryCells' = CategoryCells(realm)
    /\ UNCHANGED <<store, status, screen, itemView, alert>>

-----------------------------------------------------------------------------
(* The end of a handler that writes, the store now being s: the rest of    *)
(* the closure after realm.write.                                          *)

(* Fault: the table is not reloaded after an add.                          *)
Fault_AddWithoutReload(s) ==
    /\ handler \in {"addCategory", "addItem"}
    /\ UNCHANGED <<status, categoryCells, itemCells>>

ReloadAfterAdd(s) ==
    /\ \/ /\ handler = "addCategory"
          /\ categoryCells' = CategoryCells(s)
          /\ UNCHANGED itemCells
       \/ /\ handler = "addItem"
          /\ itemCells' = ItemCells(s, selected, filter)
          /\ UNCHANGED categoryCells
    /\ UNCHANGED status

NothingAfterToggle ==
    handler = "toggleItem" /\ UNCHANGED <<status, categoryCells, itemCells>>

DeleteCategoryRow(s) ==
    /\ handler = "deleteCategory"
    /\ DeleteRowsAgrees(categoryCells, s.categories)
    /\ categoryCells' = WithoutRow(categoryCells, alert.row)
    /\ UNCHANGED <<status, itemCells>>

DeleteItemRow(s) ==
    /\ handler = "deleteItem"
    /\ DeleteRowsAgrees(itemCells, LiveItems(s, selected, filter))
    /\ itemCells' = WithoutRow(itemCells, alert.row)
    /\ UNCHANGED <<status, categoryCells>>

DeleteRowsRaises(s) ==
    /\ \/ /\ handler = "deleteCategory"
          /\ ~DeleteRowsAgrees(categoryCells, s.categories)
       \/ /\ handler = "deleteItem"
          /\ ~DeleteRowsAgrees(itemCells, LiveItems(s, selected, filter))
    /\ status' = "crashed"
    /\ UNCHANGED <<categoryCells, itemCells>>

EndOfHandler(s) ==
    /\ \/ ReloadAfterAdd(s)
       \/ NothingAfterToggle
       \/ DeleteCategoryRow(s)
       \/ DeleteItemRow(s)
       \/ DeleteRowsRaises(s)
    /\ handler' = "none"
    /\ alert' = NoAlert
    /\ UNCHANGED <<screen, selected, filter, text>>

Commit ==
    /\ handler # "none"
    /\ disk' = realm
    /\ UNCHANGED realm
    /\ EndOfHandler(realm)

(* The commit throws, the write is taken back, the error is printed; what  *)
(* follows the catch is the same code.                                     *)
CommitFails ==
    /\ WriteMayFail
    /\ handler # "none"
    /\ realm' = disk
    /\ UNCHANGED disk
    /\ EndOfHandler(disk)

(* The process ends, crashed or killed, at any moment, and is started      *)
(* again: Realm opens the file, viewDidLoad loads the categories.          *)
Relaunch ==
    /\ realm' = disk
    /\ handler' = "none"
    /\ status' = "running"
    /\ screen' = "categories"
    /\ categoryCells' = CategoryCells(disk)
    /\ itemCells' = NoCells
    /\ selected' = Nil
    /\ filter' = {}
    /\ text' = Nil
    /\ alert' = NoAlert
    /\ UNCHANGED disk

-----------------------------------------------------------------------------
CategoryScreen ==
    \/ CategoryAddPressed
    \/ ConfirmUntitledCategory
    \/ \E c \in CategoryDate : ConfirmAddCategory(c)
    \/ \E r \in 1..Cardinality(DOMAIN categoryCells) :
          SwipeCategory(r) \/ SelectCategory(r)
    \/ ConfirmDeleteCategory

ItemScreen ==
    \/ ItemAddPressed
    \/ ConfirmUntitledItem
    \/ \E i \in ItemDate, title \in Title : ConfirmAddItem(i, title)
    \/ \E r \in 1..Cardinality(DOMAIN itemCells) :
          SelectItem(r) \/ SwipeItem(r) \/ RedrawItem(r)
    \/ ConfirmDeleteItem
    \/ \E t \in Term : TypeText(t)
    \/ ClearText
    \/ SearchPressed
    \/ Back
    \/ CancelledBackSwipe

Next ==
    \/ CategoryScreen
    \/ ItemScreen
    \/ CancelAlert
    \/ Commit
    \/ CommitFails
    \/ Relaunch

Spec == Init /\ [][Next]_vars
-----------------------------------------------------------------------------
(* Properties                                                              *)

(* Every variable holds a value of its kind, and the two stores are finite *)
(* sets of objects.                                                        *)
TypeOK ==
    /\ disk \in Store /\ IsFiniteSet(disk.items) /\ IsFiniteSet(disk.categories)
    /\ realm \in Store /\ IsFiniteSet(realm.items) /\ IsFiniteSet(realm.categories)
    /\ handler \in {"none", "addCategory", "deleteCategory", "addItem", "deleteItem", "toggleItem"}
    /\ status \in {"running", "crashed"}
    /\ screen \in {"categories", "items"}
    /\ DOMAIN categoryCells \subseteq CategoryDate
    /\ categoryCells \in [DOMAIN categoryCells -> Nat]
    /\ DOMAIN itemCells \subseteq ItemDate
    /\ itemCells \in [DOMAIN itemCells -> BOOLEAN]
    /\ selected \in CategoryDate \cup {Nil}
    /\ filter \subseteq Term
    /\ text \in Term \cup {Nil}
    /\ alert \in Alert

(* Neither the file nor the open Realm ever holds an orphan item, an item  *)
(* of two categories, a link to an item that is gone, or data of one: a    *)
(* category goes together with its items, whatever commits, fails or is    *)
(* killed in between.                                                      *)
StoreSound == SoundStore(disk) /\ SoundStore(realm)

(* Whenever the categories can be tapped, the table shows exactly the      *)
(* categories of the Realm, each with its present number of items: those   *)
(* added or deleted on the other screen are counted on the way back.       *)
CategoriesShown ==
    Ready /\ screen = "categories" => categoryCells = CategoryCells(realm)

(* Whenever the items can be tapped, the rows are exactly the live results *)
(* every handler indexes with indexPath.row, whatever was searched, added  *)
(* or deleted since the last reload: no row names another item, and no     *)
(* index is out of range.                                                  *)
ItemsShown ==
    Ready /\ screen = "items" =>
        DOMAIN itemCells = LiveItems(realm, selected, filter)

(* A check mark comes to differ from the item's flag only when the commit  *)
(* of a toggle fails: didSelectRowAt sets the mark inside the write block  *)
(* and nothing sets it back in the catch.  (While a delete is uncommitted  *)
(* the item has no flag to differ from.)                                   *)
Stale(i) == i \in DOMAIN itemCells /\ itemCells[i] # (i \in realm.done)
StaleMarkOnlyAfterFailedToggle ==
    [][\A i \in realm.items \cap realm'.items :
         Stale(i)' /\ ~Stale(i) => handler = "toggleItem" /\ disk' = disk]_vars

(* A delete alert captures an object and an index path.  As long as it can *)
(* be answered the two still denote the same row, in the live results and  *)
(* in the table, so the row that goes is the object that goes.             *)
AlertNamesRow ==
    Ready =>
        /\ alert.kind = "deleteCategory" =>
             /\ alert.target \in realm.categories \cap DOMAIN categoryCells
             /\ Row(DOMAIN categoryCells, alert.target) = alert.row
        /\ alert.kind = "deleteItem" =>
             /\ alert.target \in LiveItems(realm, selected, filter) \cap DOMAIN itemCells
             /\ Row(DOMAIN itemCells, alert.target) = alert.row

(* An item leaves the file only when the user has answered Delete to an    *)
(* alert about that item or about the category it was in.                  *)
DeletesOnlyTheNamed ==
    [][\A i \in disk.items \ disk'.items :
         \/ alert.kind = "deleteItem" /\ alert.target = i
         \/ alert.kind = "deleteCategory" /\ i \in disk.list[alert.target]]_vars

(* An empty search bar means no search: textDidChange has loaded the whole *)
(* category again, so no item is hidden by a term that is no longer shown. *)
ClearedSearchShowsAll ==
    Ready /\ screen = "items" /\ text = Nil =>
        DOMAIN itemCells = realm.list[selected]

(* What the user sees and can answer is what the handlers will touch: the  *)
(* tables of both screens, the alert over them and the cleared search bar. *)
ScreensSound ==
    /\ CategoriesShown
    /\ ItemsShown
    /\ AlertNamesRow
    /\ ClearedSearchShowsAll

(* deleteRows(at:) raises only after a delete whose commit failed (the     *)
(* catch prints and falls through to it); a delete that was committed      *)
(* never crashes the app, with a search on or not.                         *)
CrashOnlyAfterFailedDelete ==
    [][status = "running" /\ status' = "crashed" =>
         handler \in {"deleteCategory", "deleteItem"} /\ disk' = disk]_vars

(* The file as the to-do list the user thinks of, and the promise kept:    *)
(* through every kill, failed commit and crash, what is on disk changes by *)
(* whole edits of TodoList and by nothing else.                            *)
EntryOf(s, i) == [title |-> s.title[i], done |-> i \in s.done]
Lists(s) == [c \in s.categories |-> [i \in s.list[c] |-> EntryOf(s, i)]]

Promise == INSTANCE TodoList WITH lists <- Lists(disk)
ImplementsTodoList == Promise!Spec

-----------------------------------------------------------------------------
(* The inductive invariant: what holds between any two steps, also inside  *)
(* a write, where the properties above say nothing.                        *)

(* The Realm is the file, or the file after the one edit under way.        *)
WriteIsOneEdit ==
    /\ handler = "none" => realm = disk
    /\ handler = "addCategory" =>
         \E c \in CategoryDate \ disk.categories : realm = CategoryAdded(disk, c)
    /\ handler = "deleteCategory" => realm = CategoryDeleted(disk, alert.target)
    /\ handler = "addItem" =>
         \E i \in ItemDate \ disk.items, title \in Title :
            realm = ItemAppended(disk, selected, i, title)
    /\ handler = "toggleItem" =>
         \E i \in disk.list[selected] : realm = DoneToggled(disk, i)
    /\ handler = "deleteItem" => realm = ItemsDeleted(disk, {alert.target})

(* Handlers and alerts belong to their screen; the category whose items    *)
(* are on screen exists in the file.                                       *)
OnItsScreen ==
    /\ handler \notin {"none", "toggleItem"} => alert.kind = handler
    /\ handler = "toggleItem" => screen = "items"
    /\ alert.kind \in {"addCategory", "deleteCategory"} => screen = "categories"
    /\ alert.kind \in {"addItem", "deleteItem"} => screen = "items"
    /\ screen = "items" => selected \in disk.categories
    /\ status = "crashed" => handler = "none" /\ alert = NoAlert

(* Until the app crashes, a table shows the file, even during a write: the *)
(* table is changed in the step that commits.                              *)
TableShowsDisk ==
    status = "running" =>
        /\ screen = "categories" => categoryCells = CategoryCells(disk)
        /\ screen = "items" => DOMAIN itemCells = LiveItems(disk, selected, filter)

(* The object and the row an alert captured are the same row of the file.  *)
AlertOnDisk ==
    /\ alert.kind = "deleteCategory" =>
         /\ alert.target \in disk.categories
         /\ Row(disk.categories, alert.target) = alert.row
    /\ alert.kind = "deleteItem" =>
         /\ alert.target \in LiveItems(disk, selected, filter)
         /\ Row(LiveItems(disk, selected, filter), alert.target) = alert.row

NoTextNoFilter == screen = "items" /\ text = Nil => filter = {}

Inv ==
    /\ TypeOK
    /\ StoreSound
    /\ WriteIsOneEdit
    /\ OnItsScreen
    /\ TableShowsDisk
    /\ AlertOnDisk
    /\ NoTextNoFilter
=============================================================================
