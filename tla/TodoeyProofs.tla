---------------------------- MODULE TodoeyProofs -----------------------------
(***************************************************************************)
(* Theorems of Todoey, for any dates, titles, terms and any matching of    *)
(* terms with titles, whether commits may fail or not: of the rows of a    *)
(* table, of the five edits of the store, and of the app.                  *)
(*                                                                         *)
(* Inv is inductive: each action is shown to preserve it by a lemma of its *)
(* own, the actions that only move the screens first, then the writes,     *)
(* then the two ways a write can end.  The theorems at the end follow.     *)
(***************************************************************************)
EXTENDS Todoey, Functions, FiniteSetTheorems, TLAPS

-----------------------------------------------------------------------------
(* Rows and keys of a table are in one-to-one correspondence, for every    *)
(* finite set of keys: what the handlers rely on when they go from an      *)
(* index path to an object and back.                                       *)

(* The newer keys of a finite set of keys can be counted.                  *)
LEMMA NewerFinite ==
    ASSUME NEW S \in SUBSET Nat, IsFiniteSet(S), NEW k
    PROVE  /\ IsFiniteSet({x \in S : x > k})
           /\ Cardinality({x \in S : x > k}) \in Nat
BY FS_Subset, FS_CardinalityType, {x \in S : x > k} \subseteq S

(* A newer key stands at a smaller row.                                    *)
LEMMA RowDecreases ==
    ASSUME NEW S \in SUBSET Nat, IsFiniteSet(S),
           NEW j \in S, NEW k \in S, j < k
    PROVE  Row(S, k) < Row(S, j)
<1> DEFINE NewerJ == {x \in S : x > j}
           NewerK == {x \in S : x > k}
<1>1. IsFiniteSet(NewerJ) /\ Cardinality(NewerJ) \in Nat /\ Cardinality(NewerK) \in Nat
  BY NewerFinite
<1>2. NewerK \subseteq NewerJ /\ k \in NewerJ /\ k \notin NewerK
  <2>1. j \in Nat /\ k \in Nat /\ k > j /\ ~(k > k)
    OBVIOUS
  <2>2. \A x \in S : x > k => x > j
    BY <2>1
  <2> QED
    BY <2>1, <2>2
<1>3. Cardinality(NewerK) <= Cardinality(NewerJ) /\ Cardinality(NewerK) # Cardinality(NewerJ)
  BY <1>1, <1>2, FS_Subset
<1> QED
  BY <1>1, <1>3 DEF Row

(* No two keys stand at the same row.                                      *)
LEMMA RowInjective ==
    ASSUME NEW S \in SUBSET Nat, IsFiniteSet(S),
           NEW j \in S, NEW k \in S, Row(S, j) = Row(S, k)
    PROVE  j = k
<1>1. Row(S, j) \in Nat /\ Row(S, k) \in Nat
  BY NewerFinite DEF Row
<1>2. CASE j < k
  BY <1>1, <1>2, RowDecreases
<1>3. CASE k < j
  BY <1>1, <1>3, RowDecreases
<1> QED
  BY <1>2, <1>3

(* Rows are numbered from 1 to the number of keys.                         *)
LEMMA RowInRange ==
    ASSUME NEW S \in SUBSET Nat, IsFiniteSet(S), NEW k \in S
    PROVE  Row(S, k) \in 1..Cardinality(S)
<1> DEFINE Newer == {x \in S : x > k}
<1>1. Cardinality(Newer) \in Nat /\ Cardinality(S) \in Nat
  BY NewerFinite, FS_CardinalityType
<1>2. Newer \subseteq S /\ k \notin Newer
  OBVIOUS
<1>3. Cardinality(Newer) <= Cardinality(S) /\ Cardinality(Newer) # Cardinality(S)
  BY <1>2, FS_Subset
<1> QED
  BY <1>1, <1>3 DEF Row

(* No row is empty.                                                        *)
LEMMA RowOccupied ==
    ASSUME NEW S \in SUBSET Nat, IsFiniteSet(S), NEW r \in 1..Cardinality(S)
    PROVE  \E k \in S : Row(S, k) = r
<1> DEFINE n == Cardinality(S)
           f == [k \in S |-> Row(S, k)]
<1>1. n \in Nat
  BY FS_CardinalityType
<1>2. f \in Injection(S, 1..n)
  <2>1. f \in [S -> 1..n]
    BY RowInRange
  <2>2. \A j, k \in S : f[j] = f[k] => j = k
    BY RowInjective
  <2> QED
    BY <2>1, <2>2 DEF Injection, IsInjective
<1>3. IsFiniteSet(1..n) /\ Cardinality(1..n) = n
  BY <1>1, FS_Interval
<1>4. f \in Surjection(S, 1..n)
  BY <1>2, <1>3, FS_Injection
<1> QED
  BY <1>4 DEF Surjection

(* The object at a row of a table is an object of the table, at that row.  *)
THEOREM KeyAtRow ==
    ASSUME NEW S \in SUBSET Nat, IsFiniteSet(S), NEW r \in 1..Cardinality(S)
    PROVE  KeyAt(S, r) \in S /\ Row(S, KeyAt(S, r)) = r
BY RowOccupied DEF KeyAt

(* The row of an object leads back to that object.                         *)
THEOREM RowOfKey ==
    ASSUME NEW S \in SUBSET Nat, IsFiniteSet(S), NEW k \in S
    PROVE  KeyAt(S, Row(S, k)) = k
<1> DEFINE j == KeyAt(S, Row(S, k))
<1>1. j \in S /\ Row(S, j) = Row(S, k)
  BY RowInRange, KeyAtRow
<1> HIDE DEF j
<1>2. j = k
  BY <1>1, RowInjective
<1> QED
  BY <1>2 DEF j

-----------------------------------------------------------------------------
(* The five edits of the store: what each does to every field, and that    *)
(* none of them makes a sound store unsound, for every store.              *)

GoodStore(s) ==
    /\ s \in Store
    /\ IsFiniteSet(s.items)
    /\ IsFiniteSet(s.categories)
    /\ SoundStore(s)

(* Adding a category changes the set of categories only.                   *)
LEMMA CategoryAddedFields ==
    ASSUME NEW s \in Store, NEW c \in CategoryDate, NEW t, t = CategoryAdded(s, c)
    PROVE  /\ t \in Store
           /\ t.categories = s.categories \cup {c}
           /\ t.items = s.items
           /\ t.list = s.list
           /\ t.title = s.title
           /\ t.done = s.done
BY DEF Store, CategoryAdded

(* Deleting items takes their links, titles and flags with them.           *)
LEMMA ItemsDeletedFields ==
    ASSUME NEW s \in Store, NEW D, NEW t, t = ItemsDeleted(s, D)
    PROVE  /\ t \in Store
           /\ t.categories = s.categories
           /\ t.items = s.items \ D
           /\ t.list = [c \in CategoryDate |-> s.list[c] \ D]
           /\ t.title = [i \in ItemDate |-> IF i \in D THEN Nil ELSE s.title[i]]
           /\ t.done = s.done \ D
BY DEF Store, ItemsDeleted

(* Deleting a category: its items go with all that was theirs, then it.    *)
LEMMA CategoryDeletedFields ==
    ASSUME NEW s \in Store, NEW c \in CategoryDate, NEW t, t = CategoryDeleted(s, c)
    PROVE  /\ t \in Store
           /\ t.categories = s.categories \ {c}
           /\ t.items = s.items \ s.list[c]
           /\ t.list = [d \in CategoryDate |-> IF d = c THEN {} ELSE s.list[d] \ s.list[c]]
           /\ t.title = [i \in ItemDate |-> IF i \in s.list[c] THEN Nil ELSE s.title[i]]
           /\ t.done = s.done \ s.list[c]
<1> DEFINE u == ItemsDeleted(s, s.list[c])
<1>1. /\ u \in Store
      /\ u.categories = s.categories
      /\ u.items = s.items \ s.list[c]
      /\ u.list = [d \in CategoryDate |-> s.list[d] \ s.list[c]]
      /\ u.title = [i \in ItemDate |-> IF i \in s.list[c] THEN Nil ELSE s.title[i]]
      /\ u.done = s.done \ s.list[c]
  BY ItemsDeletedFields
<1>2. t = [u EXCEPT !.categories = @ \ {c}, !.list[c] = {}]
  BY DEF CategoryDeleted
<1> HIDE DEF u
<1>3. /\ t.categories = u.categories \ {c}
      /\ t.items = u.items
      /\ t.list = [u.list EXCEPT ![c] = {}]
      /\ t.title = u.title
      /\ t.done = u.done
  BY <1>1, <1>2 DEF Store
<1>4. t \in Store
  <2>1. /\ u.categories \ {c} \in SUBSET CategoryDate
        /\ [u.list EXCEPT ![c] = {}] \in [CategoryDate -> SUBSET ItemDate]
    BY <1>1 DEF Store
  <2>2. t = [u EXCEPT !.categories = u.categories \ {c}, !.list = [u.list EXCEPT ![c] = {}]]
    BY <1>1, <1>2 DEF Store
  <2> QED
    BY <1>1, <2>1, <2>2 DEF Store
<1> QED
  BY <1>1, <1>3, <1>4

(* Appending an item creates it and its link from one category.            *)
LEMMA ItemAppendedFields ==
    ASSUME NEW s \in Store, NEW c \in CategoryDate, NEW i \in ItemDate, NEW title \in Title,
           NEW t, t = ItemAppended(s, c, i, title)
    PROVE  /\ t \in Store
           /\ t.categories = s.categories
           /\ t.items = s.items \cup {i}
           /\ t.list = [s.list EXCEPT ![c] = @ \cup {i}]
           /\ t.title = [s.title EXCEPT ![i] = title]
           /\ t.done = s.done
BY DEF Store, ItemAppended

(* A toggle changes one flag.                                              *)
LEMMA DoneToggledFields ==
    ASSUME NEW s \in Store, NEW i \in ItemDate, NEW t, t = DoneToggled(s, i)
    PROVE  /\ t \in Store
           /\ t.categories = s.categories
           /\ t.items = s.items
           /\ t.list = s.list
           /\ t.title = s.title
           /\ t.done = IF i \in s.done THEN s.done \ {i} ELSE s.done \cup {i}
BY DEF Store, DoneToggled

-----------------------------------------------------------------------------
(* The Realm of a first launch is sound.                                   *)
LEMMA EmptyStoreGood == GoodStore(EmptyStore)
BY FS_EmptySet DEF GoodStore, EmptyStore, Store, SoundStore, NoOrphan, OneOwner,
   NoDanglingLink, NoGhostData

(* Deleting a category with its items leaves no orphan behind and takes no *)
(* item of another category along.                                         *)
THEOREM CategoryDeletedGood ==
    ASSUME NEW s, GoodStore(s), NEW c \in s.categories
    PROVE  GoodStore(CategoryDeleted(s, c))
<1> DEFINE t == CategoryDeleted(s, c)
<1>0. s \in Store /\ c \in CategoryDate
  BY DEF GoodStore, Store
<1>1. /\ t \in Store
      /\ t.categories = s.categories \ {c}
      /\ t.items = s.items \ s.list[c]
      /\ t.list = [d \in CategoryDate |-> IF d = c THEN {} ELSE s.list[d] \ s.list[c]]
      /\ t.title = [i \in ItemDate |-> IF i \in s.list[c] THEN Nil ELSE s.title[i]]
      /\ t.done = s.done \ s.list[c]
  BY <1>0, CategoryDeletedFields
<1> HIDE DEF t
<1>2. IsFiniteSet(t.items) /\ IsFiniteSet(t.categories)
  <2>1. IsFiniteSet(s.items) /\ IsFiniteSet(s.categories)
    BY DEF GoodStore
  <2>2. IsFiniteSet(s.items \ s.list[c])
    BY <2>1, FS_Difference
  <2>3. IsFiniteSet(s.categories \ {c})
    BY <2>1, FS_RemoveElement
  <2> QED
    BY <1>1, <2>2, <2>3
<1>3. NoOrphan(t)
  <2> SUFFICES ASSUME NEW i \in t.items
               PROVE  \E d \in t.categories : i \in t.list[d]
    BY DEF NoOrphan
  <2>1. i \in s.items /\ i \notin s.list[c]
    BY <1>1
  <2>2. PICK d \in s.categories : i \in s.list[d]
    BY <2>1 DEF GoodStore, SoundStore, NoOrphan
  <2>3. d # c /\ d \in CategoryDate
    BY <1>0, <2>1, <2>2 DEF Store
  <2> QED
    BY <1>1, <2>1, <2>2, <2>3
<1>4. OneOwner(t)
  BY <1>1 DEF GoodStore, SoundStore, OneOwner
<1>5. NoDanglingLink(t)
  BY <1>0, <1>1 DEF GoodStore, SoundStore, NoDanglingLink
<1>6. NoGhostData(t)
  BY <1>0, <1>1, NilAssumption DEF GoodStore, SoundStore, NoGhostData, Store
<1>7. GoodStore(t)
  BY <1>1, <1>2, <1>3, <1>4, <1>5, <1>6 DEF GoodStore, SoundStore
<1> QED
  BY <1>7 DEF t

(* A new category keeps the store sound: it has no items yet.              *)
THEOREM CategoryAddedGood ==
    ASSUME NEW s, GoodStore(s), NEW c \in CategoryDate \ s.categories
    PROVE  GoodStore(CategoryAdded(s, c))
<1> DEFINE t == CategoryAdded(s, c)
<1>0. s \in Store
  BY DEF GoodStore
<1>1. /\ t \in Store
      /\ t.categories = s.categories \cup {c}
      /\ t.items = s.items
      /\ t.list = s.list
      /\ t.title = s.title
      /\ t.done = s.done
  BY <1>0, CategoryAddedFields
<1> HIDE DEF t
<1>2. IsFiniteSet(t.items) /\ IsFiniteSet(t.categories)
  BY <1>1, FS_AddElement DEF GoodStore
<1>3. SoundStore(t)
  BY <1>0, <1>1 DEF GoodStore, SoundStore, NoOrphan, OneOwner, NoDanglingLink, NoGhostData
<1> QED
  BY <1>1, <1>2, <1>3 DEF GoodStore, t

(* An item appended to a category of the store is in no other list.        *)
THEOREM ItemAppendedGood ==
    ASSUME NEW s, GoodStore(s), NEW c \in s.categories,
           NEW i \in ItemDate \ s.items, NEW title \in Title
    PROVE  GoodStore(ItemAppended(s, c, i, title))
<1> DEFINE t == ItemAppended(s, c, i, title)
<1>0. s \in Store /\ c \in CategoryDate
  BY DEF GoodStore, Store
<1>1. /\ t \in Store
      /\ t.categories = s.categories
      /\ t.items = s.items \cup {i}
      /\ t.list = [s.list EXCEPT ![c] = @ \cup {i}]
      /\ t.title = [s.title EXCEPT ![i] = title]
      /\ t.done = s.done
  BY <1>0, ItemAppendedFields
<1> HIDE DEF t
<1>2. IsFiniteSet(t.items) /\ IsFiniteSet(t.categories)
  BY <1>1, FS_AddElement DEF GoodStore
<1>3. \A d \in CategoryDate : t.list[d] = IF d = c THEN s.list[c] \cup {i} ELSE s.list[d]
  BY <1>0, <1>1 DEF Store
<1>4. \A d \in CategoryDate : i \notin s.list[d]
  BY DEF GoodStore, SoundStore, NoDanglingLink
<1>5. NoOrphan(t)
  BY <1>0, <1>1, <1>3 DEF GoodStore, SoundStore, NoOrphan, Store
<1>6. OneOwner(t)
  BY <1>3, <1>4 DEF GoodStore, SoundStore, OneOwner
<1>7. NoDanglingLink(t)
  BY <1>0, <1>1, <1>3 DEF GoodStore, SoundStore, NoDanglingLink
<1>8. NoGhostData(t)
  BY <1>0, <1>1, NilAssumption DEF GoodStore, SoundStore, NoGhostData, Store
<1> QED
  BY <1>1, <1>2, <1>5, <1>6, <1>7, <1>8 DEF GoodStore, SoundStore, t

(* Toggling an item of the store keeps the store sound.                    *)
THEOREM DoneToggledGood ==
    ASSUME NEW s, GoodStore(s), NEW i \in s.items
    PROVE  GoodStore(DoneToggled(s, i))
<1> SUFFICES ASSUME NEW t, t = DoneToggled(s, i)
             PROVE  GoodStore(t)
  OBVIOUS
<1>0. s \in Store /\ i \in ItemDate
  BY DEF GoodStore, Store
<1>1. /\ t \in Store
      /\ t.categories = s.categories
      /\ t.items = s.items
      /\ t.list = s.list
      /\ t.title = s.title
      /\ t.done = IF i \in s.done THEN s.done \ {i} ELSE s.done \cup {i}
  BY <1>0, DoneToggledFields
<1>2. SoundStore(t)
  BY <1>0, <1>1 DEF GoodStore, SoundStore, NoOrphan, OneOwner, NoDanglingLink, NoGhostData
<1> QED
  BY <1>1, <1>2 DEF GoodStore

(* Deleting any items, with their links, keeps the store sound.            *)
THEOREM ItemsDeletedGood ==
    ASSUME NEW s, GoodStore(s), NEW D
    PROVE  GoodStore(ItemsDeleted(s, D))
<1> DEFINE t == ItemsDeleted(s, D)
<1>0. s \in Store
  BY DEF GoodStore
<1>1. /\ t \in Store
      /\ t.categories = s.categories
      /\ t.items = s.items \ D
      /\ t.list = [c \in CategoryDate |-> s.list[c] \ D]
      /\ t.title = [i \in ItemDate |-> IF i \in D THEN Nil ELSE s.title[i]]
      /\ t.done = s.done \ D
  BY <1>0, ItemsDeletedFields
<1> HIDE DEF t
<1>2. IsFiniteSet(t.items) /\ IsFiniteSet(t.categories)
  <2>1. IsFiniteSet(s.items) /\ IsFiniteSet(s.categories)
    BY DEF GoodStore
  <2>2. IsFiniteSet(s.items \ D)
    BY <2>1, FS_Difference
  <2> QED
    BY <1>1, <2>1, <2>2
<1>3. NoOrphan(t)
  BY <1>0, <1>1 DEF GoodStore, SoundStore, NoOrphan, Store
<1>4. OneOwner(t)
  BY <1>1 DEF GoodStore, SoundStore, OneOwner
<1>5. NoDanglingLink(t)
  BY <1>0, <1>1 DEF GoodStore, SoundStore, NoDanglingLink
<1>6. NoGhostData(t)
  BY <1>0, <1>1, NilAssumption DEF GoodStore, SoundStore, NoGhostData, Store
<1>7. GoodStore(t)
  BY <1>1, <1>2, <1>3, <1>4, <1>5, <1>6 DEF GoodStore, SoundStore
<1> QED
  BY <1>7 DEF t

-----------------------------------------------------------------------------
(* What a store and the tables rendered from it are made of.               *)

(* Both stores of the invariant are sound and finite.                      *)
LEMMA StoresGood ==
    ASSUME Inv
    PROVE  GoodStore(disk) /\ GoodStore(realm)
BY DEF Inv, TypeOK, StoreSound, GoodStore

(* The categories of a good store can be numbered by rows.                 *)
LEMMA CategoriesFinite ==
    ASSUME NEW s, GoodStore(s)
    PROVE  s.categories \in SUBSET Nat /\ IsFiniteSet(s.categories)
BY DateAssumption DEF GoodStore, Store

(* The list of a category is a finite set of existing items.               *)
LEMMA ListFinite ==
    ASSUME NEW s, GoodStore(s), NEW c \in CategoryDate
    PROVE  /\ s.list[c] \in SUBSET ItemDate
           /\ s.list[c] \subseteq s.items
           /\ IsFiniteSet(s.list[c])
           /\ Cardinality(s.list[c]) \in Nat
<1>1. s.list[c] \in SUBSET ItemDate /\ s.list[c] \subseteq s.items
  BY DEF GoodStore, Store, SoundStore, NoDanglingLink
<1> QED
  BY <1>1, FS_Subset, FS_CardinalityType DEF GoodStore

(* What a search leaves of a list can be numbered by rows.                 *)
LEMMA LiveFinite ==
    ASSUME NEW s, GoodStore(s), NEW c \in CategoryDate, NEW f
    PROVE  /\ LiveItems(s, c, f) \in SUBSET Nat
           /\ LiveItems(s, c, f) \subseteq ItemDate
           /\ LiveItems(s, c, f) \subseteq s.list[c]
           /\ LiveItems(s, c, f) \subseteq s.items
           /\ IsFiniteSet(LiveItems(s, c, f))
<1>1. LiveItems(s, c, f) \subseteq s.list[c]
  BY DEF LiveItems
<1> QED
  BY <1>1, ListFinite, FS_Subset, DateAssumption

(* The category table has a row for each category, with a count.           *)
LEMMA CategoryCellsType ==
    ASSUME NEW s, GoodStore(s)
    PROVE  /\ DOMAIN CategoryCells(s) = s.categories
           /\ DOMAIN CategoryCells(s) \subseteq CategoryDate
           /\ CategoryCells(s) \in [DOMAIN CategoryCells(s) -> Nat]
<1>1. \A c \in s.categories : c \in CategoryDate /\ Cardinality(s.list[c]) \in Nat
  BY ListFinite DEF GoodStore, Store
<1> QED
  BY <1>1 DEF CategoryCells

(* The item table has a row for each live result, with a mark.             *)
LEMMA ItemCellsType ==
    ASSUME NEW s, GoodStore(s), NEW c \in CategoryDate, NEW f
    PROVE  /\ DOMAIN ItemCells(s, c, f) = LiveItems(s, c, f)
           /\ DOMAIN ItemCells(s, c, f) \subseteq ItemDate
           /\ ItemCells(s, c, f) \in [DOMAIN ItemCells(s, c, f) -> BOOLEAN]
BY LiveFinite DEF ItemCells

(* A table that is not on screen has no rows.                              *)
LEMMA NoCellsType == DOMAIN NoCells = {} /\ NoCells \in [DOMAIN NoCells -> BOOLEAN]
BY DEF NoCells

(* No alert and the two alerts of the add buttons are alerts.              *)
LEMMA NoAlertType ==
    /\ NoAlert \in Alert
    /\ NoAlert.kind = "none"
    /\ \A k \in {"addCategory", "addItem"} :
         AddAlert(k) \in Alert /\ AddAlert(k).kind = k
BY DEF NoAlert, AddAlert, Alert

(* With an empty list of terms nothing is filtered.                        *)
LEMMA LiveUnfiltered ==
    ASSUME NEW s, NEW c
    PROVE  LiveItems(s, c, {}) = s.list[c]
BY DEF LiveItems

(* Setting one mark keeps the rows.                                        *)
LEMMA MarkSet ==
    ASSUME NEW D, NEW f \in [D -> BOOLEAN], NEW k, NEW b \in BOOLEAN
    PROVE  [f EXCEPT ![k] = b] \in [D -> BOOLEAN]
OBVIOUS

-----------------------------------------------------------------------------
(* A first launch satisfies the inductive invariant.                       *)
LEMMA InitInv == Init => Inv
<1> SUFFICES ASSUME Init PROVE Inv
  OBVIOUS
<1>1. GoodStore(disk) /\ realm = disk
  BY EmptyStoreGood DEF Init
<1>2. TypeOK
  BY <1>1, EmptyStoreGood, CategoryCellsType, NoCellsType, NoAlertType
     DEF Init, TypeOK, GoodStore
<1>3. StoreSound
  BY <1>1 DEF StoreSound, GoodStore
<1>4. WriteIsOneEdit /\ OnItsScreen /\ TableShowsDisk /\ AlertOnDisk /\ NoTextNoFilter
  BY <1>1, NoAlertType
     DEF Init, WriteIsOneEdit, OnItsScreen, TableShowsDisk, AlertOnDisk, NoTextNoFilter
<1> QED
  BY <1>2, <1>3, <1>4 DEF Inv

(* When a tap is delivered the Realm is the file.                          *)
LEMMA ReadyFacts ==
    ASSUME Inv, Ready
    PROVE  /\ realm = disk
           /\ screen = "categories" => DOMAIN categoryCells = realm.categories
           /\ screen = "items" =>
                /\ selected \in CategoryDate
                /\ selected \in realm.categories
                /\ DOMAIN itemCells = LiveItems(realm, selected, filter)
<1>1. realm = disk
  BY DEF Inv, Ready, WriteIsOneEdit
<1>2. screen = "categories" => DOMAIN categoryCells = realm.categories
  BY <1>1, StoresGood, CategoryCellsType DEF Inv, Ready, TableShowsDisk
<1>3. screen = "items" => selected \in CategoryDate /\ selected \in realm.categories
  BY <1>1, StoresGood DEF Inv, OnItsScreen, GoodStore, Store
<1> QED
  BY <1>1, <1>2, <1>3 DEF Inv, Ready, TableShowsDisk

(* Steps that leave the stores alone, with no write under way: what they   *)
(* still have to show.                                                     *)
LEMMA ScreenStep ==
    ASSUME Inv, Ready, UNCHANGED <<disk, realm, handler, status>>,
           TypeOK', OnItsScreen', TableShowsDisk', AlertOnDisk', NoTextNoFilter'
    PROVE  Inv'
<1>1. StoreSound'
  BY DEF Inv, StoreSound
<1>2. WriteIsOneEdit'
  BY ReadyFacts DEF Ready, WriteIsOneEdit
<1> QED
  BY <1>1, <1>2 DEF Inv

(* Dismissing an alert changes nothing but the alert.                      *)
LEMMA CancelAlertInv == Inv /\ CancelAlert => Inv'
<1> SUFFICES ASSUME Inv, CancelAlert PROVE Inv'
  OBVIOUS
<1> USE NoAlertType DEF CancelAlert, Ready, store, categoryView, itemView
<1>1. TypeOK'
  BY DEF Inv, TypeOK
<1>2. OnItsScreen' /\ AlertOnDisk'
  BY DEF Inv, OnItsScreen, AlertOnDisk
<1>3. TableShowsDisk' /\ NoTextNoFilter'
  BY DEF Inv, TableShowsDisk, NoTextNoFilter
<1> QED
  BY <1>1, <1>2, <1>3, ScreenStep

(* Asking for a title captures no row.                                     *)
LEMMA AddPressedInv == Inv /\ (CategoryAddPressed \/ ItemAddPressed) => Inv'
<1> SUFFICES ASSUME Inv, CategoryAddPressed \/ ItemAddPressed PROVE Inv'
  OBVIOUS
<1> USE NoAlertType DEF CategoryAddPressed, ItemAddPressed, ShowAlert, Tap, Ready,
        store, categoryView, itemView
<1>1. TypeOK'
  BY DEF Inv, TypeOK
<1>2. OnItsScreen' /\ AlertOnDisk'
  BY DEF Inv, OnItsScreen, AlertOnDisk
<1>3. TableShowsDisk' /\ NoTextNoFilter'
  BY DEF Inv, TableShowsDisk, NoTextNoFilter
<1> QED
  BY <1>1, <1>2, <1>3, ScreenStep

(* Both alerts that ask before a delete capture a row and its object.      *)
LEMMA SwipeInv ==
    ASSUME Inv, NEW r \in Nat, SwipeCategory(r) \/ SwipeItem(r)
    PROVE  Inv'
<1> USE DEF ShowAlert, Tap, Ready, store, categoryView, itemView
<1>1. CASE SwipeCategory(r)
  <2> DEFINE k == KeyAt(realm.categories, r)
  <2> USE <1>1 DEF SwipeCategory
  <2>1. realm = disk /\ DOMAIN categoryCells = disk.categories
    BY ReadyFacts
  <2>2. k \in disk.categories /\ Row(disk.categories, k) = r
    BY <2>1, StoresGood, CategoriesFinite, KeyAtRow
  <2>3. k \in CategoryDate
    BY <2>2, StoresGood DEF GoodStore, Store
  <2> HIDE DEF k
  <2>4. alert' = [kind |-> "deleteCategory", target |-> k, row |-> r]
    BY DEF k
  <2>5. TypeOK'
    BY <2>3, <2>4 DEF Inv, TypeOK, Alert
  <2>6. OnItsScreen' /\ AlertOnDisk'
    BY <2>2, <2>4 DEF Inv, OnItsScreen, AlertOnDisk
  <2>7. TableShowsDisk' /\ NoTextNoFilter'
    BY DEF Inv, TableShowsDisk, NoTextNoFilter
  <2> QED
    BY <2>5, <2>6, <2>7, ScreenStep
<1>2. CASE SwipeItem(r)
  <2> DEFINE live == LiveItems(realm, selected, filter)
             k == KeyAt(live, r)
  <2> USE <1>2 DEF SwipeItem
  <2>1. realm = disk /\ selected \in CategoryDate /\ DOMAIN itemCells = live
    BY ReadyFacts
  <2>2. live \in SUBSET Nat /\ live \subseteq ItemDate /\ IsFiniteSet(live)
    BY <2>1, StoresGood, LiveFinite
  <2>3. alert' = [kind |-> "deleteItem", target |-> k, row |-> r]
    OBVIOUS
  <2>4. r \in 1..Cardinality(live)
    BY <2>1
  <2> HIDE DEF live
  <2>5. k \in live /\ Row(live, k) = r
    BY <2>2, <2>4, KeyAtRow
  <2> HIDE DEF k
  <2>6. TypeOK'
    BY <2>2, <2>3, <2>5 DEF Inv, TypeOK, Alert
  <2>7. OnItsScreen' /\ AlertOnDisk'
    BY <2>1, <2>3, <2>5 DEF Inv, OnItsScreen, AlertOnDisk, live
  <2>8. TableShowsDisk' /\ NoTextNoFilter'
    BY DEF Inv, TableShowsDisk, NoTextNoFilter
  <2> QED
    BY <2>6, <2>7, <2>8, ScreenStep
<1> QED
  BY <1>1, <1>2

(* Reloading the items of an open category, with other terms perhaps.      *)
LEMMA ReloadItems ==
    ASSUME Inv, Tap("items"), alert' = alert,
           UNCHANGED <<disk, realm, handler, status, screen, categoryCells, selected>>,
           filter' \subseteq Term, text' \in Term \cup {Nil},
           text' = Nil => filter' = {},
           itemCells' = ItemCells(realm, selected, filter')
    PROVE  Inv'
<1> USE DEF Tap
<1>1. realm = disk /\ selected \in CategoryDate
  BY ReadyFacts
<1>2. /\ DOMAIN itemCells' = LiveItems(disk, selected, filter')
      /\ DOMAIN itemCells' \subseteq ItemDate
      /\ itemCells' \in [DOMAIN itemCells' -> BOOLEAN]
  BY <1>1, StoresGood, ItemCellsType
<1>3. TypeOK'
  BY <1>2 DEF Inv, TypeOK
<1>4. OnItsScreen' /\ AlertOnDisk'
  BY NoAlertType DEF Inv, OnItsScreen, AlertOnDisk
<1>5. TableShowsDisk' /\ NoTextNoFilter'
  BY <1>2 DEF Inv, TableShowsDisk, NoTextNoFilter
<1> QED
  BY <1>3, <1>4, <1>5, ScreenStep

(* A search, and emptying the search bar, load the items again.            *)
LEMMA SearchInv == Inv /\ (ClearText \/ SearchPressed) => Inv'
<1> SUFFICES ASSUME Inv, ClearText \/ SearchPressed PROVE Inv'
  OBVIOUS
<1> USE DEF store, categoryView
<1>1. CASE ClearText
  <2>1. ItemCells(realm, selected, {}) = ItemCells(realm, selected, filter')
    BY <1>1 DEF ClearText
  <2> QED
    BY <1>1, <2>1, ReloadItems DEF ClearText, Inv, TypeOK
<1>2. CASE SearchPressed
  <2>1. text \in Term /\ filter' \subseteq Term
    BY <1>2 DEF SearchPressed, Inv, TypeOK
  <2>2. text' = text /\ text # Nil
    BY <1>2 DEF SearchPressed
  <2> QED
    BY <1>2, <2>1, <2>2, ReloadItems DEF SearchPressed
<1> QED
  BY <1>1, <1>2

(* One cell is rendered again: the table keeps its rows.                   *)
LEMMA RedrawItemInv ==
    ASSUME Inv, NEW r \in Nat, RedrawItem(r)
    PROVE  Inv'
<1> USE DEF RedrawItem, Tap, store, categoryView
<1>1. itemCells' \in [DOMAIN itemCells -> BOOLEAN]
  <2> DEFINE cell == KeyAt(DOMAIN itemCells, r)
             b == KeyAt(LiveItems(realm, selected, filter), r) \in realm.done
  <2>1. itemCells \in [DOMAIN itemCells -> BOOLEAN] /\ b \in BOOLEAN
    BY DEF Inv, TypeOK
  <2>2. itemCells' = [itemCells EXCEPT ![cell] = b]
    OBVIOUS
  <2> HIDE DEF cell, b
  <2> QED
    BY <2>1, <2>2, MarkSet
<1>2. TypeOK'
  BY <1>1 DEF Inv, TypeOK
<1>3. OnItsScreen' /\ AlertOnDisk'
  BY DEF Inv, OnItsScreen, AlertOnDisk
<1>4. TableShowsDisk' /\ NoTextNoFilter'
  BY <1>1 DEF Inv, TableShowsDisk, NoTextNoFilter
<1> QED
  BY <1>2, <1>3, <1>4, ScreenStep

(* Typing changes the text only, and the text is then not empty.           *)
LEMMA TypeTextInv ==
    ASSUME Inv, NEW t \in Term, TypeText(t)
    PROVE  Inv'
<1> USE DEF TypeText, Tap, store, categoryView
<1>1. TypeOK'
  BY DEF Inv, TypeOK
<1>2. OnItsScreen' /\ AlertOnDisk'
  BY DEF Inv, OnItsScreen, AlertOnDisk
<1>3. TableShowsDisk' /\ NoTextNoFilter'
  BY MatchAssumption DEF Inv, TableShowsDisk, NoTextNoFilter
<1> QED
  BY <1>1, <1>2, <1>3, ScreenStep

(* Opening a category loads all its items.                                 *)
LEMMA SelectCategoryInv ==
    ASSUME Inv, NEW r \in Nat, SelectCategory(r)
    PROVE  Inv'
<1> USE DEF SelectCategory, Tap, Ready, store, categoryView
<1>1. realm = disk /\ DOMAIN categoryCells = disk.categories
  BY ReadyFacts
<1>2. selected' \in disk.categories
  BY <1>1, StoresGood, CategoriesFinite, KeyAtRow
<1>3. selected' \in CategoryDate
  BY <1>2, StoresGood DEF GoodStore, Store
<1>4. /\ DOMAIN itemCells' = LiveItems(disk, selected', {})
      /\ DOMAIN itemCells' \subseteq ItemDate
      /\ itemCells' \in [DOMAIN itemCells' -> BOOLEAN]
  <2>1. itemCells' = ItemCells(disk, selected', {})
    BY <1>1
  <2> QED
    BY <1>3, <2>1, StoresGood, ItemCellsType
<1>5. TypeOK'
  BY <1>3, <1>4 DEF Inv, TypeOK
<1>6. OnItsScreen' /\ AlertOnDisk'
  BY <1>2, NoAlertType DEF Inv, OnItsScreen, AlertOnDisk
<1>7. TableShowsDisk' /\ NoTextNoFilter'
  BY <1>4 DEF Inv, TableShowsDisk, NoTextNoFilter
<1> QED
  BY <1>5, <1>6, <1>7, ScreenStep

(* Going back, or nearly, loads the categories again.                      *)
LEMMA BackInv == Inv /\ (Back \/ CancelledBackSwipe) => Inv'
<1> SUFFICES ASSUME Inv, Back \/ CancelledBackSwipe PROVE Inv'
  OBVIOUS
<1> USE DEF Back, CancelledBackSwipe, Tap, Ready, store, itemView
<1>1. realm = disk
  BY ReadyFacts
<1>2. /\ categoryCells' = CategoryCells(disk)
      /\ DOMAIN categoryCells' \subseteq CategoryDate
      /\ categoryCells' \in [DOMAIN categoryCells' -> Nat]
  BY <1>1, StoresGood, CategoryCellsType
<1>3. TypeOK'
  BY <1>2, NoCellsType DEF Inv, TypeOK
<1>4. OnItsScreen' /\ AlertOnDisk'
  BY NoAlertType DEF Inv, OnItsScreen, AlertOnDisk
<1>5. TableShowsDisk' /\ NoTextNoFilter'
  BY <1>2 DEF Inv, TableShowsDisk, NoTextNoFilter
<1> QED
  BY <1>3, <1>4, <1>5, ScreenStep

(* An empty title saves nothing and reloads the table on screen.           *)
LEMMA ConfirmUntitledInv == Inv /\ (ConfirmUntitledCategory \/ ConfirmUntitledItem) => Inv'
<1> SUFFICES ASSUME Inv, ConfirmUntitledCategory \/ ConfirmUntitledItem PROVE Inv'
  OBVIOUS
<1> USE NoAlertType DEF Answer, Ready, store, categoryView, itemView
<1>1. realm = disk
  BY ReadyFacts DEF ConfirmUntitledCategory, ConfirmUntitledItem
<1>2. CASE ConfirmUntitledCategory
  <2> USE <1>2 DEF ConfirmUntitledCategory
  <2>1. /\ categoryCells' = CategoryCells(disk)
        /\ DOMAIN categoryCells' \subseteq CategoryDate
        /\ categoryCells' \in [DOMAIN categoryCells' -> Nat]
    BY <1>1, StoresGood, CategoryCellsType
  <2>2. TypeOK'
    BY <2>1 DEF Inv, TypeOK
  <2>3. OnItsScreen' /\ AlertOnDisk'
    BY DEF Inv, OnItsScreen, AlertOnDisk
  <2>4. TableShowsDisk' /\ NoTextNoFilter'
    BY <2>1 DEF Inv, TableShowsDisk, NoTextNoFilter
  <2> QED
    BY <2>2, <2>3, <2>4, ScreenStep
<1>3. CASE ConfirmUntitledItem
  <2> USE <1>3 DEF ConfirmUntitledItem
  <2>1. screen = "items" /\ selected \in CategoryDate
    BY ReadyFacts DEF Inv, OnItsScreen
  <2>2. /\ DOMAIN itemCells' = LiveItems(disk, selected, filter)
        /\ DOMAIN itemCells' \subseteq ItemDate
        /\ itemCells' \in [DOMAIN itemCells' -> BOOLEAN]
    BY <1>1, <2>1, StoresGood, ItemCellsType
  <2>3. TypeOK'
    BY <2>2 DEF Inv, TypeOK
  <2>4. OnItsScreen' /\ AlertOnDisk'
    BY DEF Inv, OnItsScreen, AlertOnDisk
  <2>5. TableShowsDisk' /\ NoTextNoFilter'
    BY <2>1, <2>2 DEF Inv, TableShowsDisk, NoTextNoFilter
  <2> QED
    BY <2>3, <2>4, <2>5, ScreenStep
<1> QED
  BY <1>2, <1>3

(* A launch reads the file, so nothing of the last process is left.        *)
LEMMA RelaunchInv == Inv /\ Relaunch => Inv'
<1> SUFFICES ASSUME Inv, Relaunch PROVE Inv'
  OBVIOUS
<1> USE NoAlertType DEF Relaunch
<1>1. /\ categoryCells' = CategoryCells(disk)
      /\ DOMAIN categoryCells' \subseteq CategoryDate
      /\ categoryCells' \in [DOMAIN categoryCells' -> Nat]
  BY StoresGood, CategoryCellsType
<1>2. TypeOK'
  BY <1>1, NoCellsType DEF Inv, TypeOK
<1>3. StoreSound' /\ WriteIsOneEdit'
  BY DEF Inv, StoreSound, WriteIsOneEdit
<1>4. OnItsScreen' /\ AlertOnDisk' /\ TableShowsDisk' /\ NoTextNoFilter'
  BY <1>1 DEF OnItsScreen, AlertOnDisk, TableShowsDisk, NoTextNoFilter
<1> QED
  BY <1>2, <1>3, <1>4 DEF Inv

-----------------------------------------------------------------------------
(* Writes.  The body of a write block changes the Realm only; the file and *)
(* the rows of the tables stay.                                            *)

(* What the body of every write block preserves.                           *)
LEMMA WriteStep ==
    ASSUME Inv, Ready, NEW name, NEW s, Write(name, s), GoodStore(s),
           name \in {"addCategory", "deleteCategory", "addItem", "deleteItem", "toggleItem"},
           DOMAIN itemCells' = DOMAIN itemCells,
           itemCells' \in [DOMAIN itemCells -> BOOLEAN]
    PROVE  /\ TypeOK' /\ StoreSound' /\ TableShowsDisk' /\ AlertOnDisk' /\ NoTextNoFilter'
           /\ realm = disk
<1> USE DEF Write, Ready, categoryView
<1>1. TypeOK'
  BY DEF Inv, TypeOK, GoodStore
<1>2. StoreSound'
  BY DEF Inv, StoreSound, GoodStore
<1>3. TableShowsDisk' /\ NoTextNoFilter'
  BY DEF Inv, TableShowsDisk, NoTextNoFilter
<1>4. AlertOnDisk'
  BY DEF Inv, AlertOnDisk
<1>5. realm = disk
  BY ReadyFacts
<1> QED
  BY <1>1, <1>2, <1>3, <1>4, <1>5

(* The body of the write that adds a category.                             *)
LEMMA ConfirmAddCategoryInv ==
    ASSUME Inv, NEW c \in CategoryDate, ConfirmAddCategory(c)
    PROVE  Inv'
<1> USE DEF ConfirmAddCategory, Answer
<1>1. GoodStore(CategoryAdded(realm, c))
  BY StoresGood, CategoryAddedGood
<1>2. DOMAIN itemCells' = DOMAIN itemCells /\ itemCells' \in [DOMAIN itemCells -> BOOLEAN]
  BY DEF Inv, TypeOK
<1>3. /\ TypeOK' /\ StoreSound' /\ TableShowsDisk' /\ AlertOnDisk' /\ NoTextNoFilter'
      /\ realm = disk
  BY <1>1, <1>2, WriteStep
<1>4. WriteIsOneEdit' /\ OnItsScreen'
  BY <1>3 DEF Write, Ready, Inv, WriteIsOneEdit, OnItsScreen
<1> QED
  BY <1>3, <1>4 DEF Inv

(* The body of the write that deletes a category with its items.           *)
LEMMA ConfirmDeleteCategoryInv == Inv /\ ConfirmDeleteCategory => Inv'
<1> SUFFICES ASSUME Inv, ConfirmDeleteCategory PROVE Inv'
  OBVIOUS
<1> USE DEF ConfirmDeleteCategory, Answer
<1>0. alert.target \in realm.categories
  BY ReadyFacts DEF Inv, AlertOnDisk
<1>1. GoodStore(CategoryDeleted(realm, alert.target))
  BY <1>0, StoresGood, CategoryDeletedGood
<1>2. DOMAIN itemCells' = DOMAIN itemCells /\ itemCells' \in [DOMAIN itemCells -> BOOLEAN]
  BY DEF Inv, TypeOK
<1>3. /\ TypeOK' /\ StoreSound' /\ TableShowsDisk' /\ AlertOnDisk' /\ NoTextNoFilter'
      /\ realm = disk
  BY <1>1, <1>2, WriteStep
<1>4. WriteIsOneEdit' /\ OnItsScreen'
  BY <1>3 DEF Write, Ready, Inv, WriteIsOneEdit, OnItsScreen
<1> QED
  BY <1>3, <1>4 DEF Inv

(* The body of the write that adds an item to the open category.           *)
LEMMA ConfirmAddItemInv ==
    ASSUME Inv, NEW i \in ItemDate, NEW title \in Title, ConfirmAddItem(i, title)
    PROVE  Inv'
<1> USE DEF ConfirmAddItem, Answer
<1>0. selected \in realm.categories
  BY ReadyFacts DEF Inv, OnItsScreen
<1>1. GoodStore(ItemAppended(realm, selected, i, title))
  BY <1>0, StoresGood, ItemAppendedGood
<1>2. DOMAIN itemCells' = DOMAIN itemCells /\ itemCells' \in [DOMAIN itemCells -> BOOLEAN]
  BY DEF Inv, TypeOK
<1>3. /\ TypeOK' /\ StoreSound' /\ TableShowsDisk' /\ AlertOnDisk' /\ NoTextNoFilter'
      /\ realm = disk
  BY <1>1, <1>2, WriteStep
<1>4. WriteIsOneEdit' /\ OnItsScreen'
  BY <1>3 DEF Write, Ready, Inv, WriteIsOneEdit, OnItsScreen
<1> QED
  BY <1>3, <1>4 DEF Inv

(* The body of the write that deletes one item.                            *)
LEMMA ConfirmDeleteItemInv == Inv /\ ConfirmDeleteItem => Inv'
<1> SUFFICES ASSUME Inv, ConfirmDeleteItem PROVE Inv'
  OBVIOUS
<1> USE DEF ConfirmDeleteItem, Answer
<1>1. GoodStore(ItemsDeleted(realm, {alert.target}))
  BY StoresGood, ItemsDeletedGood
<1>2. DOMAIN itemCells' = DOMAIN itemCells /\ itemCells' \in [DOMAIN itemCells -> BOOLEAN]
  BY DEF Inv, TypeOK
<1>3. /\ TypeOK' /\ StoreSound' /\ TableShowsDisk' /\ AlertOnDisk' /\ NoTextNoFilter'
      /\ realm = disk
  BY <1>1, <1>2, WriteStep
<1>4. WriteIsOneEdit' /\ OnItsScreen'
  BY <1>3 DEF Write, Ready, Inv, WriteIsOneEdit, OnItsScreen
<1> QED
  BY <1>3, <1>4 DEF Inv

(* The body of the write that toggles an item, and the mark it sets.       *)
LEMMA SelectItemInv ==
    ASSUME Inv, NEW r \in Nat, SelectItem(r)
    PROVE  Inv'
<1> DEFINE live == LiveItems(realm, selected, filter)
           i == KeyAt(live, r)
           cell == KeyAt(DOMAIN itemCells, r)
           toggled == DoneToggled(realm, i)
           b == i \in toggled.done
<1>1. /\ Tap("items")
      /\ r \in 1..Cardinality(DOMAIN itemCells)
      /\ Write("toggleItem", toggled)
      /\ itemCells' = [itemCells EXCEPT ![cell] = b]
  BY DEF SelectItem
<1>2. Ready /\ alert = NoAlert /\ screen = "items"
  BY <1>1 DEF Tap
<1>3. selected \in CategoryDate /\ selected \in realm.categories /\ DOMAIN itemCells = live
  BY <1>2, ReadyFacts
<1>4. i \in live /\ live \subseteq realm.list[selected] /\ live \subseteq realm.items
  <2>1. /\ live \in SUBSET Nat /\ IsFiniteSet(live)
        /\ live \subseteq realm.list[selected] /\ live \subseteq realm.items
    BY <1>3, StoresGood, LiveFinite
  <2>2. r \in 1..Cardinality(live)
    BY <1>1, <1>3
  <2> HIDE DEF live
  <2> QED
    BY <2>1, <2>2, KeyAtRow
<1> HIDE DEF live, i, cell
<1>5. GoodStore(toggled)
  BY <1>4, StoresGood, DoneToggledGood
<1>6. b \in BOOLEAN
  OBVIOUS
<1> HIDE DEF b
<1>7. itemCells' \in [DOMAIN itemCells -> BOOLEAN]
  <2>1. itemCells \in [DOMAIN itemCells -> BOOLEAN]
    BY DEF Inv, TypeOK
  <2> QED
    BY <1>1, <1>6, <2>1, MarkSet
<1>8. DOMAIN itemCells' = DOMAIN itemCells
  BY <1>7
<1> HIDE DEF toggled
<1>9. /\ TypeOK' /\ StoreSound' /\ TableShowsDisk' /\ AlertOnDisk' /\ NoTextNoFilter'
      /\ realm = disk
  BY <1>1, <1>2, <1>5, <1>7, <1>8, WriteStep
<1>10. /\ handler' = "toggleItem" /\ realm' = toggled
       /\ UNCHANGED <<disk, status, screen, selected, alert>>
  BY <1>1 DEF Write
<1>11. WriteIsOneEdit'
  BY <1>4, <1>9, <1>10 DEF WriteIsOneEdit, toggled
<1>12. OnItsScreen'
  BY <1>2, <1>10, NoAlertType DEF Inv, OnItsScreen, Ready
<1> QED
  BY <1>9, <1>11, <1>12 DEF Inv

-----------------------------------------------------------------------------
(* The two ends of a write.  With s the store it leaves behind, a delete   *)
(* takes exactly the row of its object out of the table, or raises.        *)

(* Deleted items leave the live results, and nothing else does.            *)
LEMMA LiveAfterDelete ==
    ASSUME NEW s, GoodStore(s), NEW c \in CategoryDate, NEW f,
           NEW D, NEW t, t = ItemsDeleted(s, D)
    PROVE  LiveItems(t, c, f) = LiveItems(s, c, f) \ D
<1>1. /\ t.list = [d \in CategoryDate |-> s.list[d] \ D]
      /\ t.title = [i \in ItemDate |-> IF i \in D THEN Nil ELSE s.title[i]]
  BY ItemsDeletedFields DEF GoodStore
<1>2. t.list[c] = s.list[c] \ D
  BY <1>1
<1>3. \A i \in s.list[c] \ D : t.title[i] = s.title[i]
  BY <1>1, ListFinite
<1> QED
  BY <1>2, <1>3 DEF LiveItems

(* The counts of the other categories do not change.                       *)
LEMMA CellsAfterDelete ==
    ASSUME NEW s, GoodStore(s), NEW c \in s.categories,
           NEW cells, cells = CategoryCells(s), NEW r, r = Row(s.categories, c),
           NEW t, t = CategoryDeleted(s, c)
    PROVE  CategoryCells(t) = WithoutRow(cells, r)
<1>0. c \in CategoryDate /\ s \in Store /\ s.categories \subseteq CategoryDate
  BY DEF GoodStore, Store
<1>1. /\ t \in Store
      /\ t.categories = s.categories \ {c}
      /\ t.items = s.items \ s.list[c]
      /\ t.list = [d \in CategoryDate |-> IF d = c THEN {} ELSE s.list[d] \ s.list[c]]
      /\ t.title = [i \in ItemDate |-> IF i \in s.list[c] THEN Nil ELSE s.title[i]]
      /\ t.done = s.done \ s.list[c]
  BY <1>0, CategoryDeletedFields
<1>2. \A d \in s.categories \ {c} : t.list[d] = s.list[d]
  <2> SUFFICES ASSUME NEW d \in s.categories \ {c}
               PROVE  t.list[d] = s.list[d]
    OBVIOUS
  <2>1. d \in CategoryDate /\ d # c
    BY <1>0
  <2>2. s.list[d] \cap s.list[c] = {}
    BY <1>0, <2>1 DEF GoodStore, SoundStore, OneOwner
  <2>3. t.list[d] = s.list[d] \ s.list[c]
    BY <1>1, <2>1
  <2> QED
    BY <2>2, <2>3
<1>3. DOMAIN cells = s.categories /\ KeyAt(s.categories, r) = c
  BY CategoryCellsType, CategoriesFinite, RowOfKey
<1>4. CategoryCells(t) = [d \in s.categories \ {c} |-> Cardinality(s.list[d])]
  BY <1>1, <1>2 DEF CategoryCells
<1>5. WithoutRow(cells, r) = [d \in s.categories \ {c} |-> Cardinality(s.list[d])]
  BY <1>3 DEF WithoutRow, CategoryCells
<1> QED
  BY <1>4, <1>5

(* deleteRows agrees with a delete that was committed ...                  *)
LEMMA CommittedDeleteAgrees ==
    ASSUME Inv
    PROVE  /\ handler = "deleteCategory" =>
                /\ DeleteRowsAgrees(categoryCells, realm.categories)
                /\ WithoutRow(categoryCells, alert.row) = CategoryCells(realm)
           /\ handler = "deleteItem" =>
                /\ DeleteRowsAgrees(itemCells, LiveItems(realm, selected, filter))
                /\ DOMAIN WithoutRow(itemCells, alert.row) = LiveItems(realm, selected, filter)
<1>1. ASSUME handler = "deleteCategory"
      PROVE  /\ DeleteRowsAgrees(categoryCells, realm.categories)
             /\ WithoutRow(categoryCells, alert.row) = CategoryCells(realm)
  <2> DEFINE k == alert.target
  <2>1. /\ realm = CategoryDeleted(disk, k)
        /\ k \in disk.categories /\ Row(disk.categories, k) = alert.row
        /\ categoryCells = CategoryCells(disk)
    BY <1>1 DEF Inv, WriteIsOneEdit, OnItsScreen, AlertOnDisk, TableShowsDisk, TypeOK
  <2> HIDE DEF k
  <2>2. realm.categories = disk.categories \ {k}
    <3>1. disk \in Store /\ k \in CategoryDate
      BY <2>1, StoresGood DEF GoodStore, Store
    <3>2. /\ realm \in Store
          /\ realm.categories = disk.categories \ {k}
          /\ realm.items = disk.items \ disk.list[k]
          /\ realm.list = [d \in CategoryDate |-> IF d = k THEN {} ELSE disk.list[d] \ disk.list[k]]
          /\ realm.title = [i \in ItemDate |-> IF i \in disk.list[k] THEN Nil ELSE disk.title[i]]
          /\ realm.done = disk.done \ disk.list[k]
      BY <2>1, <3>1, CategoryDeletedFields
    <3> QED
      BY <3>2
  <2>3. DOMAIN categoryCells = disk.categories /\ IsFiniteSet(disk.categories)
    BY <2>1, StoresGood, CategoryCellsType DEF GoodStore
  <2>4. DeleteRowsAgrees(categoryCells, realm.categories)
    BY <2>1, <2>2, <2>3, FS_RemoveElement DEF DeleteRowsAgrees
  <2>5. WithoutRow(categoryCells, alert.row) = CategoryCells(realm)
    BY <2>1, StoresGood, CellsAfterDelete
  <2> QED
    BY <2>4, <2>5
<1>2. ASSUME handler = "deleteItem"
      PROVE  /\ DeleteRowsAgrees(itemCells, LiveItems(realm, selected, filter))
             /\ DOMAIN WithoutRow(itemCells, alert.row) = LiveItems(realm, selected, filter)
  <2> DEFINE k == alert.target
             live == LiveItems(disk, selected, filter)
  <2>1. /\ realm = ItemsDeleted(disk, {k})
        /\ k \in live /\ Row(live, k) = alert.row
        /\ DOMAIN itemCells = live
        /\ selected \in disk.categories
    BY <1>2 DEF Inv, WriteIsOneEdit, OnItsScreen, AlertOnDisk, TableShowsDisk, TypeOK
  <2>2. selected \in CategoryDate
    BY <2>1, StoresGood DEF GoodStore, Store
  <2>3. live \in SUBSET Nat /\ IsFiniteSet(live)
    BY <2>2, StoresGood, LiveFinite
  <2> HIDE DEF k
  <2>4. LiveItems(realm, selected, filter) = live \ {k}
    <3> DEFINE D == {k}
    <3>1. GoodStore(disk) /\ realm = ItemsDeleted(disk, D)
      BY <2>1, StoresGood
    <3> HIDE DEF D
    <3>2. LiveItems(realm, selected, filter) = LiveItems(disk, selected, filter) \ D
      BY <2>2, <3>1, LiveAfterDelete
    <3> QED
      BY <3>2 DEF D
  <2> HIDE DEF live
  <2>5. Cardinality(live \ {k}) = Cardinality(live) - 1
    BY <2>1, <2>3, FS_RemoveElement
  <2>6. DeleteRowsAgrees(itemCells, LiveItems(realm, selected, filter))
    BY <2>1, <2>4, <2>5 DEF DeleteRowsAgrees
  <2>7. KeyAt(live, alert.row) = k
    BY <2>1, <2>3, RowOfKey
  <2>8. DOMAIN WithoutRow(itemCells, alert.row) = live \ {k}
    BY <2>1, <2>7 DEF WithoutRow
  <2> QED
    BY <2>4, <2>6, <2>8
<1> QED
  BY <1>1, <1>2

(* ... and never with one that failed: the table still has the row.        *)
LEMMA FailedDeleteDisagrees ==
    ASSUME Inv
    PROVE  /\ handler = "deleteCategory" => ~DeleteRowsAgrees(categoryCells, disk.categories)
           /\ handler = "deleteItem" =>
                ~DeleteRowsAgrees(itemCells, LiveItems(disk, selected, filter))
<1>1. ASSUME handler = "deleteCategory"
      PROVE  ~DeleteRowsAgrees(categoryCells, disk.categories)
  <2>1. categoryCells = CategoryCells(disk)
    BY <1>1 DEF Inv, OnItsScreen, TableShowsDisk, TypeOK
  <2>2. DOMAIN categoryCells = disk.categories
    BY <2>1, StoresGood, CategoryCellsType
  <2>3. Cardinality(disk.categories) \in Nat
    BY StoresGood, CategoriesFinite, FS_CardinalityType
  <2> QED
    BY <2>2, <2>3 DEF DeleteRowsAgrees
<1>2. ASSUME handler = "deleteItem"
      PROVE  ~DeleteRowsAgrees(itemCells, LiveItems(disk, selected, filter))
  <2>1. DOMAIN itemCells = LiveItems(disk, selected, filter) /\ selected \in disk.categories
    BY <1>2 DEF Inv, OnItsScreen, TableShowsDisk, TypeOK
  <2>2. selected \in CategoryDate
    BY <2>1, StoresGood DEF GoodStore, Store
  <2>3. Cardinality(LiveItems(disk, selected, filter)) \in Nat
    BY <2>2, StoresGood, LiveFinite, FS_CardinalityType
  <2> QED
    BY <2>1, <2>3 DEF DeleteRowsAgrees
<1> QED
  BY <1>1, <1>2

(* One edit leaves the open category open; only a deleted category is gone.*)
LEMMA WriteKeepsSelected ==
    ASSUME Inv, screen = "items", handler # "none"
    PROVE  selected \in realm.categories
<1>1. disk \in Store /\ selected \in disk.categories
  BY StoresGood DEF Inv, OnItsScreen, GoodStore
<1>2. selected \in CategoryDate
  BY <1>1 DEF Store
<1>3. handler \in {"addItem", "deleteItem", "toggleItem"}
  BY DEF Inv, OnItsScreen, TypeOK
<1>4. realm.categories = disk.categories
  <2>1. CASE handler = "addItem"
    BY <1>1, <2>1 DEF Inv, WriteIsOneEdit, ItemAppended, Store
  <2>2. CASE handler = "deleteItem"
    BY <1>1, <2>2 DEF Inv, WriteIsOneEdit, ItemsDeleted, Store
  <2>3. CASE handler = "toggleItem"
    BY <1>1, <2>3 DEF Inv, WriteIsOneEdit, DoneToggled, Store
  <2> QED
    BY <1>3, <2>1, <2>2, <2>3
<1> QED
  BY <1>1, <1>4

(* A toggle neither hides a row nor shows one.                             *)
LEMMA ToggleKeepsLive ==
    ASSUME Inv, handler = "toggleItem"
    PROVE  LiveItems(realm, selected, filter) = LiveItems(disk, selected, filter)
<1>1. PICK i \in disk.list[selected] : realm = DoneToggled(disk, i)
  BY DEF Inv, WriteIsOneEdit
<1>2. disk \in Store
  BY StoresGood DEF GoodStore
<1>3. realm.list = disk.list /\ realm.title = disk.title
  BY <1>1, <1>2 DEF DoneToggled, Store
<1> QED
  BY <1>3 DEF LiveItems

(* What the end of a handler establishes, s being either store.            *)
LEMMA EndOfHandlerInv ==
    ASSUME Inv, handler # "none", NEW s, s \in {disk, realm},
           EndOfHandler(s), disk' = s, realm' = s
    PROVE  Inv'
<1>1. GoodStore(s)
  BY StoresGood
<1>2. /\ handler' = "none" /\ alert' = NoAlert
      /\ UNCHANGED <<screen, selected, filter, text>>
  BY DEF EndOfHandler
<1>3. screen = "items" => selected \in CategoryDate /\ selected \in s.categories
  BY <1>1, WriteKeepsSelected DEF Inv, OnItsScreen, GoodStore, Store
<1>4. StoreSound' /\ WriteIsOneEdit' /\ AlertOnDisk' /\ NoTextNoFilter'
  BY <1>1, <1>2, NoAlertType
     DEF Inv, GoodStore, StoreSound, WriteIsOneEdit, AlertOnDisk, NoTextNoFilter
<1>5. OnItsScreen'
  BY <1>2, <1>3, NoAlertType DEF Inv, OnItsScreen
<1>6. ASSUME status' \in {"running", "crashed"},
             DOMAIN categoryCells' \subseteq CategoryDate,
             categoryCells' \in [DOMAIN categoryCells' -> Nat],
             DOMAIN itemCells' \subseteq ItemDate,
             itemCells' \in [DOMAIN itemCells' -> BOOLEAN]
      PROVE  TypeOK'
  BY <1>1, <1>2, <1>6, NoAlertType DEF Inv, TypeOK, GoodStore
<1>7. CASE ReloadAfterAdd(s)
  <2>1. CASE handler = "addCategory"
    <3>1. screen = "categories"
      BY <2>1 DEF Inv, OnItsScreen, TypeOK
    <3>2. categoryCells' = CategoryCells(s) /\ itemCells' = itemCells /\ status' = status
      BY <1>7, <2>1 DEF ReloadAfterAdd
    <3>3. TypeOK'
      BY <1>1, <1>6, <3>2, CategoryCellsType DEF Inv, TypeOK
    <3>4. TableShowsDisk'
      BY <1>2, <3>1, <3>2 DEF TableShowsDisk
    <3> QED
      BY <1>4, <1>5, <3>3, <3>4 DEF Inv
  <2>2. CASE handler = "addItem"
    <3>1. screen = "items"
      BY <2>2 DEF Inv, OnItsScreen, TypeOK
    <3>2. /\ itemCells' = ItemCells(s, selected, filter)
          /\ categoryCells' = categoryCells /\ status' = status
      BY <1>7, <2>2 DEF ReloadAfterAdd
    <3>3. /\ DOMAIN itemCells' = LiveItems(s, selected, filter)
          /\ DOMAIN itemCells' \subseteq ItemDate
          /\ itemCells' \in [DOMAIN itemCells' -> BOOLEAN]
      BY <1>1, <1>3, <3>1, <3>2, ItemCellsType
    <3>4. TypeOK'
      BY <1>6, <3>2, <3>3 DEF Inv, TypeOK
    <3>5. TableShowsDisk'
      BY <1>2, <3>1, <3>3 DEF TableShowsDisk
    <3> QED
      BY <1>4, <1>5, <3>4, <3>5 DEF Inv
  <2> QED
    BY <1>7, <2>1, <2>2 DEF ReloadAfterAdd
<1>8. CASE NothingAfterToggle
  <2>1. /\ handler = "toggleItem"
        /\ UNCHANGED <<status, categoryCells, itemCells>>
    BY <1>8 DEF NothingAfterToggle
  <2>2. screen = "items" /\ LiveItems(s, selected, filter) = LiveItems(disk, selected, filter)
    BY <2>1, ToggleKeepsLive DEF Inv, OnItsScreen
  <2>3. TypeOK'
    BY <1>6, <2>1 DEF Inv, TypeOK
  <2>4. TableShowsDisk'
    BY <1>2, <2>1, <2>2 DEF Inv, TableShowsDisk
  <2> QED
    BY <1>4, <1>5, <2>3, <2>4 DEF Inv
<1>9. CASE DeleteCategoryRow(s)
  <2>1. /\ handler = "deleteCategory"
        /\ DeleteRowsAgrees(categoryCells, s.categories)
        /\ categoryCells' = WithoutRow(categoryCells, alert.row)
        /\ UNCHANGED <<status, itemCells>>
    BY <1>9 DEF DeleteCategoryRow
  <2>2. s = realm
    BY <2>1, FailedDeleteDisagrees
  <2>3. categoryCells' = CategoryCells(s)
    BY <2>1, <2>2, CommittedDeleteAgrees
  <2>4. TypeOK'
    BY <1>1, <1>6, <2>1, <2>3, CategoryCellsType DEF Inv, TypeOK
  <2>5. screen = "categories"
    BY <2>1 DEF Inv, OnItsScreen, TypeOK
  <2>6. TableShowsDisk'
    BY <1>2, <2>3, <2>5 DEF TableShowsDisk
  <2> QED
    BY <1>4, <1>5, <2>4, <2>6 DEF Inv
<1>10. CASE DeleteItemRow(s)
  <2>1. /\ handler = "deleteItem"
        /\ DeleteRowsAgrees(itemCells, LiveItems(s, selected, filter))
        /\ itemCells' = WithoutRow(itemCells, alert.row)
        /\ UNCHANGED <<status, categoryCells>>
    BY <1>10 DEF DeleteItemRow
  <2>2. s = realm
    BY <2>1, FailedDeleteDisagrees
  <2>3. DOMAIN itemCells' = LiveItems(s, selected, filter)
    BY <2>1, <2>2, CommittedDeleteAgrees
  <2>4. /\ DOMAIN itemCells' \subseteq ItemDate
        /\ itemCells' \in [DOMAIN itemCells' -> BOOLEAN]
    BY <2>1 DEF WithoutRow, Inv, TypeOK
  <2>5. TypeOK'
    BY <1>6, <2>1, <2>4 DEF Inv, TypeOK
  <2>6. screen = "items"
    BY <2>1 DEF Inv, OnItsScreen, TypeOK
  <2>7. TableShowsDisk'
    BY <1>2, <2>3, <2>6 DEF TableShowsDisk
  <2> QED
    BY <1>4, <1>5, <2>5, <2>7 DEF Inv
<1>11. CASE DeleteRowsRaises(s)
  <2>1. status' = "crashed" /\ UNCHANGED <<categoryCells, itemCells>>
    BY <1>11 DEF DeleteRowsRaises
  <2>2. TypeOK'
    BY <1>6, <2>1 DEF Inv, TypeOK
  <2>3. TableShowsDisk'
    BY <2>1 DEF TableShowsDisk
  <2> QED
    BY <1>4, <1>5, <2>2, <2>3 DEF Inv
<1> QED
  BY <1>7, <1>8, <1>9, <1>10, <1>11 DEF EndOfHandler

(* Both ends of a write preserve the invariant.                            *)
LEMMA CommitInv == Inv /\ (Commit \/ CommitFails) => Inv'
<1>1. Inv /\ Commit => Inv'
  BY EndOfHandlerInv DEF Commit
<1>2. Inv /\ CommitFails => Inv'
  BY EndOfHandlerInv DEF CommitFails
<1> QED
  BY <1>1, <1>2

-----------------------------------------------------------------------------
(* The invariant is about the variables of the specification only.         *)
LEMMA StutterInv == Inv /\ UNCHANGED vars => Inv'
BY DEF Inv, vars, store, categoryView, itemView, TypeOK, StoreSound, WriteIsOneEdit, OnItsScreen,
       TableShowsDisk, AlertOnDisk, NoTextNoFilter

(* Every action preserves the inductive invariant.                         *)
LEMMA NextInv == Inv /\ Next => Inv'
<1> SUFFICES ASSUME Inv, Next PROVE Inv'
  OBVIOUS
<1>1. \A S : \A r \in 1..Cardinality(S) : r \in Nat
  OBVIOUS
<1>2. CASE CategoryScreen
  BY <1>1, <1>2, AddPressedInv, ConfirmUntitledInv, ConfirmAddCategoryInv, SwipeInv,
     SelectCategoryInv, ConfirmDeleteCategoryInv DEF CategoryScreen
<1>3. CASE ItemScreen
  BY <1>1, <1>3, AddPressedInv, ConfirmUntitledInv, ConfirmAddItemInv, SelectItemInv, SwipeInv,
     RedrawItemInv, ConfirmDeleteItemInv, TypeTextInv, SearchInv, BackInv DEF ItemScreen
<1>4. CASE CancelAlert
  BY <1>4, CancelAlertInv
<1>5. CASE Commit \/ CommitFails
  BY <1>5, CommitInv
<1>6. CASE Relaunch
  BY <1>6, RelaunchInv
<1> QED
  BY <1>2, <1>3, <1>4, <1>5, <1>6 DEF Next

(* The inductive invariant holds in every reachable state.                 *)
THEOREM Invariance == Spec => []Inv
<1>1. Inv /\ [Next]_vars => Inv'
  BY NextInv, StutterInv
<1> QED
  BY InitInv, <1>1, PTL DEF Spec

-----------------------------------------------------------------------------
(* The invariants of the runs.                                             *)

(* Every variable of Todoey keeps its type.                                *)
THEOREM TypeCorrectness == Spec => []TypeOK
BY Invariance, PTL DEF Inv

(* No kill, failed commit or sequence of taps leaves an orphan item, an    *)
(* item in two categories or a dangling link in the file or in the Realm.  *)
THEOREM StoreStaysSound == Spec => []StoreSound
BY Invariance, PTL DEF Inv

(* What can be tapped is what the Realm holds: each row of either table is *)
(* the row of the live results that its index path denotes.                *)
THEOREM TablesAreLive == Spec => [](CategoriesShown /\ ItemsShown)
<1>1. Inv => CategoriesShown /\ ItemsShown
  <2> SUFFICES ASSUME Inv PROVE CategoriesShown /\ ItemsShown
    OBVIOUS
  <2>1. ASSUME Ready PROVE realm = disk
    BY <2>1, ReadyFacts
  <2> QED
    BY <2>1 DEF CategoriesShown, ItemsShown, Inv, TableShowsDisk, Ready
<1> QED
  BY <1>1, Invariance, PTL

(* The object a delete alert captured is the object of the row it will     *)
(* take away.                                                              *)
THEOREM AlertKeepsItsRow == Spec => []AlertNamesRow
<1>1. Inv => AlertNamesRow
  <2> SUFFICES ASSUME Inv, Ready
               PROVE  /\ alert.kind = "deleteCategory" =>
                           /\ alert.target \in realm.categories \cap DOMAIN categoryCells
                           /\ Row(DOMAIN categoryCells, alert.target) = alert.row
                      /\ alert.kind = "deleteItem" =>
                           /\ alert.target \in LiveItems(realm, selected, filter) \cap DOMAIN itemCells
                           /\ Row(DOMAIN itemCells, alert.target) = alert.row
    BY DEF AlertNamesRow
  <2>1. /\ realm = disk
        /\ screen = "categories" => DOMAIN categoryCells = realm.categories
        /\ screen = "items" => DOMAIN itemCells = LiveItems(realm, selected, filter)
    BY ReadyFacts
  <2>2. /\ alert.kind = "deleteCategory" => screen = "categories"
        /\ alert.kind = "deleteItem" => screen = "items"
    BY DEF Inv, OnItsScreen
  <2> QED
    BY <2>1, <2>2 DEF Inv, AlertOnDisk
<1> QED
  BY <1>1, Invariance, PTL

(* With an empty search bar every item of the open category is on screen.  *)
THEOREM NothingHiddenByOldSearch == Spec => []ClearedSearchShowsAll
<1>1. Inv => ClearedSearchShowsAll
  <2> SUFFICES ASSUME Inv, Ready, screen = "items", text = Nil
               PROVE  DOMAIN itemCells = realm.list[selected]
    BY DEF ClearedSearchShowsAll
  <2>1. DOMAIN itemCells = LiveItems(realm, selected, filter) /\ filter = {}
    BY ReadyFacts DEF Inv, NoTextNoFilter
  <2> QED
    BY <2>1, LiveUnfiltered
<1> QED
  BY <1>1, Invariance, PTL

(* The three together: no screen, alert or search bar says what is not so. *)
THEOREM ScreensStaySound == Spec => []ScreensSound
BY TablesAreLive, AlertKeepsItsRow, NothingHiddenByOldSearch, PTL DEF ScreensSound

-----------------------------------------------------------------------------
(* Action properties.                                                      *)

(* The file and the status change in three actions only.                   *)
LEMMA DiskChanges ==
    ASSUME Inv, [Next]_vars
    PROVE  \/ UNCHANGED <<disk, status>>
           \/ Commit
           \/ CommitFails
           \/ disk' = disk /\ status' = "running"
BY DEF Next, vars, CategoryScreen, ItemScreen, Relaunch, CancelAlert,
   CategoryAddPressed, ItemAddPressed, ShowAlert, ConfirmUntitledCategory, ConfirmUntitledItem,
   ConfirmAddCategory, ConfirmAddItem, SwipeCategory, SwipeItem, SelectCategory, SelectItem,
   ConfirmDeleteCategory, ConfirmDeleteItem, RedrawItem, TypeText, ClearText, SearchPressed,
   Back, CancelledBackSwipe, Write, store, categoryView, itemView

(* UIKit raises only after a delete whose commit failed.                   *)
THEOREM OnlyFailedDeletesCrash == Spec => CrashOnlyAfterFailedDelete
<1>1. Inv /\ [Next]_vars =>
        (status = "running" /\ status' = "crashed" =>
           handler \in {"deleteCategory", "deleteItem"} /\ disk' = disk)
  <2> SUFFICES ASSUME Inv, [Next]_vars, status = "running", status' = "crashed"
               PROVE  handler \in {"deleteCategory", "deleteItem"} /\ disk' = disk
    OBVIOUS
  <2>1. \A s : EndOfHandler(s) => DeleteRowsRaises(s)
    BY DEF EndOfHandler, ReloadAfterAdd, NothingAfterToggle, DeleteCategoryRow, DeleteItemRow
  <2>2. ASSUME Commit PROVE FALSE
    BY <2>1, <2>2, CommittedDeleteAgrees DEF Commit, DeleteRowsRaises
  <2>3. CASE CommitFails
    BY <2>1, <2>3 DEF CommitFails, DeleteRowsRaises
  <2> QED
    BY <2>2, <2>3, DiskChanges
<1>2. Inv /\ [Next]_vars =>
        [status = "running" /\ status' = "crashed" =>
           handler \in {"deleteCategory", "deleteItem"} /\ disk' = disk]_vars
  BY <1>1
<1> QED
  BY <1>2, Invariance, PTL DEF Spec, CrashOnlyAfterFailedDelete

(* An item leaves the file only when the user confirmed a delete of it or  *)
(* of its category.                                                        *)
THEOREM OnlyTheNamedIsDeleted == Spec => DeletesOnlyTheNamed
<1> DEFINE Named ==
      \A i \in disk.items \ disk'.items :
         \/ alert.kind = "deleteItem" /\ alert.target = i
         \/ alert.kind = "deleteCategory" /\ i \in disk.list[alert.target]
<1>1. Inv /\ [Next]_vars => Named
  <2> SUFFICES ASSUME Inv, [Next]_vars, NEW i \in disk.items \ disk'.items
               PROVE  \/ alert.kind = "deleteItem" /\ alert.target = i
                      \/ alert.kind = "deleteCategory" /\ i \in disk.list[alert.target]
    OBVIOUS
  <2>1. Commit /\ disk' = realm /\ i \in disk.items \ realm.items /\ handler # "none"
    BY DiskChanges DEF Commit, CommitFails
  <2>2. disk \in Store
    BY StoresGood DEF GoodStore
  <2>3. handler \in {"addCategory", "deleteCategory", "addItem", "deleteItem", "toggleItem"}
    BY <2>1 DEF Inv, TypeOK
  <2>4. CASE handler = "addCategory"
    BY <2>1, <2>2, <2>4 DEF Inv, WriteIsOneEdit, CategoryAdded, Store
  <2>5. CASE handler = "addItem"
    <3>1. PICK j \in ItemDate \ disk.items, title \in Title :
             realm = ItemAppended(disk, selected, j, title)
      BY <2>5 DEF Inv, WriteIsOneEdit
    <3>2. realm.items = disk.items \cup {j}
      BY <2>2, <3>1 DEF ItemAppended, Store
    <3> QED
      BY <2>1, <3>2
  <2>6. CASE handler = "toggleItem"
    BY <2>1, <2>2, <2>6 DEF Inv, WriteIsOneEdit, DoneToggled, Store
  <2>7. CASE handler = "deleteItem"
    <3>1. alert.kind = "deleteItem" /\ realm = ItemsDeleted(disk, {alert.target})
      BY <2>7 DEF Inv, WriteIsOneEdit, OnItsScreen
    <3>2. realm.items = disk.items \ {alert.target}
      BY <2>2, <3>1 DEF ItemsDeleted, Store
    <3> QED
      BY <2>1, <3>1, <3>2
  <2>8. CASE handler = "deleteCategory"
    <3> DEFINE c == alert.target
    <3>1. alert.kind = "deleteCategory" /\ realm = CategoryDeleted(disk, c)
      BY <2>8 DEF Inv, WriteIsOneEdit, OnItsScreen
    <3>2. realm.items = disk.items \ disk.list[c]
      BY <2>2, <3>1 DEF CategoryDeleted, ItemsDeleted, Store
    <3> QED
      BY <2>1, <3>1, <3>2
  <2> QED
    BY <2>3, <2>4, <2>5, <2>6, <2>7, <2>8
<1>2. Inv /\ [Next]_vars => [Named]_vars
  BY <1>1
<1> QED
  BY <1>2, Invariance, PTL DEF Spec, DeletesOnlyTheNamed

(* Marks change with the flags, or are set to what they are: the steps     *)
(* that touch either.                                                      *)
LEMMA MarksChange ==
    ASSUME Next
    PROVE  \/ UNCHANGED <<itemCells, realm>>
           \/ realm' = realm /\ \E c, f : itemCells' = ItemCells(realm, c, f)
           \/ itemCells' = NoCells
           \/ \E c \in CategoryDate : ConfirmAddCategory(c)
           \/ ConfirmDeleteCategory
           \/ \E i \in ItemDate, title \in Title : ConfirmAddItem(i, title)
           \/ ConfirmDeleteItem
           \/ \E r \in 1..Cardinality(DOMAIN itemCells) : SelectItem(r) \/ RedrawItem(r)
           \/ Commit
           \/ CommitFails
<1>1. CASE CategoryScreen
  BY <1>1 DEF CategoryScreen, CategoryAddPressed, ConfirmUntitledCategory, SwipeCategory,
     SelectCategory, ShowAlert, store, itemView
<1>2. CASE ItemScreen
  BY <1>2 DEF ItemScreen, ItemAddPressed, ConfirmUntitledItem, SwipeItem, TypeText, ClearText,
     SearchPressed, Back, CancelledBackSwipe, ShowAlert, store, itemView
<1>3. CASE CancelAlert \/ Relaunch
  BY <1>3 DEF CancelAlert, Relaunch, store, itemView
<1> QED
  BY <1>1, <1>2, <1>3 DEF Next

(* What each edit but the toggle does to the items and their flags.        *)
LEMMA ItemsAndFlags ==
    ASSUME NEW s \in Store
    PROVE  /\ \A c \in CategoryDate : CategoryAdded(s, c).done = s.done
           /\ \A c \in CategoryDate :
                /\ CategoryDeleted(s, c).items = s.items \ s.list[c]
                /\ CategoryDeleted(s, c).done = s.done \ s.list[c]
           /\ \A c \in CategoryDate, i \in ItemDate, title \in Title :
                ItemAppended(s, c, i, title).done = s.done
           /\ \A i : /\ ItemsDeleted(s, {i}).items = s.items \ {i}
                     /\ ItemsDeleted(s, {i}).done = s.done \ {i}
<1>1. ASSUME NEW c \in CategoryDate
      PROVE  CategoryAdded(s, c).done = s.done
  BY CategoryAddedFields
<1>2. ASSUME NEW c \in CategoryDate
      PROVE  /\ CategoryDeleted(s, c).items = s.items \ s.list[c]
             /\ CategoryDeleted(s, c).done = s.done \ s.list[c]
  BY DEF CategoryDeleted, ItemsDeleted, Store
<1>3. ASSUME NEW c \in CategoryDate, NEW i \in ItemDate, NEW title \in Title
      PROVE  ItemAppended(s, c, i, title).done = s.done
  BY DEF ItemAppended, Store
<1>4. ASSUME NEW i
      PROVE  /\ ItemsDeleted(s, {i}).items = s.items \ {i}
             /\ ItemsDeleted(s, {i}).done = s.done \ {i}
  BY DEF ItemsDeleted, Store
<1> QED
  BY <1>1, <1>2, <1>3, <1>4

(* No edit but the toggle changes a flag.                                  *)
LEMMA EditKeepsFlags ==
    ASSUME NEW s \in Store, NEW t,
           \/ \E c \in CategoryDate : t = CategoryAdded(s, c)
           \/ \E c \in CategoryDate : t = CategoryDeleted(s, c)
           \/ \E c \in CategoryDate, j \in ItemDate, title \in Title : t = ItemAppended(s, c, j, title)
           \/ \E j : t = ItemsDeleted(s, {j})
    PROVE  \A i \in s.items \cap t.items : (i \in t.done) = (i \in s.done)
<1>1. t.done = s.done \/ \E D : t.items = s.items \ D /\ t.done = s.done \ D
  <2>1. CASE \E c \in CategoryDate : t = CategoryAdded(s, c)
    BY <2>1, ItemsAndFlags
  <2>2. CASE \E c \in CategoryDate : t = CategoryDeleted(s, c)
    <3>1. PICK c \in CategoryDate : t = CategoryDeleted(s, c)
      BY <2>2
    <3>2. t.items = s.items \ s.list[c] /\ t.done = s.done \ s.list[c]
      BY <3>1, ItemsAndFlags
    <3> QED
      BY <3>2
  <2>3. CASE \E c \in CategoryDate, j \in ItemDate, title \in Title : t = ItemAppended(s, c, j, title)
    BY <2>3, ItemsAndFlags
  <2>4. CASE \E j : t = ItemsDeleted(s, {j})
    <3>1. PICK j : t = ItemsDeleted(s, {j})
      BY <2>4
    <3>2. t.items = s.items \ {j} /\ t.done = s.done \ {j}
      BY <3>1, ItemsAndFlags
    <3> QED
      BY <3>2
  <2> QED
    BY <2>1, <2>2, <2>3, <2>4
<1> QED
  BY <1>1

(* A write under way that is no toggle has changed no flag.                *)
LEMMA FlagsKept ==
    ASSUME Inv, handler # "toggleItem", NEW i \in realm.items \cap disk.items
    PROVE  (i \in realm.done) = (i \in disk.done)
<1>1. disk \in Store
  BY StoresGood DEF GoodStore
<1>2. disk.categories \subseteq CategoryDate
  BY <1>1 DEF Store
<1>3. CASE handler = "none"
  BY <1>3 DEF Inv, WriteIsOneEdit
<1>4. CASE handler = "addCategory"
  <2>1. \E c \in CategoryDate : realm = CategoryAdded(disk, c)
    BY <1>4 DEF Inv, WriteIsOneEdit
  <2> QED
    BY <1>1, <2>1, EditKeepsFlags
<1>5. CASE handler = "deleteCategory"
  <2>1. \E c \in CategoryDate : realm = CategoryDeleted(disk, c)
    BY <1>2, <1>5 DEF Inv, WriteIsOneEdit, OnItsScreen, AlertOnDisk
  <2> QED
    BY <1>1, <2>1, EditKeepsFlags
<1>6. CASE handler = "addItem"
  <2>1. selected \in CategoryDate
    BY <1>2, <1>6 DEF Inv, OnItsScreen
  <2>2. \E c \in CategoryDate, j \in ItemDate, title \in Title : realm = ItemAppended(disk, c, j, title)
    BY <1>6, <2>1 DEF Inv, WriteIsOneEdit
  <2> QED
    BY <1>1, <2>2, EditKeepsFlags
<1>7. CASE handler = "deleteItem"
  <2>1. \E j : realm = ItemsDeleted(disk, {j})
    BY <1>7 DEF Inv, WriteIsOneEdit
  <2> QED
    BY <1>1, <2>1, EditKeepsFlags
<1> QED
  BY <1>3, <1>4, <1>5, <1>6, <1>7 DEF Inv, TypeOK

(* Nor has a write body that begins.                                       *)
LEMMA FlagsKeptByWrite ==
    ASSUME Inv, NEW i \in realm.items \cap realm'.items,
           \/ \E c \in CategoryDate : ConfirmAddCategory(c)
           \/ ConfirmDeleteCategory
           \/ \E j \in ItemDate, title \in Title : ConfirmAddItem(j, title)
           \/ ConfirmDeleteItem
    PROVE  (i \in realm'.done) = (i \in realm.done) /\ itemCells' = itemCells
<1>1. realm \in Store /\ disk.categories \subseteq CategoryDate
  BY StoresGood DEF GoodStore, Store
<1>2. CASE \E c \in CategoryDate : ConfirmAddCategory(c)
  BY <1>1, <1>2, EditKeepsFlags DEF ConfirmAddCategory, Write
<1>3. CASE ConfirmDeleteCategory
  <2>1. alert.target \in CategoryDate
    BY <1>1, <1>3 DEF ConfirmDeleteCategory, Answer, Inv, AlertOnDisk
  <2>2. realm' = CategoryDeleted(realm, alert.target) /\ itemCells' = itemCells
    BY <1>3 DEF ConfirmDeleteCategory, Write
  <2> QED
    BY <1>1, <2>1, <2>2, EditKeepsFlags
<1>4. CASE \E j \in ItemDate, title \in Title : ConfirmAddItem(j, title)
  <2>1. PICK j \in ItemDate, title \in Title : ConfirmAddItem(j, title)
    BY <1>4
  <2>2. selected \in CategoryDate
    BY <1>1, <2>1 DEF ConfirmAddItem, Answer, Inv, OnItsScreen
  <2>3. realm' = ItemAppended(realm, selected, j, title) /\ itemCells' = itemCells
    BY <2>1 DEF ConfirmAddItem, Write
  <2> QED
    BY <1>1, <2>2, <2>3, EditKeepsFlags
<1>5. CASE ConfirmDeleteItem
  BY <1>1, <1>5, EditKeepsFlags DEF ConfirmDeleteItem, Write
<1> QED
  BY <1>2, <1>3, <1>4, <1>5

(* The end of a handler writes no mark that is not the flag.               *)
LEMMA MarksAtTheEnd ==
    ASSUME NEW s, EndOfHandler(s), NEW i \in DOMAIN itemCells'
    PROVE  \/ i \in DOMAIN itemCells /\ itemCells'[i] = itemCells[i]
           \/ itemCells'[i] = (i \in s.done)
<1>1. CASE itemCells' = ItemCells(s, selected, filter)
  BY <1>1 DEF ItemCells
<1>2. CASE itemCells' = itemCells
  BY <1>2
<1>3. CASE itemCells' = WithoutRow(itemCells, alert.row)
  BY <1>3 DEF WithoutRow
<1> QED
  BY <1>1, <1>2, <1>3 DEF EndOfHandler, ReloadAfterAdd, NothingAfterToggle,
     DeleteCategoryRow, DeleteItemRow, DeleteRowsRaises

LEMMA MarksFollowFlags ==
    ASSUME Inv, Next, ~(handler = "toggleItem" /\ disk' = disk),
           NEW i \in realm.items \cap realm'.items, Stale(i)'
    PROVE  Stale(i)
<1>1. i \in DOMAIN itemCells' /\ itemCells'[i] # (i \in realm'.done)
  BY DEF Stale
<1>2. ASSUME i \in DOMAIN itemCells, itemCells'[i] = itemCells[i],
             (i \in realm'.done) = (i \in realm.done)
      PROVE  Stale(i)
  BY <1>1, <1>2, Zenon DEF Stale
<1>3. CASE UNCHANGED <<itemCells, realm>>
  BY <1>1, <1>2, <1>3
<1>4. CASE realm' = realm /\ \E c, f : itemCells' = ItemCells(realm, c, f)
  BY <1>1, <1>4 DEF ItemCells
<1>5. CASE itemCells' = NoCells
  BY <1>1, <1>5, NoCellsType
<1>6. CASE \/ \E c \in CategoryDate : ConfirmAddCategory(c)
           \/ ConfirmDeleteCategory
           \/ \E j \in ItemDate, title \in Title : ConfirmAddItem(j, title)
           \/ ConfirmDeleteItem
  BY <1>1, <1>2, <1>6, FlagsKeptByWrite
<1>7. CASE \E r \in 1..Cardinality(DOMAIN itemCells) : SelectItem(r) \/ RedrawItem(r)
  <2>1. PICK r \in 1..Cardinality(DOMAIN itemCells) : SelectItem(r) \/ RedrawItem(r)
    BY <1>7
  <2> DEFINE j == KeyAt(DOMAIN itemCells, r)
  <2>2. DOMAIN itemCells = LiveItems(realm, selected, filter)
    BY <2>1, ReadyFacts DEF SelectItem, RedrawItem, Tap
  <2>3. itemCells' = [itemCells EXCEPT ![j] = j \in realm'.done]
    <3>1. CASE SelectItem(r)
      BY <2>2, <3>1 DEF SelectItem, Write
    <3>2. CASE RedrawItem(r)
      BY <2>2, <3>2 DEF RedrawItem, store
    <3> QED
      BY <2>1, <3>1, <3>2
  <2>4. \A k : k # j => (k \in realm'.done) = (k \in realm.done)
    <3>1. CASE SelectItem(r)
      <4>1. realm' = DoneToggled(realm, j)
        BY <2>2, <3>1 DEF SelectItem, Write
      <4>2. realm \in Store
        BY StoresGood DEF GoodStore
      <4> HIDE DEF j
      <4>3. realm'.done = IF j \in realm.done THEN realm.done \ {j} ELSE realm.done \cup {j}
        BY <4>1, <4>2 DEF DoneToggled, Store
      <4> QED
        BY <4>3
    <3>2. CASE RedrawItem(r)
      BY <3>2 DEF RedrawItem, store
    <3> QED
      BY <2>1, <3>1, <3>2
  <2> HIDE DEF j
  <2>5. i # j /\ i \in DOMAIN itemCells /\ itemCells'[i] = itemCells[i]
    BY <1>1, <2>3
  <2> QED
    BY <1>2, <2>4, <2>5
<1>8. CASE Commit
  <2>1. realm' = realm /\ EndOfHandler(realm)
    BY <1>8 DEF Commit
  <2> QED
    BY <1>1, <1>2, <2>1, MarksAtTheEnd
<1>9. CASE CommitFails
  <2>1. realm' = disk /\ disk' = disk /\ EndOfHandler(disk)
    BY <1>9 DEF CommitFails
  <2>2. (i \in realm'.done) = (i \in realm.done)
    BY <2>1, FlagsKept
  <2> QED
    BY <1>1, <1>2, <2>1, <2>2, MarksAtTheEnd
<1> QED
  BY MarksChange, <1>3, <1>4, <1>5, <1>6, <1>7, <1>8, <1>9

(* A mark comes to differ from its item's flag only by a toggle that does  *)
(* not reach the file: whatever is added, deleted, searched or taken back, *)
(* the marks on screen otherwise stay the flags of the items.              *)
THEOREM OnlyFailedTogglesLeaveStaleMarks == Spec => StaleMarkOnlyAfterFailedToggle
<1>1. Inv /\ [Next]_vars =>
        [\A i \in realm.items \cap realm'.items :
           Stale(i)' /\ ~Stale(i) => handler = "toggleItem" /\ disk' = disk]_vars
  BY MarksFollowFlags
<1> QED
  BY <1>1, Invariance, PTL DEF Spec, StaleMarkOnlyAfterFailedToggle

-----------------------------------------------------------------------------
(* The file implements TodoList: each edit of a sound store is the edit of *)
(* the same name of the lists, and the file changes by one edit at a time. *)

(* The lists L with an item more, and with one less.                       *)
WithItem(L, c, i, title) ==
    [L EXCEPT ![c] = [j \in DOMAIN @ \cup {i} |->
                        IF j = i THEN [title |-> title, done |-> FALSE] ELSE @[j]]]
WithoutItem(L, c, i) == [L EXCEPT ![c] = [j \in DOMAIN @ \ {i} |-> @[j]]]

LEMMA SameEntry ==
    ASSUME NEW s, NEW t, NEW i, t.title[i] = s.title[i], (i \in t.done) = (i \in s.done)
    PROVE  EntryOf(t, i) = EntryOf(s, i)
BY Zenon DEF EntryOf

LEMMA FlippedDone ==
    ASSUME NEW x, NEW b \in BOOLEAN
    PROVE  [[title |-> x, done |-> b] EXCEPT !.done = ~@] = [title |-> x, done |-> ~b]
<1>1. CASE b = TRUE
  BY <1>1
<1>2. CASE b = FALSE
  BY <1>2
<1> QED
  BY <1>1, <1>2

LEMMA SameList ==
    ASSUME NEW s, NEW t, NEW c, c \in s.categories, c \in t.categories,
           NEW L, L = s.list[c], L = t.list[c],
           \A i \in L : EntryOf(t, i) = EntryOf(s, i)
    PROVE  Lists(t)[c] = Lists(s)[c]
<1>1. Lists(t)[c] = [i \in L |-> EntryOf(t, i)] /\ Lists(s)[c] = [i \in L |-> EntryOf(s, i)]
  BY DEF Lists
<1> QED
  BY <1>1

LEMMA EmptyIsEmpty == Lists(EmptyStore) = [c \in {} |-> {}]
BY DEF Lists, EmptyStore

LEMMA AddsCategory ==
    ASSUME NEW s, GoodStore(s), NEW c \in CategoryDate \ s.categories,
           NEW t, t = CategoryAdded(s, c)
    PROVE  Lists(t) = [d \in s.categories \cup {c} |->
                         IF d = c THEN [i \in {} |-> {}] ELSE Lists(s)[d]]
<1>1. /\ t.categories = s.categories \cup {c}
      /\ t.list = s.list /\ t.title = s.title /\ t.done = s.done
  BY CategoryAddedFields DEF GoodStore
<1>2. s.list[c] = {}
  BY DEF GoodStore, SoundStore, NoDanglingLink
<1>3. \A i : EntryOf(t, i) = EntryOf(s, i)
  BY <1>1, SameEntry
<1>4. \A d \in s.categories : Lists(t)[d] = Lists(s)[d]
  BY <1>1, <1>3 DEF Lists
<1>5. Lists(t)[c] = [i \in {} |-> {}]
  BY <1>1, <1>2 DEF Lists
<1>6. Lists(t) = [d \in s.categories \cup {c} |-> Lists(t)[d]]
  BY <1>1 DEF Lists
<1> QED
  BY <1>4, <1>5, <1>6

LEMMA DeletesCategory ==
    ASSUME NEW s, GoodStore(s), NEW c \in s.categories, NEW t, t = CategoryDeleted(s, c)
    PROVE  Lists(t) = [d \in s.categories \ {c} |-> Lists(s)[d]]
<1>1. s \in Store /\ c \in CategoryDate
  BY DEF GoodStore, Store
<1>2. /\ t.categories = s.categories \ {c}
      /\ t.list = [d \in CategoryDate |-> IF d = c THEN {} ELSE s.list[d] \ s.list[c]]
      /\ t.title = [i \in ItemDate |-> IF i \in s.list[c] THEN Nil ELSE s.title[i]]
      /\ t.done = s.done \ s.list[c]
  BY <1>1, CategoryDeletedFields
<1>3. ASSUME NEW d \in s.categories \ {c}
      PROVE  Lists(t)[d] = Lists(s)[d]
  <2>1. d \in CategoryDate /\ s.list[d] \cap s.list[c] = {} /\ s.list[d] \subseteq ItemDate
    BY <1>1 DEF GoodStore, SoundStore, OneOwner, Store
  <2>2. t.list[d] = s.list[d]
    BY <1>2, <2>1
  <2>3. \A i \in s.list[d] : EntryOf(t, i) = EntryOf(s, i)
    BY <1>2, <2>1 DEF EntryOf
  <2> QED
    BY <1>2, <2>2, <2>3 DEF Lists
<1> QED
  BY <1>2, <1>3 DEF Lists

LEMMA AddsItem ==
    ASSUME NEW s, GoodStore(s), NEW c \in s.categories,
           NEW i \in ItemDate \ s.items, NEW title \in Title,
           NEW t, t = ItemAppended(s, c, i, title)
    PROVE  Lists(t) = WithItem(Lists(s), c, i, title)
<1>1. s \in Store /\ c \in CategoryDate /\ s.categories \subseteq CategoryDate
  BY DEF GoodStore, Store
<1>2. /\ t.categories = s.categories
      /\ t.list = [s.list EXCEPT ![c] = @ \cup {i}]
      /\ t.title = [s.title EXCEPT ![i] = title]
      /\ t.done = s.done
  BY <1>1, ItemAppendedFields
<1>3. i \notin s.done /\ \A d \in CategoryDate : i \notin s.list[d] /\ s.list[d] \subseteq ItemDate
  BY <1>1 DEF GoodStore, SoundStore, NoGhostData, NoDanglingLink, Store
<1>4. /\ EntryOf(t, i) = [title |-> title, done |-> FALSE]
      /\ \A j \in ItemDate \ {i} : EntryOf(t, j) = EntryOf(s, j)
  <2>1. t.title[i] = title /\ (i \in t.done) = FALSE
    BY <1>1, <1>2, <1>3 DEF Store
  <2>2. \A j \in ItemDate \ {i} : t.title[j] = s.title[j] /\ (j \in t.done) = (j \in s.done)
    BY <1>1, <1>2 DEF Store
  <2> QED
    BY <2>1, <2>2, SameEntry, Zenon DEF EntryOf
<1>5. /\ t.list[c] = s.list[c] \cup {i}
      /\ \A d \in s.categories \ {c} : t.list[d] = s.list[d]
  BY <1>1, <1>2 DEF Store
<1>6. \A d \in s.categories \ {c} : Lists(t)[d] = Lists(s)[d]
  <2> SUFFICES ASSUME NEW d \in s.categories \ {c}
               PROVE  Lists(t)[d] = Lists(s)[d]
    OBVIOUS
  <2>1. \A j \in s.list[d] : EntryOf(t, j) = EntryOf(s, j)
    BY <1>1, <1>3, <1>4
  <2> QED
    BY <1>2, <1>5, <2>1 DEF Lists
<1>7. Lists(t)[c] = [j \in s.list[c] \cup {i} |->
                       IF j = i THEN [title |-> title, done |-> FALSE] ELSE Lists(s)[c][j]]
  <2>1. \A j \in s.list[c] : EntryOf(t, j) = EntryOf(s, j) /\ Lists(s)[c][j] = EntryOf(s, j)
    BY <1>1, <1>3, <1>4 DEF Lists
  <2>2. Lists(t)[c] = [j \in s.list[c] \cup {i} |-> EntryOf(t, j)]
    BY <1>2, <1>5 DEF Lists
  <2> QED
    BY <1>4, <2>1, <2>2
<1>8. DOMAIN Lists(s) = s.categories /\ DOMAIN Lists(s)[c] = s.list[c]
  BY DEF Lists
<1>9. Lists(t) = [d \in s.categories |-> Lists(t)[d]]
  BY <1>2 DEF Lists
<1> QED
  BY <1>6, <1>7, <1>8, <1>9 DEF WithItem

LEMMA TogglesItem ==
    ASSUME NEW s, GoodStore(s), NEW c \in s.categories, NEW i \in s.list[c],
           NEW t, t = DoneToggled(s, i)
    PROVE  Lists(t) = [Lists(s) EXCEPT ![c][i].done = ~@]
<1>1. /\ s \in Store /\ c \in CategoryDate /\ s.categories \subseteq CategoryDate
      /\ i \in ItemDate
  BY DEF GoodStore, Store
<1>2. /\ t.categories = s.categories /\ t.list = s.list /\ t.title = s.title
      /\ t.done = IF i \in s.done THEN s.done \ {i} ELSE s.done \cup {i}
  BY <1>1, DoneToggledFields
<1>3. \A j : j # i => EntryOf(t, j) = EntryOf(s, j)
  BY <1>2 DEF EntryOf
<1>4. EntryOf(t, i) = [EntryOf(s, i) EXCEPT !.done = ~@]
  <2>1. t.title[i] = s.title[i] /\ (i \in t.done) = (~(i \in s.done))
    BY <1>2
  <2>2. (i \in s.done) \in BOOLEAN
    OBVIOUS
  <2>3. [[title |-> s.title[i], done |-> i \in s.done] EXCEPT !.done = ~@]
          = [title |-> s.title[i], done |-> ~(i \in s.done)]
    BY <2>2, FlippedDone, Zenon
  <2> QED
    BY <2>1, <2>3, Zenon DEF EntryOf
<1>5. \A d \in s.categories \ {c} : Lists(t)[d] = Lists(s)[d]
  <2> SUFFICES ASSUME NEW d \in s.categories \ {c}
               PROVE  Lists(t)[d] = Lists(s)[d]
    OBVIOUS
  <2>1. i \notin s.list[d]
    BY <1>1 DEF GoodStore, SoundStore, OneOwner
  <2> QED
    BY <1>2, <1>3, <2>1 DEF Lists
<1>6. Lists(t)[c] = [Lists(s)[c] EXCEPT ![i].done = ~@]
  <2>1. /\ Lists(s)[c] = [j \in s.list[c] |-> EntryOf(s, j)]
        /\ Lists(t)[c] = [j \in s.list[c] |-> EntryOf(t, j)]
    BY <1>2 DEF Lists
  <2>2. Lists(s)[c][i] = EntryOf(s, i)
    BY <2>1
  <2> QED
    BY <1>3, <1>4, <2>1, <2>2
<1>7. DOMAIN Lists(s) = s.categories /\ Lists(t) = [d \in s.categories |-> Lists(t)[d]]
  BY <1>2 DEF Lists
<1> QED
  BY <1>5, <1>6, <1>7

LEMMA DeletesItem ==
    ASSUME NEW s, GoodStore(s), NEW c \in s.categories, NEW i \in s.list[c],
           NEW t, t = ItemsDeleted(s, {i})
    PROVE  Lists(t) = WithoutItem(Lists(s), c, i)
<1>1. /\ s \in Store /\ c \in CategoryDate /\ s.categories \subseteq CategoryDate
      /\ \A d \in CategoryDate : s.list[d] \subseteq ItemDate
  BY DEF GoodStore, Store
<1>2. /\ t.categories = s.categories
      /\ t.list = [d \in CategoryDate |-> s.list[d] \ {i}]
      /\ t.title = [j \in ItemDate |-> IF j \in {i} THEN Nil ELSE s.title[j]]
      /\ t.done = s.done \ {i}
  BY <1>1, ItemsDeletedFields
<1>3. \A d \in s.categories \ {c} : i \notin s.list[d]
  BY <1>1 DEF GoodStore, SoundStore, OneOwner
<1>4. \A j \in ItemDate \ {i} : EntryOf(t, j) = EntryOf(s, j)
  <2> SUFFICES ASSUME NEW j \in ItemDate \ {i}
               PROVE  EntryOf(t, j) = EntryOf(s, j)
    OBVIOUS
  <2>1. t.title[j] = s.title[j] /\ (j \in t.done) = (j \in s.done)
    BY <1>1, <1>2
  <2> QED
    BY <2>1, SameEntry
<1>5. \A d \in s.categories : t.list[d] = s.list[d] \ {i} /\ s.list[d] \subseteq ItemDate
  BY <1>1, <1>2
<1>6. \A d \in s.categories \ {c} : Lists(t)[d] = Lists(s)[d]
  <2> SUFFICES ASSUME NEW d \in s.categories \ {c}
               PROVE  Lists(t)[d] = Lists(s)[d]
    OBVIOUS
  <2>1. i \notin s.list[d] /\ t.list[d] = s.list[d] /\ s.list[d] \subseteq ItemDate
    <3>1. i \notin s.list[d]
      BY <1>3
    <3>2. t.list[d] = s.list[d] \ {i} /\ s.list[d] \subseteq ItemDate
      BY <1>5
    <3> QED
      BY <3>1, <3>2
  <2>2. \A j \in s.list[d] : EntryOf(t, j) = EntryOf(s, j)
    BY <1>4, <2>1
  <2> QED
    BY <1>2, <2>1, <2>2 DEF Lists
<1>7. Lists(t)[c] = [j \in s.list[c] \ {i} |-> Lists(s)[c][j]]
  <2>1. Lists(t)[c] = [j \in s.list[c] \ {i} |-> EntryOf(t, j)]
    BY <1>2, <1>5 DEF Lists
  <2>2. \A j \in s.list[c] \ {i} : EntryOf(t, j) = EntryOf(s, j) /\ Lists(s)[c][j] = EntryOf(s, j)
    BY <1>4, <1>5 DEF Lists
  <2> QED
    BY <2>1, <2>2
<1>8. /\ DOMAIN Lists(s) = s.categories /\ DOMAIN Lists(s)[c] = s.list[c]
      /\ Lists(t) = [d \in s.categories |-> Lists(t)[d]]
  BY <1>2 DEF Lists
<1> QED
  BY <1>6, <1>7, <1>8 DEF WithoutItem

(* A commit is one edit of the lists.                                      *)
LEMMA CommitIsAnEdit ==
    ASSUME Inv, Commit
    PROVE  Promise!Next
<1>1. GoodStore(disk) /\ Lists(disk)' = Lists(realm) /\ handler # "none"
  BY StoresGood DEF Commit, Lists, EntryOf
<1>2. DOMAIN Lists(disk) = disk.categories /\ disk.categories \subseteq CategoryDate
  BY <1>1 DEF Lists, GoodStore, Store
<1>3. \A c \in disk.categories : DOMAIN Lists(disk)[c] = disk.list[c] /\ disk.list[c] \subseteq ItemDate
  BY <1>1 DEF Lists, GoodStore, Store
<1>4. screen = "items" => selected \in disk.categories
  BY DEF Inv, OnItsScreen
<1>5. CASE handler = "addCategory"
  <2>1. PICK c \in CategoryDate \ disk.categories : realm = CategoryAdded(disk, c)
    BY <1>5 DEF Inv, WriteIsOneEdit
  <2>2. Promise!AddCategory(c)
    BY <1>1, <1>2, <2>1, AddsCategory DEF Promise!AddCategory
  <2> QED
    BY <2>2 DEF Promise!Next
<1>6. CASE handler = "deleteCategory"
  <2>1. alert.target \in disk.categories /\ realm = CategoryDeleted(disk, alert.target)
    BY <1>6 DEF Inv, WriteIsOneEdit, OnItsScreen, AlertOnDisk
  <2>2. Lists(realm) = [d \in disk.categories \ {alert.target} |-> Lists(disk)[d]]
    BY <1>1, <2>1, DeletesCategory, Zenon
  <2>3. Promise!DeleteCategory(alert.target)
    BY <1>1, <1>2, <2>1, <2>2 DEF Promise!DeleteCategory
  <2> QED
    BY <1>2, <2>1, <2>3 DEF Promise!Next
<1>7. CASE handler = "addItem"
  <2>1. selected \in disk.categories
    BY <1>4, <1>7 DEF Inv, OnItsScreen
  <2>2. PICK i \in ItemDate \ disk.items, title \in Title :
           realm = ItemAppended(disk, selected, i, title)
    BY <1>7 DEF Inv, WriteIsOneEdit
  <2>3. \A d \in disk.categories : i \notin disk.list[d]
    BY <1>1, <1>2, <2>2 DEF GoodStore, SoundStore, NoDanglingLink
  <2>4. Promise!AddItem(selected, i, title)
    <3>1. Lists(realm) = WithItem(Lists(disk), selected, i, title)
      BY <1>1, <2>1, <2>2, AddsItem
    <3>2. selected \in DOMAIN Lists(disk) /\ \A d \in DOMAIN Lists(disk) : i \notin DOMAIN Lists(disk)[d]
      BY <1>2, <1>3, <2>1, <2>3
    <3> QED
      BY <1>1, <3>1, <3>2, Zenon DEF Promise!AddItem, WithItem
  <2> QED
    BY <1>2, <2>1, <2>4 DEF Promise!Next
<1>8. CASE handler = "toggleItem"
  <2>1. selected \in disk.categories
    BY <1>4, <1>8 DEF Inv, OnItsScreen
  <2>2. PICK i \in disk.list[selected] : realm = DoneToggled(disk, i)
    BY <1>8 DEF Inv, WriteIsOneEdit
  <2>3. Promise!ToggleItem(selected, i)
    BY <1>1, <1>2, <1>3, <2>1, <2>2, TogglesItem DEF Promise!ToggleItem
  <2> QED
    BY <1>2, <1>3, <2>1, <2>2, <2>3 DEF Promise!Next
<1>9. CASE handler = "deleteItem"
  <2>1. selected \in disk.categories
    BY <1>4, <1>9 DEF Inv, OnItsScreen
  <2>2. alert.target \in disk.list[selected] /\ realm = ItemsDeleted(disk, {alert.target})
    BY <1>9 DEF Inv, WriteIsOneEdit, OnItsScreen, AlertOnDisk, LiveItems
  <2>3. Promise!DeleteItem(selected, alert.target)
    <3>1. Lists(realm) = WithoutItem(Lists(disk), selected, alert.target)
      BY <1>1, <2>1, <2>2, DeletesItem
    <3>2. selected \in DOMAIN Lists(disk) /\ alert.target \in DOMAIN Lists(disk)[selected]
      BY <1>2, <1>3, <2>1, <2>2
    <3> QED
      BY <1>1, <3>1, <3>2, Zenon DEF Promise!DeleteItem, WithoutItem
  <2> QED
    BY <1>2, <1>3, <2>1, <2>2, <2>3 DEF Promise!Next
<1> QED
  BY <1>1, <1>5, <1>6, <1>7, <1>8, <1>9 DEF Inv, TypeOK

(* Through every kill, failed commit and crash, what is on disk changes by *)
(* whole edits of the to-do list and by nothing else.                      *)
THEOREM FileIsATodoList == Spec => ImplementsTodoList
<1>1. Init => Promise!Init
  BY EmptyIsEmpty DEF Init, Promise!Init
<1>2. Inv /\ [Next]_vars => [Promise!Next]_(Lists(disk))
  <2> SUFFICES ASSUME Inv, [Next]_vars
               PROVE  Promise!Next \/ disk' = disk
    BY DEF Lists
  <2> QED
    BY DiskChanges, CommitIsAnEdit DEF CommitFails
<1> QED
  BY <1>1, <1>2, Invariance, PTL DEF Spec, ImplementsTodoList, Promise!Spec
=============================================================================
