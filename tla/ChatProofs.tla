----------------------------- MODULE ChatProofs -----------------------------
(***************************************************************************)
(* Theorems of Flash Chat's own code: its stack of screens against         *)
(* Firebase Auth, and its chat screens on one collection.                  *)
(*                                                                         *)
(* The screens stay in order for every set of users and every number of    *)
(* requests in flight.  ChatNeedsUser and PiledChatsHaveForm are not       *)
(* inductive: that a late answer pushes nothing rests on PushersHaveForm,  *)
(* that Welcome goes on only when nothing is above it on AppearsAlone.     *)
(*                                                                         *)
(* For any devices, any documents and any bound on the main queue, the     *)
(* table is out of range only after a write was rejected or the listener   *)
(* failed, a screen that has nothing left to do shows what Firestore       *)
(* knows, and no snapshot takes a message of the server's off a screen.    *)
(* None of the three is inductive: each depends on the snapshots that wait *)
(* on the main queue.  But for writes that were rejected, what is shown is *)
(* part of the first of them, each is part of the next, and the last is    *)
(* what there is to see.                                                   *)
(***************************************************************************)
EXTENDS ChatSession, ChatMessages, FiniteSetTheorems, SequenceTheorems, TLAPS

-----------------------------------------------------------------------------
(* Who is signed in, and what is on screen.                                *)

(* A chat that is pushed is the last one, and makes the stack longer.      *)
LEMMA PushedChat ==
    ASSUME NEW s \in Seq(User), NEW u \in User
    PROVE  /\ Append(s, u) \in Seq(User)
           /\ Append(s, u) # <<>>
           /\ Len(Append(s, u)) = Len(s) + 1
           /\ Append(s, u)[Len(Append(s, u))] = u
    OBVIOUS

(* Popping a form turns off every closure of a form.                       *)
LEMMA PoppedPushNothing ==
    ASSUME NEW p \in [Request -> Pending \cup {Nil}]
    PROVE  /\ Popped(p) \in [Request -> Pending \cup {Nil}]
           /\ \A r \in Request : Popped(p)[r] # Nil => ~Popped(p)[r].shown
    BY DEF Popped, Pending

(* The first screen is in order.                                           *)
LEMMA InitInv == SessionInit => SessionInv
    BY DEF SessionInit, SessionInv, SessionTypeOK, ChatNeedsUser, PiledChatsHaveForm,
           PushersHaveForm, AppearsAlone

(* Welcome pushes one chat, on nothing.                                    *)
LEMMA WelcomeAppearsInv == SessionInv /\ WelcomeAppears => SessionInv'
<1> SUFFICES ASSUME SessionInv, WelcomeAppears PROVE SessionInv'
    OBVIOUS
<1> USE DEF SessionInv, SessionTypeOK, AppearsAlone
<1>1. CASE currentUser = Nil
    BY <1>1 DEF WelcomeAppears, ChatNeedsUser, PiledChatsHaveForm, PushersHaveForm
<1>2. CASE currentUser # Nil
  <2>1. /\ chats = <<>>
        /\ chats' = Append(chats, currentUser)
      BY <1>2 DEF WelcomeAppears, PushChat
  <2>2. chats' \in Seq(User) /\ Len(chats') = 1
      BY <1>2, <2>1
  <2>3. /\ currentUser' = currentUser /\ form' = form /\ inFlight' = inFlight
        /\ appearing' = FALSE
      BY DEF WelcomeAppears
  <2>4. SessionTypeOK' /\ AppearsAlone'
      BY <2>2, <2>3
  <2>5. ChatNeedsUser' /\ PiledChatsHaveForm'
      BY <1>2, <2>2, <2>3 DEF ChatNeedsUser, PiledChatsHaveForm
  <2>6. PushersHaveForm'
      BY <2>3 DEF PushersHaveForm
  <2> QED
      BY <2>4, <2>5, <2>6
<1> QED
    BY <1>1, <1>2

(* Opening a form gives the pushers that are left what they need.          *)
LEMMA OpenFormInv ==
    ASSUME NEW kind \in {"signIn", "signUp"}
    PROVE  SessionInv /\ OpenForm(kind) => SessionInv'
    BY DEF SessionInv, SessionTypeOK, OpenForm, ChatNeedsUser, PiledChatsHaveForm,
           PushersHaveForm, AppearsAlone

(* Going back turns the pushers off.                                       *)
LEMMA BackInv == SessionInv /\ Back => SessionInv'
<1> SUFFICES ASSUME SessionInv, Back PROVE SessionInv'
    OBVIOUS
<1>1. /\ inFlight' \in [Request -> Pending \cup {Nil}]
      /\ \A r \in Request : inFlight'[r] # Nil => ~inFlight'[r].shown
    BY PoppedPushNothing DEF SessionInv, SessionTypeOK, Back
<1> QED
    BY <1>1 DEF SessionInv, SessionTypeOK, Back, ChatNeedsUser, PiledChatsHaveForm,
           PushersHaveForm, AppearsAlone

(* A new request is of the form in the stack.                              *)
LEMMA PressedInv ==
    ASSUME NEW r \in Request, NEW user \in User
    PROVE  SessionInv /\ Pressed(r, user) => SessionInv'
    BY DEF SessionInv, SessionTypeOK, Pressed, Pending, ChatNeedsUser, PiledChatsHaveForm,
           PushersHaveForm, AppearsAlone

(* An answer signs its user in, and pushes a chat only above a form.       *)
LEMMA AnsweredInv ==
    ASSUME NEW r \in Request
    PROVE  SessionInv /\ Answered(r) => SessionInv'
<1> SUFFICES ASSUME SessionInv, Answered(r) PROVE SessionInv'
    OBVIOUS
<1>1. /\ currentUser' = inFlight[r].user
      /\ currentUser' \in User
      /\ inFlight' \in [Request -> Pending \cup {Nil}]
      /\ PushersHaveForm'
    BY NilAssumption DEF SessionInv, SessionTypeOK, Answered, Pending, PushersHaveForm
<1>2. currentUser' # Nil
    BY <1>1, NilAssumption
<1>3. CASE inFlight[r].shown
  <2>1. form # "none" /\ ~appearing /\ ~appearing' /\ form' = form
      BY <1>3 DEF SessionInv, Answered, PushersHaveForm, AppearsAlone
  <2>2. chats' \in Seq(User)
      BY <1>1, <1>3, PushedChat DEF SessionInv, SessionTypeOK, Answered, PushChat
  <2>3. SessionTypeOK'
      BY <1>1, <2>1, <2>2 DEF SessionInv, SessionTypeOK, Answered
  <2>4. ChatNeedsUser' /\ PiledChatsHaveForm' /\ AppearsAlone'
      BY <1>2, <2>1 DEF ChatNeedsUser, PiledChatsHaveForm, AppearsAlone
  <2> QED
      BY <1>1, <2>3, <2>4 DEF SessionInv
<1>4. CASE ~inFlight[r].shown
    BY <1>1, <1>2, <1>4
    DEF SessionInv, SessionTypeOK, Answered, ChatNeedsUser, PiledChatsHaveForm, AppearsAlone
<1> QED
    BY <1>3, <1>4

(* A refusal only ends the request.                                        *)
LEMMA RefusedInv ==
    ASSUME NEW r \in Request
    PROVE  SessionInv /\ Refused(r) => SessionInv'
    BY DEF SessionInv, SessionTypeOK, Refused, ChatNeedsUser, PiledChatsHaveForm,
           PushersHaveForm, AppearsAlone

(* Signing out leaves no chat and no pusher, whether or not it throws.     *)
LEMMA SignOutInv ==
    ASSUME NEW throws \in BOOLEAN
    PROVE  SessionInv /\ SignOutPressed(throws) => SessionInv'
<1> SUFFICES ASSUME SessionInv, SignOutPressed(throws) PROVE SessionInv'
    OBVIOUS
<1>1. /\ inFlight' \in [Request -> Pending \cup {Nil}]
      /\ \A r \in Request : inFlight'[r] # Nil => ~inFlight'[r].shown
    BY PoppedPushNothing DEF SessionInv, SessionTypeOK, SignOutPressed
<1>2. chats' = <<>> /\ form' = "none" /\ appearing' = TRUE
      /\ currentUser' \in User \cup {Nil}
    BY DEF SessionInv, SessionTypeOK, SignOutPressed
<1> QED
    BY <1>1, <1>2 DEF SessionInv, SessionTypeOK, ChatNeedsUser, PiledChatsHaveForm,
           PushersHaveForm, AppearsAlone

(* After a restart there is only Welcome.                                  *)
LEMMA AppRelaunchesInv == SessionInv /\ AppRelaunches => SessionInv'
    BY DEF SessionInv, SessionTypeOK, AppRelaunches, ChatNeedsUser, PiledChatsHaveForm,
           PushersHaveForm, AppearsAlone

(* Every step keeps the invariant.                                         *)
LEMMA NextInv == SessionInv /\ [SessionNext]_sessionVars => SessionInv'
<1> SUFFICES ASSUME SessionInv, [SessionNext]_sessionVars PROVE SessionInv'
    OBVIOUS
<1>1. CASE UNCHANGED sessionVars
    BY <1>1 DEF sessionVars, SessionInv, SessionTypeOK, ChatNeedsUser, PiledChatsHaveForm,
           PushersHaveForm, AppearsAlone
<1>2. CASE SessionNext
    BY <1>2, WelcomeAppearsInv, OpenFormInv, BackInv, PressedInv, AnsweredInv,
       RefusedInv, SignOutInv, AppRelaunchesInv DEF SessionNext
<1> QED
    BY <1>1, <1>2

(* The invariant holds of every state of every behaviour.                  *)
THEOREM Invariance == SessionSpec => []SessionInv
    BY InitInv, NextInv, PTL DEF SessionSpec

(* The variables keep to their types.                                      *)
THEOREM TypeCorrectness == SessionSpec => []SessionTypeOK
<1>1. SessionInv => SessionTypeOK
    BY DEF SessionInv
<1> QED
    BY <1>1, Invariance, PTL

(* No chat is on any screen's stack while nobody is signed in, for any     *)
(* number of repeated taps and late answers (signOutPressed pops first).   *)
THEOREM ChatsAreOfSomebody == SessionSpec => []ChatNeedsUser
<1>1. SessionInv => ChatNeedsUser
    BY DEF SessionInv
<1> QED
    BY <1>1, Invariance, PTL

(* Chats pile up above a form only.                                        *)
THEOREM WelcomesChatIsAlone == SessionSpec => []PiledChatsHaveForm
<1>1. SessionInv => PiledChatsHaveForm
    BY DEF SessionInv
<1> QED
    BY <1>1, Invariance, PTL

(* One step: only the answer to a form that was left takes the screen out  *)
(* of step with Auth.                                                      *)
LEMMA StepOutOfStep ==
    ASSUME SessionInv, [SessionNext]_sessionVars, InStep, ~InStep'
    PROVE  \E r \in Request : /\ inFlight[r] # Nil
                              /\ ~inFlight[r].shown
                              /\ currentUser' = inFlight[r].user
                              /\ inFlight'[r] = Nil
<1> USE DEF InStep
<1>1. ~UNCHANGED sessionVars
    BY DEF sessionVars
<1>2. ~appearing'
    OBVIOUS
<1>3. ~WelcomeAppears
  <2> SUFFICES ASSUME WelcomeAppears PROVE InStep'
      OBVIOUS
  <2>1. CASE currentUser = Nil
      BY <2>1 DEF WelcomeAppears
  <2>2. CASE currentUser # Nil
    <3>1. chats' = Append(chats, currentUser) /\ currentUser' = currentUser
        BY <2>2 DEF WelcomeAppears, PushChat
    <3> QED
        BY <2>2, <3>1, PushedChat DEF SessionInv, SessionTypeOK
  <2> QED
      BY <2>1, <2>2
<1>4. \A kind \in {"signIn", "signUp"} : ~OpenForm(kind)
    BY DEF OpenForm
<1>5. ~Back /\ ~AppRelaunches /\ \A throws \in BOOLEAN : ~SignOutPressed(throws)
    BY <1>2 DEF Back, AppRelaunches, SignOutPressed
<1>6. \A r \in Request : (\A user \in User : ~Pressed(r, user)) /\ ~Refused(r)
    BY DEF Pressed, Refused
<1>7. PICK r \in Request : Answered(r)
    BY <1>1, <1>3, <1>4, <1>5, <1>6 DEF SessionNext
<1>8. inFlight[r] # Nil /\ currentUser' = inFlight[r].user /\ inFlight'[r] = Nil
    BY <1>7 DEF Answered, SessionInv, SessionTypeOK
<1>9. ~inFlight[r].shown
  <2> SUFFICES ASSUME inFlight[r].shown PROVE InStep'
      OBVIOUS
  <2>1. /\ inFlight[r].user \in User
        /\ chats' = Append(chats, inFlight[r].user)
      BY <1>7, <1>8 DEF Answered, PushChat, SessionInv, SessionTypeOK, Pending
  <2> QED
      BY <1>8, <2>1, PushedChat DEF SessionInv, SessionTypeOK
<1> QED
    BY <1>8, <1>9

(* In every behaviour the screen falls out of step with Auth only when a   *)
(* request whose form was left is answered.                                *)
THEOREM LateAnswersOnly == SessionSpec => OutOfStepOnlyByLateAnswer
<1> DEFINE Late == \E r \in Request : /\ inFlight[r] # Nil
                                      /\ ~inFlight[r].shown
                                      /\ currentUser' = inFlight[r].user
                                      /\ inFlight'[r] = Nil
<1>1. SessionInv /\ [SessionNext]_sessionVars => [InStep /\ ~InStep' => Late]_sessionVars
    BY StepOutOfStep
<1> QED
    BY <1>1, Invariance, PTL DEF SessionSpec, OutOfStepOnlyByLateAnswer

-----------------------------------------------------------------------------
(* The chat screens.                                                       *)

(* A document is on its way from one device, or at the server, or rejected.*)
Places ==
    /\ IsFiniteSet(server)
    /\ \A d \in Device :
          /\ IsFiniteSet(unsent[d]) /\ IsFiniteSet(known[d]) /\ IsFiniteSet(messages[d])
          /\ known[d] \subseteq server
          /\ unsent[d] \cap server = {} /\ rejected[d] \cap server = {}
          /\ \A e \in Device : unsent[d] \cap rejected[e] = {}
          /\ \A e \in Device \ {d} : unsent[d] \cap unsent[e] = {}

SnapshotAt(q, i) == i \in 1..Len(q) /\ q[i].what = "snapshot"
Has(q, what) == \E i \in 1..Len(q) : q[i].what = what
AllFinite(q) == \A i \in 1..Len(q) : IsFiniteSet(q[i].docs)

(* What is shown, the snapshots that wait in q and what there is to see    *)
(* grow in this order, but for what is out, the rejected writes.           *)
Chain(q, shown, seen, out) ==
    /\ \A i : SnapshotAt(q, i) =>
          (shown \ out) \subseteq q[i].docs /\ (q[i].docs \ out) \subseteq seen
    /\ \A i, j : SnapshotAt(q, i) /\ SnapshotAt(q, j) /\ i < j =>
          (q[i].docs \ out) \subseteq q[j].docs
    /\ (shown \ out) \subseteq seen

(* The last snapshot is what there is to see.                              *)
EndsWith(q, shown, seen) ==
    /\ \A i : SnapshotAt(q, i) /\ (\A j : SnapshotAt(q, j) => j <= i) => q[i].docs = seen
    /\ (\A i : ~SnapshotAt(q, i)) => shown = seen

(* The table has counted what is shown, or is about to.                    *)
Counted(q, shown, n) ==
    shown # {} => n = Cardinality(shown) \/ Has(q, "reload")

InRange(q, shown, n, dead) ==
    /\ dead = FALSE
    /\ n <= Cardinality(shown)
    /\ Has(q, "reload") => shown # {}

ScreenFits(q, shown, seen, out, alive, n, dead) ==
    /\ AllFinite(q)
    /\ Chain(q, shown, seen, out)
    /\ alive = TRUE => EndsWith(q, shown, seen) /\ ~Has(q, "error")
    /\ Counted(q, shown, n)
    /\ out = {} /\ alive = TRUE => InRange(q, shown, n, dead)

Fits(d) ==
    ScreenFits(queue[d], messages[d], Visible(d), rejected[d], listening[d], rows[d], crashed[d])

IInv == MessagesTypeOK /\ Places /\ (\A d \in Device : Fits(d)) /\ ClearedForStored

-----------------------------------------------------------------------------
(* Sequences of blocks.                                                    *)

LEMMA TailFacts ==
    ASSUME NEW S, NEW s \in Seq(S), s # <<>>
    PROVE  /\ Tail(s) \in Seq(S) /\ Len(s) \in Nat \ {0} /\ Len(Tail(s)) = Len(s) - 1
           /\ \A i \in 1..Len(Tail(s)) : Tail(s)[i] = s[i + 1] /\ i + 1 \in 1..Len(s)
           /\ Head(s) = s[1] /\ s[1] \in S
<1>1. Len(s) \in Nat \ {0} /\ Head(s) = s[1] /\ s[1] \in S
  OBVIOUS
<1>2. /\ Tail(s) \in Seq(S) /\ Len(Tail(s)) = Len(s) - 1
      /\ \A i \in 1..Len(Tail(s)) : Tail(s)[i] = s[i + 1]
  BY HeadTailProperties
<1> QED
  BY <1>1, <1>2

(* r is q with more behind it.                                             *)
Behind(r, q, more) ==
    /\ r \in Seq(Block) /\ q \in Seq(Block) /\ more \in Seq(Block)
    /\ Len(r) \in Nat /\ Len(q) \in Nat /\ Len(more) \in Nat /\ Len(r) = Len(q) + Len(more)
    /\ \A i \in 1..Len(q) : r[i] = q[i]
    /\ \A i \in (Len(q) + 1)..Len(r) : i - Len(q) \in 1..Len(more) /\ r[i] = more[i - Len(q)]

LEMMA ConcatBehind ==
    ASSUME NEW q \in Seq(Block), NEW more \in Seq(Block)
    PROVE  Behind(q \o more, q, more)
<1>1. PICK r : r = q \o more
  OBVIOUS
<1>2. PICK m \in Nat : m = Len(q)
  OBVIOUS
<1>3. PICK n \in Nat : n = Len(more)
  OBVIOUS
<1>4. /\ r \in Seq(Block) /\ Len(r) = m + n
      /\ \A i \in 1..(m + n) : r[i] = IF i <= m THEN q[i] ELSE more[i - m]
  BY <1>1, <1>2, <1>3, ConcatProperties
<1>5. \A i \in 1..m : r[i] = q[i]
  BY <1>4
<1>6. \A i \in (m + 1)..(m + n) : i - m \in 1..n /\ r[i] = more[i - m]
  BY <1>4
<1> QED
  BY <1>1, <1>2, <1>3, <1>4, <1>5, <1>6 DEF Behind

LEMMA RepeatFacts ==
    ASSUME NEW n \in Nat
    PROVE  /\ Repeat(Reload, n) \in Seq(Block) /\ Len(Repeat(Reload, n)) = n
           /\ \A i \in 1..n : Repeat(Reload, n)[i] = Reload
<1>1. Reload \in Block
  BY DEF Reload, Block
<1>2. Repeat(Reload, n) \in [1..n -> Block]
  BY <1>1 DEF Repeat
<1>3. Repeat(Reload, n) \in Seq(Block)
  BY <1>2, SeqDef
<1>4. DOMAIN Repeat(Reload, n) = 1..n
  BY DEF Repeat
<1>5. Len(Repeat(Reload, n)) = n
  BY <1>3, <1>4, LenProperties
<1> QED
  BY <1>3, <1>5 DEF Repeat

LEMMA BlocksAreBlocks ==
    /\ Reload \in Block /\ ListenerError \in Block
    /\ \A docs \in SUBSET Doc : Snapshot(docs) \in Block
    /\ \A m \in Doc : Sent(m) \in Block /\ ClearText(m) \in Block
BY DEF Reload, ListenerError, Snapshot, Sent, ClearText, Block

-----------------------------------------------------------------------------
(* The first block leaves the queue.                                       *)

LEMMA TailBlocks ==
    ASSUME NEW q \in Seq(Block), q # <<>>
    PROVE  /\ \A i : SnapshotAt(Tail(q), i) => SnapshotAt(q, i + 1) /\ Tail(q)[i] = q[i + 1] /\ i \in Nat
           /\ \A i : SnapshotAt(q, i) => i = 1 \/ (SnapshotAt(Tail(q), i - 1) /\ Tail(q)[i - 1] = q[i])
           /\ \A what : Has(Tail(q), what) => Has(q, what)
           /\ \A what : Has(q, what) => Has(Tail(q), what) \/ q[1].what = what
           /\ AllFinite(q) => AllFinite(Tail(q)) /\ IsFiniteSet(q[1].docs)
<1>1. PICK t : t = Tail(q)
  OBVIOUS
<1>2. PICK n \in Nat \ {0} : n = Len(q)
  BY TailFacts
<1>3. /\ t \in Seq(Block) /\ Len(t) = n - 1
      /\ \A i \in 1..(n - 1) : t[i] = q[i + 1] /\ i + 1 \in 1..n
  BY <1>1, <1>2, TailFacts
<1>4. \A i \in 1..n : i = 1 \/ i - 1 \in 1..(n - 1)
  BY <1>2
<1>5. \A i \in 1..n : i = 1 \/ t[i - 1] = q[i]
  BY <1>2, <1>3
<1>6. 1 \in 1..n
  BY <1>2
<1>7. \A i : SnapshotAt(t, i) => SnapshotAt(q, i + 1) /\ t[i] = q[i + 1] /\ i \in Nat
  BY <1>2, <1>3 DEF SnapshotAt
<1>8. \A i : SnapshotAt(q, i) => i = 1 \/ (SnapshotAt(t, i - 1) /\ t[i - 1] = q[i])
  BY <1>2, <1>3, <1>4, <1>5 DEF SnapshotAt
<1>9. \A what : Has(t, what) => Has(q, what)
  BY <1>2, <1>3 DEF Has
<1>10. \A what : Has(q, what) => Has(t, what) \/ q[1].what = what
  BY <1>2, <1>3, <1>4, <1>5 DEF Has
<1>11. AllFinite(q) => AllFinite(t) /\ IsFiniteSet(q[1].docs)
  BY <1>2, <1>3, <1>6 DEF AllFinite
<1> QED
  BY <1>1, <1>7, <1>8, <1>9, <1>10, <1>11

LEMMA SnapshotLeaves ==
    ASSUME NEW q \in Seq(Block), q # <<>>, q[1].what = "snapshot",
           NEW shown, NEW seen, NEW out, Chain(q, shown, seen, out)
    PROVE  /\ (shown \ out) \subseteq q[1].docs
           /\ Chain(Tail(q), q[1].docs, seen, out)
           /\ EndsWith(q, shown, seen) => EndsWith(Tail(q), q[1].docs, seen)
<1>1. PICK t : t = Tail(q)
  OBVIOUS
<1>2. /\ \A i : SnapshotAt(t, i) => SnapshotAt(q, i + 1) /\ t[i] = q[i + 1] /\ i \in Nat
      /\ \A i : SnapshotAt(q, i) => i = 1 \/ (SnapshotAt(t, i - 1) /\ t[i - 1] = q[i])
  BY <1>1, TailBlocks
<1>3. SnapshotAt(q, 1)
  BY TailFacts DEF SnapshotAt
<1>4. \A i : SnapshotAt(t, i) => i \in Nat \ {0}
  BY <1>1, TailFacts DEF SnapshotAt
<1>5. (shown \ out) \subseteq q[1].docs
  BY <1>3 DEF Chain
<1>6. Chain(t, q[1].docs, seen, out)
  <2>1. ASSUME NEW i, SnapshotAt(t, i)
        PROVE  (q[1].docs \ out) \subseteq t[i].docs /\ (t[i].docs \ out) \subseteq seen
    <3>1. SnapshotAt(q, i + 1) /\ t[i] = q[i + 1] /\ 1 < i + 1
      BY <1>2, <1>4, <2>1
    <3> QED
      BY <1>3, <3>1 DEF Chain
  <2>2. ASSUME NEW i, NEW j, SnapshotAt(t, i), SnapshotAt(t, j), i < j
        PROVE  (t[i].docs \ out) \subseteq t[j].docs
    <3>1. /\ SnapshotAt(q, i + 1) /\ t[i] = q[i + 1]
          /\ SnapshotAt(q, j + 1) /\ t[j] = q[j + 1]
          /\ i \in Nat /\ j \in Nat
      BY <1>2, <2>2
    <3>2. i + 1 < j + 1
      BY <2>2, <3>1
    <3> QED
      BY <3>1, <3>2 DEF Chain
  <2>3. (q[1].docs \ out) \subseteq seen
    BY <1>3 DEF Chain
  <2> QED
    BY <2>1, <2>2, <2>3 DEF Chain
<1>7. ASSUME EndsWith(q, shown, seen) PROVE EndsWith(t, q[1].docs, seen)
  <2>1. ASSUME NEW i, SnapshotAt(t, i), \A j : SnapshotAt(t, j) => j <= i
        PROVE  t[i].docs = seen
    <3>1. SnapshotAt(q, i + 1) /\ t[i] = q[i + 1] /\ i \in Nat
      BY <1>2, <2>1
    <3>2. ASSUME NEW j, SnapshotAt(q, j) PROVE j <= i + 1
      <4>1. j \in Nat
        BY <3>2 DEF SnapshotAt
      <4>2. CASE j = 1
        BY <3>1, <4>2
      <4>3. CASE SnapshotAt(t, j - 1)
        BY <2>1, <3>1, <4>1, <4>3
      <4> QED
        BY <1>2, <3>2, <4>2, <4>3
    <3> QED
      BY <1>7, <3>1, <3>2 DEF EndsWith
  <2>2. ASSUME \A i : ~SnapshotAt(t, i) PROVE q[1].docs = seen
    <3>1. \A j : SnapshotAt(q, j) => j <= 1
      BY <1>2, <2>2
    <3> QED
      BY <1>3, <1>7, <3>1 DEF EndsWith
  <2> QED
    BY <2>1, <2>2 DEF EndsWith
<1> QED
  BY <1>1, <1>5, <1>6, <1>7

LEMMA OtherLeaves ==
    ASSUME NEW q \in Seq(Block), q # <<>>, q[1].what # "snapshot",
           NEW shown, NEW seen, NEW out, Chain(q, shown, seen, out)
    PROVE  /\ \A part \in SUBSET shown : Chain(Tail(q), part, seen, out)
           /\ EndsWith(q, shown, seen) => EndsWith(Tail(q), shown, seen)
<1>1. PICK t : t = Tail(q)
  OBVIOUS
<1>2. /\ \A i : SnapshotAt(t, i) => SnapshotAt(q, i + 1) /\ t[i] = q[i + 1] /\ i \in Nat
      /\ \A i : SnapshotAt(q, i) => i = 1 \/ (SnapshotAt(t, i - 1) /\ t[i - 1] = q[i])
  BY <1>1, TailBlocks
<1>3. \A i : SnapshotAt(q, i) => i \in Nat /\ i # 1
  BY DEF SnapshotAt
<1>4. ASSUME NEW part \in SUBSET shown PROVE Chain(t, part, seen, out)
  <2>1. ASSUME NEW i, SnapshotAt(t, i)
        PROVE  (part \ out) \subseteq t[i].docs /\ (t[i].docs \ out) \subseteq seen
    BY <1>2, <2>1 DEF Chain
  <2>2. ASSUME NEW i, NEW j, SnapshotAt(t, i), SnapshotAt(t, j), i < j
        PROVE  (t[i].docs \ out) \subseteq t[j].docs
    <3>1. /\ SnapshotAt(q, i + 1) /\ t[i] = q[i + 1]
          /\ SnapshotAt(q, j + 1) /\ t[j] = q[j + 1]
          /\ i \in Nat /\ j \in Nat
      BY <1>2, <2>2
    <3>2. i + 1 < j + 1
      BY <2>2, <3>1
    <3> QED
      BY <3>1, <3>2 DEF Chain
  <2>3. (part \ out) \subseteq seen
    BY DEF Chain
  <2> QED
    BY <2>1, <2>2, <2>3 DEF Chain
<1>5. ASSUME EndsWith(q, shown, seen) PROVE EndsWith(t, shown, seen)
  <2>1. ASSUME NEW i, SnapshotAt(t, i), \A j : SnapshotAt(t, j) => j <= i
        PROVE  t[i].docs = seen
    <3>1. SnapshotAt(q, i + 1) /\ t[i] = q[i + 1] /\ i \in Nat
      BY <1>2, <2>1
    <3>2. ASSUME NEW j, SnapshotAt(q, j) PROVE j <= i + 1
      <4>1. j \in Nat /\ SnapshotAt(t, j - 1)
        BY <1>2, <1>3, <3>2
      <4> QED
        BY <2>1, <3>1, <4>1
    <3> QED
      BY <1>5, <3>1, <3>2 DEF EndsWith
  <2>2. ASSUME \A i : ~SnapshotAt(t, i) PROVE shown = seen
    <3>1. \A j : ~SnapshotAt(q, j)
      BY <1>2, <1>3, <2>2
    <3> QED
      BY <1>5, <3>1 DEF EndsWith
  <2> QED
    BY <2>1, <2>2 DEF EndsWith
<1> QED
  BY <1>1, <1>4, <1>5

-----------------------------------------------------------------------------
(* Blocks come behind the queue.                                           *)

LEMMA BlocksBehind ==
    ASSUME NEW r, NEW q, NEW more, Behind(r, q, more)
    PROVE  /\ \A i : SnapshotAt(q, i) => SnapshotAt(r, i) /\ r[i] = q[i]
           /\ \A i : SnapshotAt(r, i) =>
                 \/ SnapshotAt(q, i)
                 \/ i > Len(q) /\ SnapshotAt(more, i - Len(q)) /\ r[i] = more[i - Len(q)]
           /\ \A i : SnapshotAt(q, i) => i \in Nat /\ i <= Len(q)
           /\ \A what : Has(q, what) => Has(r, what)
           /\ \A what : Has(r, what) => Has(q, what) \/ Has(more, what)
           /\ AllFinite(q) /\ AllFinite(more) => AllFinite(r)
<1>1. PICK m \in Nat : m = Len(q)
  BY DEF Behind
<1>2. PICK n \in Nat : n = Len(more)
  BY DEF Behind
<1>3. /\ Len(r) = m + n /\ \A i \in 1..m : r[i] = q[i]
      /\ \A i \in (m + 1)..(m + n) : i - m \in 1..n /\ r[i] = more[i - m]
  BY <1>1, <1>2 DEF Behind
<1>4. \A i \in 1..(m + n) : i \in 1..m \/ i \in (m + 1)..(m + n)
  OBVIOUS
<1>5. \A i \in 1..m : i \in 1..(m + n) /\ i \in Nat /\ i <= m
  OBVIOUS
<1>6. \A i \in (m + 1)..(m + n) : i > m
  OBVIOUS
<1>7. \A i : SnapshotAt(q, i) => SnapshotAt(r, i) /\ r[i] = q[i] /\ i \in Nat /\ i <= m
  BY <1>1, <1>3, <1>5 DEF SnapshotAt
<1>8. \A i : SnapshotAt(r, i) =>
         SnapshotAt(q, i) \/ (i > m /\ SnapshotAt(more, i - m) /\ r[i] = more[i - m])
  BY <1>1, <1>2, <1>3, <1>4, <1>6 DEF SnapshotAt
<1>9. \A what : Has(q, what) => Has(r, what)
  BY <1>1, <1>3, <1>5 DEF Has
<1>10. \A what : Has(r, what) => Has(q, what) \/ Has(more, what)
  BY <1>1, <1>2, <1>3, <1>4 DEF Has
<1>11. AllFinite(q) /\ AllFinite(more) => AllFinite(r)
  BY <1>1, <1>2, <1>3, <1>4 DEF AllFinite
<1> QED
  BY <1>1, <1>7, <1>8, <1>9, <1>10, <1>11

LEMMA OthersCome ==
    ASSUME NEW r, NEW q, NEW more, Behind(r, q, more), ~Has(more, "snapshot"),
           NEW shown, NEW seen, NEW out, Chain(q, shown, seen, out)
    PROVE  /\ Chain(r, shown, seen, out)
           /\ EndsWith(q, shown, seen) => EndsWith(r, shown, seen)
<1>1. \A i : ~SnapshotAt(more, i)
  BY DEF SnapshotAt, Has
<1>2. \A i : SnapshotAt(r, i) <=> SnapshotAt(q, i)
  BY <1>1, BlocksBehind
<1>3. \A i : SnapshotAt(q, i) => r[i] = q[i]
  BY BlocksBehind
<1> QED
  BY <1>2, <1>3 DEF Chain, EndsWith

LEMMA SnapshotComes ==
    ASSUME NEW r, NEW q, NEW more, Behind(r, q, more),
           NEW seen, Len(more) = 1, more[1].what = "snapshot", more[1].docs = seen,
           NEW shown, NEW old, NEW out, Chain(q, shown, old, out), (old \ out) \subseteq seen
    PROVE  Chain(r, shown, seen, out) /\ EndsWith(r, shown, seen)
<1>1. PICK m \in Nat : m = Len(q)
  BY DEF Behind
<1>2. Len(r) = m + 1 /\ m + 1 \in (m + 1)..(m + 1) /\ m + 1 - m = 1 /\ m + 1 \in 1..(m + 1)
  BY <1>1 DEF Behind
<1>3. r[m + 1] = more[1]
  BY <1>1, <1>2 DEF Behind
<1>4. SnapshotAt(r, m + 1) /\ r[m + 1].docs = seen
  BY <1>2, <1>3 DEF SnapshotAt
<1>5. \A i : SnapshotAt(r, i) => i = m + 1 \/ (SnapshotAt(q, i) /\ r[i] = q[i] /\ i \in Nat /\ i <= m)
  <2> SUFFICES ASSUME NEW i, SnapshotAt(r, i), i # m + 1
               PROVE  SnapshotAt(q, i) /\ r[i] = q[i] /\ i \in Nat /\ i <= m
    OBVIOUS
  <2>1. i \in 1..(m + 1)
    BY <1>2 DEF SnapshotAt
  <2>2. ~(i > m)
    BY <2>1
  <2> QED
    BY <1>1, <2>2, BlocksBehind
<1>6. \A i : SnapshotAt(r, i) => (r[i].docs \ out) \subseteq seen
  BY <1>4, <1>5 DEF Chain
<1>7. \A i : SnapshotAt(r, i) => (shown \ out) \subseteq r[i].docs
  <2>1. (shown \ out) \subseteq seen
    BY DEF Chain
  <2> QED
    BY <1>4, <1>5, <2>1 DEF Chain
<1>8. ASSUME NEW i, NEW j, SnapshotAt(r, i), SnapshotAt(r, j), i < j
      PROVE  (r[i].docs \ out) \subseteq r[j].docs
  <2>1. CASE j = m + 1
    BY <1>4, <1>6, <1>8, <2>1
  <2>2. CASE j # m + 1
    <3>1. j \in Nat /\ j <= m /\ SnapshotAt(q, j) /\ r[j] = q[j]
      BY <1>5, <1>8, <2>2
    <3>2. i # m + 1
      BY <1>8, <3>1
    <3>3. SnapshotAt(q, i) /\ r[i] = q[i]
      BY <1>5, <1>8, <3>2
    <3> QED
      BY <1>8, <3>1, <3>3 DEF Chain
  <2> QED
    BY <2>1, <2>2
<1>9. Chain(r, shown, seen, out)
  <2>1. (shown \ out) \subseteq seen
    BY DEF Chain
  <2> QED
    BY <1>6, <1>7, <1>8, <2>1 DEF Chain
<1>10. ASSUME NEW i, SnapshotAt(r, i), \A j : SnapshotAt(r, j) => j <= i
       PROVE  r[i].docs = seen
  <2>1. m + 1 <= i
    BY <1>4, <1>10
  <2>2. i = m + 1
    BY <1>5, <1>10, <2>1
  <2> QED
    BY <1>4, <2>2
<1> QED
  BY <1>4, <1>9, <1>10 DEF EndsWith

-----------------------------------------------------------------------------
(* A screen on which a block runs.                                         *)

LEMMA NoDocuments == IsFiniteSet({}) /\ Cardinality({}) = 0
  BY FS_EmptySet

LEMMA SnapshotFits ==
    ASSUME NEW q \in Seq(Block), q # <<>>, q[1].what = "snapshot",
           NEW shown, NEW seen, NEW out, NEW alive, NEW n \in Nat, NEW dead,
           ScreenFits(q, shown, seen, out, alive, n, dead), IsFiniteSet(shown),
           NEW r, r = Tail(q) \o Repeat(Reload, Cardinality(q[1].docs))
    PROVE  ScreenFits(r, q[1].docs, seen, out, alive, n, dead) /\ r \in Seq(Block)
<1>1. PICK docs : docs = q[1].docs
  OBVIOUS
<1>2. PICK t : t = Tail(q)
  OBVIOUS
<1>3. AllFinite(t) /\ IsFiniteSet(docs) /\ t \in Seq(Block)
  BY <1>1, <1>2, TailBlocks, TailFacts DEF ScreenFits
<1>4. PICK k \in Nat : k = Cardinality(docs)
  BY <1>3, FS_CardinalityType
<1>5. PICK more : more = Repeat(Reload, k)
  OBVIOUS
<1>6. more \in Seq(Block) /\ Len(more) = k /\ \A i \in 1..k : more[i] = Reload
  BY <1>5, RepeatFacts
<1>7. /\ \A i \in 1..Len(more) : more[i].what = "reload" /\ more[i].docs = {}
      /\ ~Has(more, "snapshot") /\ ~Has(more, "error") /\ AllFinite(more)
  <2>1. Reload.what = "reload" /\ Reload.docs = {}
    BY DEF Reload
  <2>2. \A i \in 1..Len(more) : more[i].what = "reload" /\ more[i].docs = {}
    BY <1>6, <2>1
  <2> QED
    BY <2>2, NoDocuments DEF Has, AllFinite
<1>8. Behind(r, t, more)
  BY <1>1, <1>2, <1>3, <1>4, <1>5, <1>6, ConcatBehind
<1>9. /\ (shown \ out) \subseteq docs /\ Chain(t, docs, seen, out)
      /\ EndsWith(q, shown, seen) => EndsWith(t, docs, seen)
  BY <1>1, <1>2, SnapshotLeaves DEF ScreenFits
<1>10. Chain(r, docs, seen, out) /\ (EndsWith(q, shown, seen) => EndsWith(r, docs, seen))
  BY <1>7, <1>8, <1>9, OthersCome
<1>11. AllFinite(r)
  BY <1>3, <1>7, <1>8, BlocksBehind
<1>12. Has(r, "error") => Has(q, "error")
  BY <1>2, <1>7, <1>8, BlocksBehind, TailBlocks
<1>13. docs # {} => Has(r, "reload")
  <2> SUFFICES ASSUME docs # {} PROVE Has(r, "reload")
    OBVIOUS
  <2>1. k # 0
    BY <1>3, <1>4, FS_EmptySet
  <2>2. PICK m \in Nat : m = Len(t)
    BY <1>8 DEF Behind
  <2>3. Len(r) = m + k /\ m + 1 \in (m + 1)..(m + k) /\ m + 1 \in 1..(m + k) /\ m + 1 - m = 1
    BY <1>6, <1>8, <2>1, <2>2 DEF Behind
  <2>4. \A i \in (m + 1)..(m + k) : r[i].what = "reload"
    BY <1>6, <1>7, <1>8, <2>2 DEF Behind
  <2>5. r[m + 1].what = "reload"
    BY <2>3, <2>4
  <2> QED
    BY <2>3, <2>5 DEF Has
<1>14. ASSUME out = {}, alive = TRUE PROVE InRange(r, docs, n, dead)
  <2>1. InRange(q, shown, n, dead) /\ shown \subseteq docs
    BY <1>9, <1>14 DEF ScreenFits
  <2>2. Cardinality(shown) <= k /\ Cardinality(shown) \in Nat
    BY <1>3, <1>4, <2>1, FS_Subset, FS_CardinalityType
  <2>3. n <= k
    BY <2>1, <2>2 DEF InRange
  <2>4. ASSUME Has(r, "reload") PROVE docs # {}
    <3>1. CASE Has(more, "reload")
      <4>1. \E i \in 1..k : TRUE
        BY <1>6, <3>1 DEF Has
      <4>2. k # 0
        BY <4>1
      <4> QED
        BY <1>4, <4>2, NoDocuments
    <3>2. CASE Has(t, "reload")
      BY <1>2, <2>1, <3>2, TailBlocks DEF InRange
    <3> QED
      BY <1>8, <2>4, <3>1, <3>2, BlocksBehind
  <2> QED
    BY <1>4, <2>1, <2>3, <2>4 DEF InRange
<1>15. ScreenFits(r, docs, seen, out, alive, n, dead)
  BY <1>10, <1>11, <1>12, <1>13, <1>14 DEF ScreenFits, Counted
<1> QED
  BY <1>1, <1>8, <1>15 DEF Behind

(* The error of the listener: it is not alive.                             *)
LEMMA ErrorFits ==
    ASSUME NEW q \in Seq(Block), q # <<>>, q[1].what = "error",
           NEW shown, NEW seen, NEW out, NEW alive, NEW n \in Nat, NEW dead,
           ScreenFits(q, shown, seen, out, alive, n, dead)
    PROVE  ScreenFits(Tail(q), {}, seen, out, alive, n, dead)
<1>1. PICK t : t = Tail(q)
  OBVIOUS
<1>2. 1 \in 1..Len(q)
  BY TailFacts
<1>3. Has(q, "error") /\ alive # TRUE
  BY <1>2 DEF Has, ScreenFits
<1>4. q[1].what # "snapshot" /\ {} \in SUBSET shown
  OBVIOUS
<1>5. Chain(t, {}, seen, out)
  BY <1>1, <1>4, OtherLeaves DEF ScreenFits
<1>6. AllFinite(t)
  BY <1>1, TailBlocks DEF ScreenFits
<1>7. ScreenFits(t, {}, seen, out, alive, n, dead)
  BY <1>3, <1>5, <1>6 DEF ScreenFits, Counted
<1> QED
  BY <1>1, <1>7

LEMMA ReloadFits ==
    ASSUME NEW q \in Seq(Block), q # <<>>, q[1].what = "reload",
           NEW shown, NEW seen, NEW out, NEW alive, NEW n, NEW dead,
           ScreenFits(q, shown, seen, out, alive, n, dead), IsFiniteSet(shown)
    PROVE  ScreenFits(Tail(q), shown, seen, out, alive, Cardinality(shown), shown = {})
<1>1. PICK t : t = Tail(q)
  OBVIOUS
<1>2. 1 \in 1..Len(q)
  BY TailFacts
<1>3. Has(q, "reload")
  BY <1>2 DEF Has
<1>4. q[1].what # "snapshot" /\ shown \in SUBSET shown
  OBVIOUS
<1>5. Chain(t, shown, seen, out) /\ (EndsWith(q, shown, seen) => EndsWith(t, shown, seen))
  BY <1>1, <1>4, OtherLeaves DEF ScreenFits
<1>6. AllFinite(t) /\ (Has(t, "error") => Has(q, "error"))
  BY <1>1, TailBlocks DEF ScreenFits
<1>7. PICK k \in Nat : k = Cardinality(shown)
  BY FS_CardinalityType
<1>8. ASSUME out = {}, alive = TRUE PROVE InRange(t, shown, k, shown = {})
  <2>1. shown # {}
    BY <1>3, <1>8 DEF ScreenFits, InRange
  <2>2. (shown = {}) = FALSE
    BY <2>1
  <2> QED
    BY <1>7, <2>1, <2>2 DEF InRange
<1>9. ScreenFits(t, shown, seen, out, alive, k, shown = {})
  BY <1>5, <1>6, <1>7, <1>8 DEF ScreenFits, Counted
<1> QED
  BY <1>1, <1>7, <1>9

(* A block that leaves the screen alone; it may be followed by another.    *)
LEMMA OtherFits ==
    ASSUME NEW q \in Seq(Block), q # <<>>, q[1].what \in {"sent", "clear"},
           NEW shown, NEW seen, NEW out, NEW alive, NEW n, NEW dead,
           ScreenFits(q, shown, seen, out, alive, n, dead),
           NEW more \in Seq(Block), \A i \in 1..Len(more) : more[i].what = "clear" /\ IsFiniteSet(more[i].docs)
    PROVE  ScreenFits(Tail(q) \o more, shown, seen, out, alive, n, dead)
<1>1. PICK t : t = Tail(q)
  OBVIOUS
<1>2. PICK r : r = t \o more
  OBVIOUS
<1>3. t \in Seq(Block) /\ q[1].what # "snapshot" /\ shown \in SUBSET shown
  BY <1>1, TailFacts
<1>4. Behind(r, t, more)
  BY <1>2, <1>3, ConcatBehind
<1>5. /\ ~Has(more, "snapshot") /\ ~Has(more, "error") /\ ~Has(more, "reload") /\ AllFinite(more)
  BY DEF Has, AllFinite
<1>6. Chain(t, shown, seen, out) /\ (EndsWith(q, shown, seen) => EndsWith(t, shown, seen))
  BY <1>1, <1>3, OtherLeaves DEF ScreenFits
<1>7. Chain(r, shown, seen, out) /\ (EndsWith(q, shown, seen) => EndsWith(r, shown, seen))
  BY <1>4, <1>5, <1>6, OthersCome
<1>8. AllFinite(r) /\ (Has(r, "error") => Has(q, "error"))
  BY <1>1, <1>4, <1>5, BlocksBehind, TailBlocks DEF ScreenFits
<1>9. Has(r, "reload") <=> Has(q, "reload")
  BY <1>1, <1>4, <1>5, BlocksBehind, TailBlocks
<1>10. ScreenFits(r, shown, seen, out, alive, n, dead)
  BY <1>7, <1>8, <1>9 DEF ScreenFits, Counted, InRange
<1> QED
  BY <1>1, <1>2, <1>10

-----------------------------------------------------------------------------
(* A screen that Firestore tells something, or nothing.                    *)

(* What there is to see grows, but for what is out.                        *)
Grows(old, seen, out, less) == out \subseteq less /\ (old \ less) \subseteq seen

(* The last block put on the queue, if any, is a snapshot of what there is *)
(* to see now.                                                             *)
Tells(more, alive, old, seen) ==
    \/ alive = TRUE /\ seen # old /\ more = <<Snapshot(seen)>>
    \/ ~(alive = TRUE /\ seen # old) /\ more = <<>>

LEMMA TellsSnapshots ==
    ASSUME NEW more, NEW alive, NEW old, NEW seen \in SUBSET Doc, Tells(more, alive, old, seen)
    PROVE  more \in Seq(Block) /\ \A i \in 1..Len(more) : more[i].what = "snapshot"
<1>1. CASE more = <<>>
  BY <1>1
<1>2. CASE more = <<Snapshot(seen)>>
  <2>1. more \in Seq(Block) /\ Len(more) = 1 /\ more[1] = Snapshot(seen)
    BY <1>2, BlocksAreBlocks
  <2> QED
    BY <2>1 DEF Snapshot
<1> QED
  BY <1>1, <1>2 DEF Tells

LEMMA ToldFits ==
    ASSUME NEW q \in Seq(Block), NEW shown, NEW old, NEW out, NEW alive, NEW n, NEW dead,
           ScreenFits(q, shown, old, out, alive, n, dead),
           NEW seen \in SUBSET Doc, IsFiniteSet(seen),
           NEW less, Grows(old, seen, out, less),
           NEW more, Tells(more, alive, old, seen),
           NEW r, r = q \o more
    PROVE  ScreenFits(r, shown, seen, less, alive, n, dead) /\ r \in Seq(Block)
<1>1. Chain(q, shown, old, less)
  BY DEF ScreenFits, Chain, Grows
<1>2. CASE alive = TRUE /\ seen # old
  <2>1. more = <<Snapshot(seen)>>
    BY <1>2 DEF Tells
  <2>2. more \in Seq(Block) /\ Len(more) = 1 /\ more[1] = Snapshot(seen)
    BY <2>1, BlocksAreBlocks
  <2>3. more[1].what = "snapshot" /\ more[1].docs = seen
    BY <2>2 DEF Snapshot
  <2>4. Behind(r, q, more)
    BY <1>2, <2>1, <2>2, ConcatBehind
  <2>5. \A i \in 1..Len(more) : i = 1
    BY <2>2
  <2>6. ~Has(more, "error") /\ ~Has(more, "reload") /\ AllFinite(more)
    BY <2>3, <2>5 DEF Has, AllFinite
  <2>7. Chain(r, shown, seen, less) /\ EndsWith(r, shown, seen)
    BY <1>1, <2>2, <2>3, <2>4, SnapshotComes DEF Grows
  <2>8. AllFinite(r) /\ (Has(r, "error") => Has(q, "error")) /\ (Has(r, "reload") <=> Has(q, "reload"))
    BY <2>4, <2>6, BlocksBehind DEF ScreenFits
  <2>9. less = {} => out = {}
    BY DEF Grows
  <2> QED
    BY <2>4, <2>7, <2>8, <2>9 DEF ScreenFits, Counted, InRange, Behind
<1>3. CASE ~(alive = TRUE /\ seen # old)
  <2>1. r = q
    BY <1>3, ConcatEmptySeq DEF Tells
  <2>2. Chain(q, shown, seen, less)
    BY <1>1 DEF Chain, Grows
  <2>3. alive = TRUE => seen = old
    BY <1>3
  <2>4. less = {} => out = {}
    BY DEF Grows
  <2> QED
    BY <2>1, <2>2, <2>3, <2>4 DEF ScreenFits
<1> QED
  BY <1>2, <1>3

(* One block that is not a snapshot, behind the queue; the listener may    *)
(* have failed.                                                            *)
LEMMA BlockFits ==
    ASSUME NEW q \in Seq(Block), NEW shown, NEW seen, NEW out, NEW alive, NEW n, NEW dead,
           ScreenFits(q, shown, seen, out, alive, n, dead),
           NEW block \in Block, IsFiniteSet(block.docs), NEW listens,
           \/ block.what = "sent" /\ listens = alive
           \/ block.what = "error" /\ listens = FALSE
    PROVE  /\ ScreenFits(q \o <<block>>, shown, seen, out, listens, n, dead)
           /\ q \o <<block>> \in Seq(Block)
<1>1. PICK more : more = <<block>>
  OBVIOUS
<1>2. more \in Seq(Block) /\ Len(more) = 1 /\ more[1] = block
  BY <1>1
<1>3. \A i \in 1..Len(more) : i = 1
  BY <1>2
<1>4. PICK r : r = q \o more
  OBVIOUS
<1>5. Behind(r, q, more)
  BY <1>2, <1>4, ConcatBehind
<1>6. ~Has(more, "snapshot") /\ ~Has(more, "reload") /\ AllFinite(more)
  BY <1>2, <1>3 DEF Has, AllFinite
<1>7. Chain(r, shown, seen, out) /\ (EndsWith(q, shown, seen) => EndsWith(r, shown, seen))
  BY <1>5, <1>6, OthersCome DEF ScreenFits
<1>8. AllFinite(r) /\ (Has(r, "reload") <=> Has(q, "reload"))
  BY <1>5, <1>6, BlocksBehind DEF ScreenFits
<1>9. listens = TRUE => alive = TRUE /\ ~Has(r, "error")
  <2> SUFFICES ASSUME listens = TRUE PROVE alive = TRUE /\ ~Has(r, "error")
    OBVIOUS
  <2>1. block.what = "sent" /\ alive = TRUE
    OBVIOUS
  <2>2. ~Has(more, "error")
    BY <1>2, <1>3, <2>1 DEF Has
  <2> QED
    BY <1>5, <2>1, <2>2, BlocksBehind DEF ScreenFits
<1>10. ScreenFits(r, shown, seen, out, listens, n, dead)
  BY <1>7, <1>8, <1>9 DEF ScreenFits, Counted, InRange
<1> QED
  BY <1>1, <1>4, <1>5, <1>10 DEF Behind

(* A screen that is opened.                                                *)
LEMMA OpenedFits ==
    ASSUME NEW seen \in SUBSET Doc, IsFiniteSet(seen), NEW out
    PROVE  /\ ScreenFits(<<Snapshot(seen)>>, {}, seen, out, TRUE, 0, FALSE)
           /\ <<Snapshot(seen)>> \in Seq(Block)
<1>1. PICK q : q = <<Snapshot(seen)>>
  OBVIOUS
<1>2. q \in Seq(Block) /\ Len(q) = 1 /\ q[1] = Snapshot(seen)
  BY <1>1, BlocksAreBlocks
<1>3. q[1].what = "snapshot" /\ q[1].docs = seen
  BY <1>2 DEF Snapshot
<1>4. \A i \in 1..Len(q) : i = 1
  BY <1>2
<1>5. AllFinite(q) /\ ~Has(q, "error") /\ ~Has(q, "reload")
  BY <1>3, <1>4 DEF AllFinite, Has
<1>6. \A i : SnapshotAt(q, i) => i = 1
  BY <1>4 DEF SnapshotAt
<1>7. SnapshotAt(q, 1)
  BY <1>2, <1>3 DEF SnapshotAt
<1>8. Chain(q, {}, seen, out) /\ EndsWith(q, {}, seen)
  BY <1>3, <1>6, <1>7 DEF Chain, EndsWith
<1>9. ScreenFits(q, {}, seen, out, TRUE, 0, FALSE)
  BY <1>5, <1>8, NoDocuments DEF ScreenFits, Counted, InRange
<1> QED
  BY <1>1, <1>2, <1>9

-----------------------------------------------------------------------------
(* The invariant.                                                          *)

(* What happens on another device is not seen on this one.                 *)
LEMMA OthersFit ==
    ASSUME NEW d \in Device, Fits(d),
           queue'[d] = queue[d], messages'[d] = messages[d], known'[d] = known[d],
           unsent'[d] = unsent[d], rejected'[d] = rejected[d], listening'[d] = listening[d],
           rows'[d] = rows[d], crashed'[d] = crashed[d]
    PROVE  Fits(d)'
BY DEF Fits, Visible

LEMMA FitsFields ==
    ASSUME IInv, NEW d \in Device
    PROVE  /\ queue[d] \in Seq(Block) /\ messages[d] \in SUBSET Doc /\ rows[d] \in Nat
           /\ listening[d] \in BOOLEAN /\ crashed[d] \in BOOLEAN
           /\ rejected[d] \in SUBSET Doc /\ Visible(d) \in SUBSET Doc
           /\ IsFiniteSet(messages[d]) /\ IsFiniteSet(Visible(d)) /\ Fits(d)
<1>1. /\ queue[d] \in Seq(Block) /\ messages[d] \in SUBSET Doc /\ rows[d] \in Nat
      /\ listening[d] \in BOOLEAN /\ crashed[d] \in BOOLEAN
      /\ rejected[d] \in SUBSET Doc /\ Visible(d) \in SUBSET Doc
  BY DEF IInv, MessagesTypeOK, Visible
<1>2. IsFiniteSet(messages[d]) /\ IsFiniteSet(unsent[d]) /\ IsFiniteSet(known[d])
  BY DEF IInv, Places
<1>3. IsFiniteSet(Visible(d))
  BY <1>2, FS_Union DEF Visible
<1> QED
  BY <1>1, <1>2, <1>3 DEF IInv

(* What is asked of the text field.                                        *)
AboutStored(q, docs) == \A i \in 1..Len(q) : q[i].what \in {"sent", "clear"} => q[i].docs \subseteq docs

LEMMA AboutBehind ==
    ASSUME NEW q \in Seq(Block), NEW more \in Seq(Block), NEW docs,
           AboutStored(q, docs), AboutStored(more, docs)
    PROVE  AboutStored(q \o more, docs)
<1>1. PICK r : r = q \o more
  OBVIOUS
<1>2. Behind(r, q, more)
  BY <1>1, ConcatBehind
<1>3. \A i \in 1..Len(r) : i \in 1..Len(q) \/ i \in (Len(q) + 1)..Len(r)
  BY <1>2 DEF Behind
<1>4. AboutStored(r, docs)
  BY <1>2, <1>3 DEF Behind, AboutStored
<1> QED
  BY <1>1, <1>4

LEMMA AboutTail ==
    ASSUME NEW q \in Seq(Block), q # <<>>, NEW docs, AboutStored(q, docs)
    PROVE  /\ AboutStored(Tail(q), docs)
           /\ q[1].what \in {"sent", "clear"} => q[1].docs \subseteq docs
<1>1. PICK t : t = Tail(q)
  OBVIOUS
<1>2. /\ 1 \in 1..Len(q)
      /\ \A i \in 1..Len(t) : t[i] = q[i + 1] /\ i + 1 \in 1..Len(q)
  BY <1>1, TailFacts
<1>3. AboutStored(t, docs)
  BY <1>2 DEF AboutStored
<1> QED
  BY <1>1, <1>2, <1>3 DEF AboutStored

LEMMA AboutMore ==
    ASSUME NEW q, NEW docs, NEW more, AboutStored(q, docs), docs \subseteq more
    PROVE  AboutStored(q, more)
BY DEF AboutStored

LEMMA AboutTold ==
    ASSUME NEW q \in Seq(Block), NEW docs, AboutStored(q, docs),
           NEW more, NEW alive, NEW old, NEW seen \in SUBSET Doc, Tells(more, alive, old, seen)
    PROVE  AboutStored(q \o more, docs)
<1>1. more \in Seq(Block) /\ \A i \in 1..Len(more) : more[i].what = "snapshot"
  BY TellsSnapshots
<1>2. AboutStored(more, docs)
  BY <1>1 DEF AboutStored
<1> QED
  BY <1>1, <1>2, AboutBehind

(* A step of one device.                                                   *)
LEMMA OneDevice ==
    ASSUME IInv, NEW d \in Device, MessagesTypeOK', Places', Fits(d)',
           AboutStored(queue'[d], server'), server \subseteq server',
           \A e \in Device \ {d} :
              /\ queue'[e] = queue[e] /\ messages'[e] = messages[e] /\ known'[e] = known[e]
              /\ unsent'[e] = unsent[e] /\ rejected'[e] = rejected[e]
              /\ listening'[e] = listening[e]
              /\ rows'[e] = rows[e] /\ crashed'[e] = crashed[e]
    PROVE  IInv'
<1>1. ASSUME NEW e \in Device PROVE Fits(e)'
  <2>1. CASE e = d
    BY <2>1
  <2>2. CASE e # d
    <3>1. Fits(e)
      BY DEF IInv
    <3> QED
      BY <2>2, <3>1, OthersFit
  <2> QED
    BY <2>1, <2>2
<1>2. ASSUME NEW e \in Device PROVE AboutStored(queue'[e], server')
  <2>1. AboutStored(queue[e], server)
    BY DEF IInv, ClearedForStored, AboutStored
  <2>2. AboutStored(queue[e], server')
    BY <2>1, AboutMore
  <2> QED
    BY <2>2
<1>3. ClearedForStored'
  BY <1>2 DEF ClearedForStored, AboutStored
<1> QED
  BY <1>1, <1>3 DEF IInv

(* ... that leaves what Firestore keeps as it is.                          *)
ScreenBecomes(d, r, shown, n, dead) ==
    /\ queue' = [queue EXCEPT ![d] = r] /\ messages' = [messages EXCEPT ![d] = shown]
    /\ rows' = [rows EXCEPT ![d] = n] /\ crashed' = [crashed EXCEPT ![d] = dead]
    /\ text' \in [Device -> BOOLEAN] /\ UNCHANGED firestore

LEMMA OneScreen ==
    ASSUME IInv, NEW d \in Device, NEW r \in Seq(Block), NEW n \in Nat, NEW dead \in BOOLEAN,
           NEW shown \in SUBSET Doc, IsFiniteSet(shown), ScreenBecomes(d, r, shown, n, dead),
           ScreenFits(r, shown, Visible(d), rejected[d], listening[d], n, dead),
           AboutStored(r, server)
    PROVE  IInv'
<1>1. MessagesTypeOK'
  BY DEF IInv, MessagesTypeOK, firestore, ScreenBecomes
<1>2. Places'
  BY DEF IInv, MessagesTypeOK, Places, firestore, ScreenBecomes
<1>3. /\ queue'[d] = r /\ messages'[d] = shown /\ rows'[d] = n /\ crashed'[d] = dead
      /\ \A e \in Device \ {d} :
            /\ queue'[e] = queue[e] /\ messages'[e] = messages[e]
            /\ rows'[e] = rows[e] /\ crashed'[e] = crashed[e]
  BY DEF IInv, MessagesTypeOK, ScreenBecomes
<1>4. Fits(d)'
  BY <1>3 DEF Fits, Visible, firestore, ScreenBecomes
<1> QED
  BY <1>1, <1>2, <1>3, <1>4, OneDevice DEF firestore, ScreenBecomes

LEMMA RunSnapshotKeeps ==
    ASSUME IInv, NEW d \in Device, RunSnapshot(d)
    PROVE  IInv'
<1>1. PICK q \in Seq(Block) : q = queue[d]
  BY FitsFields
<1>2. PICK docs : docs = q[1].docs
  OBVIOUS
<1>3. q # <<>> /\ q[1].what = "snapshot" /\ Head(q) = q[1] /\ q[1] \in Block
  BY <1>1, TailFacts DEF RunSnapshot, Runs
<1>4. PICK r : r = Tail(q) \o Repeat(Reload, Cardinality(docs))
  OBVIOUS
<1>5. /\ messages' = [messages EXCEPT ![d] = docs] /\ queue' = [queue EXCEPT ![d] = r]
      /\ UNCHANGED <<firestore, rows, text, crashed>>
  BY <1>1, <1>2, <1>3, <1>4 DEF RunSnapshot, DequeueThen
<1>6. /\ Fits(d) /\ rows[d] \in Nat /\ IsFiniteSet(messages[d]) /\ crashed[d] \in BOOLEAN
  BY FitsFields
<1>7. ScreenFits(q, messages[d], Visible(d), rejected[d], listening[d], rows[d], crashed[d])
  BY <1>1, <1>6 DEF Fits
<1>8. /\ ScreenFits(r, docs, Visible(d), rejected[d], listening[d], rows[d], crashed[d])
      /\ r \in Seq(Block)
  BY <1>2, <1>3, <1>4, <1>6, <1>7, SnapshotFits
<1>9. docs \in SUBSET Doc /\ IsFiniteSet(docs)
  BY <1>2, <1>3, <1>7, TailBlocks DEF Block, ScreenFits
<1>10. AboutStored(r, server)
  <2>1. PICK k \in Nat : k = Cardinality(docs)
    BY <1>9, FS_CardinalityType
  <2>2. PICK more : more = Repeat(Reload, k)
    OBVIOUS
  <2>3. more \in Seq(Block) /\ \A i \in 1..Len(more) : more[i] = Reload
    BY <2>2, RepeatFacts
  <2>4. AboutStored(more, server)
    BY <2>3 DEF AboutStored, Reload
  <2>5. AboutStored(q, server)
    BY <1>1 DEF IInv, ClearedForStored, AboutStored
  <2>6. AboutStored(Tail(q), server) /\ Tail(q) \in Seq(Block)
    BY <1>3, <2>5, AboutTail, TailFacts
  <2> QED
    BY <1>4, <2>1, <2>2, <2>3, <2>4, <2>6, AboutBehind
<1>11. /\ rows' = [rows EXCEPT ![d] = rows[d]] /\ crashed' = [crashed EXCEPT ![d] = crashed[d]]
       /\ text' \in [Device -> BOOLEAN] /\ UNCHANGED firestore
  BY <1>5 DEF IInv, MessagesTypeOK
<1>12. ScreenBecomes(d, r, docs, rows[d], crashed[d])
  BY <1>5, <1>11 DEF ScreenBecomes
<1> QED
  BY <1>6, <1>8, <1>9, <1>10, <1>12, OneScreen

LEMMA RunOtherKeeps ==
    ASSUME IInv, NEW d \in Device,
           RunListenerError(d) \/ RunReload(d) \/ RunSent(d) \/ RunClearText(d)
    PROVE  IInv'
<1>1. PICK q \in Seq(Block) : q = queue[d]
  BY FitsFields
<1>2. /\ q # <<>> /\ q[1].what \in {"error", "reload", "sent", "clear"}
      /\ Head(q) = q[1] /\ q[1] \in Block
  BY <1>1, TailFacts DEF RunListenerError, RunReload, RunSent, RunClearText, Runs
<1>3. PICK shown : shown = messages[d]
  OBVIOUS
<1>4. /\ Fits(d) /\ rows[d] \in Nat /\ IsFiniteSet(shown) /\ shown \in SUBSET Doc
      /\ crashed[d] \in BOOLEAN
  BY <1>3, FitsFields
<1>5. ScreenFits(q, shown, Visible(d), rejected[d], listening[d], rows[d], crashed[d])
  BY <1>1, <1>3, <1>4 DEF Fits
<1>6. PICK t \in Seq(Block) : t = Tail(q)
  BY <1>2, TailFacts
<1>7. t \o <<>> = t
  BY ConcatEmptySeq
<1>8. /\ AboutStored(t, server)
      /\ q[1].what \in {"sent", "clear"} => q[1].docs \subseteq server
  <2>1. AboutStored(q, server)
    BY <1>1 DEF IInv, ClearedForStored, AboutStored
  <2> QED
    BY <1>2, <1>6, <2>1, AboutTail
<1>9. UNCHANGED firestore
  BY DEF RunListenerError, RunReload, RunSent, RunClearText
<1>10. CASE RunListenerError(d)
  <2>1. /\ q[1].what = "error" /\ messages' = [messages EXCEPT ![d] = {}]
        /\ queue' = [queue EXCEPT ![d] = t] /\ UNCHANGED <<rows, text, crashed>>
    BY <1>1, <1>2, <1>6, <1>7, <1>10 DEF RunListenerError, Runs, DequeueThen
  <2>2. ScreenFits(t, {}, Visible(d), rejected[d], listening[d], rows[d], crashed[d])
    BY <1>2, <1>4, <1>5, <1>6, <2>1, ErrorFits
  <2>3. /\ rows' = [rows EXCEPT ![d] = rows[d]] /\ crashed' = [crashed EXCEPT ![d] = crashed[d]]
        /\ text' \in [Device -> BOOLEAN]
    BY <2>1 DEF IInv, MessagesTypeOK
  <2>4. IsFiniteSet({}) /\ {} \in SUBSET Doc
    BY NoDocuments
  <2>5. ScreenBecomes(d, t, {}, rows[d], crashed[d])
    BY <1>9, <2>1, <2>3 DEF ScreenBecomes
  <2> QED
    BY <1>4, <1>8, <2>2, <2>4, <2>5, OneScreen
<1>11. CASE RunReload(d)
  <2>1. /\ q[1].what = "reload" /\ rows' = [rows EXCEPT ![d] = Cardinality(shown)]
        /\ crashed' = [crashed EXCEPT ![d] = (shown = {})]
        /\ queue' = [queue EXCEPT ![d] = t] /\ UNCHANGED <<messages, text>>
    BY <1>1, <1>2, <1>3, <1>6, <1>7, <1>11 DEF RunReload, Runs, DequeueThen
  <2>2. ScreenFits(t, shown, Visible(d), rejected[d], listening[d], Cardinality(shown), shown = {})
    BY <1>2, <1>4, <1>5, <1>6, <2>1, ReloadFits
  <2>3. messages' = [messages EXCEPT ![d] = shown] /\ text' \in [Device -> BOOLEAN]
    BY <1>3, <2>1 DEF IInv, MessagesTypeOK
  <2>4. Cardinality(shown) \in Nat
    BY <1>4, FS_CardinalityType
  <2>5. PICK n \in Nat : n = Cardinality(shown)
    BY <2>4
  <2>6. PICK dead \in BOOLEAN : dead = (shown = {})
    OBVIOUS
  <2>7. ScreenFits(t, shown, Visible(d), rejected[d], listening[d], n, dead)
    BY <2>2, <2>5, <2>6
  <2>8. rows' = [rows EXCEPT ![d] = n] /\ crashed' = [crashed EXCEPT ![d] = dead]
    BY <2>1, <2>5, <2>6
  <2>9. ScreenBecomes(d, t, shown, n, dead)
    BY <1>9, <2>1, <2>3, <2>8 DEF ScreenBecomes
  <2> QED
    BY <1>4, <1>8, <2>7, <2>9, OneScreen
<1>12. CASE RunSent(d) \/ RunClearText(d)
  <2>1. PICK more : more = IF RunSent(d) THEN <<[q[1] EXCEPT !.what = "clear"]>> ELSE <<>>
    OBVIOUS
  <2>2. /\ q[1].what \in {"sent", "clear"}
        /\ queue' = [queue EXCEPT ![d] = t \o more] /\ UNCHANGED <<messages, rows, crashed>>
    BY <1>1, <1>2, <1>6, <1>12, <2>1 DEF RunSent, RunClearText, Runs, DequeueThen, screen
  <2>3. [q[1] EXCEPT !.what = "clear"] \in Block
    BY <1>2 DEF Block
  <2>4. /\ more \in Seq(Block)
        /\ \A i \in 1..Len(more) : more[i].what = "clear" /\ more[i].docs = q[1].docs
    <3>1. CASE RunSent(d)
      <4>1. more \in Seq(Block) /\ Len(more) = 1 /\ more[1] = [q[1] EXCEPT !.what = "clear"]
        BY <2>1, <2>3, <3>1
      <4>2. more[1].what = "clear" /\ more[1].docs = q[1].docs
        BY <1>2, <4>1 DEF Block
      <4>3. \A i \in 1..Len(more) : i = 1
        BY <4>1
      <4> QED
        BY <4>1, <4>2, <4>3
    <3>2. CASE ~RunSent(d)
      <4>1. more = <<>>
        BY <2>1, <3>2
      <4> QED
        BY <4>1
    <3> QED
      BY <3>1, <3>2
  <2>5. IsFiniteSet(q[1].docs)
    BY <1>2, <1>5, TailBlocks DEF ScreenFits
  <2>6. PICK r : r = t \o more
    OBVIOUS
  <2>7. ScreenFits(r, shown, Visible(d), rejected[d], listening[d], rows[d], crashed[d])
    BY <1>2, <1>5, <1>6, <2>2, <2>4, <2>5, <2>6, OtherFits
  <2>8. r \in Seq(Block) /\ AboutStored(r, server)
    <3>1. AboutStored(more, server)
      BY <1>8, <2>2, <2>4 DEF AboutStored
    <3> QED
      BY <1>8, <2>4, <2>6, <3>1, AboutBehind, ConcatProperties
  <2>9. /\ messages' = [messages EXCEPT ![d] = shown]
        /\ rows' = [rows EXCEPT ![d] = rows[d]] /\ crashed' = [crashed EXCEPT ![d] = crashed[d]]
    BY <1>3, <2>2 DEF IInv, MessagesTypeOK
  <2>10. text' \in [Device -> BOOLEAN]
    BY <1>12 DEF IInv, MessagesTypeOK, RunSent, RunClearText, screen
  <2>11. queue' = [queue EXCEPT ![d] = r]
    BY <2>2, <2>6
  <2>12. ScreenBecomes(d, r, shown, rows[d], crashed[d])
    BY <1>9, <2>9, <2>10, <2>11 DEF ScreenBecomes
  <2> QED
    BY <1>4, <2>7, <2>8, <2>12, OneScreen
<1> QED
  BY <1>10, <1>11, <1>12

LEMMA TypeOrDrawKeeps ==
    ASSUME IInv, NEW d \in Device, Type(d) \/ DrawMissingRow(d)
    PROVE  IInv'
<1>1. /\ queue[d] \in Seq(Block) /\ messages[d] \in SUBSET Doc /\ rows[d] \in Nat
      /\ crashed[d] \in BOOLEAN /\ IsFiniteSet(messages[d])
      /\ ScreenFits(queue[d], messages[d], Visible(d), rejected[d], listening[d], rows[d], crashed[d])
  BY FitsFields DEF Fits
<1>2. AboutStored(queue[d], server)
  BY DEF IInv, ClearedForStored, AboutStored
<1>3. CASE Type(d)
  <2>1. ScreenBecomes(d, queue[d], messages[d], rows[d], crashed[d])
    BY <1>3 DEF Type, ScreenBecomes, IInv, MessagesTypeOK
  <2> QED
    BY <1>1, <1>2, <2>1, OneScreen
<1>4. CASE DrawMissingRow(d)
  <2>1. ScreenBecomes(d, queue[d], messages[d], rows[d], TRUE)
    BY <1>4 DEF DrawMissingRow, ScreenBecomes, IInv, MessagesTypeOK
  <2>2. rows[d] > Cardinality(messages[d]) /\ Cardinality(messages[d]) \in Nat
    BY <1>1, <1>4, FS_CardinalityType DEF DrawMissingRow
  <2>3. ~(rejected[d] = {} /\ listening[d] = TRUE)
    BY <1>1, <2>2 DEF ScreenFits, InRange
  <2>4. ScreenFits(queue[d], messages[d], Visible(d), rejected[d], listening[d], rows[d], TRUE)
    BY <1>1, <2>3 DEF ScreenFits
  <2> QED
    BY <1>1, <1>2, <2>1, <2>4, OneScreen
<1> QED
  BY <1>3, <1>4

LEMMA RelaunchKeeps ==
    ASSUME IInv, NEW d \in Device, Relaunch(d)
    PROVE  IInv'
<1>1. PICK seen \in SUBSET Doc : seen = Visible(d) /\ IsFiniteSet(seen)
  BY FitsFields
<1>2. PICK r : r = <<Snapshot(seen)>>
  OBVIOUS
<1>3. /\ ScreenFits(r, {}, seen, rejected[d], TRUE, 0, FALSE) /\ r \in Seq(Block)
      /\ AboutStored(r, server)
  <2>1. Len(r) = 1 /\ r[1] = Snapshot(seen)
    BY <1>2
  <2>2. \A i \in 1..Len(r) : r[i].what = "snapshot"
    BY <2>1 DEF Snapshot
  <2> QED
    BY <1>1, <1>2, <2>2, OpenedFits DEF AboutStored
<1>4. MessagesTypeOK /\ Places
  BY DEF IInv
<1>5. /\ queue' = [queue EXCEPT ![d] = r] /\ messages' = [messages EXCEPT ![d] = {}]
      /\ rows' = [rows EXCEPT ![d] = 0] /\ crashed' = [crashed EXCEPT ![d] = FALSE]
      /\ listening' = [listening EXCEPT ![d] = TRUE] /\ text' = [text EXCEPT ![d] = FALSE]
      /\ closures' = [closures EXCEPT ![d] = {}]
      /\ UNCHANGED <<server, unsent, rejected, known>>
  BY <1>1, <1>2 DEF Relaunch
<1>6. MessagesTypeOK'
  <2>1. queue' \in [Device -> Seq(Block)]
    BY <1>3, <1>4, <1>5 DEF MessagesTypeOK
  <2>2. messages' \in [Device -> SUBSET Doc] /\ closures' \in [Device -> SUBSET Doc]
    BY <1>4, <1>5 DEF MessagesTypeOK
  <2>3. rows' \in [Device -> Nat] /\ text' \in [Device -> BOOLEAN]
    BY <1>4, <1>5 DEF MessagesTypeOK
  <2>4. crashed' \in [Device -> BOOLEAN] /\ listening' \in [Device -> BOOLEAN]
    BY <1>4, <1>5 DEF MessagesTypeOK
  <2> QED
    BY <1>4, <1>5, <2>1, <2>2, <2>3, <2>4 DEF MessagesTypeOK
<1>7. Places'
  BY <1>4, <1>5, NoDocuments DEF MessagesTypeOK, Places
<1>8. /\ queue'[d] = r /\ messages'[d] = {} /\ rows'[d] = 0 /\ crashed'[d] = FALSE
      /\ listening'[d] = TRUE /\ rejected'[d] = rejected[d]
      /\ known'[d] = known[d] /\ unsent'[d] = unsent[d] /\ server' = server
      /\ \A e \in Device \ {d} :
            /\ queue'[e] = queue[e] /\ messages'[e] = messages[e] /\ known'[e] = known[e]
            /\ unsent'[e] = unsent[e] /\ rejected'[e] = rejected[e]
            /\ listening'[e] = listening[e]
            /\ rows'[e] = rows[e] /\ crashed'[e] = crashed[e]
  BY <1>4, <1>5 DEF MessagesTypeOK
<1>9. Fits(d)'
  BY <1>1, <1>3, <1>8 DEF Fits, Visible
<1> QED
  BY <1>3, <1>6, <1>7, <1>8, <1>9, OneDevice

(* Firestore tells the listener of a device what there is to see.          *)
FirestoreBecomes(d, r, fresh, sent, gone, heard, alive) ==
    /\ queue' = [queue EXCEPT ![d] = r]
    /\ server' = fresh
    /\ unsent' = [unsent EXCEPT ![d] = sent]
    /\ rejected' = [rejected EXCEPT ![d] = gone]
    /\ known' = [known EXCEPT ![d] = heard]
    /\ listening' = [listening EXCEPT ![d] = alive]
    /\ closures' \in [Device -> SUBSET Doc]
    /\ UNCHANGED screen

LEMMA OneFirestore ==
    ASSUME IInv, NEW d \in Device, NEW r \in Seq(Block), NEW fresh \in SUBSET Doc,
           NEW sent \in SUBSET Doc, NEW gone \in SUBSET Doc, NEW heard \in SUBSET Doc,
           NEW alive \in BOOLEAN,
           FirestoreBecomes(d, r, fresh, sent, gone, heard, alive), Places', server \subseteq fresh,
           ScreenFits(r, messages[d], heard \cup sent, gone, alive, rows[d], crashed[d]),
           AboutStored(r, fresh)
    PROVE  IInv'
<1>1. MessagesTypeOK
  BY DEF IInv
<1>2. MessagesTypeOK'
  <2>1. queue' \in [Device -> Seq(Block)] /\ listening' \in [Device -> BOOLEAN]
    BY <1>1 DEF MessagesTypeOK, FirestoreBecomes
  <2>2. unsent' \in [Device -> SUBSET Doc] /\ rejected' \in [Device -> SUBSET Doc]
    BY <1>1 DEF MessagesTypeOK, FirestoreBecomes
  <2>3. known' \in [Device -> SUBSET Doc]
    BY <1>1 DEF MessagesTypeOK, FirestoreBecomes
  <2> QED
    BY <1>1, <2>1, <2>2, <2>3 DEF MessagesTypeOK, FirestoreBecomes, screen
<1>3. /\ queue'[d] = r /\ listening'[d] = alive /\ rejected'[d] = gone
      /\ known'[d] = heard /\ unsent'[d] = sent /\ server' = fresh
      /\ messages' = messages /\ rows' = rows /\ crashed' = crashed
      /\ \A e \in Device \ {d} :
            /\ queue'[e] = queue[e] /\ messages'[e] = messages[e] /\ known'[e] = known[e]
            /\ unsent'[e] = unsent[e] /\ rejected'[e] = rejected[e]
            /\ listening'[e] = listening[e]
            /\ rows'[e] = rows[e] /\ crashed'[e] = crashed[e]
  BY <1>1 DEF MessagesTypeOK, FirestoreBecomes, screen
<1>4. Fits(d)'
  BY <1>3 DEF Fits, Visible
<1> QED
  BY <1>2, <1>3, <1>4, OneDevice

LEMMA SendPressedKeeps ==
    ASSUME IInv, NEW d \in Device, NEW m \in Doc, SendPressed(d, m)
    PROVE  IInv'
<1>1. PICK q \in Seq(Block) : q = queue[d]
  BY FitsFields
<1>2. PICK old \in SUBSET Doc : old = Visible(d) /\ IsFiniteSet(old)
  BY FitsFields
<1>3. PICK seen : seen = old \cup {m}
  OBVIOUS
<1>4. PICK sent : sent = unsent[d] \cup {m}
  OBVIOUS
<1>a. PICK more : more = Told(d, seen) /\ Tells(more, listening[d], old, seen)
  BY <1>2, FitsFields DEF Told, Tells
<1>5. PICK r : r = q \o more
  OBVIOUS
<1>6. /\ ScreenFits(q, messages[d], old, rejected[d], listening[d], rows[d], crashed[d])
      /\ listening[d] \in BOOLEAN /\ rejected[d] \in SUBSET Doc
  BY <1>1, <1>2, FitsFields DEF Fits
<1>7. seen \in SUBSET Doc /\ IsFiniteSet(seen)
  BY <1>2, <1>3, FS_AddElement
<1>8. /\ ScreenFits(r, messages[d], seen, rejected[d], listening[d], rows[d], crashed[d])
      /\ r \in Seq(Block)
  <2>1. PICK out, alive : out = rejected[d] /\ alive = listening[d]
    OBVIOUS
  <2>2. PICK shown, n, dead : shown = messages[d] /\ n = rows[d] /\ dead = crashed[d]
    OBVIOUS
  <2>3. Grows(old, seen, out, out)
    BY <1>3 DEF Grows
  <2>4. ScreenFits(q, shown, old, out, alive, n, dead) /\ Tells(more, alive, old, seen)
    BY <1>a, <1>6, <2>1, <2>2
  <2>5. ScreenFits(r, shown, seen, out, alive, n, dead) /\ r \in Seq(Block)
    BY <1>5, <1>7, <2>3, <2>4, ToldFits
  <2> QED
    BY <2>1, <2>2, <2>5
<1>9. MessagesTypeOK /\ Places
  BY DEF IInv
<1>10. FirestoreBecomes(d, r, server, sent, rejected[d], known[d], listening[d])
  <2>1. r = q \o Told(d, seen)
    BY <1>a, <1>5
  <2> QED
    BY <1>1, <1>2, <1>3, <1>4, <1>9, <2>1
       DEF SendPressed, Notify, FirestoreBecomes, MessagesTypeOK
<1>11. seen = known[d] \cup sent
  BY <1>2, <1>3, <1>4 DEF Visible
<1>12. IsFiniteSet(sent) /\ sent \in SUBSET Doc /\ known[d] \in SUBSET Doc /\ server \in SUBSET Doc
  BY <1>4, <1>9, FS_AddElement DEF Places, MessagesTypeOK
<1>13. Fresh(m) /\ unsent' = [unsent EXCEPT ![d] = sent]
  BY <1>4 DEF SendPressed
<1>14. Places'
  <2>1. /\ server' = server /\ known' = known /\ rejected' = rejected /\ messages' = messages
        /\ unsent'[d] = unsent[d] \cup {m} /\ IsFiniteSet(unsent'[d])
        /\ \A e \in Device \ {d} : unsent'[e] = unsent[e]
    BY <1>4, <1>9, <1>12, <1>13 DEF SendPressed, screen, MessagesTypeOK
  <2> QED
    BY <1>9, <1>13, <2>1 DEF Places, Fresh
<1>15. AboutStored(r, server)
  <2>1. AboutStored(q, server)
    BY <1>1 DEF IInv, ClearedForStored, AboutStored
  <2> QED
    BY <1>a, <1>5, <1>7, <2>1, AboutTold
<1> QED
  BY <1>6, <1>8, <1>10, <1>11, <1>12, <1>14, <1>15, OneFirestore

LEMMA RejectKeeps ==
    ASSUME IInv, NEW d \in Device, NEW m \in Doc, Reject(d, m)
    PROVE  IInv'
<1>1. PICK q \in Seq(Block) : q = queue[d]
  BY FitsFields
<1>2. PICK old \in SUBSET Doc : old = Visible(d) /\ IsFiniteSet(old)
  BY FitsFields
<1>3. PICK seen : seen = old \ {m}
  OBVIOUS
<1>4. PICK sent : sent = unsent[d] \ {m}
  OBVIOUS
<1>5. PICK gone : gone = rejected[d] \cup {m}
  OBVIOUS
<1>6. PICK more : more = Told(d, seen) /\ Tells(more, listening[d], old, seen)
  BY <1>2, FitsFields DEF Told, Tells
<1>7. PICK r : r = q \o more
  OBVIOUS
<1>8. /\ ScreenFits(q, messages[d], old, rejected[d], listening[d], rows[d], crashed[d])
      /\ listening[d] \in BOOLEAN /\ rejected[d] \in SUBSET Doc
  BY <1>1, <1>2, FitsFields DEF Fits
<1>9. seen \in SUBSET Doc /\ IsFiniteSet(seen)
  BY <1>2, <1>3, FS_RemoveElement
<1>10. /\ ScreenFits(r, messages[d], seen, gone, listening[d], rows[d], crashed[d])
       /\ r \in Seq(Block)
  <2>1. PICK out, alive : out = rejected[d] /\ alive = listening[d]
    OBVIOUS
  <2>2. PICK shown, n, dead : shown = messages[d] /\ n = rows[d] /\ dead = crashed[d]
    OBVIOUS
  <2>3. Grows(old, seen, out, gone)
    BY <1>3, <1>5, <2>1 DEF Grows
  <2>4. ScreenFits(q, shown, old, out, alive, n, dead) /\ Tells(more, alive, old, seen)
    BY <1>6, <1>8, <2>1, <2>2
  <2>5. ScreenFits(r, shown, seen, gone, alive, n, dead) /\ r \in Seq(Block)
    BY <1>7, <1>9, <2>3, <2>4, ToldFits
  <2> QED
    BY <2>1, <2>2, <2>5
<1>11. MessagesTypeOK /\ Places
  BY DEF IInv
<1>12. m \in unsent[d] /\ unsent' = [unsent EXCEPT ![d] = sent] /\ rejected' = [rejected EXCEPT ![d] = gone]
  BY <1>4, <1>5 DEF Reject
<1>13. FirestoreBecomes(d, r, server, sent, gone, known[d], listening[d])
  <2>1. r = q \o Told(d, seen)
    BY <1>6, <1>7
  <2>2. queue' = [queue EXCEPT ![d] = r]
    BY <1>1, <1>2, <1>3, <2>1 DEF Reject, Notify
  <2> QED
    BY <1>11, <1>12, <2>2 DEF Reject, FirestoreBecomes, MessagesTypeOK
<1>14. seen = known[d] \cup sent
  <2>1. m \notin known[d]
    BY <1>11, <1>12 DEF Places
  <2> QED
    BY <1>2, <1>3, <1>4, <2>1 DEF Visible
<1>15. /\ IsFiniteSet(sent) /\ sent \in SUBSET Doc /\ gone \in SUBSET Doc
       /\ known[d] \in SUBSET Doc /\ server \in SUBSET Doc
  BY <1>4, <1>5, <1>11, FS_RemoveElement DEF Places, MessagesTypeOK
<1>16. Places'
  <2>1. /\ server' = server /\ known' = known /\ messages' = messages
        /\ unsent'[d] = unsent[d] \ {m} /\ IsFiniteSet(unsent'[d])
        /\ rejected'[d] = rejected[d] \cup {m}
        /\ \A e \in Device \ {d} : unsent'[e] = unsent[e] /\ rejected'[e] = rejected[e]
    BY <1>4, <1>5, <1>11, <1>12, <1>15 DEF Reject, screen, MessagesTypeOK
  <2>2. m \notin server /\ \A e \in Device \ {d} : m \notin unsent[e]
    BY <1>11, <1>12 DEF Places
  <2>3. ASSUME NEW e \in Device
        PROVE  /\ IsFiniteSet(unsent'[e]) /\ IsFiniteSet(known'[e]) /\ IsFiniteSet(messages'[e])
               /\ known'[e] \subseteq server' /\ unsent'[e] \subseteq unsent[e]
               /\ unsent'[e] \cap server' = {} /\ rejected'[e] \cap server' = {}
               /\ rejected'[e] \subseteq rejected[e] \cup {m} /\ m \notin unsent'[e]
    <3>1. /\ IsFiniteSet(unsent[e]) /\ IsFiniteSet(known[e]) /\ IsFiniteSet(messages[e])
          /\ known[e] \subseteq server /\ unsent[e] \cap server = {} /\ rejected[e] \cap server = {}
      BY <1>11 DEF Places
    <3>2. CASE e = d
      BY <2>1, <2>2, <3>1, <3>2
    <3>3. CASE e # d
      BY <2>1, <2>2, <3>1, <3>3
    <3> QED
      BY <3>2, <3>3
  <2>4. \A e, f \in Device : unsent[e] \cap rejected[f] = {} /\ (f # e => unsent[e] \cap unsent[f] = {})
    BY <1>11 DEF Places
  <2>5. \A e, f \in Device : unsent'[e] \cap rejected'[f] = {}
    BY <2>3, <2>4
  <2>6. \A e, f \in Device : f # e => unsent'[e] \cap unsent'[f] = {}
    BY <2>3, <2>4
  <2> QED
    BY <1>11, <2>1, <2>3, <2>5, <2>6 DEF Places
<1>17. AboutStored(r, server)
  <2>1. AboutStored(q, server)
    BY <1>1 DEF IInv, ClearedForStored, AboutStored
  <2> QED
    BY <1>6, <1>7, <1>9, <2>1, AboutTold
<1> QED
  BY <1>8, <1>10, <1>13, <1>14, <1>15, <1>16, <1>17, OneFirestore

LEMMA DeliverKeeps ==
    ASSUME IInv, NEW d \in Device, Deliver(d)
    PROVE  IInv'
<1>1. PICK q \in Seq(Block) : q = queue[d]
  BY FitsFields
<1>2. PICK old \in SUBSET Doc : old = Visible(d) /\ IsFiniteSet(old)
  BY FitsFields
<1>3. PICK seen : seen = server \cup unsent[d]
  OBVIOUS
<1>4. PICK more : more = Told(d, seen) /\ Tells(more, listening[d], old, seen)
  BY <1>2, FitsFields DEF Told, Tells
<1>5. PICK r : r = q \o more
  OBVIOUS
<1>6. MessagesTypeOK /\ Places
  BY DEF IInv
<1>7. /\ ScreenFits(q, messages[d], old, rejected[d], listening[d], rows[d], crashed[d])
      /\ listening[d] \in BOOLEAN /\ rejected[d] \in SUBSET Doc
  BY <1>1, <1>2, FitsFields DEF Fits
<1>8. IsFiniteSet(server) /\ IsFiniteSet(unsent[d]) /\ known[d] \subseteq server
  BY <1>6 DEF Places
<1>9. server \in SUBSET Doc /\ unsent[d] \in SUBSET Doc
  BY <1>6 DEF MessagesTypeOK
<1>10. seen \in SUBSET Doc /\ IsFiniteSet(seen) /\ old \subseteq seen
  BY <1>2, <1>3, <1>8, <1>9, FS_Union DEF Visible
<1>11. /\ ScreenFits(r, messages[d], seen, rejected[d], listening[d], rows[d], crashed[d])
       /\ r \in Seq(Block)
  <2>1. PICK out, alive : out = rejected[d] /\ alive = listening[d]
    OBVIOUS
  <2>2. PICK shown, n, dead : shown = messages[d] /\ n = rows[d] /\ dead = crashed[d]
    OBVIOUS
  <2>3. Grows(old, seen, out, out)
    BY <1>10 DEF Grows
  <2>4. ScreenFits(q, shown, old, out, alive, n, dead) /\ Tells(more, alive, old, seen)
    BY <1>4, <1>7, <2>1, <2>2
  <2>5. ScreenFits(r, shown, seen, out, alive, n, dead) /\ r \in Seq(Block)
    BY <1>5, <1>10, <2>3, <2>4, ToldFits
  <2> QED
    BY <2>1, <2>2, <2>5
<1>12. FirestoreBecomes(d, r, server, unsent[d], rejected[d], server, listening[d])
  <2>1. queue' = [queue EXCEPT ![d] = r]
    BY <1>1, <1>3, <1>4, <1>5 DEF Deliver, Notify
  <2> QED
    BY <1>6, <2>1 DEF Deliver, FirestoreBecomes, MessagesTypeOK
<1>13. Places'
  BY <1>6, <1>8 DEF Deliver, Places, MessagesTypeOK, screen
<1>14. AboutStored(r, server)
  <2>1. AboutStored(q, server)
    BY <1>1 DEF IInv, ClearedForStored, AboutStored
  <2> QED
    BY <1>4, <1>5, <1>10, <2>1, AboutTold
<1> QED
  BY <1>3, <1>7, <1>9, <1>11, <1>12, <1>13, <1>14, OneFirestore

LEMMA AcceptKeeps ==
    ASSUME IInv, NEW d \in Device, NEW m \in Doc, Accept(d, m)
    PROVE  IInv'
<1>1. PICK q \in Seq(Block) : q = queue[d]
  BY FitsFields
<1>2. PICK seen : seen = Visible(d)
  OBVIOUS
<1>3. PICK sent : sent = unsent[d] \ {m}
  OBVIOUS
<1>4. PICK heard : heard = known[d] \cup {m}
  OBVIOUS
<1>5. PICK fresh : fresh = server \cup {m}
  OBVIOUS
<1>6. PICK r : r = IF m \in closures[d] THEN q \o <<Sent(m)>> ELSE q
  OBVIOUS
<1>7. MessagesTypeOK /\ Places
  BY DEF IInv
<1>8. /\ ScreenFits(q, messages[d], seen, rejected[d], listening[d], rows[d], crashed[d])
      /\ listening[d] \in BOOLEAN /\ rejected[d] \in SUBSET Doc
  BY <1>1, <1>2, FitsFields DEF Fits
<1>9. Sent(m) \in Block /\ Sent(m).what = "sent" /\ Sent(m).docs = {m} /\ IsFiniteSet({m})
  BY BlocksAreBlocks, FS_Singleton DEF Sent
<1>10. AboutStored(q, fresh)
  BY <1>1, <1>5 DEF IInv, ClearedForStored, AboutStored
<1>11. /\ ScreenFits(r, messages[d], seen, rejected[d], listening[d], rows[d], crashed[d])
       /\ r \in Seq(Block) /\ AboutStored(r, fresh)
  <2>1. CASE m \in closures[d]
    <3>1. r = q \o <<Sent(m)>>
      BY <1>6, <2>1
    <3>2. PICK out, alive : out = rejected[d] /\ alive = listening[d]
      OBVIOUS
    <3>3. PICK shown, n, dead : shown = messages[d] /\ n = rows[d] /\ dead = crashed[d]
      OBVIOUS
    <3>4. ScreenFits(q, shown, seen, out, alive, n, dead)
      BY <1>8, <3>2, <3>3
    <3>5. PICK block \in Block : block = Sent(m)
      BY <1>9
    <3>6. block.what = "sent" /\ block.docs = {m} /\ IsFiniteSet(block.docs)
      BY <1>9, <3>5
    <3>7. /\ ScreenFits(q \o <<block>>, shown, seen, out, alive, n, dead)
          /\ q \o <<block>> \in Seq(Block)
      BY <3>4, <3>6, BlockFits
    <3>8. PICK more : more = <<block>>
      OBVIOUS
    <3>9. more \in Seq(Block) /\ \A i \in 1..Len(more) : more[i] = block
      BY <3>8
    <3>10. AboutStored(more, fresh)
      BY <1>5, <3>6, <3>9 DEF AboutStored
    <3>11. AboutStored(q \o more, fresh)
      BY <1>10, <3>9, <3>10, AboutBehind
    <3> QED
      BY <3>1, <3>2, <3>3, <3>5, <3>7, <3>8, <3>11
  <2>2. CASE m \notin closures[d]
    BY <1>6, <1>8, <1>10, <2>2
  <2> QED
    BY <2>1, <2>2
<1>12. m \in unsent[d]
  BY DEF Accept
<1>13. FirestoreBecomes(d, r, fresh, sent, rejected[d], heard, listening[d])
  <2>1. q \o <<>> = q
    BY ConcatEmptySeq
  <2>2. r = q \o (IF m \in closures[d] THEN <<Sent(m)>> ELSE <<>>)
    BY <1>6, <2>1
  <2>3. queue' = [queue EXCEPT ![d] = r]
    BY <1>1, <2>2 DEF Accept, Notify
  <2>4. /\ server' = fresh /\ unsent' = [unsent EXCEPT ![d] = sent]
        /\ known' = [known EXCEPT ![d] = heard]
    BY <1>3, <1>4, <1>5 DEF Accept
  <2> QED
    BY <1>7, <2>3, <2>4 DEF Accept, FirestoreBecomes, MessagesTypeOK
<1>14. seen = heard \cup sent
  BY <1>2, <1>3, <1>4, <1>12 DEF Visible
<1>15. /\ sent \in SUBSET Doc /\ heard \in SUBSET Doc /\ fresh \in SUBSET Doc
       /\ IsFiniteSet(sent) /\ IsFiniteSet(heard) /\ IsFiniteSet(fresh) /\ server \subseteq fresh
  BY <1>3, <1>4, <1>5, <1>7, FS_RemoveElement, FS_AddElement DEF Places, MessagesTypeOK
<1>16. Places'
  <2>1. /\ server' = server \cup {m} /\ IsFiniteSet(server')
        /\ rejected' = rejected /\ messages' = messages
        /\ unsent'[d] = unsent[d] \ {m} /\ IsFiniteSet(unsent'[d])
        /\ known'[d] = known[d] \cup {m} /\ IsFiniteSet(known'[d])
        /\ \A e \in Device \ {d} : unsent'[e] = unsent[e] /\ known'[e] = known[e]
    BY <1>3, <1>4, <1>5, <1>7, <1>15 DEF Accept, screen, MessagesTypeOK
  <2>2. \A e \in Device : m \notin rejected[e] /\ (e # d => m \notin unsent[e])
    BY <1>7, <1>12 DEF Places
  <2>3. ASSUME NEW e \in Device
        PROVE  /\ IsFiniteSet(unsent'[e]) /\ IsFiniteSet(known'[e]) /\ IsFiniteSet(messages'[e])
               /\ known'[e] \subseteq server' /\ unsent'[e] \subseteq unsent[e]
               /\ unsent'[e] \cap server' = {} /\ rejected'[e] \cap server' = {}
               /\ rejected'[e] = rejected[e]
    <3>1. /\ IsFiniteSet(unsent[e]) /\ IsFiniteSet(known[e]) /\ IsFiniteSet(messages[e])
          /\ known[e] \subseteq server /\ unsent[e] \cap server = {} /\ rejected[e] \cap server = {}
      BY <1>7 DEF Places
    <3>2. CASE e = d
      BY <2>1, <2>2, <3>1, <3>2
    <3>3. CASE e # d
      BY <2>1, <2>2, <3>1, <3>3
    <3> QED
      BY <3>2, <3>3
  <2>4. \A e, f \in Device : unsent[e] \cap rejected[f] = {} /\ (f # e => unsent[e] \cap unsent[f] = {})
    BY <1>7 DEF Places
  <2>5. \A e, f \in Device : unsent'[e] \cap rejected'[f] = {}
    BY <2>3, <2>4
  <2>6. \A e, f \in Device : f # e => unsent'[e] \cap unsent'[f] = {}
    BY <2>3, <2>4
  <2> QED
    BY <2>1, <2>3, <2>5, <2>6 DEF Places
<1> QED
  BY <1>8, <1>11, <1>13, <1>14, <1>15, <1>16, OneFirestore

LEMMA FailListenerKeeps ==
    ASSUME IInv, NEW d \in Device, FailListener(d)
    PROVE  IInv'
<1>1. PICK q \in Seq(Block) : q = queue[d]
  BY FitsFields
<1>2. MessagesTypeOK /\ Places
  BY DEF IInv
<1>3. PICK block \in Block : block = ListenerError /\ block.what = "error" /\ block.docs = {}
  BY BlocksAreBlocks DEF ListenerError
<1>4. PICK r : r = q \o <<block>>
  OBVIOUS
<1>5. ScreenFits(r, messages[d], Visible(d), rejected[d], FALSE, rows[d], crashed[d]) /\ r \in Seq(Block)
  <2>1. PICK out, alive, seen : out = rejected[d] /\ alive = listening[d] /\ seen = Visible(d)
    OBVIOUS
  <2>2. PICK shown, n, dead : shown = messages[d] /\ n = rows[d] /\ dead = crashed[d]
    OBVIOUS
  <2>3. ScreenFits(q, shown, seen, out, alive, n, dead)
    BY <1>1, <2>1, <2>2, FitsFields DEF Fits
  <2>4. ScreenFits(r, shown, seen, out, FALSE, n, dead) /\ r \in Seq(Block)
    BY <1>3, <1>4, <2>3, NoDocuments, BlockFits
  <2> QED
    BY <2>1, <2>2, <2>4
<1>6. FirestoreBecomes(d, r, server, unsent[d], rejected[d], known[d], FALSE)
  <2>1. queue' = [queue EXCEPT ![d] = r]
    BY <1>1, <1>3, <1>4 DEF FailListener, Notify
  <2> QED
    BY <1>2, <2>1 DEF FailListener, FirestoreBecomes, MessagesTypeOK
<1>7. Places'
  BY <1>2 DEF FailListener, Places, screen
<1>8. AboutStored(r, server)
  <2>1. AboutStored(q, server)
    BY <1>1 DEF IInv, ClearedForStored, AboutStored
  <2>2. PICK more : more = <<block>>
    OBVIOUS
  <2>3. more \in Seq(Block) /\ \A i \in 1..Len(more) : more[i] = block
    BY <2>2
  <2>4. AboutStored(more, server)
    BY <1>3, <2>3 DEF AboutStored
  <2> QED
    BY <1>4, <2>1, <2>2, <2>3, <2>4, AboutBehind
<1>9. /\ server \in SUBSET Doc /\ unsent[d] \in SUBSET Doc /\ rejected[d] \in SUBSET Doc
      /\ known[d] \in SUBSET Doc
  BY <1>2 DEF MessagesTypeOK
<1> QED
  BY <1>5, <1>6, <1>7, <1>8, <1>9, OneFirestore DEF Visible

-----------------------------------------------------------------------------
(* The theorems.                                                           *)

LEMMA Initially == MessagesInit => IInv
<1> SUFFICES ASSUME MessagesInit PROVE IInv
  OBVIOUS
<1>1. Snapshot({}) \in Block
  BY BlocksAreBlocks
<1>2. <<Snapshot({})>> \in Seq(Block)
  BY <1>1
<1>3. MessagesTypeOK
  BY <1>2 DEF MessagesInit, MessagesTypeOK
<1>4. Places
  BY NoDocuments DEF MessagesInit, Places
<1>5. ASSUME NEW d \in Device PROVE Fits(d)
  <2>1. PICK none \in SUBSET Doc : none = {}
    OBVIOUS
  <2>2. ScreenFits(<<Snapshot(none)>>, {}, none, {}, TRUE, 0, FALSE)
    BY <2>1, NoDocuments, OpenedFits
  <2>3. /\ queue[d] = <<Snapshot(none)>> /\ messages[d] = {} /\ Visible(d) = none
        /\ rejected[d] = {} /\ listening[d] = TRUE /\ rows[d] = 0 /\ crashed[d] = FALSE
    BY <2>1 DEF MessagesInit, Visible
  <2> QED
    BY <2>2, <2>3 DEF Fits
<1>6. ClearedForStored
  <2>1. PICK r : r = <<Snapshot({})>>
    OBVIOUS
  <2>2. Len(r) = 1 /\ r[1] = Snapshot({})
    BY <2>1
  <2>3. \A i \in 1..Len(r) : r[i].what = "snapshot"
    BY <2>2 DEF Snapshot
  <2> QED
    BY <2>1, <2>3 DEF MessagesInit, ClearedForStored
<1> QED
  BY <1>3, <1>4, <1>5, <1>6 DEF IInv

LEMMA Inductive == IInv /\ [MessagesNext]_messagesVars => IInv'
<1> SUFFICES ASSUME IInv, [MessagesNext]_messagesVars PROVE IInv'
  OBVIOUS
<1>1. CASE MessagesNext
  <2>1. PICK d \in Device :
          \/ RunMainQueue(d) \/ DrawMissingRow(d) \/ Type(d)
          \/ \E m \in Doc : SendPressed(d, m) \/ Accept(d, m) \/ Reject(d, m)
          \/ Deliver(d) \/ FailListener(d) \/ Relaunch(d)
    BY <1>1 DEF MessagesNext
  <2>2. CASE RunMainQueue(d)
    BY <2>2, RunSnapshotKeeps, RunOtherKeeps DEF RunMainQueue
  <2>3. CASE \E m \in Doc : SendPressed(d, m) \/ Accept(d, m) \/ Reject(d, m)
    BY <2>3, SendPressedKeeps, AcceptKeeps, RejectKeeps
  <2> QED
    BY <2>1, <2>2, <2>3, TypeOrDrawKeeps, DeliverKeeps, FailListenerKeeps, RelaunchKeeps
<1>2. CASE UNCHANGED messagesVars
  <2>1. ASSUME NEW d \in Device PROVE Fits(d)'
    BY <1>2 DEF IInv, Fits, Visible, messagesVars, firestore, screen
  <2>2. MessagesTypeOK' /\ Places' /\ ClearedForStored'
    BY <1>2 DEF IInv, MessagesTypeOK, Places, ClearedForStored, messagesVars, firestore, screen
  <2> QED
    BY <2>1, <2>2 DEF IInv
<1> QED
  BY <1>1, <1>2

(* The inductive invariant holds for every size of the system.             *)
THEOREM StaysIInv == MessagesSpec => []IInv
  BY Initially, Inductive, PTL DEF MessagesSpec

(* No table is asked for a row its array does not have, or has crashed for *)
(* it, on a device none of whose writes was rejected and whose listener    *)
(* lives; and the text field is cleared for messages the server has.       *)
THEOREM ScreensStayInRange == MessagesSpec => []MessagesInv
<1>1. IInv => MessagesInv
  <2> SUFFICES ASSUME IInv PROVE OutOfRangeNeedsLoss
    BY DEF IInv, MessagesInv
  <2>1. ASSUME NEW d \in Device, crashed[d] \/ rows[d] > Cardinality(messages[d]),
               rejected[d] = {}, listening[d]
        PROVE  FALSE
    <3>1. /\ ScreenFits(queue[d], messages[d], Visible(d), rejected[d], listening[d], rows[d], crashed[d])
          /\ listening[d] = TRUE /\ rows[d] \in Nat /\ IsFiniteSet(messages[d])
      BY <2>1, FitsFields DEF Fits
    <3>2. crashed[d] = FALSE /\ rows[d] <= Cardinality(messages[d]) /\ Cardinality(messages[d]) \in Nat
      BY <2>1, <3>1, FS_CardinalityType DEF ScreenFits, InRange
    <3> QED
      BY <2>1, <3>1, <3>2
  <2> QED
    BY <2>1 DEF OutOfRangeNeedsLoss
<1> QED
  BY <1>1, StaysIInv, PTL

(* A screen that has run its whole main queue shows what Firestore knows,  *)
(* and its table has counted it, whatever order the snapshots and the      *)
(* blocks that reload came in.                                             *)
THEOREM SettledScreensShowAll == MessagesSpec => []SettledShowsAll
<1>1. IInv => SettledShowsAll
  <2> SUFFICES ASSUME IInv, NEW d \in Device, queue[d] = <<>>, listening[d]
               PROVE  /\ messages[d] = Visible(d)
                      /\ messages[d] # {} => rows[d] = Cardinality(messages[d])
    BY DEF SettledShowsAll
  <2>1. /\ ScreenFits(queue[d], messages[d], Visible(d), rejected[d], listening[d], rows[d], crashed[d])
        /\ listening[d] = TRUE
    BY FitsFields DEF Fits
  <2>2. \A i \in 1..Len(queue[d]) : FALSE
    OBVIOUS
  <2> QED
    BY <2>1, <2>2 DEF ScreenFits, EndsWith, SnapshotAt, Counted, Has
<1> QED
  BY <1>1, StaysIInv, PTL

(* No order of snapshots takes a message the server has off a screen that  *)
(* shows it.                                                               *)
THEOREM StoredStaysShown == MessagesSpec => StoredNeverVanishes
<1>1. IInv /\ [MessagesNext]_messagesVars =>
        [\A d \in Device :
            (server \cap messages[d]) \subseteq messages'[d] \/ RunListenerError(d) \/ Relaunch(d)]_messagesVars
  <2> SUFFICES ASSUME IInv, MessagesNext, NEW d \in Device, ~RunListenerError(d), ~Relaunch(d)
               PROVE  (server \cap messages[d]) \subseteq messages'[d]
    OBVIOUS
  <2>1. CASE RunSnapshot(d)
    <3>1. PICK q \in Seq(Block) : q = queue[d]
      BY FitsFields
    <3>2. q # <<>> /\ q[1].what = "snapshot" /\ Head(q) = q[1]
      BY <2>1, <3>1, TailFacts DEF RunSnapshot, Runs
    <3>3. messages'[d] = q[1].docs
      BY <2>1, <3>1, <3>2 DEF RunSnapshot, IInv, MessagesTypeOK
    <3>4. Chain(q, messages[d], Visible(d), rejected[d])
      BY <3>1, FitsFields DEF Fits, ScreenFits
    <3>5. (messages[d] \ rejected[d]) \subseteq q[1].docs
      BY <3>2, <3>4, SnapshotLeaves
    <3>6. rejected[d] \cap server = {}
      BY DEF IInv, Places
    <3> QED
      BY <3>3, <3>5, <3>6
  <2>2. CASE ~RunSnapshot(d)
    <3>1. messages'[d] = messages[d]
      BY <2>2 DEF MessagesNext, RunMainQueue, RunSnapshot, RunListenerError, RunReload, RunSent,
            RunClearText, DrawMissingRow, Type, SendPressed, Accept, Reject, Deliver,
            FailListener, Relaunch, screen, IInv, MessagesTypeOK
    <3> QED
      BY <3>1
  <2> QED
    BY <2>1, <2>2
<1> QED
  BY <1>1, StaysIInv, PTL DEF MessagesSpec, StoredNeverVanishes

=============================================================================
