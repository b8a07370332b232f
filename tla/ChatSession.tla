----------------------------- MODULE ChatSession -----------------------------
(***************************************************************************)
(* UIKit/Flash Chat: who is signed in, and what is on screen.              *)
(*                                                                         *)
(* Welcome is the root of a navigation stack; Sign In or Sign Up is pushed *)
(* on it, and Chat on any of them when a request to Firebase Auth has been *)
(* answered.  Answers come in any order and at any time: after the button  *)
(* was tapped twice, after the user went back, after a sign-out.  Firebase *)
(* sets currentUser before it calls the closure, whatever is on screen.    *)
(*                                                                         *)
(* Taken from UIKit: a closure of a view controller that has been popped   *)
(* may call performSegue, but nothing is shown; one that is in the stack,  *)
(* even below another, pushes.  popToRoot calls viewWillAppear of the root *)
(* in a later turn of the run loop.  Chat hides its back button, so it is  *)
(* left by signing out only.  A back swipe from a form is taken to finish. *)
(***************************************************************************)
EXTENDS Naturals, Sequences, FiniteSets

CONSTANTS
    User,           \* e-mail addresses
    Request,        \* names of requests, which bound how many are in flight
    Nil

ASSUME NilAssumption == Nil \notin User

VARIABLES
    currentUser,    \* Auth.auth().currentUser, kept in the keychain
    form,           \* "signIn" or "signUp" if that is on the stack, else "none"
    chats,          \* the chats above it, each by what its userLabel says
    appearing,      \* will Welcome's viewWillAppear run?
    inFlight        \* the requests that have not been answered

sessionVars == <<currentUser, form, chats, appearing, inFlight>>

(* A request: whose it is, and whether the form that made it is still in   *)
(* the stack.                                                              *)
Pending == [user : User, shown : BOOLEAN]

SessionInit ==
    /\ currentUser \in User \cup {Nil}
    /\ form = "none"
    /\ chats = <<>>
    /\ appearing = TRUE
    /\ inFlight = [r \in Request |-> Nil]

(* performSegue to a chat, whose viewDidLoad puts the present user's       *)
(* e-mail in the label.                                                    *)
PushChat(user) == chats' = Append(chats, user)

(* What popping a form makes of the closures that wait for an answer.      *)
Popped(pending) ==
    [r \in Request |->
        IF pending[r] = Nil THEN Nil ELSE [pending[r] EXCEPT !.shown = FALSE]]

-----------------------------------------------------------------------------
(* Fault: Welcome appears and looks at nobody.                             *)
Fault_WelcomeStays ==
    /\ appearing
    /\ appearing' = FALSE
    /\ UNCHANGED <<currentUser, form, chats, inFlight>>

(* viewWillAppear of Welcome: a user who is signed in goes on to the chat. *)
WelcomeAppears ==
    /\ appearing
    /\ appearing' = FALSE
    /\ IF currentUser # Nil THEN PushChat(currentUser) ELSE UNCHANGED chats
    /\ UNCHANGED <<currentUser, form, inFlight>>

OpenForm(kind) ==
    /\ ~appearing
    /\ form = "none"
    /\ chats = <<>>
    /\ form' = kind
    /\ UNCHANGED <<currentUser, chats, appearing, inFlight>>

(* The back button of a form.                                              *)
Back ==
    /\ form # "none"
    /\ chats = <<>>
    /\ form' = "none"
    /\ appearing' = TRUE
    /\ inFlight' = Popped(inFlight)
    /\ UNCHANGED <<currentUser, chats>>

(* signInPressed and signUpPressed: nothing keeps the button from being    *)
(* tapped again before the answer.                                         *)
Pressed(r, user) ==
    /\ form # "none"
    /\ chats = <<>>
    /\ inFlight[r] = Nil
    /\ inFlight' = [inFlight EXCEPT ![r] = [user |-> user, shown |-> TRUE]]
    /\ UNCHANGED <<currentUser, form, chats, appearing>>

(* The closure with a result: Firebase has set currentUser.                *)
Answered(r) ==
    /\ inFlight[r] # Nil
    /\ currentUser' = inFlight[r].user
    /\ inFlight' = [inFlight EXCEPT ![r] = Nil]
    /\ IF inFlight[r].shown THEN PushChat(inFlight[r].user) ELSE UNCHANGED chats
    /\ UNCHANGED <<form, appearing>>

(* The closure with an error, which is printed: a wrong password, an       *)
(* account that exists, no connection.                                     *)
Refused(r) ==
    /\ inFlight[r] # Nil
    /\ inFlight' = [inFlight EXCEPT ![r] = Nil]
    /\ UNCHANGED <<currentUser, form, chats, appearing>>

(* Fault: only the topmost chat is popped.                                 *)
Fault_SignOutPopsOne(throws) ==
    /\ chats # <<>>
    /\ currentUser' = IF throws THEN currentUser ELSE Nil
    /\ chats' = SubSeq(chats, 1, Len(chats) - 1)
    /\ UNCHANGED <<form, appearing, inFlight>>

(* signOutPressed pops to the root before it signs out; a signOut that     *)
(* throws is printed.                                                      *)
SignOutPressed(throws) ==
    /\ chats # <<>>
    /\ form' = "none"
    /\ chats' = <<>>
    /\ appearing' = TRUE
    /\ inFlight' = Popped(inFlight)
    /\ currentUser' = IF throws THEN currentUser ELSE Nil

(* The process is killed and started again: the closures are gone,         *)
(* currentUser is read from the keychain.                                  *)
AppRelaunches ==
    /\ form' = "none"
    /\ chats' = <<>>
    /\ appearing' = TRUE
    /\ inFlight' = [r \in Request |-> Nil]
    /\ UNCHANGED currentUser

SessionNext ==
    \/ WelcomeAppears
    \/ \E kind \in {"signIn", "signUp"} : OpenForm(kind)
    \/ Back
    \/ \E r \in Request :
          \/ \E user \in User : Pressed(r, user)
          \/ Answered(r)
          \/ Refused(r)
    \/ \E throws \in BOOLEAN : SignOutPressed(throws)
    \/ AppRelaunches

(* The run loop turns: a transition that has begun is carried out.  Nobody *)
(* has to tap anything, and an answer may take for ever.                   *)
SessionFairness == WF_sessionVars(WelcomeAppears)

SessionSpec == SessionInit /\ [][SessionNext]_sessionVars /\ SessionFairness

-----------------------------------------------------------------------------
(* Every variable holds a value of its kind.                               *)
SessionTypeOK ==
    /\ currentUser \in User \cup {Nil}
    /\ form \in {"none", "signIn", "signUp"}
    /\ chats \in Seq(User)
    /\ appearing \in BOOLEAN
    /\ inFlight \in [Request -> Pending \cup {Nil}]

(* A chat is never on screen, nor below another, when nobody is signed in: *)
(* signOutPressed pops every chat that answers to repeated taps have       *)
(* stacked up, and no late answer pushes one without signing in.           *)
ChatNeedsUser == chats # <<>> => currentUser # Nil

(* Chats pile up above a form only, by answers to taps on its button: the  *)
(* chat Welcome goes on to is never covered by another, though answers to  *)
(* forms that were left may still come.                                    *)
PiledChatsHaveForm == Len(chats) > 1 => form # "none"

(* The screen is in step with Auth: who is signed in sees a chat that      *)
(* names them.                                                             *)
InStep ==
    ~appearing /\ currentUser # Nil =>
        chats # <<>> /\ chats[Len(chats)] = currentUser

(* It falls out of step in one way only: a request whose form the user has *)
(* left is answered.  Then somebody is signed in behind Welcome, or behind *)
(* a chat that still names another.                                        *)
OutOfStepOnlyByLateAnswer ==
    [][InStep /\ ~InStep' =>
         \E r \in Request : /\ inFlight[r] # Nil
                            /\ ~inFlight[r].shown
                            /\ currentUser' = inFlight[r].user
                            /\ inFlight'[r] = Nil]_sessionVars

(* Who is signed in when Welcome is about to appear, as after a launch or  *)
(* a signOut that threw, gets to the chat.                                 *)
SignedInReachesChat ==
    (appearing /\ currentUser # Nil) ~> chats # <<>>

-----------------------------------------------------------------------------
(* What keeps the screens in order: the closures that can push a chat      *)
(* belong to the form in the stack, and Welcome appears only when it is    *)
(* alone.                                                                  *)
PushersHaveForm ==
    \A r \in Request : inFlight[r] # Nil /\ inFlight[r].shown => form # "none"

AppearsAlone == appearing => form = "none" /\ chats = <<>>

SessionInv ==
    /\ SessionTypeOK
    /\ ChatNeedsUser
    /\ PiledChatsHaveForm
    /\ PushersHaveForm
    /\ AppearsAlone
=============================================================================
