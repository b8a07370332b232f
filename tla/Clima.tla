-------------------------------- MODULE Clima -------------------------------
(***************************************************************************)
(* Clima: the weather of a city that was typed, or of where the device is. *)
(* The location is asked for when the app starts and by a button, comes    *)
(* some time later or not at all, and only then asks for the weather.      *)
(***************************************************************************)
EXTENDS LateAnswers

CONSTANTS
    City,           \* texts that are a city; "" is the empty text
    NoURL,          \* those of them URL(string:) takes for no address
    Here            \* the weather of where the device is

ASSUME CityAssumption == "" \notin City /\ NoURL \subseteq City /\ Here \notin City
ASSUME WhatAssumption == City \union {"", Here} \subseteq What

VARIABLES
    text,           \* the search field
    editing,        \* whether it has the keyboard
    locating        \* whether a location was requested and has not come

climaVars == <<asked, flying, main, label, burst, missed, text, editing, locating>>

Pending == locating \/ Underway

(***************************************************************************)
(* viewDidLoad requests a location.                                        *)
(***************************************************************************)
ClimaInit ==
    /\ NothingSent({Here})
    /\ text = ""
    /\ editing = FALSE
    /\ locating = TRUE

(***************************************************************************)
(* The user taps the search field, and types.                              *)
(***************************************************************************)
BeginEditing ==
    /\ ~editing
    /\ editing' = TRUE
    /\ UNCHANGED <<asked, flying, main, label, burst, missed, text, locating>>

Type(t) ==
    /\ editing
    /\ text' = t
    /\ UNCHANGED <<asked, flying, main, label, burst, missed, editing, locating>>

(***************************************************************************)
(* fetchWeather of a city, and performRequest's test of the address.       *)
(***************************************************************************)
FetchWeather(city) ==
    IF city \in NoURL THEN UNCHANGED answers ELSE PerformRequest(city)

(***************************************************************************)
(* The search button, or return.  The end of editing is forced, so that    *)
(* textFieldShouldEndEditing cannot keep an empty text from being sent.    *)
(***************************************************************************)
EndEditing ==
    /\ editing
    /\ Len(asked) < MaxAsked
    /\ editing' = FALSE
    /\ FetchWeather(text)
    /\ text' = ""
    /\ Intend(text, Pending, text \in NoURL)
    /\ UNCHANGED locating

(***************************************************************************)
(* locationPressed; a request for a location while there is one is one.    *)
(***************************************************************************)
LocationPressed ==
    /\ locating' = TRUE
    /\ Intend(Here, Pending, FALSE)
    /\ UNCHANGED <<asked, flying, main, label, text, editing>>

(***************************************************************************)
(* The location comes, once for each request, or does not.                 *)
(***************************************************************************)
DidUpdateLocations ==
    /\ locating
    /\ Len(asked) < MaxAsked
    /\ locating' = FALSE
    /\ PerformRequest(Here)
    /\ UNCHANGED <<burst, missed, text, editing>>

LocationFails ==
    /\ locating
    /\ locating' = FALSE
    /\ missed' = TRUE
    /\ UNCHANGED <<asked, flying, main, label, burst, text, editing>>

(***************************************************************************)
(* The answers.  An empty search is answered by an error.                  *)
(***************************************************************************)
AnswerComes ==
    /\ \/ \E r \in flying : asked[r] # "" /\ Succeeds(r)
       \/ \E r \in flying : DidFailWithError(r)
       \/ DidUpdate
    /\ UNCHANGED <<text, editing, locating>>

ClimaNext ==
    \/ BeginEditing
    \/ \E t \in City \union {""} : Type(t)
    \/ EndEditing
    \/ LocationPressed
    \/ DidUpdateLocations
    \/ LocationFails
    \/ AnswerComes

ClimaSpec == ClimaInit /\ [][ClimaNext]_climaVars

(***************************************************************************)
(* Every variable keeps its type, and each request is answered once.       *)
(***************************************************************************)
ClimaTypeOK ==
    /\ AnswersTypeOK
    /\ text \in City \union {""}
    /\ editing \in BOOLEAN
    /\ locating \in BOOLEAN

(***************************************************************************)
(* When nothing is under way and all went well, the weather shown is one   *)
(* the user asked for since the screen last was at rest: however searches, *)
(* the location button and their answers interleave (WeatherManager's      *)
(* performRequest compares nothing), what was asked for before is not what *)
(* is left on the screen, and who asked for one thing only sees that.      *)
(***************************************************************************)
SettledShowsAsked ==
    ~Pending /\ ~missed => label # 0 /\ asked[label] \in burst

(***************************************************************************)
(* The requests are what they are taken for, and their outcome is the      *)
(* user's last wish or one of the last.                                    *)
(***************************************************************************)
ClimaInv == ClimaTypeOK /\ SettledShowsAsked
=============================================================================
