----------------------------- MODULE WhatFlower ------------------------------
(***************************************************************************)
(* CoreML/WhatFlower: a photo is classified, Wikipedia is asked about the  *)
(* flower, and the screen shows the article with a picture and a button    *)
(* that opens it.                                                          *)
(*                                                                         *)
(* Nothing keeps a second photo from being taken before the first answer:  *)
(* answers come in any order, each is shown by a block on the main queue,  *)
(* and the picture of the article arrives later still, by SDWebImage.      *)
(* (detect's fatalErrors need an app built without its classifier, or an   *)
(* image that is none, and are left out.)                                  *)
(***************************************************************************)
EXTENDS Integers, Sequences, FiniteSets

CONSTANTS
    Flower,         \* what the classifier knows, and Wikipedia's articles
    Pictured,       \* the articles with a thumbnail
    Request,        \* names of requests, which bound how many are on their way
    NoArticle       \* no article: what is shown of it is empty strings

ASSUME NoArticleAssumption == NoArticle \notin Flower
ASSUME PicturedAssumption == Pictured \subseteq Flower

VARIABLES
    picker,         \* is the camera presented?
    inFlight,       \* the requests: what was photographed
    queue,          \* the main queue: the blocks that show an answer
    titleLabel,     \* titleLabel, by the article
    openURL,        \* ViewController.openURL, by the article
    picture,        \* imageView: a photo, or the thumbnail of an article
    loading,        \* the thumbnail SDWebImage is loading for imageView
    goShown         \* ~goButton.isHidden

flowerScreen == <<titleLabel, openURL, picture, loading, goShown>>
flowerVars == <<picker, inFlight, queue, flowerScreen>>

(* What the image view may hold.                                           *)
PhotoOf(flower) == [kind |-> "photo", flower |-> flower]
ThumbnailOf(article) == [kind |-> "thumbnail", flower |-> article]
NoPicture == [kind |-> "none", flower |-> NoArticle]

(* The answers that are awaited and those that are to be shown.            *)
OnTheirWay == Cardinality({r \in Request : inFlight[r] # NoArticle}) + Len(queue)

FlowerInit ==
    /\ picker = FALSE
    /\ inFlight = [r \in Request |-> NoArticle]
    /\ queue = <<>>
    /\ titleLabel = NoArticle
    /\ openURL = NoArticle
    /\ picture = NoPicture
    /\ loading = NoArticle
    /\ goShown = FALSE

TakePhoto ==
    /\ ~picker
    /\ picker' = TRUE
    /\ UNCHANGED <<inFlight, queue, flowerScreen>>

(* didFinishPicking: detect runs to its end, whose last act is to ask      *)
(* Wikipedia about the flower it takes it for, and the camera is           *)
(* dismissed.                                                              *)
PickPhoto(flower, r) ==
    /\ picker
    /\ OnTheirWay < Cardinality(Request)
    /\ inFlight[r] = NoArticle
    /\ inFlight' = [inFlight EXCEPT ![r] = flower]
    /\ picker' = FALSE
    /\ UNCHANGED <<queue, flowerScreen>>

(* It is dismissed too without a photo, or when the handler throws.        *)
PickNothing ==
    /\ picker
    /\ picker' = FALSE
    /\ UNCHANGED <<inFlight, queue, flowerScreen>>

(* Fault: the URL is kept as soon as the answer is read.                   *)
Fault_URLBeforeBlock(r, article) ==
    /\ inFlight[r] # NoArticle
    /\ article \in {inFlight[r], NoArticle}
    /\ queue' = Append(queue, [photo |-> inFlight[r], article |-> article])
    /\ inFlight' = [inFlight EXCEPT ![r] = NoArticle]
    /\ openURL' = article
    /\ UNCHANGED <<picker, titleLabel, picture, loading, goShown>>

(* The answer, an article or nothing that can be read, is put on the main  *)
(* queue with the photo the closure captured.                              *)
Respond(r, article) ==
    /\ inFlight[r] # NoArticle
    /\ article \in {inFlight[r], NoArticle}
    /\ queue' = Append(queue, [photo |-> inFlight[r], article |-> article])
    /\ inFlight' = [inFlight EXCEPT ![r] = NoArticle]
    /\ UNCHANGED <<picker, flowerScreen>>

(* Fault: an article without a thumbnail leaves the picture there is.      *)
Fault_PictureIfAny ==
    /\ queue # <<>>
    /\ LET answer == Head(queue)
       IN  /\ titleLabel' = answer.article
           /\ openURL' = answer.article
           /\ IF answer.article \in Pictured
              THEN picture' = PhotoOf(answer.photo) /\ loading' = answer.article
              ELSE UNCHANGED <<picture, loading>>
    /\ goShown' = TRUE
    /\ queue' = Tail(queue)
    /\ UNCHANGED <<picker, inFlight>>

(* The block: all of the screen at once.  sd_setImage shows the photo,     *)
(* drops what it was loading, and loads the thumbnail if there is one.     *)
ShowAnswer ==
    /\ queue # <<>>
    /\ LET answer == Head(queue)
       IN  /\ titleLabel' = answer.article
           /\ openURL' = answer.article
           /\ picture' = PhotoOf(answer.photo)
           /\ loading' = IF answer.article \in Pictured THEN answer.article ELSE NoArticle
    /\ goShown' = TRUE
    /\ queue' = Tail(queue)
    /\ UNCHANGED <<picker, inFlight>>

ImageLoaded ==
    /\ loading # NoArticle
    /\ picture' = ThumbnailOf(loading)
    /\ loading' = NoArticle
    /\ UNCHANGED <<picker, inFlight, queue, titleLabel, openURL, goShown>>

ImageFails ==
    /\ loading # NoArticle
    /\ loading' = NoArticle
    /\ UNCHANGED <<picker, inFlight, queue, titleLabel, openURL, picture, goShown>>

FlowerNext ==
    \/ TakePhoto
    \/ \E flower \in Flower, r \in Request : PickPhoto(flower, r)
    \/ PickNothing
    \/ \E r \in Request, article \in Flower \cup {NoArticle} : Respond(r, article)
    \/ ShowAnswer
    \/ ImageLoaded
    \/ ImageFails

(* The main queue is served, and a request is answered or times out.       *)
FlowerFairness ==
    /\ WF_flowerVars(ShowAnswer)
    /\ \A r \in Request :
           WF_flowerVars(\E article \in Flower \cup {NoArticle} : Respond(r, article))

FlowerSpec == FlowerInit /\ [][FlowerNext]_flowerVars /\ FlowerFairness

-----------------------------------------------------------------------------
(* Every variable holds a value of its kind.                               *)
FlowerTypeOK ==
    /\ picker \in BOOLEAN
    /\ inFlight \in [Request -> Flower \cup {NoArticle}]
    /\ queue \in Seq([photo : Flower, article : Flower \cup {NoArticle}])
    /\ titleLabel \in Flower \cup {NoArticle}
    /\ openURL \in Flower \cup {NoArticle}
    /\ picture \in [kind : {"none", "photo", "thumbnail"}, flower : Flower \cup {NoArticle}]
    /\ loading \in Pictured \cup {NoArticle}
    /\ goShown \in BOOLEAN

(* Whatever order the answers and the thumbnails come in, the button opens *)
(* the article whose title is shown.                                       *)
GoOpensTitled == openURL = titleLabel

(* And the picture is of the flower in the title: its thumbnail, or the    *)
(* photo that was taken for it.  A screen without a title has the photo    *)
(* nothing was found for.                                                  *)
PictureIsOfTitle ==
    goShown =>
        IF titleLabel = NoArticle THEN picture.kind = "photo"
        ELSE picture.flower = titleLabel

(* A photo that is taken is not forgotten: with its answer, if only an     *)
(* empty one, it comes to be on the screen.                                *)
EveryPhotoAnswered ==
    \A r \in Request, flower \in Flower :
        inFlight[r] = flower ~> goShown /\ picture = PhotoOf(flower)

(* Title, button and picture are of one flower whatever comes late.        *)
FlowerInv == FlowerTypeOK /\ GoOpensTitled /\ PictureIsOfTitle
=============================================================================
