----------------------------- MODULE PictureFeed -----------------------------
(***************************************************************************)
(* What the chain from the PC to the watch promises: the watch shows       *)
(* pictures that were on the PC's virtual display, whole and in order.  It *)
(* may skip some, and nothing is said of how late it is.                   *)
(***************************************************************************)
EXTENDS Naturals

CONSTANT MaxPictures     \* bound: pictures that are drawn

VARIABLES
    latest,   \* the picture on the PC, they are numbered as they are drawn
    shown     \* the picture on the watch

Blank == 0

FeedInit == latest = 1 /\ shown = Blank

Draw == latest < MaxPictures /\ latest' = latest + 1 /\ UNCHANGED shown

Show == shown' \in shown..latest /\ UNCHANGED latest

FeedNext == Draw \/ Show

FeedSpec == FeedInit /\ [][FeedNext]_<<latest, shown>>
=============================================================================
