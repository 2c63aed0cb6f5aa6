-------------------------- MODULE MCDriverSettings --------------------------
(* Instances of DriverSettings; gestures are interchangeable, users not. *)
EXTENDS DriverSettings, TLC

GestureSymmetry == Permutations(Gestures)

\* A driver that answers with the number of the mask, and one of whose answer
\* that, quite another mask or nothing at all is made.
Numbers == [mask \in Masks |-> {mask}]
Answers == [mask \in Masks |-> {mask, Bits \ mask, NoNumber}]
-----------------------------------------------------------------------------
(* What a user would expect and the code does not keep. *)
\* A page's change is about one gesture and leaves the others stored.
OneAtATime ==
    [][\A u \in Users : settings[u].zenmotion # Unset =>
           \E g \in Gestures :
               settings'[u].zenmotion \ {g, Control} =
                   settings[u].zenmotion \ {g, Control}]_vars

\* "Swipe up on the screen to wake up your device": it does so when the user
\* in the foreground has set it (restoreAfterUserSwitch).
SwipeUpAsSet == AtRest => driver.swipeup = settings[current].swipeup

\* With one user, glove mode is what the next boot restores, whether the page
\* or the tile turned it on or off (GloveModeTileService, restoreAfterUserSwitch).
GloveAsSet == AtRest => driver.glove = settings[current].glove
=============================================================================
