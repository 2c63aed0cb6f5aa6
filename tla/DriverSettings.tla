--------------------------- MODULE DriverSettings ---------------------------
(***************************************************************************)
(* Each user's settings for the touch panel, and the one driver they are    *)
(* written to: the pages and the tile that change both, Startup, which      *)
(* restores the driver at the start of a user, and KeyHandler, which does   *)
(* so when the system user comes back.  Broadcasts arrive later, in order.  *)
(* The display rate, the double tap and the apps of the gestures are not    *)
(* modelled.                                                                *)
(***************************************************************************)
EXTENDS Naturals, Sequences

CONSTANTS Gestures,    \* the bits of the letters and the music control
          Control,     \* the bit of KEY_MASK_GESTURE_CONTROL
          Bits,        \* every bit that gestureMode can have
          Decoded,     \* what is made of the driver's answer for a mask
          Users,       \* the users of the device, SYSTEM among them
          SYSTEM,
          Rog3,        \* DeviceSettings.isRog3
          MaxInbox,    \* bound on the broadcasts on their way
          NoPage, Unset, NoNumber

Masks == SUBSET Bits

ASSUME UsersAssumption == SYSTEM \in Users /\ MaxInbox \in Nat \ {0, 1}
ASSUME DeviceAssumption == Rog3 \in BOOLEAN
ASSUME MaskAssumption ==
    /\ Gestures \cup {Control} \subseteq Bits /\ Control \notin Gestures
    /\ \A mask \in Masks : mask # NoPage /\ mask # Unset /\ mask # NoNumber

\* A mask is written to the driver as binary digits, at least seven, and the
\* driver's answer goes through Integer.decode, which takes digits after a
\* zero for octal and others for decimal.  What the driver, which is not in
\* this repository, answers is left open: with a number the mask comes back,
\* with the digits another one does, and with what is no number none.
ASSUME DecodedAssumption ==
    Decoded \in [Masks -> SUBSET (Masks \cup {NoNumber})]

VARIABLES settings,      \* what is stored for each user
          driver,        \* the files under /proc/driver
          page,          \* each user's GestureSettings: gestureMode, or NoPage
          current,       \* the user in the foreground
          started,       \* the users who run since the boot
          mRestoreUser,
          inbox          \* the broadcasts on their way

vars == <<settings, driver, page, current, started, mRestoreUser, inbox>>

\* zenmotion: what is written to OFFSCREEN_PATH; oldGlove: in the shared
\* preferences.
Settings == [zenmotion : {Unset} \cup Masks, swipeup : BOOLEAN,
             glove : BOOLEAN, oldGlove : BOOLEAN, imported : BOOLEAN]

Driver == [gesture_type : Masks, swipeup : BOOLEAN, glove : BOOLEAN]

Switched(u)  == [what |-> "USER_SWITCHED", user |-> u]
Completed(u) == [what |-> "BOOT_COMPLETED", user |-> u]

TypeOK ==
    /\ settings \in [Users -> Settings]
    /\ driver \in Driver
    /\ page \in [Users -> {NoPage} \cup Masks]
    /\ current \in started
    /\ started \subseteq Users
    /\ mRestoreUser \in BOOLEAN
    /\ inbox \in Seq([what : {"USER_SWITCHED", "BOOT_COMPLETED"}, user : Users])
    /\ Len(inbox) <= MaxInbox

\* The driver when it is loaded.
Loaded == [gesture_type |-> {}, swipeup |-> FALSE, glove |-> FALSE]

\* The system user starts first; whether the platform announces it as a
\* switch as well is left open.
Booted(q) == q \in {<<Completed(SYSTEM)>>,
                    <<Switched(SYSTEM), Completed(SYSTEM)>>}

Init ==
    /\ settings = [u \in Users |->
           [zenmotion |-> Unset, swipeup |-> FALSE, glove |-> FALSE,
            oldGlove |-> FALSE, imported |-> FALSE]]
    /\ driver = Loaded
    /\ page = [u \in Users |-> NoPage]
    /\ current = SYSTEM
    /\ started = {SYSTEM}
    /\ mRestoreUser = FALSE
    /\ Booted(inbox)

Reboot ==
    /\ driver' = Loaded
    /\ page' = [u \in Users |-> NoPage]
    /\ current' = SYSTEM
    /\ started' = {SYSTEM}
    /\ mRestoreUser' = FALSE
    /\ Booted(inbox')
    /\ UNCHANGED settings
-----------------------------------------------------------------------------
(***************************************************************************)
(* Startup and KeyHandler                                                  *)
(***************************************************************************)
Restored_Adds(s) ==
    [gesture_type |-> IF s.zenmotion # Unset
                      THEN driver.gesture_type \cup s.zenmotion
                      ELSE driver.gesture_type,
     swipeup |-> driver.swipeup \/ s.swipeup,
     glove   |-> driver.glove \/ s.glove]

\* What is not enabled is not written.
Restored(s) ==
    [gesture_type |-> IF s.zenmotion # Unset THEN s.zenmotion
                      ELSE driver.gesture_type,
     swipeup |-> driver.swipeup \/ s.swipeup,
     glove   |-> driver.glove \/ s.glove]

Imported(s) ==
    IF s.imported THEN s ELSE [s EXCEPT !.glove = s.oldGlove, !.imported = TRUE]

Startup_onReceive ==
    /\ inbox # <<>> /\ Head(inbox).what = "BOOT_COMPLETED"
    /\ LET u == Head(inbox).user
           s == Imported(settings[u])
       IN  /\ settings' = [settings EXCEPT ![u] = s]
           /\ driver' = Restored(s)
    /\ inbox' = Tail(inbox)
    /\ UNCHANGED <<page, current, started, mRestoreUser>>

\* KeyHandler's context is the system user's.
onUserSwitched ==
    /\ inbox # <<>> /\ Head(inbox).what = "USER_SWITCHED"
    /\ IF Head(inbox).user = SYSTEM /\ mRestoreUser
       THEN driver' = Restored(settings[SYSTEM]) /\ UNCHANGED mRestoreUser
       ELSE mRestoreUser' = TRUE /\ UNCHANGED driver
    /\ inbox' = Tail(inbox)
    /\ UNCHANGED <<settings, page, current, started>>

\* The platform tells of the switch, and of a user's start when it is over.
SwitchUser(u) ==
    /\ u # current
    /\ LET news == IF u \in started THEN <<Switched(u)>>
                   ELSE <<Switched(u), Completed(u)>>
       IN  /\ Len(inbox) + Len(news) <= MaxInbox
           /\ inbox' = inbox \o news
    /\ current' = u
    /\ started' = started \cup {u}
    /\ UNCHANGED <<settings, driver, page, mRestoreUser>>
-----------------------------------------------------------------------------
(***************************************************************************)
(* The pages and the tile, used by the user in the foreground              *)
(***************************************************************************)
\* Who can use a page or a tile; nothing makes them wait for Startup.
Uses(u) == u = current

\* A new page begins with gestureMode zero; it may be made again at any time.
OpenPage(u) ==
    /\ Uses(u)
    /\ page' = [page EXCEPT ![u] = {}]
    /\ UNCHANGED <<settings, driver, current, started, mRestoreUser, inbox>>

\* What a page takes for the gestures that are on.
GestureMode(u) == IF Rog3 THEN {page[u]} ELSE Decoded[driver.gesture_type]

setGestureEnabled(gestureMode, g, enabled) ==
    LET mode == IF enabled THEN gestureMode \cup {g} ELSE gestureMode \ {g}
    IN  IF mode # {} THEN mode \cup {Control} ELSE mode

ChangeGesture_NoSetting(u, g, enabled) ==
    /\ Uses(u) /\ page[u] # NoPage
    /\ \E gestureMode \in GestureMode(u) \ {NoNumber} :
          LET mode == setGestureEnabled(gestureMode, g, enabled)
          IN  /\ page' = [page EXCEPT ![u] = mode]
              /\ driver' = [driver EXCEPT !.gesture_type = mode]
    /\ UNCHANGED <<settings, current, started, mRestoreUser, inbox>>

\* An app for a letter or none, or the music switch.
ChangeGesture(u, g, enabled) ==
    /\ Uses(u) /\ page[u] # NoPage
    /\ \E gestureMode \in GestureMode(u) \ {NoNumber} :
          LET mode == setGestureEnabled(gestureMode, g, enabled)
          IN  /\ page' = [page EXCEPT ![u] = mode]
              /\ driver' = [driver EXCEPT !.gesture_type = mode]
              /\ settings' = [settings EXCEPT ![u].zenmotion = mode]
    /\ UNCHANGED <<current, started, mRestoreUser, inbox>>

\* The exception about an answer that is no number ends the page's process.
PageDies(u) ==
    /\ Uses(u) /\ page[u] # NoPage
    /\ NoNumber \in GestureMode(u)
    /\ page' = [page EXCEPT ![u] = NoPage]
    /\ UNCHANGED <<settings, driver, current, started, mRestoreUser, inbox>>

ChangeSwipeUp(u, on) ==
    /\ Uses(u) /\ page[u] # NoPage
    /\ settings' = [settings EXCEPT ![u].swipeup = on]
    /\ driver' = [driver EXCEPT !.swipeup = on]
    /\ UNCHANGED <<page, current, started, mRestoreUser, inbox>>

ChangeGlove(u, on) ==
    /\ Uses(u)
    /\ settings' = [settings EXCEPT ![u].glove = on]
    /\ driver' = [driver EXCEPT !.glove = on]
    /\ UNCHANGED <<page, current, started, mRestoreUser, inbox>>

\* The tile turns round what the driver says, and stores it where the
\* settings were in earlier versions.
ClickGloveTile(u) ==
    /\ Uses(u)
    /\ driver' = [driver EXCEPT !.glove = ~@]
    /\ settings' = [settings EXCEPT ![u].oldGlove = ~driver.glove]
    /\ UNCHANGED <<page, current, started, mRestoreUser, inbox>>

Next ==
    \/ Startup_onReceive \/ onUserSwitched \/ Reboot
    \/ \E u \in Users :
          \/ SwitchUser(u) \/ OpenPage(u) \/ PageDies(u)
          \/ \E g \in Gestures, on \in BOOLEAN : ChangeGesture(u, g, on)
          \/ \E on \in BOOLEAN : ChangeSwipeUp(u, on) \/ ChangeGlove(u, on)
          \/ ClickGloveTile(u)

Spec == Init /\ [][Next]_vars
-----------------------------------------------------------------------------
AtRest == inbox = <<>>

\* No setting outlives its user's running or is made up of those of two: the
\* gestures in force are, as a whole, what some user who runs has stored, and
\* the swipe up is one that some such user has switched on, through boots,
\* switches, late broadcasts, pages that read back the gestures of others and
\* restores that write only what is enabled (setGestureEnabled,
\* restoreAfterUserSwitch, onUserSwitched).
InForceIsStored ==
    /\ driver.gesture_type \in {{}} \cup {settings[u].zenmotion : u \in started}
    /\ driver.swipeup => \E u \in started : settings[u].swipeup

\* As long as no other user has run since the boot, the driver does what the
\* system user's last page stored, whatever other users did before the boot
\* (setGestureEnabled, restoreAfterUserSwitch).
OnlyUserFollowed ==
    AtRest /\ started = {SYSTEM} =>
        /\ driver.swipeup = settings[SYSTEM].swipeup
        /\ IF settings[SYSTEM].zenmotion = Unset THEN driver.gesture_type = {}
           ELSE driver.gesture_type = settings[SYSTEM].zenmotion

\* Why OnlyUserFollowed holds: as long as no other user has run, nothing comes
\* for another user, and the driver has what is stored or, until Startup has
\* run, what it was loaded with.
SystemFollowed ==
    started = {SYSTEM} =>
        /\ \A i \in DOMAIN inbox : inbox[i].user = SYSTEM
        /\ driver.swipeup => settings[SYSTEM].swipeup
        /\ driver.gesture_type \in {{}, settings[SYSTEM].zenmotion}
        /\ (\A i \in DOMAIN inbox : inbox[i].what # "BOOT_COMPLETED") =>
               /\ driver.swipeup = settings[SYSTEM].swipeup
               /\ settings[SYSTEM].zenmotion # Unset =>
                      driver.gesture_type = settings[SYSTEM].zenmotion
=============================================================================
