----------------------- MODULE DriverSettings_proofs -----------------------
(***************************************************************************)
(* Theorems about DriverSettings, for any gestures and users, on both       *)
(* devices, and whatever a driver answers.                                  *)
(***************************************************************************)
EXTENDS DriverSettings, TLAPS

USE UsersAssumption, DeviceAssumption

Broadcasts == [what : {"USER_SWITCHED", "BOOT_COMPLETED"}, user : Users]

\* What comes after a boot is for the system user, and Startup is among it.
LEMMA BootedInbox ==
    ASSUME NEW q, Booted(q)
    PROVE  /\ q \in Seq(Broadcasts) /\ Len(q) <= MaxInbox
           /\ \A i \in DOMAIN q : q[i].user = SYSTEM
           /\ \E i \in DOMAIN q : q[i].what = "BOOT_COMPLETED"
<1>1. CASE q = <<Completed(SYSTEM)>>
    BY <1>1 DEF Completed, Broadcasts
<1>2. CASE q = <<Switched(SYSTEM), Completed(SYSTEM)>>
    BY <1>2 DEF Completed, Switched, Broadcasts
<1> QED
    BY <1>1, <1>2 DEF Booted

\* The rest of the inbox is part of it.
LEMMA InboxRest ==
    ASSUME inbox \in Seq(Broadcasts), inbox # <<>>
    PROVE  /\ Head(inbox) = inbox[1] /\ 1 \in DOMAIN inbox
           /\ Head(inbox) \in Broadcasts
           /\ Tail(inbox) \in Seq(Broadcasts) /\ Len(Tail(inbox)) < Len(inbox)
           /\ \A i \in DOMAIN Tail(inbox) :
                  i + 1 \in DOMAIN inbox /\ Tail(inbox)[i] = inbox[i + 1]
           /\ \A i \in DOMAIN inbox :
                  i = 1 \/ (i - 1 \in DOMAIN Tail(inbox)
                            /\ inbox[i] = Tail(inbox)[i - 1])
    OBVIOUS

\* What setGestureEnabled writes is a mask.
LEMMA MaskType ==
    ASSUME TypeOK, NEW u \in Users, page[u] # NoPage, NEW g \in Gestures,
           NEW enabled \in BOOLEAN, NEW gestureMode \in GestureMode(u) \ {NoNumber}
    PROVE  setGestureEnabled(gestureMode, g, enabled) \in Masks
<1>1. gestureMode \in Masks
  <2>1. driver.gesture_type \in Masks /\ page[u] \in Masks
      BY DEF TypeOK, Driver
  <2>2. Decoded[driver.gesture_type] \subseteq Masks \cup {NoNumber}
      BY <2>1, DecodedAssumption
  <2> QED
      BY <2>1, <2>2 DEF GestureMode
<1> QED
    BY <1>1, MaskAssumption DEF setGestureEnabled, Masks

\* A page that changes a gesture writes a mask to the driver and stores it.
LEMMA GestureChange ==
    ASSUME TypeOK, NEW u \in Users, NEW g \in Gestures, NEW on \in BOOLEAN,
           ChangeGesture(u, g, on)
    PROVE  \E mode \in Masks :
              /\ page' = [page EXCEPT ![u] = mode]
              /\ driver' = [driver EXCEPT !.gesture_type = mode]
              /\ settings' = [settings EXCEPT ![u].zenmotion = mode]
<1>1. PICK gestureMode \in GestureMode(u) \ {NoNumber} :
          LET mode == setGestureEnabled(gestureMode, g, on)
          IN  /\ page' = [page EXCEPT ![u] = mode]
              /\ driver' = [driver EXCEPT !.gesture_type = mode]
              /\ settings' = [settings EXCEPT ![u].zenmotion = mode]
    BY DEF ChangeGesture
<1>2. setGestureEnabled(gestureMode, g, on) \in Masks
    BY MaskType DEF ChangeGesture
<1> QED
    BY <1>1, <1>2

\* What Startup and KeyHandler write is in the driver's type.
LEMMA RestoredType ==
    ASSUME TypeOK, NEW s \in Settings
    PROVE  Restored(s) \in Driver
    BY DEF TypeOK, Restored, Driver, Settings

LEMMA ImportedType ==
    ASSUME NEW s \in Settings
    PROVE  Imported(s) \in Settings
<1>1. [s EXCEPT !.glove = s.oldGlove, !.imported = TRUE] \in Settings
    BY DEF Settings
<1> QED
    BY <1>1 DEF Imported

\* Every handler keeps the types: what reaches the driver is a mask, never the
\* absence of one, and no more broadcasts wait than MaxInbox.
THEOREM TypeCorrect == Spec => []TypeOK
<1>1. Init => TypeOK
  <2> SUFFICES ASSUME Init PROVE TypeOK
      OBVIOUS
  <2>1. settings \in [Users -> Settings]
      BY DEF Init, Settings
  <2>2. driver \in Driver
      BY DEF Init, Driver, Loaded, Masks
  <2>3. inbox \in Seq(Broadcasts) /\ Len(inbox) <= MaxInbox
      BY BootedInbox DEF Init
  <2> QED
      BY <2>1, <2>2, <2>3 DEF Init, TypeOK, Broadcasts
<1>2. TypeOK /\ [Next]_vars => TypeOK'
  <2> SUFFICES ASSUME TypeOK, [Next]_vars PROVE TypeOK'
      OBVIOUS
  <2>1. CASE Startup_onReceive
    <3> DEFINE u == Head(inbox).user
    <3>1. /\ Head(inbox) \in Broadcasts
          /\ Tail(inbox) \in Seq(Broadcasts) /\ Len(Tail(inbox)) <= MaxInbox
        BY <2>1, InboxRest DEF Startup_onReceive, TypeOK, Broadcasts
    <3>2. u \in Users /\ settings[u] \in Settings
        BY <3>1 DEF TypeOK, Broadcasts
    <3>3. Imported(settings[u]) \in Settings
        BY <3>2, ImportedType
    <3>4. driver' \in Driver
        BY <2>1, <3>3, RestoredType DEF Startup_onReceive
    <3>5. settings' \in [Users -> Settings]
        BY <2>1, <3>2, <3>3 DEF Startup_onReceive, TypeOK
    <3> QED
        BY <2>1, <3>1, <3>4, <3>5 DEF Startup_onReceive, TypeOK, Broadcasts
  <2>2. CASE onUserSwitched
    <3>1. Tail(inbox) \in Seq(Broadcasts) /\ Len(Tail(inbox)) <= MaxInbox
        BY <2>2, InboxRest DEF onUserSwitched, TypeOK, Broadcasts
    <3>2. driver' \in Driver
        BY <2>2, RestoredType DEF onUserSwitched, TypeOK
    <3> QED
        BY <2>2, <3>1, <3>2 DEF onUserSwitched, TypeOK, Broadcasts
  <2>3. CASE Reboot
    <3>1. driver' \in Driver
        BY <2>3 DEF Reboot, Driver, Loaded, Masks
    <3> QED
        BY <2>3, <3>1, BootedInbox DEF Reboot, TypeOK, Broadcasts
  <2>4. ASSUME NEW u \in Users, SwitchUser(u) PROVE TypeOK'
    <3>1. Switched(u) \in Broadcasts /\ Completed(u) \in Broadcasts
        BY DEF Switched, Completed, Broadcasts
    <3>2. inbox \in Seq(Broadcasts)
        BY DEF TypeOK, Broadcasts
    <3>3. inbox' \in Seq(Broadcasts) /\ Len(inbox') <= MaxInbox
      <4>1. CASE u \in started
          BY <2>4, <3>1, <3>2, <4>1 DEF SwitchUser
      <4>2. CASE u \notin started
          BY <2>4, <3>1, <3>2, <4>2 DEF SwitchUser
      <4> QED
          BY <4>1, <4>2
    <3> QED
        BY <2>4, <3>3 DEF SwitchUser, TypeOK, Broadcasts
  <2>5. ASSUME NEW u \in Users, OpenPage(u) \/ PageDies(u) PROVE TypeOK'
      BY <2>5 DEF OpenPage, PageDies, TypeOK, Masks
  <2>6. ASSUME NEW u \in Users, NEW g \in Gestures, NEW on \in BOOLEAN,
               ChangeGesture(u, g, on)
        PROVE  TypeOK'
    <3>1. PICK mode \in Masks :
              /\ page' = [page EXCEPT ![u] = mode]
              /\ driver' = [driver EXCEPT !.gesture_type = mode]
              /\ settings' = [settings EXCEPT ![u].zenmotion = mode]
        BY <2>6, GestureChange
    <3>2. driver' \in Driver
        BY <3>1 DEF TypeOK, Driver
    <3>3. settings'[u] \in Settings
        BY <3>1 DEF TypeOK, Settings
    <3>4. settings' \in [Users -> Settings]
        BY <3>1, <3>3 DEF TypeOK
    <3> QED
        BY <2>6, <3>1, <3>2, <3>4 DEF ChangeGesture, TypeOK
  <2>7. ASSUME NEW u \in Users, NEW on \in BOOLEAN, ChangeSwipeUp(u, on)
        PROVE  TypeOK'
      BY <2>7 DEF ChangeSwipeUp, TypeOK, Settings, Driver
  <2>8. ASSUME NEW u \in Users, NEW on \in BOOLEAN, ChangeGlove(u, on)
        PROVE  TypeOK'
      BY <2>8 DEF ChangeGlove, TypeOK, Settings, Driver
  <2>9. ASSUME NEW u \in Users, ClickGloveTile(u) PROVE TypeOK'
      BY <2>9 DEF ClickGloveTile, TypeOK, Settings, Driver
  <2>10. CASE UNCHANGED vars
      BY <2>10 DEF vars, TypeOK
  <2> QED
      BY <2>1, <2>2, <2>3, <2>4, <2>5, <2>6, <2>7, <2>8, <2>9, <2>10 DEF Next
<1> QED
    BY <1>1, <1>2, PTL DEF Spec

-----------------------------------------------------------------------------
\* As long as nobody else has run, the system user is in the foreground.
LEMMA OnlySystem ==
    ASSUME TypeOK, started = {SYSTEM}
    PROVE  current = SYSTEM
    BY DEF TypeOK

\* A restore for the system user brings the driver to what is stored, from
\* what it was loaded with or from what is stored already.
LEMMA RestoreFollows ==
    ASSUME TypeOK, NEW s \in Settings,
           driver.swipeup => s.swipeup,
           driver.gesture_type \in {{}, s.zenmotion}
    PROVE  /\ Restored(s).swipeup = s.swipeup
           /\ s.zenmotion # Unset => Restored(s).gesture_type = s.zenmotion
           /\ Restored(s).gesture_type \in {{}, s.zenmotion}
<1>1. driver.swipeup \in BOOLEAN /\ s.swipeup \in BOOLEAN
    BY DEF TypeOK, Driver, Settings
<1>2. Restored(s).swipeup = s.swipeup
    BY <1>1 DEF Restored
<1> QED
    BY <1>2 DEF Restored

\* The strengthened invariant is kept by every step: a handler of a broadcast
\* restores what is stored, a page stores what it writes, and another user's
\* page cannot be used before that user has started.
LEMMA SystemFollowedHolds == Spec => []SystemFollowed
<1>1. Init => SystemFollowed
  <2> SUFFICES ASSUME Init PROVE SystemFollowed
      OBVIOUS
  <2>1. /\ \A i \in DOMAIN inbox : inbox[i].user = SYSTEM
        /\ \E i \in DOMAIN inbox : inbox[i].what = "BOOT_COMPLETED"
      BY BootedInbox DEF Init
  <2> QED
      BY <2>1 DEF Init, SystemFollowed, Loaded
<1>2. TypeOK /\ TypeOK' /\ SystemFollowed /\ [Next]_vars => SystemFollowed'
  <2> SUFFICES ASSUME TypeOK, TypeOK', SystemFollowed, [Next]_vars,
                      started' = {SYSTEM}
               PROVE  /\ \A i \in DOMAIN inbox' : inbox'[i].user = SYSTEM
                      /\ driver'.swipeup => settings'[SYSTEM].swipeup
                      /\ driver'.gesture_type \in
                             {{}, settings'[SYSTEM].zenmotion}
                      /\ (\A i \in DOMAIN inbox' :
                              inbox'[i].what # "BOOT_COMPLETED") =>
                             /\ driver'.swipeup = settings'[SYSTEM].swipeup
                             /\ settings'[SYSTEM].zenmotion # Unset =>
                                    driver'.gesture_type =
                                        settings'[SYSTEM].zenmotion
      BY DEF SystemFollowed
  <2> DEFINE Goal ==
          /\ \A i \in DOMAIN inbox' : inbox'[i].user = SYSTEM
          /\ driver'.swipeup => settings'[SYSTEM].swipeup
          /\ driver'.gesture_type \in {{}, settings'[SYSTEM].zenmotion}
          /\ (\A i \in DOMAIN inbox' : inbox'[i].what # "BOOT_COMPLETED") =>
                 /\ driver'.swipeup = settings'[SYSTEM].swipeup
                 /\ settings'[SYSTEM].zenmotion # Unset =>
                        driver'.gesture_type = settings'[SYSTEM].zenmotion
  <2>1. settings[SYSTEM] \in Settings /\ inbox \in Seq(Broadcasts)
      BY DEF TypeOK, Broadcasts
  <2>2. CASE Startup_onReceive
    <3>1. started = {SYSTEM}
        BY <2>2 DEF Startup_onReceive
    <3>2. Head(inbox).user = SYSTEM
        BY <2>1, <2>2, <3>1, InboxRest DEF Startup_onReceive, SystemFollowed
    <3> DEFINE s == Imported(settings[SYSTEM])
    <3>3. /\ s \in Settings
          /\ s.swipeup = settings[SYSTEM].swipeup
          /\ s.zenmotion = settings[SYSTEM].zenmotion
        BY <2>1, ImportedType DEF Imported, Settings
    <3>4. settings'[SYSTEM] = s /\ driver' = Restored(s)
        BY <2>2, <3>2 DEF Startup_onReceive, TypeOK
    <3>5. driver.swipeup => s.swipeup
        BY <3>1, <3>3 DEF SystemFollowed
    <3>6. driver.gesture_type \in {{}, s.zenmotion}
        BY <3>1, <3>3 DEF SystemFollowed
    <3> HIDE DEF s
    <3>7. /\ driver'.swipeup = s.swipeup
          /\ s.zenmotion # Unset => driver'.gesture_type = s.zenmotion
          /\ driver'.gesture_type \in {{}, s.zenmotion}
        BY <3>3, <3>4, <3>5, <3>6, RestoreFollows
    <3>8. \A i \in DOMAIN inbox' : inbox'[i].user = SYSTEM
        BY <2>1, <2>2, <3>1, InboxRest DEF Startup_onReceive, SystemFollowed
    <3> QED
        BY <3>4, <3>7, <3>8
  <2>3. CASE onUserSwitched
    <3>1. started = {SYSTEM} /\ settings' = settings
        BY <2>3 DEF onUserSwitched
    <3>2. \A i \in DOMAIN inbox' : inbox'[i].user = SYSTEM
        BY <2>1, <2>3, <3>1, InboxRest DEF onUserSwitched, SystemFollowed
    <3>3. (\A i \in DOMAIN inbox' : inbox'[i].what # "BOOT_COMPLETED") =>
              \A i \in DOMAIN inbox : inbox[i].what # "BOOT_COMPLETED"
      <4> SUFFICES ASSUME \A i \in DOMAIN inbox' :
                              inbox'[i].what # "BOOT_COMPLETED",
                          NEW i \in DOMAIN inbox
                   PROVE  inbox[i].what # "BOOT_COMPLETED"
          OBVIOUS
      <4>1. CASE i = 1
          BY <2>1, <2>3, <4>1, InboxRest DEF onUserSwitched
      <4>2. CASE i # 1
          BY <2>1, <2>3, <4>2, InboxRest DEF onUserSwitched
      <4> QED
          BY <4>1, <4>2
    <3>4. CASE driver' = driver
        BY <3>1, <3>2, <3>3, <3>4 DEF SystemFollowed
    <3>5. CASE driver' = Restored(settings[SYSTEM])
      <4>1. /\ driver.swipeup => settings[SYSTEM].swipeup
            /\ driver.gesture_type \in {{}, settings[SYSTEM].zenmotion}
          BY <3>1 DEF SystemFollowed
      <4> QED
          BY <2>1, <3>1, <3>2, <3>5, <4>1, RestoreFollows
    <3> QED
        BY <2>3, <3>4, <3>5 DEF onUserSwitched
  <2>4. CASE Reboot
    <3>1. /\ \A i \in DOMAIN inbox' : inbox'[i].user = SYSTEM
          /\ \E i \in DOMAIN inbox' : inbox'[i].what = "BOOT_COMPLETED"
        BY <2>4, BootedInbox DEF Reboot
    <3>2. driver' = Loaded
        BY <2>4 DEF Reboot
    <3> QED
        BY <3>1, <3>2 DEF Loaded
  <2>5. ASSUME NEW u \in Users, SwitchUser(u) PROVE FALSE
    <3>1. u \in started' /\ started \subseteq started' /\ u # current
        BY <2>5 DEF SwitchUser
    <3> QED
        BY <3>1 DEF TypeOK
  <2>6. ASSUME NEW u \in Users, OpenPage(u) \/ PageDies(u) PROVE Goal
      BY <2>6 DEF OpenPage, PageDies, SystemFollowed
  <2>7. ASSUME NEW u \in Users, NEW g \in Gestures, NEW on \in BOOLEAN,
               ChangeGesture(u, g, on)
        PROVE  Goal
    <3>1. started = {SYSTEM} /\ inbox' = inbox
        BY <2>7 DEF ChangeGesture
    <3>2. u = SYSTEM
        BY <2>7, <3>1, OnlySystem DEF ChangeGesture, Uses
    <3>3. PICK mode \in Masks :
              /\ driver' = [driver EXCEPT !.gesture_type = mode]
              /\ settings' = [settings EXCEPT ![u].zenmotion = mode]
        BY <2>7, GestureChange
    <3>4. /\ driver'.gesture_type = mode
          /\ driver'.swipeup = driver.swipeup
        BY <3>3 DEF TypeOK, Driver
    <3>5. /\ settings'[SYSTEM].zenmotion = mode
          /\ settings'[SYSTEM].swipeup = settings[SYSTEM].swipeup
        BY <2>1, <3>2, <3>3 DEF TypeOK, Settings
    <3> QED
        BY <3>1, <3>4, <3>5 DEF SystemFollowed
  <2>8. ASSUME NEW u \in Users, NEW on \in BOOLEAN, ChangeSwipeUp(u, on)
        PROVE  Goal
    <3>1. started = {SYSTEM} /\ inbox' = inbox
        BY <2>8 DEF ChangeSwipeUp
    <3>2. u = SYSTEM
        BY <2>8, <3>1, OnlySystem DEF ChangeSwipeUp, Uses
    <3>3. /\ driver'.swipeup = on
          /\ driver'.gesture_type = driver.gesture_type
          /\ settings'[SYSTEM].swipeup = on
          /\ settings'[SYSTEM].zenmotion = settings[SYSTEM].zenmotion
        BY <2>8, <2>1, <3>2 DEF ChangeSwipeUp, TypeOK, Settings, Driver
    <3> QED
        BY <3>1, <3>3 DEF SystemFollowed
  <2>9. ASSUME NEW u \in Users,
               ClickGloveTile(u) \/ \E on \in BOOLEAN : ChangeGlove(u, on)
        PROVE  Goal
    <3>1. started = {SYSTEM} /\ inbox' = inbox
        BY <2>9 DEF ChangeGlove, ClickGloveTile
    <3>2. /\ driver'.swipeup = driver.swipeup
          /\ driver'.gesture_type = driver.gesture_type
          /\ settings'[SYSTEM].swipeup = settings[SYSTEM].swipeup
          /\ settings'[SYSTEM].zenmotion = settings[SYSTEM].zenmotion
        BY <2>9, <2>1
        DEF ChangeGlove, ClickGloveTile, TypeOK, Settings, Driver
    <3> QED
        BY <3>1, <3>2 DEF SystemFollowed
  <2>10. CASE UNCHANGED vars
      BY <2>10 DEF vars, SystemFollowed
  <2> QED
      BY <2>2, <2>3, <2>4, <2>5, <2>6, <2>7, <2>8, <2>9, <2>10 DEF Next
<1> QED
    BY <1>1, <1>2, TypeCorrect, PTL DEF Spec

\* As long as no other user has run since the boot, the driver does what the
\* system user has stored: at rest no Startup is to come, and so the driver
\* is what is stored, or was never written and nothing is stored.
THEOREM SystemUserFollowed == Spec => []OnlyUserFollowed
<1>1. TypeOK /\ SystemFollowed => OnlyUserFollowed
  <2> SUFFICES ASSUME TypeOK, SystemFollowed, AtRest, started = {SYSTEM}
               PROVE  /\ driver.swipeup = settings[SYSTEM].swipeup
                      /\ IF settings[SYSTEM].zenmotion = Unset
                         THEN driver.gesture_type = {}
                         ELSE driver.gesture_type = settings[SYSTEM].zenmotion
      BY DEF OnlyUserFollowed
  <2>1. DOMAIN inbox = {}
      BY DEF AtRest
  <2>2. driver.gesture_type # Unset
      BY MaskAssumption DEF TypeOK, Driver, Masks
  <2> QED
      BY <2>1, <2>2 DEF SystemFollowed
<1> QED
    BY <1>1, TypeCorrect, SystemFollowedHolds, PTL

-----------------------------------------------------------------------------
\* Broadcasts are for users who run: so a restore is one of their settings.
InboxStarted == \A i \in DOMAIN inbox : inbox[i].user \in started

LEMMA InboxStartedHolds == Spec => []InboxStarted
<1>1. Init => InboxStarted
    BY BootedInbox DEF Init, InboxStarted
<1>2. TypeOK /\ InboxStarted /\ [Next]_vars => InboxStarted'
  <2> SUFFICES ASSUME TypeOK, InboxStarted, [Next]_vars PROVE InboxStarted'
      OBVIOUS
  <2>1. inbox \in Seq(Broadcasts)
      BY DEF TypeOK, Broadcasts
  <2>2. CASE Startup_onReceive \/ onUserSwitched
    <3>1. inbox # <<>> /\ inbox' = Tail(inbox) /\ started' = started
        BY <2>2 DEF Startup_onReceive, onUserSwitched
    <3> QED
        BY <2>1, <3>1, InboxRest DEF InboxStarted
  <2>3. CASE Reboot
      BY <2>3, BootedInbox DEF Reboot, InboxStarted
  <2>4. ASSUME NEW u \in Users, SwitchUser(u) PROVE InboxStarted'
    <3>1. /\ Switched(u) \in Broadcasts /\ Switched(u).user = u
          /\ Completed(u) \in Broadcasts /\ Completed(u).user = u
        BY DEF Switched, Completed, Broadcasts
    <3>2. started' = started \cup {u}
        BY <2>4 DEF SwitchUser
    <3>3. CASE inbox' = inbox \o <<Switched(u)>>
        BY <2>1, <3>1, <3>2, <3>3 DEF InboxStarted
    <3>4. CASE inbox' = inbox \o <<Switched(u), Completed(u)>>
        BY <2>1, <3>1, <3>2, <3>4 DEF InboxStarted
    <3> QED
        BY <2>4, <3>3, <3>4 DEF SwitchUser
  <2>5. ASSUME NEW u \in Users,
               \/ OpenPage(u) \/ PageDies(u) \/ ClickGloveTile(u)
               \/ \E g \in Gestures, on \in BOOLEAN : ChangeGesture(u, g, on)
               \/ \E on \in BOOLEAN : ChangeSwipeUp(u, on) \/ ChangeGlove(u, on)
        PROVE  InboxStarted'
      BY <2>5 DEF OpenPage, PageDies, ClickGloveTile, ChangeGesture,
                  ChangeSwipeUp, ChangeGlove, InboxStarted
  <2>6. CASE UNCHANGED vars
      BY <2>6 DEF vars, InboxStarted
  <2> QED
      BY <2>2, <2>3, <2>4, <2>5, <2>6 DEF Next
<1> QED
    BY <1>1, <1>2, TypeCorrect, PTL DEF Spec

\* A restore of a user who runs puts that user's gestures in force, or leaves
\* what was, and adds no swipe up but the user's own.
LEMMA RestoreKeeps ==
    ASSUME TypeOK, InForceIsStored, NEW v \in started, NEW s \in Settings,
           driver' = Restored(s), settings' = [settings EXCEPT ![v] = s],
           s.zenmotion = settings[v].zenmotion,
           s.swipeup = settings[v].swipeup, started' = started
    PROVE  InForceIsStored'
<1>1. \A u \in Users : /\ settings'[u].zenmotion = settings[u].zenmotion
                       /\ settings'[u].swipeup = settings[u].swipeup
    BY DEF TypeOK
<1>2. v \in Users /\ started \subseteq Users
    BY DEF TypeOK
<1>3. driver'.gesture_type \in
          {{}} \cup {settings[u].zenmotion : u \in started}
    BY DEF Restored, InForceIsStored
<1>4. driver'.swipeup => \E u \in started : settings[u].swipeup
    BY DEF Restored, InForceIsStored
<1> QED
    BY <1>1, <1>2, <1>3, <1>4 DEF InForceIsStored

\* What is in force is what users who run have stored: the gestures of one of
\* them as a whole, and no swipe up that none of them wants; for any users,
\* on both devices, and whatever is read back from the driver.
THEOREM InForceStored == Spec => []InForceIsStored
<1>1. Init => InForceIsStored
    BY DEF Init, Loaded, InForceIsStored
<1>2. /\ TypeOK /\ TypeOK' /\ InboxStarted /\ InForceIsStored /\ [Next]_vars
      => InForceIsStored'
  <2> SUFFICES ASSUME TypeOK, TypeOK', InboxStarted, InForceIsStored, [Next]_vars
               PROVE  InForceIsStored'
      OBVIOUS
  <2>1. /\ settings \in [Users -> Settings] /\ inbox \in Seq(Broadcasts)
        /\ started \subseteq Users /\ current \in started
        /\ driver \in Driver
      BY DEF TypeOK, Broadcasts
  <2>2. CASE Startup_onReceive
    <3> DEFINE v == Head(inbox).user
               s == Imported(settings[v])
    <3>1. v \in started /\ settings[v] \in Settings
        BY <2>1, <2>2, InboxRest DEF Startup_onReceive, InboxStarted
    <3>2. /\ s \in Settings
          /\ s.zenmotion = settings[v].zenmotion
          /\ s.swipeup = settings[v].swipeup
        BY <3>1, ImportedType DEF Imported, Settings
    <3>3. /\ driver' = Restored(s) /\ settings' = [settings EXCEPT ![v] = s]
          /\ started' = started
        BY <2>2 DEF Startup_onReceive
    <3> HIDE DEF s, v
    <3> QED
        BY <3>1, <3>2, <3>3, RestoreKeeps
  <2>3. CASE onUserSwitched
    <3>1. settings' = settings /\ started' = started
        BY <2>3 DEF onUserSwitched
    <3>2. CASE driver' = driver
        BY <3>1, <3>2 DEF InForceIsStored
    <3>3. CASE Head(inbox).user = SYSTEM /\ driver' = Restored(settings[SYSTEM])
      <4>1. SYSTEM \in started
          BY <2>1, <2>3, <3>3, InboxRest DEF onUserSwitched, InboxStarted
      <4>2. settings' = [settings EXCEPT ![SYSTEM] = settings[SYSTEM]]
          BY <2>1, <3>1
      <4> QED
          BY <2>1, <3>1, <3>3, <4>1, <4>2, RestoreKeeps
    <3> QED
        BY <2>3, <3>2, <3>3 DEF onUserSwitched
  <2>4. CASE Reboot
      BY <2>4 DEF Reboot, Loaded, InForceIsStored
  <2>5. ASSUME NEW u \in Users,
               SwitchUser(u) \/ OpenPage(u) \/ PageDies(u)
        PROVE  InForceIsStored'
    <3>1. settings' = settings /\ driver' = driver /\ started \subseteq started'
        BY <2>5 DEF SwitchUser, OpenPage, PageDies
    <3> QED
        BY <3>1 DEF InForceIsStored
  <2>6. ASSUME NEW u \in Users, NEW g \in Gestures, NEW on \in BOOLEAN,
               ChangeGesture(u, g, on)
        PROVE  InForceIsStored'
    <3>1. PICK mode \in Masks :
              /\ driver' = [driver EXCEPT !.gesture_type = mode]
              /\ settings' = [settings EXCEPT ![u].zenmotion = mode]
        BY <2>6, GestureChange
    <3>2. u \in started /\ started' = started
        BY <2>1, <2>6 DEF ChangeGesture, Uses
    <3>3. /\ driver'.gesture_type = mode /\ driver'.swipeup = driver.swipeup
          /\ settings'[u].zenmotion = mode
          /\ \A v \in Users : settings'[v].swipeup = settings[v].swipeup
        BY <2>1, <3>1 DEF Settings, Driver
    <3> QED
        BY <2>1, <3>2, <3>3 DEF InForceIsStored
  <2>7. ASSUME NEW u \in Users, NEW on \in BOOLEAN, ChangeSwipeUp(u, on)
        PROVE  InForceIsStored'
    <3>1. /\ driver'.swipeup = on /\ driver'.gesture_type = driver.gesture_type
          /\ settings'[u].swipeup = on
          /\ \A v \in Users : settings'[v].zenmotion = settings[v].zenmotion
          /\ u \in started /\ started' = started
        BY <2>1, <2>7 DEF ChangeSwipeUp, Uses, Settings, Driver
    <3> QED
        BY <2>1, <3>1 DEF InForceIsStored
  <2>8. ASSUME NEW u \in Users,
               ClickGloveTile(u) \/ \E on \in BOOLEAN : ChangeGlove(u, on)
        PROVE  InForceIsStored'
    <3>1. /\ driver'.swipeup = driver.swipeup
          /\ driver'.gesture_type = driver.gesture_type
          /\ \A v \in Users : /\ settings'[v].zenmotion = settings[v].zenmotion
                              /\ settings'[v].swipeup = settings[v].swipeup
          /\ started' = started
        BY <2>1, <2>8 DEF ChangeGlove, ClickGloveTile, Settings, Driver
    <3> QED
        BY <2>1, <3>1 DEF InForceIsStored
  <2>9. CASE UNCHANGED vars
      BY <2>9 DEF vars, InForceIsStored
  <2> QED
      BY <2>2, <2>3, <2>4, <2>5, <2>6, <2>7, <2>8, <2>9 DEF Next
<1> QED
    BY <1>1, <1>2, TypeCorrect, InboxStartedHolds, PTL DEF Spec
=============================================================================
