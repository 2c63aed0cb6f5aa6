----------------------------- MODULE KeyHandler -----------------------------
(***************************************************************************)
(* DeviceParts/.../KeyHandler.java: the sensors and the watch on a file    *)
(* that follow the display, and the fingerprint area of the ROG Phone 3.   *)
(* Broadcasts, settings that change, readings of sensors and posted pieces *)
(* of work are each handled in one go; sensors are registered and          *)
(* unregistered by an executor of one thread.  What gestures launch and    *)
(* the doze pulses are left out; users that switch and the driver file for *)
(* double tap are DriverSettings'.  A definition X_Word is a plausible     *)
(* mistake in X that a property must catch; nothing uses it.               *)
(***************************************************************************)
EXTENDS Naturals, Sequences, SequencesExt

CONSTANTS Settings,          \* the settings that a user may change
          MaxTasks,          \* bound on the tasks the executor has to do
          MaxPosts,          \* bound on the work posted to mHandler
          isASUSCameraAvail,
          ChangesWhileOff,   \* settings may change while the display is off
          SettlesFirst       \* a change is known before the display goes off

ASSUME BoundsAssumption ==
    /\ MaxTasks \in Nat /\ MaxTasks >= 2
    /\ MaxPosts \in Nat \ {0}
ASSUME SwitchAssumption ==
    /\ isASUSCameraAvail \in BOOLEAN
    /\ ChangesWhileOff \in BOOLEAN /\ SettlesFirst \in BOOLEAN

\* One setting of its own, and three that are stored as one string.
DozeSettings == {"wave", "pocket", "tilt"}
Sensors      == {"proximity", "tilt"}

ASSUME SettingsAssumption == Settings \subseteq {"proxi"} \cup DozeSettings

VARIABLES stored,          \* the settings that are on, as stored
          mUse,            \* those that are on to the handler
          pending,         \* changes that the observer has yet to hear of
          mDispOn,
          tasks,           \* what the executor has yet to do, oldest first
          registered,      \* the sensors whose readings come in
          mProxyIsNear, mProxyWasNear,
          proximity_state, \* whether the fingerprint sensor is blocked
          watching,        \* mClientObserver is there and watches its file
          finger,          \* a finger is on the fingerprint area
          posts,           \* what has been posted to mHandler
          localHbm,        \* the area is lit
          missed           \* the last finger's going went unheard

settingVars == <<stored, mUse, pending>>
sensorVars  == <<tasks, registered, mProxyIsNear, mProxyWasNear, proximity_state>>
fodVars     == <<finger, posts, localHbm, missed>>
vars == <<settingVars, mDispOn, sensorVars, watching, fodVars>>

Tasks == {"register", "unregister"} \X Sensors

TypeOK ==
    /\ stored \subseteq Settings /\ mUse \subseteq Settings
    /\ pending \subseteq {"proxi", "doze"}
    /\ mDispOn \in BOOLEAN
    /\ tasks \in Seq(Tasks) /\ Len(tasks) <= MaxTasks
    /\ registered \subseteq Sensors
    /\ mProxyIsNear \in BOOLEAN /\ mProxyWasNear \in BOOLEAN
    /\ proximity_state \in BOOLEAN /\ watching \in BOOLEAN
    /\ finger \in BOOLEAN /\ localHbm \in BOOLEAN /\ missed \in BOOLEAN
    /\ posts \in Seq({"pressed", "up"}) /\ Len(posts) <= MaxPosts

\* The display is on when the handler is made, with what is stored.
Init ==
    /\ stored \in SUBSET Settings /\ mUse = stored /\ pending = {}
    /\ mDispOn = TRUE
    /\ tasks = <<>> /\ registered = {}
    /\ mProxyIsNear = FALSE /\ mProxyWasNear = FALSE
    /\ proximity_state = FALSE
    /\ watching = isASUSCameraAvail
    /\ finger = FALSE /\ posts = <<>> /\ localHbm = FALSE /\ missed = FALSE
-----------------------------------------------------------------------------
(***************************************************************************)
(* Settings: the observer is called some time after a change, and reads    *)
(* what is stored by then.                                                 *)
(***************************************************************************)
ChangeSetting(s) ==
    /\ ChangesWhileOff \/ mDispOn
    /\ stored' = IF s \in stored THEN stored \ {s} ELSE stored \cup {s}
    /\ pending' = pending \cup {IF s = "proxi" THEN "proxi" ELSE "doze"}
    /\ UNCHANGED <<mUse, mDispOn, sensorVars, watching, fodVars>>

update ==
    /\ "proxi" \in pending
    /\ pending' = pending \ {"proxi"}
    /\ mUse' = (mUse \ {"proxi"}) \cup (stored \cap {"proxi"})
    /\ UNCHANGED <<stored, mDispOn, sensorVars, watching, fodVars>>

updateDozeSettings ==
    /\ "doze" \in pending
    /\ pending' = pending \ {"doze"}
    /\ mUse' = (mUse \ DozeSettings) \cup (stored \cap DozeSettings)
    /\ UNCHANGED <<stored, mDispOn, sensorVars, watching, fodVars>>

enableProxiSensor == mUse \cap {"pocket", "wave", "proxi"} # {}

\* The sensors that the settings ask for while the display is off.
Enabled == {s \in Sensors : IF s = "tilt" THEN "tilt" \in mUse
                            ELSE enableProxiSensor}

Submitted(what) ==
    (IF "proximity" \in Enabled THEN <<<<what, "proximity">>>> ELSE <<>>)
        \o (IF "tilt" \in Enabled THEN <<<<what, "tilt">>>> ELSE <<>>)
-----------------------------------------------------------------------------
onDisplayOn_ProximityOnly ==
    /\ ~mDispOn /\ Len(tasks) + 2 <= MaxTasks
    /\ mDispOn' = TRUE
    /\ tasks' = IF "proximity" \in Enabled
                THEN Append(tasks, <<"unregister", "proximity">>) ELSE tasks
    /\ watching' = (watching \/ isASUSCameraAvail)
    /\ UNCHANGED <<settingVars, registered, mProxyIsNear, mProxyWasNear,
                   proximity_state, fodVars>>

onDisplayOn ==
    /\ ~mDispOn /\ Len(tasks) + 2 <= MaxTasks
    /\ mDispOn' = TRUE
    /\ tasks' = tasks \o Submitted("unregister")
    /\ watching' = (watching \/ isASUSCameraAvail)
    /\ UNCHANGED <<settingVars, registered, mProxyIsNear, mProxyWasNear,
                   proximity_state, fodVars>>

onDisplayOff ==
    /\ mDispOn /\ Len(tasks) + 2 <= MaxTasks
    /\ SettlesFirst => pending = {}
    /\ mDispOn' = FALSE
    /\ mProxyWasNear' = (mProxyWasNear /\ ~enableProxiSensor)
    /\ tasks' = tasks \o Submitted("register")
    /\ watching' = FALSE
    /\ UNCHANGED <<settingVars, registered, mProxyIsNear, proximity_state,
                   fodVars>>

\* The executor has one thread, which takes the oldest task.
Due_AnyOfThem == DOMAIN tasks

Due == {i \in DOMAIN tasks : i = 1}

RunTask ==
    /\ \E i \in Due :
         /\ registered' = IF tasks[i][1] = "register"
                          THEN registered \cup {tasks[i][2]}
                          ELSE registered \ {tasks[i][2]}
         /\ tasks' = RemoveAt(tasks, i)
    /\ UNCHANGED <<settingVars, mDispOn, mProxyIsNear, mProxyWasNear,
                   proximity_state, watching, fodVars>>

\* A reading of the proximity sensor; the fingerprint sensor is told of it.
onSensorChanged(near) ==
    /\ "proximity" \in registered
    /\ mProxyIsNear' = near
    /\ mProxyWasNear' = IF mUse \cap {"wave", "pocket"} # {} THEN near
                        ELSE mProxyWasNear
    /\ proximity_state' = IF "proxi" \in mUse THEN near ELSE proximity_state
    /\ UNCHANGED <<settingVars, mDispOn, tasks, registered, watching, fodVars>>
-----------------------------------------------------------------------------
(***************************************************************************)
(* canHandleKeyEvent: presses and their ends are only taken while the      *)
(* display is off, and are worked off by mHandler in their order.          *)
(***************************************************************************)
FodPressed ==
    /\ ~finger /\ Len(posts) < MaxPosts
    /\ finger' = TRUE
    /\ posts' = IF mDispOn THEN posts ELSE Append(posts, "pressed")
    /\ UNCHANGED <<settingVars, mDispOn, sensorVars, watching, localHbm, missed>>

FodUp ==
    /\ finger /\ Len(posts) < MaxPosts
    /\ finger' = FALSE
    /\ posts' = IF mDispOn THEN posts ELSE Append(posts, "up")
    /\ missed' = mDispOn
    /\ UNCHANGED <<settingVars, mDispOn, sensorVars, watching, localHbm>>

\* What becomes of the light: it goes on once the daemon is found, and off
\* whether it is found or not.
Lit_OffByDaemon(post, daemon) ==
    IF daemon THEN post = "pressed" ELSE localHbm

Lit(post, daemon) ==
    CASE post = "up" -> FALSE
      [] OTHER       -> IF daemon THEN TRUE ELSE localHbm

RunPost ==
    /\ posts # <<>>
    /\ \E daemon \in BOOLEAN : localHbm' = Lit(Head(posts), daemon)
    /\ posts' = Tail(posts)
    /\ UNCHANGED <<settingVars, mDispOn, sensorVars, watching, finger, missed>>
-----------------------------------------------------------------------------
Next ==
    \/ \E s \in Settings : ChangeSetting(s)
    \/ update \/ updateDozeSettings
    \/ onDisplayOn \/ onDisplayOff
    \/ RunTask
    \/ \E near \in BOOLEAN : onSensorChanged(near)
    \/ FodPressed \/ FodUp \/ RunPost

Spec == Init /\ [][Next]_vars

(***************************************************************************)
(* The executor's thread and the handler's looper go on with their work,   *)
(* and the observer is called in the end.                                  *)
(***************************************************************************)
FairSpec == /\ Spec
            /\ WF_vars(RunTask) /\ WF_vars(RunPost)
            /\ WF_vars(update) /\ WF_vars(updateDozeSettings)
-----------------------------------------------------------------------------
\* The sensors that the stored settings want while the display is off.
Wanted == (IF stored \cap {"pocket", "wave", "proxi"} = {} THEN {}
           ELSE {"proximity"})
              \cup (stored \cap {"tilt"})

\* When the executor has nothing left to do, the sensors that report are those
\* the stored settings want if the display is off, and none if it is on,
\* however fast the display went on and off (onDisplayOn, onDisplayOff): no
\* sensor is left on to wake the phone.
SensorsFollowDisplay ==
    tasks = <<>> /\ pending = {} =>
        registered = IF mDispOn THEN {} ELSE Wanted

\* A display that stays on, or off, comes to have just the sensors it should:
\* the tasks do not pile up for ever.
SensorsSettle ==
    /\ mDispOn ~> (registered = {} \/ ~mDispOn)
    /\ (~mDispOn /\ pending = {}) ~> (registered = Wanted \/ mDispOn)

\* The light of the fingerprint area does not outlive the finger, once what
\* was posted is done and provided that the finger's going was heard: not
\* even when the fingerprint daemon cannot be found.
LightEndsWithFinger == (posts = <<>> /\ ~finger /\ ~missed) => ~localHbm

\* The fingerprint sensor is not left blocked while the display is on.  It may
\* be: nothing unblocks it when the proximity sensor is unregistered.
UnblockedWhileOn == (mDispOn /\ tasks = <<>>) => ~proximity_state

\* The light does not outlive the finger.  It may, if the display came on
\* while the finger was there.
LightNeverOutlives == (posts = <<>> /\ ~finger) => ~localHbm
=============================================================================
