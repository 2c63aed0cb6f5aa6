------------------------- MODULE KeyHandler_proofs -------------------------
(***************************************************************************)
(* Theorems about KeyHandler, for any bound on the executor's tasks and on *)
(* the posted work, and any set of settings that may change.               *)
(***************************************************************************)
EXTENDS KeyHandler, TLAPS

\* Every handler keeps the types, and the executor's one thread takes the
\* oldest task.
LEMMA Runs ==
    ASSUME tasks \in Seq(Tasks), RunTask
    PROVE  /\ tasks # <<>> /\ tasks' = Tail(tasks)
           /\ Head(tasks) \in Tasks
           /\ tasks' \in Seq(Tasks) /\ Len(tasks') = Len(tasks) - 1
           /\ registered' = IF Head(tasks)[1] = "register"
                            THEN registered \cup {Head(tasks)[2]}
                            ELSE registered \ {Head(tasks)[2]}
<1>1. PICK i \in DOMAIN tasks :
        /\ i = 1
        /\ registered' = IF tasks[i][1] = "register"
                         THEN registered \cup {tasks[i][2]}
                         ELSE registered \ {tasks[i][2]}
        /\ tasks' = RemoveAt(tasks, i)
    BY DEF RunTask, Due
<1>2. tasks # <<>> /\ Len(tasks) >= 1 /\ Head(tasks) = tasks[1]
    BY <1>1
<1>3. SubSeq(tasks, 1, 0) = <<>>
    BY <1>2
<1>4. SubSeq(tasks, 2, Len(tasks)) = Tail(tasks)
    BY <1>2
<1>5. RemoveAt(tasks, 1) = Tail(tasks)
    BY <1>2, <1>3, <1>4 DEF RemoveAt
<1> QED
    BY <1>1, <1>2, <1>5

LEMMA SubmittedType ==
    ASSUME NEW what \in {"register", "unregister"}
    PROVE  Submitted(what) \in Seq(Tasks) /\ Len(Submitted(what)) <= 2
<1>1. <<what, "proximity">> \in Tasks /\ <<what, "tilt">> \in Tasks
    BY DEF Tasks, Sensors
<1> QED
    BY <1>1 DEF Submitted

\* The sensors, settings and queues of the handler stay of their types, and
\* the executor and the looper within their bounds.
THEOREM TypeCorrect == Spec => []TypeOK
<1>1. Init => TypeOK
  <2> SUFFICES ASSUME Init PROVE TypeOK
      OBVIOUS
  <2>1. tasks \in Seq(Tasks) /\ Len(tasks) <= MaxTasks
      BY BoundsAssumption DEF Init
  <2>2. posts \in Seq({"pressed", "up"}) /\ Len(posts) <= MaxPosts
      BY BoundsAssumption DEF Init
  <2>3. stored \subseteq Settings /\ mUse \subseteq Settings
      BY DEF Init
  <2> QED
      BY <2>1, <2>2, <2>3, SwitchAssumption DEF Init, TypeOK
<1>2. TypeOK /\ [Next]_vars => TypeOK'
  <2> SUFFICES ASSUME TypeOK, [Next]_vars PROVE TypeOK'
      OBVIOUS
  <2> USE DEF TypeOK
  <2>1. ASSUME NEW s \in Settings, ChangeSetting(s) PROVE TypeOK'
      BY <2>1 DEF ChangeSetting, sensorVars, fodVars
  <2>2. CASE update
      BY <2>2 DEF update, sensorVars, fodVars
  <2>3. CASE updateDozeSettings
      BY <2>3 DEF updateDozeSettings, sensorVars, fodVars
  <2>4. CASE onDisplayOn
    <3>1. Submitted("unregister") \in Seq(Tasks)
          /\ Len(Submitted("unregister")) <= 2
        BY SubmittedType
    <3>2. tasks' \in Seq(Tasks) /\ Len(tasks') <= MaxTasks
        BY <2>4, <3>1, BoundsAssumption DEF onDisplayOn
    <3> QED
        BY <2>4, <3>2, SwitchAssumption DEF onDisplayOn, settingVars, fodVars
  <2>5. CASE onDisplayOff
    <3>1. Submitted("register") \in Seq(Tasks)
          /\ Len(Submitted("register")) <= 2
        BY SubmittedType
    <3>2. tasks' \in Seq(Tasks) /\ Len(tasks') <= MaxTasks
        BY <2>5, <3>1, BoundsAssumption DEF onDisplayOff
    <3>3. mProxyWasNear' \in BOOLEAN
        BY <2>5 DEF onDisplayOff
    <3> QED
        BY <2>5, <3>2, <3>3 DEF onDisplayOff, settingVars, fodVars
  <2>6. CASE RunTask
    <3>1. registered' \subseteq Sensors
        BY <2>6, Runs DEF Tasks
    <3>2. tasks' \in Seq(Tasks) /\ Len(tasks') <= MaxTasks
        BY <2>6, Runs, BoundsAssumption
    <3> QED
        BY <2>6, <3>1, <3>2 DEF RunTask, settingVars, fodVars
  <2>7. ASSUME NEW near \in BOOLEAN, onSensorChanged(near) PROVE TypeOK'
      BY <2>7 DEF onSensorChanged, settingVars, fodVars
  <2>8. CASE FodPressed
    <3>1. posts' \in Seq({"pressed", "up"}) /\ Len(posts') <= MaxPosts
        BY <2>8, BoundsAssumption DEF FodPressed
    <3> QED
        BY <2>8, <3>1 DEF FodPressed, settingVars, sensorVars
  <2>9. CASE FodUp
    <3>1. posts' \in Seq({"pressed", "up"}) /\ Len(posts') <= MaxPosts
        BY <2>9, BoundsAssumption DEF FodUp
    <3> QED
        BY <2>9, <3>1 DEF FodUp, settingVars, sensorVars
  <2>10. CASE RunPost
    <3>1. localHbm' \in BOOLEAN
        BY <2>10 DEF RunPost, Lit
    <3>2. posts' \in Seq({"pressed", "up"}) /\ Len(posts') <= MaxPosts
        BY <2>10, BoundsAssumption DEF RunPost
    <3> QED
        BY <2>10, <3>1, <3>2 DEF RunPost, settingVars, sensorVars
  <2>11. CASE UNCHANGED vars
      BY <2>11 DEF vars, settingVars, sensorVars, fodVars
  <2> QED
      BY <2>1, <2>2, <2>3, <2>4, <2>5, <2>6, <2>7, <2>8, <2>9, <2>10, <2>11
      DEF Next
<1> QED
    BY <1>1, <1>2, PTL DEF Spec
-----------------------------------------------------------------------------
(***************************************************************************)
(* The light: what was posted last decides it, and while there is neither  *)
(* a finger nor one that went unheard that is the end of a press.          *)
(***************************************************************************)
LightInv ==
    ~finger /\ ~missed =>
        IF posts = <<>> THEN ~localHbm ELSE posts[Len(posts)] = "up"

LEMMA LastOfTail ==
    ASSUME NEW S, NEW q \in Seq(S), q # <<>>
    PROVE  /\ Len(q) = 1 \/ Len(q) > 1
           /\ Len(q) > 1 => /\ Tail(q) # <<>>
                            /\ Tail(q)[Len(Tail(q))] = q[Len(q)]
<1>1. Len(q) \in Nat /\ Len(q) # 0
    OBVIOUS
<1>2. Len(Tail(q)) = Len(q) - 1
    BY <1>1
<1>3. ASSUME Len(q) > 1 PROVE Tail(q)[Len(q) - 1] = q[Len(q)]
  <2>1. \A i \in 1 .. (Len(q) - 1) : Tail(q)[i] = q[i + 1]
      OBVIOUS
  <2> QED
      BY <1>1, <1>3, <2>1
<1>4. ASSUME Len(q) > 1 PROVE Tail(q) # <<>>
  <2>1. Len(<<>>) = 0
      OBVIOUS
  <2>2. Len(Tail(q)) # 0
      BY <1>1, <1>2, <1>4
  <2> QED
      BY <2>1, <2>2, Zenon
<1> QED
    BY <1>1, <1>2, <1>3, <1>4

\* The light of the fingerprint area does not outlive a finger whose going was
\* heard, for any number of presses that wait to be handled.
THEOREM LightEnds == Spec => []LightEndsWithFinger
<1>1. Init => LightInv
    BY DEF Init, LightInv
<1>2. TypeOK /\ LightInv /\ [Next]_vars => LightInv'
  <2> SUFFICES ASSUME TypeOK, LightInv, [Next]_vars PROVE LightInv'
      OBVIOUS
  <2>0. posts \in Seq({"pressed", "up"}) /\ localHbm \in BOOLEAN
      BY DEF TypeOK
  <2>1. CASE FodPressed
      BY <2>1 DEF FodPressed, LightInv
  <2>2. CASE FodUp
    <3>1. CASE mDispOn
        BY <2>2, <3>1 DEF FodUp, LightInv
    <3>2. CASE ~mDispOn
      <4>1. posts' = Append(posts, "up")
          BY <2>2, <3>2 DEF FodUp
      <4>2. posts' # <<>> /\ posts'[Len(posts')] = "up"
          BY <2>0, <4>1
      <4> QED
          BY <4>2 DEF LightInv
    <3> QED
        BY <3>1, <3>2
  <2>3. CASE RunPost
    <3>1. /\ posts # <<>> /\ posts' = Tail(posts)
          /\ UNCHANGED <<finger, missed>>
        BY <2>3 DEF RunPost
    <3>2. CASE Len(posts) = 1
      <4>1. posts' = <<>> /\ Head(posts) = posts[Len(posts)]
          BY <2>0, <3>1, <3>2
      <4>2. Head(posts) = "up" => ~localHbm'
          BY <2>3 DEF RunPost, Lit
      <4> QED
          BY <3>1, <4>1, <4>2 DEF LightInv
    <3>3. CASE Len(posts) > 1
      <4>1. posts' # <<>> /\ posts'[Len(posts')] = posts[Len(posts)]
          BY <2>0, <3>1, <3>3, LastOfTail
      <4> QED
          BY <3>1, <4>1 DEF LightInv
    <3>4. Len(posts) = 1 \/ Len(posts) > 1
        BY <2>0, <3>1, LastOfTail
    <3> QED
        BY <3>2, <3>3, <3>4
  <2>4. CASE UNCHANGED fodVars
      BY <2>4 DEF fodVars, LightInv
  <2>5. ~FodPressed /\ ~FodUp /\ ~RunPost => UNCHANGED fodVars
      BY DEF Next, vars, ChangeSetting, update, updateDozeSettings, onDisplayOn,
             onDisplayOff, RunTask, onSensorChanged
  <2> QED
      BY <2>1, <2>2, <2>3, <2>4, <2>5
<1>3. LightInv => LightEndsWithFinger
    BY DEF LightInv, LightEndsWithFinger
<1> QED
    BY <1>1, <1>2, <1>3, TypeCorrect, PTL DEF Spec
-----------------------------------------------------------------------------
(***************************************************************************)
(* The sensors: what the last task about a sensor says, or whether it is   *)
(* registered if there is none, is what the display and the settings ask.  *)
(***************************************************************************)
EndsOn(q, r, s) ==
    IF \E i \in DOMAIN q : q[i][2] = s
    THEN \E i \in DOMAIN q : /\ q[i][1] = "register" /\ q[i][2] = s
                             /\ \A j \in DOMAIN q : j > i => q[j][2] # s
    ELSE s \in r

SensorInv ==
    /\ ~mDispOn => pending = {}
    /\ "proxi" \notin pending => ("proxi" \in mUse <=> "proxi" \in stored)
    /\ "doze" \notin pending =>
           \A d \in DozeSettings : d \in mUse <=> d \in stored
    /\ \A s \in Sensors :
           EndsOn(tasks, registered, s) <=> (~mDispOn /\ s \in Enabled)

LEMMA OneMore ==
    ASSUME NEW q \in Seq(Tasks), NEW r, NEW s, NEW t \in Tasks
    PROVE  /\ t[2] = s => (EndsOn(Append(q, t), r, s) <=> t[1] = "register")
           /\ t[2] # s => (EndsOn(Append(q, t), r, s) <=> EndsOn(q, r, s))
<1> DEFINE p == Append(q, t)
           n == Len(q) + 1
<1>1. /\ DOMAIN p = 1 .. n /\ DOMAIN q = 1 .. Len(q) /\ Len(q) \in Nat
      /\ p[n] = t /\ \A i \in 1 .. Len(q) : p[i] = q[i]
    OBVIOUS
<1> HIDE DEF p
<1>2. ASSUME t[2] = s PROVE EndsOn(p, r, s) <=> t[1] = "register"
  <2>1. \A i \in DOMAIN p :
            (\A j \in DOMAIN p : j > i => p[j][2] # s) => i = n
      BY <1>1, <1>2
  <2>2. \A j \in DOMAIN p : ~ (j > n)
      BY <1>1
  <2> QED
      BY <1>1, <1>2, <2>1, <2>2 DEF EndsOn
<1>3. ASSUME t[2] # s PROVE EndsOn(p, r, s) <=> EndsOn(q, r, s)
  <2>1. \A i \in DOMAIN p : p[i][2] = s => i \in DOMAIN q /\ p[i] = q[i]
      BY <1>1, <1>3
  <2>2. \A i \in DOMAIN q : i \in DOMAIN p /\ p[i] = q[i]
      BY <1>1
  <2> QED
      BY <2>1, <2>2 DEF EndsOn
<1> QED
    BY <1>2, <1>3 DEF p

LEMMA OneLess ==
    ASSUME NEW q \in Seq(Tasks), q # <<>>, NEW r, NEW s
    PROVE  EndsOn(Tail(q), IF Head(q)[1] = "register" THEN r \cup {Head(q)[2]}
                           ELSE r \ {Head(q)[2]}, s)
           <=> EndsOn(q, r, s)
<1> DEFINE p == Tail(q)
           r2 == IF Head(q)[1] = "register" THEN r \cup {Head(q)[2]}
                 ELSE r \ {Head(q)[2]}
<1>1. /\ Len(q) \in Nat /\ Len(q) >= 1 /\ DOMAIN q = 1 .. Len(q)
      /\ DOMAIN p = 1 .. (Len(q) - 1)
      /\ \A i \in 1 .. (Len(q) - 1) : p[i] = q[i + 1]
      /\ Head(q) = q[1]
    OBVIOUS
<1> HIDE DEF p
<1>2. CASE \E i \in DOMAIN p : p[i][2] = s
  <2>1. \E i \in DOMAIN q : q[i][2] = s
      BY <1>1, <1>2
  <2>2. ASSUME NEW i \in DOMAIN p, p[i][1] = "register", p[i][2] = s,
               \A j \in DOMAIN p : j > i => p[j][2] # s
        PROVE  EndsOn(q, r, s)
    <3>1. i + 1 \in DOMAIN q /\ q[i + 1] = p[i]
        BY <1>1
    <3>2. ASSUME NEW j \in DOMAIN q, j > i + 1 PROVE q[j][2] # s
      <4>1. j - 1 \in DOMAIN p /\ j - 1 > i /\ p[j - 1] = q[j]
          BY <1>1, <3>2
      <4> QED
          BY <2>2, <4>1
    <3> QED
        BY <2>1, <2>2, <3>1, <3>2 DEF EndsOn
  <2>3. ASSUME NEW i \in DOMAIN q, q[i][1] = "register", q[i][2] = s,
               \A j \in DOMAIN q : j > i => q[j][2] # s
        PROVE  EndsOn(p, r2, s)
    <3>1. PICK k \in DOMAIN p : p[k][2] = s
        BY <1>2
    <3>2. k + 1 \in DOMAIN q /\ q[k + 1][2] = s
        BY <1>1, <3>1
    <3>3. ~ (k + 1 > i)
        BY <2>3, <3>2
    <3>4. i - 1 \in DOMAIN p /\ p[i - 1] = q[i]
        BY <1>1, <3>1, <3>3
    <3>5. ASSUME NEW j \in DOMAIN p, j > i - 1 PROVE p[j][2] # s
      <4>1. j + 1 \in DOMAIN q /\ j + 1 > i /\ p[j] = q[j + 1]
          BY <1>1, <3>5
      <4> QED
          BY <2>3, <4>1
    <3> QED
        BY <1>2, <2>3, <3>4, <3>5 DEF EndsOn
  <2>4. EndsOn(p, r2, s) => EndsOn(q, r, s)
      BY <1>2, <2>2 DEF EndsOn
  <2>5. EndsOn(q, r, s) => EndsOn(p, r2, s)
      BY <2>1, <2>3 DEF EndsOn
  <2> QED
      BY <2>4, <2>5 DEF p
<1>3. CASE ~ \E i \in DOMAIN p : p[i][2] = s
  <2>1. \A i \in DOMAIN q : q[i][2] = s => i = 1
    <3> SUFFICES ASSUME NEW i \in DOMAIN q, i # 1 PROVE q[i][2] # s
        OBVIOUS
    <3>1. i - 1 \in DOMAIN p /\ p[i - 1] = q[i]
        BY <1>1
    <3> QED
        BY <1>3, <3>1
  <2>2. 1 \in DOMAIN q
      BY <1>1
  <2>3. CASE q[1][2] = s
    <3>1. EndsOn(q, r, s) <=> q[1][1] = "register"
        BY <1>1, <2>1, <2>2, <2>3 DEF EndsOn
    <3>2. EndsOn(p, r2, s) <=> s \in r2
        BY <1>3 DEF EndsOn
    <3>3. s \in r2 <=> q[1][1] = "register"
        BY <1>1, <2>3
    <3> QED
        BY <3>1, <3>2, <3>3 DEF p
  <2>4. CASE q[1][2] # s
    <3>1. EndsOn(q, r, s) <=> s \in r
        BY <2>1, <2>4 DEF EndsOn
    <3>2. EndsOn(p, r2, s) <=> s \in r2
        BY <1>3 DEF EndsOn
    <3>3. s \in r2 <=> s \in r
        BY <1>1, <2>4
    <3> QED
        BY <3>1, <3>2, <3>3 DEF p
  <2> QED
      BY <2>3, <2>4
<1> QED
    BY <1>2, <1>3 DEF p

\* A display that goes on or off submits a task for each sensor that is
\* enabled, and for no other.
LEMMA SubmittedEnds ==
    ASSUME NEW what \in {"register", "unregister"}, tasks \in Seq(Tasks),
           NEW s \in Sensors
    PROVE  EndsOn(tasks \o Submitted(what), registered, s)
           <=> IF s \in Enabled THEN what = "register"
               ELSE EndsOn(tasks, registered, s)
<1> DEFINE a == <<what, "proximity">>
           b == <<what, "tilt">>
<1>1. a \in Tasks /\ b \in Tasks /\ a[1] = what /\ b[1] = what
      /\ a[2] = "proximity" /\ b[2] = "tilt"
    BY DEF Tasks, Sensors
<1>2. s = "proximity" \/ s = "tilt"
    BY DEF Sensors
<1>3. tasks \o <<>> = tasks
    OBVIOUS
<1> HIDE DEF a, b
<1>4. /\ tasks \o <<a>> = Append(tasks, a) /\ tasks \o <<b>> = Append(tasks, b)
      /\ tasks \o (<<a>> \o <<b>>) = Append(Append(tasks, a), b)
      /\ <<a>> \o <<>> = <<a>> /\ <<>> \o <<b>> = <<b>> /\ <<>> \o <<>> = <<>>
      /\ Append(tasks, a) \in Seq(Tasks)
    BY <1>1
<1>5. Submitted(what) = (IF "proximity" \in Enabled THEN <<a>> ELSE <<>>)
                            \o (IF "tilt" \in Enabled THEN <<b>> ELSE <<>>)
    BY DEF Submitted, a, b
<1>6. tasks \o Submitted(what) =
          IF "proximity" \in Enabled
          THEN IF "tilt" \in Enabled THEN Append(Append(tasks, a), b)
               ELSE Append(tasks, a)
          ELSE IF "tilt" \in Enabled THEN Append(tasks, b) ELSE tasks
    BY <1>3, <1>4, <1>5
<1> DEFINE e(q) == EndsOn(q, registered, s)
<1>7. ASSUME NEW q \in Seq(Tasks), NEW t \in Tasks, t[1] = what
      PROVE  e(Append(q, t)) <=> IF t[2] = s THEN what = "register" ELSE e(q)
  <2>1. CASE t[2] = s
      BY <1>7, <2>1, OneMore
  <2>2. CASE t[2] # s
      BY <1>7, <2>2, OneMore
  <2> QED
      BY <2>1, <2>2
<1> HIDE DEF e
<1>8. /\ e(Append(tasks, a)) <=>
            IF s = "proximity" THEN what = "register" ELSE e(tasks)
      /\ e(Append(tasks, b)) <=>
            IF s = "tilt" THEN what = "register" ELSE e(tasks)
      /\ e(Append(Append(tasks, a), b)) <=>
            IF s = "tilt" THEN what = "register" ELSE e(Append(tasks, a))
  <2>1. e(Append(tasks, a)) <=>
            IF a[2] = s THEN what = "register" ELSE e(tasks)
      BY <1>1, <1>7
  <2>2. e(Append(tasks, b)) <=>
            IF b[2] = s THEN what = "register" ELSE e(tasks)
      BY <1>1, <1>7
  <2>3. e(Append(Append(tasks, a), b)) <=>
            IF b[2] = s THEN what = "register" ELSE e(Append(tasks, a))
      BY <1>1, <1>4, <1>7
  <2> QED
      BY <1>1, <2>1, <2>2, <2>3
<1>9. CASE "proximity" \in Enabled /\ "tilt" \in Enabled
    BY <1>2, <1>6, <1>8, <1>9 DEF e
<1>10. CASE "proximity" \in Enabled /\ "tilt" \notin Enabled
    BY <1>2, <1>6, <1>8, <1>10 DEF e
<1>11. CASE "proximity" \notin Enabled /\ "tilt" \in Enabled
    BY <1>2, <1>6, <1>8, <1>11 DEF e
<1>12. CASE "proximity" \notin Enabled /\ "tilt" \notin Enabled
    BY <1>2, <1>6, <1>12 DEF e
<1> QED
    BY <1>9, <1>10, <1>11, <1>12

\* However fast the display goes on and off, the sensors that report once the
\* executor is idle are those that the stored settings want: if no setting
\* changes while the display is off, and a change is known before it goes off.
THEOREM SensorsFollow ==
    ASSUME ~ChangesWhileOff, SettlesFirst
    PROVE  Spec => []SensorsFollowDisplay
<1>1. Init => SensorInv
    BY DEF Init, SensorInv, EndsOn
<1>2. TypeOK /\ SensorInv /\ [Next]_vars => SensorInv'
  <2> SUFFICES ASSUME TypeOK, SensorInv, [Next]_vars PROVE SensorInv'
      OBVIOUS
  <2>0. tasks \in Seq(Tasks) /\ mDispOn \in BOOLEAN
      BY DEF TypeOK
  <2> DEFINE on(s) == EndsOn(tasks, registered, s)
  <2>1. ASSUME NEW s \in Settings, ChangeSetting(s) PROVE SensorInv'
    <3>1. mDispOn /\ UNCHANGED <<mUse, mDispOn, tasks, registered>>
        BY <2>1 DEF ChangeSetting, sensorVars
    <3>2. \A t \in Sensors : ~ on(t)'
        BY <3>1 DEF SensorInv
    <3>3. \A t : t # s => (t \in stored' <=> t \in stored)
        BY <2>1 DEF ChangeSetting
    <3>4. pending' = pending \cup {IF s = "proxi" THEN "proxi" ELSE "doze"}
        BY <2>1 DEF ChangeSetting
    <3>5. /\ "proxi" \notin pending' =>
                ("proxi" \in mUse' <=> "proxi" \in stored')
          /\ "doze" \notin pending' =>
                \A d \in DozeSettings : d \in mUse' <=> d \in stored'
        BY <3>1, <3>3, <3>4 DEF SensorInv, DozeSettings
    <3> QED
        BY <3>1, <3>2, <3>5 DEF SensorInv
  <2>2. CASE update
    <3>1. mDispOn /\ UNCHANGED <<stored, mDispOn, tasks, registered>>
        BY <2>0, <2>2 DEF update, sensorVars, SensorInv
    <3>2. \A t \in Sensors : ~ on(t)'
        BY <3>1 DEF SensorInv
    <3>3. /\ "proxi" \in mUse' <=> "proxi" \in stored'
          /\ "doze" \notin pending' =>
                \A d \in DozeSettings : d \in mUse' <=> d \in stored'
        BY <2>2, <3>1 DEF update, SensorInv, DozeSettings
    <3> QED
        BY <3>1, <3>2, <3>3 DEF SensorInv
  <2>3. CASE updateDozeSettings
    <3>1. mDispOn /\ UNCHANGED <<stored, mDispOn, tasks, registered>>
        BY <2>0, <2>3 DEF updateDozeSettings, sensorVars, SensorInv
    <3>2. \A t \in Sensors : ~ on(t)'
        BY <3>1 DEF SensorInv
    <3>3. /\ "proxi" \notin pending' =>
                ("proxi" \in mUse' <=> "proxi" \in stored')
          /\ \A d \in DozeSettings : d \in mUse' <=> d \in stored'
        BY <2>3, <3>1 DEF updateDozeSettings, SensorInv, DozeSettings
    <3> QED
        BY <3>1, <3>2, <3>3 DEF SensorInv
  <2>4. CASE onDisplayOn
    <3>1. /\ ~mDispOn /\ mDispOn' = TRUE
          /\ tasks' = tasks \o Submitted("unregister")
          /\ UNCHANGED <<stored, mUse, pending, registered>>
        BY <2>4 DEF onDisplayOn, settingVars
    <3>2. ASSUME NEW t \in Sensors PROVE ~ on(t)'
      <4>1. on(t) <=> t \in Enabled
          BY <3>1 DEF SensorInv
      <4>2. EndsOn(tasks \o Submitted("unregister"), registered, t)
            <=> IF t \in Enabled THEN "unregister" = "register" ELSE on(t)
          BY <2>0, SubmittedEnds
      <4> QED
          BY <3>1, <4>1, <4>2
    <3> QED
        BY <3>1, <3>2 DEF SensorInv
  <2>5. CASE onDisplayOff
    <3>1. /\ mDispOn /\ mDispOn' = FALSE /\ pending = {}
          /\ tasks' = tasks \o Submitted("register")
          /\ UNCHANGED <<stored, mUse, pending, registered>>
        BY <2>5 DEF onDisplayOff, settingVars
    <3>2. Enabled' = Enabled
        BY <3>1 DEF Enabled, enableProxiSensor
    <3>3. ASSUME NEW t \in Sensors PROVE on(t)' <=> t \in Enabled'
      <4>1. ~ on(t)
          BY <3>1 DEF SensorInv
      <4>2. EndsOn(tasks \o Submitted("register"), registered, t)
            <=> IF t \in Enabled THEN "register" = "register" ELSE on(t)
          BY <2>0, SubmittedEnds
      <4> QED
          BY <3>1, <3>2, <4>1, <4>2
    <3> QED
        BY <3>1, <3>3 DEF SensorInv
  <2>6. CASE RunTask
    <3>1. UNCHANGED <<stored, mUse, pending, mDispOn>>
        BY <2>6 DEF RunTask, settingVars
    <3>2. Enabled' = Enabled
        BY <3>1 DEF Enabled, enableProxiSensor
    <3>3. ASSUME NEW t \in Sensors PROVE on(t)' <=> on(t)
      <4> DEFINE r2 == IF Head(tasks)[1] = "register"
                       THEN registered \cup {Head(tasks)[2]}
                       ELSE registered \ {Head(tasks)[2]}
      <4>1. tasks # <<>> /\ tasks' = Tail(tasks) /\ registered' = r2
          BY <2>0, <2>6, Runs
      <4>2. EndsOn(Tail(tasks), r2, t) <=> EndsOn(tasks, registered, t)
          BY <2>0, <4>1, OneLess
      <4> QED
          BY <4>1, <4>2
    <3> QED
        BY <3>1, <3>2, <3>3 DEF SensorInv
  <2>7. CASE UNCHANGED <<settingVars, mDispOn, tasks, registered>>
    <3>1. Enabled' = Enabled
        BY <2>7 DEF settingVars, Enabled, enableProxiSensor
    <3> QED
        BY <2>7, <3>1 DEF settingVars, SensorInv
  <2>8. UNCHANGED vars => UNCHANGED <<settingVars, mDispOn, tasks, registered>>
      BY DEF vars, sensorVars
  <2>9. \/ \E near \in BOOLEAN : onSensorChanged(near)
        \/ FodPressed \/ FodUp \/ RunPost
        => UNCHANGED <<settingVars, mDispOn, tasks, registered>>
      BY DEF onSensorChanged, FodPressed, FodUp, RunPost, sensorVars
  <2> QED
      BY <2>1, <2>2, <2>3, <2>4, <2>5, <2>6, <2>7, <2>8, <2>9 DEF Next
<1>3. TypeOK /\ SensorInv => SensorsFollowDisplay
  <2> SUFFICES ASSUME TypeOK, SensorInv, tasks = <<>>, pending = {}
               PROVE  registered = IF mDispOn THEN {} ELSE Wanted
      BY DEF SensorsFollowDisplay
  <2>1. \A s \in Sensors : s \in registered <=> (~mDispOn /\ s \in Enabled)
      BY DEF SensorInv, EndsOn
  <2>2. /\ "proxi" \in mUse <=> "proxi" \in stored
        /\ \A d \in {"wave", "pocket", "tilt"} : d \in mUse <=> d \in stored
      BY DEF SensorInv, DozeSettings
  <2>3. Enabled = Wanted
      BY <2>2 DEF Enabled, enableProxiSensor, Wanted, Sensors
  <2>4. registered \subseteq Sensors /\ Enabled \subseteq Sensors
      BY DEF TypeOK, Enabled
  <2> QED
      BY <2>1, <2>3, <2>4
<1> QED
    BY <1>1, <1>2, <1>3, TypeCorrect, PTL DEF Spec
=============================================================================
