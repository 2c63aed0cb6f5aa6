------------------------ MODULE GripBinding_proofs ------------------------
(***************************************************************************)
(* Theorems about GripBinding, for any number of waiting messages, any     *)
(* limit on the retries and any delay of the reset.                        *)
(***************************************************************************)
EXTENDS GripBinding, TLAPS

USE DEF UNBOUND, BINDING, BOUND

\* A message is not the absence of one, whatever its parts.
LEMMA MsgIsMessage ==
    ASSUME NEW what \in {"REGISTER", "BIND", "RESET"},
           NEW arg1 \in 0 .. RetryLimit + 1, NEW due \in 0 .. ResetDelay
    PROVE  /\ Msg(what, arg1, due) \in Message
           /\ Msg(what, arg1, due) # NoMessage
           /\ Msg(what, arg1, due).what = what
    BY NoMessageAssumption, LimitAssumption DEF Msg, Message

\* A process that has begun waits for MSG_REGISTER_GRIPSENSOR only.
LEMMA StartedType ==
    ASSUME NEW q, Started(q)
    PROVE  q \in [Slots -> Message \cup {NoMessage}]
<1>1. PICK s \in Slots :
          q = [t \in Slots |-> IF t = s THEN Msg("REGISTER", 0, 0)
                               ELSE NoMessage]
    BY DEF Started
<1>2. Msg("REGISTER", 0, 0) \in Message
    BY MsgIsMessage, LimitAssumption
<1> QED
    BY <1>1, <1>2

\* Every handler, callback and tick keeps the types: arg1 stops at the limit
\* of retryLimitReached, whichever chain of retries counts it.
THEOREM TypeCorrect == Spec => []TypeOK
<1>1. Init => TypeOK
    BY StartedType DEF Init, TypeOK
<1>2. TypeOK /\ [Next]_vars => TypeOK'
  <2> SUFFICES ASSUME TypeOK, [Next]_vars PROVE TypeOK'
      OBVIOUS
  <2> USE DEF TypeOK
  <2>1. ASSUME NEW s \in Slots, RegisterGripsensor(s) PROVE TypeOK'
    <3>1. Msg("BIND", 0, 0) \in Message
        BY MsgIsMessage, LimitAssumption
    <3> QED
        BY <2>1, <3>1 DEF RegisterGripsensor
  <2>2. ASSUME NEW s \in Slots, BindUnbound(s) PROVE TypeOK'
    <3>1. queue[s] \in Message
        BY <2>2 DEF BindUnbound, Due, Pending
    <3>2. [queue[s] EXCEPT !.due = 1] \in Message
        BY <3>1, LimitAssumption DEF Message
    <3>3. queue' = [queue EXCEPT ![s] = [queue[s] EXCEPT !.due = 1]]
        BY <2>2 DEF BindUnbound
    <3>4. queue' \in [Slots -> Message \cup {NoMessage}]
        BY <3>2, <3>3
    <3> QED
        BY <2>2, <3>4 DEF BindUnbound, Asked
  <2>3. ASSUME NEW s \in Slots, BindBinding(s) PROVE TypeOK'
    <3>1. queue[s] \in Message
        BY <2>3 DEF BindBinding, Due, Pending
    <3>2. CASE queue[s].arg1 > RetryLimit
      <4>1. Msg("RESET", 0, ResetDelay) \in Message
          BY MsgIsMessage, LimitAssumption
      <4> QED
          BY <2>3, <3>2, <4>1 DEF BindBinding
    <3>3. CASE ~(queue[s].arg1 > RetryLimit)
      <4>1. queue[s].arg1 + 1 \in 0 .. RetryLimit + 1
          BY <3>1, <3>3, LimitAssumption DEF Message
      <4>2. Msg("BIND", queue[s].arg1 + 1, 1) \in Message
          BY <4>1, MsgIsMessage, LimitAssumption
      <4> QED
          BY <2>3, <3>3, <4>2 DEF BindBinding
    <3> QED
        BY <3>2, <3>3
  <2>4. ASSUME NEW s \in Slots, BindBound(s) PROVE TypeOK'
      BY <2>4 DEF BindBound
  <2>5. ASSUME NEW s \in Slots, ResetBindingState(s) PROVE TypeOK'
      BY <2>5 DEF ResetBindingState
  <2>6. CASE onServiceConnected
      BY <2>6 DEF onServiceConnected
  <2>7. CASE onServiceDisconnected
      BY <2>7 DEF onServiceDisconnected
  <2>8. CASE updateSensorEventToRemoteLocked
    <3>1. Msg("BIND", 0, 0) \in Message
        BY MsgIsMessage, LimitAssumption
    <3> QED
        BY <2>8, <3>1 DEF updateSensorEventToRemoteLocked
  <2>9. CASE Tick
    <3>1. ASSUME NEW s \in Slots, queue[s] # NoMessage
          PROVE  [queue[s] EXCEPT !.due = @ - 1] \in Message
      <4>1. queue[s] \in Message /\ queue[s].due > 0
          BY <2>9, <3>1 DEF Tick
      <4> QED
          BY <4>1, LimitAssumption DEF Message
    <3>2. queue' \in [Slots -> Message \cup {NoMessage}]
        BY <2>9, <3>1 DEF Tick
    <3> QED
        BY <2>9, <3>2 DEF Tick
  <2>10. CASE Restart
      BY <2>10, StartedType DEF Restart
  <2>11. CASE UNCHANGED vars
      BY <2>11 DEF vars
  <2> QED
      BY <2>1, <2>2, <2>3, <2>4, <2>5, <2>6, <2>7, <2>8, <2>9, <2>10, <2>11
      DEF Next, HandleMessage
<1> QED
    BY <1>1, <1>2, PTL DEF Spec

\* In the state BINDING a retry or a reset is always to come, and there is a
\* messenger exactly in the state BOUND.  It needs no strengthening but the
\* types: what could break it is a handler that consumes its message in the
\* state BINDING and posts none, and BindBinding posts one on both branches.
THEOREM Watched == Spec => []BindingIsWatched
<1>1. Init => BindingIsWatched
    BY DEF Init, BindingIsWatched
<1>2. TypeOK /\ BindingIsWatched /\ [Next]_vars => BindingIsWatched'
  <2> SUFFICES ASSUME TypeOK, BindingIsWatched, [Next]_vars
               PROVE  BindingIsWatched'
      OBVIOUS
  <2>1. ASSUME NEW s \in Slots, RegisterGripsensor(s)
        PROVE  BindingIsWatched'
    <3>1. Msg("BIND", 0, 0) # NoMessage /\ Msg("BIND", 0, 0).what = "BIND"
        BY MsgIsMessage, LimitAssumption
    <3>2. s \in Pending("BIND")'
        BY <2>1, <3>1 DEF RegisterGripsensor, Pending, TypeOK
    <3> QED
        BY <2>1, <3>2 DEF RegisterGripsensor, BindingIsWatched
  <2>2. ASSUME NEW s \in Slots, BindUnbound(s) PROVE BindingIsWatched'
    <3>1. queue[s] \in Message /\ queue[s].what = "BIND"
        BY <2>2 DEF BindUnbound, Due, Pending, TypeOK
    <3>2. queue'[s] = [queue[s] EXCEPT !.due = 1]
        BY <2>2 DEF BindUnbound, TypeOK
    <3>3. queue'[s] = Msg("BIND", queue[s].arg1, 1)
        BY <3>1, <3>2 DEF Message, Msg
    <3>4. queue[s].arg1 \in 0 .. RetryLimit + 1 /\ 1 \in 0 .. ResetDelay
        BY <3>1, LimitAssumption DEF Message
    <3>5. s \in Pending("BIND")'
        BY <3>3, <3>4, MsgIsMessage DEF Pending
    <3> QED
        BY <2>2, <3>5 DEF BindUnbound, BindingIsWatched
  <2>3. ASSUME NEW s \in Slots, BindBinding(s) PROVE BindingIsWatched'
    <3>1. queue[s] \in Message
        BY <2>3 DEF BindBinding, Due, Pending, TypeOK
    <3>2. CASE queue[s].arg1 > RetryLimit
      <4>1. queue'[s] = Msg("RESET", 0, ResetDelay)
          BY <2>3, <3>2 DEF BindBinding, TypeOK
      <4>2. s \in Pending("RESET")'
          BY <4>1, MsgIsMessage, LimitAssumption DEF Pending
      <4> QED
          BY <2>3, <4>2 DEF BindBinding, BindingIsWatched
    <3>3. CASE ~(queue[s].arg1 > RetryLimit)
      <4>1. queue'[s] = Msg("BIND", queue[s].arg1 + 1, 1)
          BY <2>3, <3>3 DEF BindBinding, TypeOK
      <4>2. queue[s].arg1 + 1 \in 0 .. RetryLimit + 1
          BY <3>1, <3>3, LimitAssumption DEF Message
      <4>3. s \in Pending("BIND")'
          BY <4>1, <4>2, MsgIsMessage, LimitAssumption DEF Pending
      <4> QED
          BY <2>3, <4>3 DEF BindBinding, BindingIsWatched
    <3> QED
        BY <3>2, <3>3
  <2>4. ASSUME NEW s \in Slots, BindBound(s) PROVE BindingIsWatched'
      BY <2>4 DEF BindBound, BindingIsWatched
  <2>5. ASSUME NEW s \in Slots, ResetBindingState(s) PROVE BindingIsWatched'
      BY <2>5 DEF ResetBindingState, BindingIsWatched
  <2>6. CASE onServiceConnected
      BY <2>6 DEF onServiceConnected, BindingIsWatched
  <2>7. CASE onServiceDisconnected
      BY <2>7 DEF onServiceDisconnected, BindingIsWatched
  <2>8. CASE updateSensorEventToRemoteLocked
      BY <2>8 DEF updateSensorEventToRemoteLocked, BindingIsWatched
  <2>9. CASE Tick
    <3>1. ASSUME NEW what \in {"BIND", "RESET"}, NEW s \in Pending(what)
          PROVE  s \in Pending(what)'
      <4>1. s \in Slots /\ queue[s] \in Message /\ queue[s].what = what
          BY <3>1 DEF Pending, TypeOK
      <4>2. queue'[s] = [queue[s] EXCEPT !.due = @ - 1] /\ queue[s].due > 0
          BY <2>9, <3>1 DEF Tick, Pending
      <4>3. /\ queue'[s] = Msg(what, queue[s].arg1, queue[s].due - 1)
            /\ queue[s].arg1 \in 0 .. RetryLimit + 1
            /\ queue[s].due - 1 \in 0 .. ResetDelay
          BY <4>1, <4>2, LimitAssumption DEF Message, Msg
      <4> QED
          BY <4>1, <4>3, MsgIsMessage DEF Pending
    <3> QED
        BY <2>9, <3>1 DEF Tick, BindingIsWatched
  <2>10. CASE Restart
      BY <2>10 DEF Restart, BindingIsWatched
  <2>11. CASE UNCHANGED vars
      BY <2>11 DEF vars, BindingIsWatched, Pending
  <2> QED
      BY <2>1, <2>2, <2>3, <2>4, <2>5, <2>6, <2>7, <2>8, <2>9, <2>10, <2>11
      DEF Next, HandleMessage
<1> QED
    BY <1>1, <1>2, TypeCorrect, PTL DEF Spec
=============================================================================
