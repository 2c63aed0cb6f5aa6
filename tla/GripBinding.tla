---------------------------- MODULE GripBinding ----------------------------
(***************************************************************************)
(* GripSensor.java: the grip service binds the remote service that gets    *)
(* the squeezes, and retries by messages to its main thread.  The callbacks *)
(* of the connection come on the main thread, squeezes on the worker, and  *)
(* all state is under mLock; only the worker's message is left between     *)
(* two handlers.  A tick is a second, and the main thread handles what is  *)
(* due before the next.  What a squeeze says, and wakelocks, are left out. *)
(***************************************************************************)
EXTENDS Naturals

CONSTANTS Slots,        \* bound on the messages that wait at one time
          RetryLimit,   \* retries beyond which the code waits for a reset
          ResetDelay,   \* ticks from the last retry to the reset
          NoMessage

ASSUME LimitAssumption == RetryLimit \in Nat /\ ResetDelay \in Nat \ {0}
ASSUME NoMessageAssumption ==
    NoMessage \notin [what : {"REGISTER", "BIND", "RESET"},
                      arg1 : Nat, due : Nat]

UNBOUND == 0
BINDING == 1
BOUND   == 2

VARIABLES queue,              \* the messages that wait for the main thread
          registered,         \* the sensor listener is registered
          mServiceState,
          mRemoteMsgService,  \* whether the messenger is not null
          link                \* the connection, as the system sees it

vars == <<queue, registered, mServiceState, mRemoteMsgService, link>>

Message == [what : {"REGISTER", "BIND", "RESET"},
            arg1 : 0 .. RetryLimit + 1, due : 0 .. ResetDelay]

TypeOK ==
    /\ queue \in [Slots -> Message \cup {NoMessage}]
    /\ registered \in BOOLEAN
    /\ mServiceState \in {UNBOUND, BINDING, BOUND}
    /\ mRemoteMsgService \in BOOLEAN
    /\ link \in {"none", "asked", "up"}

Msg(what, arg1, due) == [what |-> what, arg1 |-> arg1, due |-> due]

Pending(what) ==
    {s \in Slots : queue[s] # NoMessage /\ queue[s].what = what}

\* The message in s is the next that the main thread handles.
Due(s, what) == s \in Pending(what) /\ queue[s].due = 0

\* onStart, in a process that has begun, or begun again, at boot.
Started(q) ==
    \E s \in Slots : q = [t \in Slots |-> IF t = s THEN Msg("REGISTER", 0, 0)
                                          ELSE NoMessage]

Init ==
    /\ Started(queue)
    /\ registered = FALSE
    /\ mServiceState = UNBOUND
    /\ mRemoteMsgService = FALSE
    /\ link = "none"

\* START_STICKY: the process dies and the service is started again in a new
\* one; the system ends the connection with the process.
Restart ==
    /\ Started(queue')
    /\ registered' = FALSE
    /\ mServiceState' = UNBOUND
    /\ mRemoteMsgService' = FALSE
    /\ link' = "none"
-----------------------------------------------------------------------------
(***************************************************************************)
(* SensorServiceHandler                                                    *)
(***************************************************************************)
\* The sensor may be missing, or refuse the listener; the binding goes on.
RegisterGripsensor(s) ==
    /\ Due(s, "REGISTER")
    /\ registered' \in BOOLEAN
    /\ queue' = [queue EXCEPT ![s] = Msg("BIND", 0, 0)]
    /\ UNCHANGED <<mServiceState, mRemoteMsgService, link>>

\* bindServiceAsUser: the system starts the service, if it is there, and
\* connects it; a connection that is up already is not told again.
Asked == {IF link = "none" THEN "asked" ELSE link, link}

\* It may be refused by a SecurityException, which leaves the state.
BindUnbound(s) ==
    /\ Due(s, "BIND") /\ mServiceState = UNBOUND
    /\ \/ mServiceState' = BINDING /\ link' \in Asked
       \/ UNCHANGED <<mServiceState, link>>
    /\ queue' = [queue EXCEPT ![s].due = 1]
    /\ UNCHANGED <<registered, mRemoteMsgService>>

BindBinding_GivesUp(s) ==
    /\ Due(s, "BIND") /\ mServiceState = BINDING
    /\ queue' = [queue EXCEPT ![s] = IF @.arg1 > RetryLimit THEN NoMessage
                                     ELSE Msg("BIND", @.arg1 + 1, 1)]
    /\ UNCHANGED <<registered, mServiceState, mRemoteMsgService, link>>

BindBinding(s) ==
    /\ Due(s, "BIND") /\ mServiceState = BINDING
    /\ queue' = [queue EXCEPT ![s] = IF @.arg1 > RetryLimit
                                     THEN Msg("RESET", 0, ResetDelay)
                                     ELSE Msg("BIND", @.arg1 + 1, 1)]
    /\ UNCHANGED <<registered, mServiceState, mRemoteMsgService, link>>

BindBound(s) ==
    /\ Due(s, "BIND") /\ mServiceState = BOUND
    /\ queue' = [queue EXCEPT ![s] = NoMessage]
    /\ UNCHANGED <<registered, mServiceState, mRemoteMsgService, link>>

ResetBindingState_Halfway(s) ==
    /\ Due(s, "RESET")
    /\ mServiceState' = UNBOUND
    /\ queue' = [queue EXCEPT ![s] = NoMessage]
    /\ UNCHANGED <<registered, mRemoteMsgService, link>>

ResetBindingState(s) ==
    /\ Due(s, "RESET")
    /\ mServiceState' = UNBOUND
    /\ mRemoteMsgService' = FALSE
    /\ queue' = [queue EXCEPT ![s] = NoMessage]
    /\ UNCHANGED <<registered, link>>

HandleMessage(s) ==
    \/ RegisterGripsensor(s)
    \/ BindUnbound(s) \/ BindBinding(s) \/ BindBound(s)
    \/ ResetBindingState(s)
-----------------------------------------------------------------------------
(***************************************************************************)
(* The connection's callbacks, the worker's message and the clock.         *)
(***************************************************************************)
onServiceConnected ==
    /\ link = "asked"
    /\ link' = "up"
    /\ mRemoteMsgService' = TRUE
    /\ mServiceState' = BOUND
    /\ UNCHANGED <<queue, registered>>

\* The remote process died; the system starts it again by itself.
onServiceDisconnected ==
    /\ link = "up"
    /\ link' = "asked"
    /\ mRemoteMsgService' = FALSE
    /\ mServiceState' = UNBOUND
    /\ UNCHANGED <<queue, registered>>

\* A squeeze when there is no messenger asks for a binding, but is lost.
updateSensorEventToRemoteLocked ==
    /\ registered
    /\ ~mRemoteMsgService /\ mServiceState = UNBOUND
    /\ \E s \in Slots : /\ queue[s] = NoMessage
                        /\ queue' = [queue EXCEPT ![s] = Msg("BIND", 0, 0)]
    /\ UNCHANGED <<registered, mServiceState, mRemoteMsgService, link>>

Tick ==
    /\ \A s \in Slots : queue[s] # NoMessage => queue[s].due > 0
    /\ \E s \in Slots : queue[s] # NoMessage
    /\ queue' = [s \in Slots |-> IF queue[s] = NoMessage THEN NoMessage
                                 ELSE [queue[s] EXCEPT !.due = @ - 1]]
    /\ UNCHANGED <<registered, mServiceState, mRemoteMsgService, link>>

Next ==
    \/ \E s \in Slots : HandleMessage(s)
    \/ onServiceConnected \/ onServiceDisconnected
    \/ updateSensorEventToRemoteLocked
    \/ Tick \/ Restart

Spec == Init /\ [][Next]_vars

\* The looper handles what is due and the clock goes on.
FairSpec == Spec /\ WF_vars(Tick) /\ WF_vars(\E s \in Slots : HandleMessage(s))
-----------------------------------------------------------------------------
\* In the state BINDING there is always a retry or a reset to come, so that
\* nothing waits for a service that never comes; and squeezes go to a service
\* exactly in the state BOUND (handleMessage, mConnection).
BindingIsWatched ==
    /\ mServiceState = BINDING => Pending("BIND") \cup Pending("RESET") # {}
    /\ mRemoteMsgService <=> mServiceState = BOUND

\* Whatever the service does, or fails to do, the state BINDING ends: by the
\* connection, or by the reset after the last retry (handleMessage).
BindingEnds == mServiceState = BINDING ~> mServiceState # BINDING

\* "Remote service is unbound": in the state UNBOUND no connection is up
\* (the message that MSG_BIND_SERVICE logs, REMOTE_SERVICE_STATE_UNBOUND).
UnboundIsNotConnected == mServiceState = UNBOUND => link # "up"
=============================================================================
