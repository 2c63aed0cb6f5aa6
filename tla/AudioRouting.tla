---------------------------- MODULE AudioRouting ----------------------------
(***************************************************************************)
(* policy_hal/AudioPolicyManager.cpp: devices that come and go, tracks     *)
(* that start and stop, force use, the routing half of setPhoneState and   *)
(* the volume of a call.  Every action is a whole call into the policy     *)
(* manager, under the one lock of the audio policy service.  What is       *)
(* opened for a track and which captures go on is AudioConcurrency's.      *)
(* Preferred devices, dynamic policies, the beacon stream, duplicated      *)
(* outputs and the waiting times are left out, and so is what setForceUse  *)
(* does to captures.  A definition X_Word is a plausible mistake in X that *)
(* a property must catch; nothing uses it.                                 *)
(***************************************************************************)
EXTENDS Naturals, Sequences, FiniteSets, SequencesExt

CONSTANTS Order,        \* the outputs there can be, in the order of handles
          Boot,         \* those that are opened at boot and stay
          Direct,       \* those with the flag DIRECT
          Supports,     \* the devices of each one's profile
          Module,       \* the hardware module of each one
          Tracks,
          Output,       \* the output that getOutput gave each track
          Stream,       \* the stream of each track
          Modes,        \* the phone's modes that are entered
          isHDMISpkEnabled

Outputs == ToSet(Order)

\* The elements of s that are in S, in their order.
Only(s, S) ==
    LET first[n \in 0 .. Len(s)] ==
          IF n = 0 THEN <<>>
          ELSE IF s[n] \in S THEN Append(first[n - 1], s[n]) ELSE first[n - 1]
    IN  first[Len(s)]

\* The devices that are tracked here: the phone's own, a headset, a display
\* or speakers over HDMI, and USB.
Attached  == {"speaker", "earpiece", "sco"}
Removable == {"aux", "usb"}
Devices   == Attached \cup Removable
InDevices == {"usb_mic"}

ASSUME OutputsAssumption ==
    /\ Order \in Seq(Outputs)
    /\ \A j, k \in 1 .. Len(Order) : Order[j] = Order[k] => j = k
    /\ Boot \subseteq Outputs /\ "primary" \in Boot
    /\ Direct \subseteq Outputs \ Boot
    /\ Supports \in [Outputs -> SUBSET Devices]
    /\ \A o \in Boot : Supports[o] \cap Attached # {}
ASSUME TracksAssumption ==
    /\ IsFiniteSet(Tracks)
    /\ Output \in [Tracks -> Outputs]
    /\ Stream \in [Tracks -> {"MUSIC", "ALARM", "ENFORCED_AUDIBLE"}]
ASSUME ModesAssumption ==
    Modes \subseteq {"NORMAL", "IN_CALL", "IN_COMMUNICATION"}
ASSUME SwitchAssumption == isHDMISpkEnabled \in BOOLEAN

VARIABLES mAvailableOutputDevices, mAvailableInputDevices,
          hal,                  \* the devices the HAL takes to be connected
          mHdmiAudioDisabled, mHdmiAudioEvent,
          reported,             \* what was last reported of the HDMI sink
          dpForVoice,           \* the engine's DpConnAndAllowedForVoice
          mOutputs,             \* the open outputs
          mDirectOpenCount,     \* the clients of each direct output
          dsd,                  \* the outputs whose format is DSD
          route,                \* the outputs' devices and patches
          active,               \* the tracks that play
          invalid,              \* those of them that must be made again
          alarmMutes,           \* mute count of alarms on each output
          phone, forceUse,
          mLastVoiceVolume      \* the voice volume that the HAL has: full, by
                                \* the index of the voice stream, or an old one

devVars    == <<mAvailableOutputDevices, mAvailableInputDevices, hal>>
hdmiVars   == <<mHdmiAudioDisabled, mHdmiAudioEvent, reported, dpForVoice>>
openVars   == <<mOutputs, mDirectOpenCount, dsd>>
trackVars  == <<active, invalid, alarmMutes>>
engineVars == <<phone, forceUse>>
routeVars  == <<route, mLastVoiceVolume>>
vars == <<devVars, hdmiVars, openVars, trackVars, engineVars, routeVars>>

TypeOK ==
    /\ mAvailableOutputDevices \subseteq Devices
    /\ mAvailableInputDevices \subseteq InDevices
    /\ hal \subseteq Devices \cup InDevices
    /\ mHdmiAudioDisabled \in BOOLEAN /\ mHdmiAudioEvent \in BOOLEAN
    /\ reported \in [speakers : BOOLEAN, plugged : BOOLEAN]
    /\ dpForVoice \in BOOLEAN
    /\ Boot \subseteq mOutputs /\ mOutputs \subseteq Outputs
    /\ mDirectOpenCount \in [Outputs -> Nat] /\ dsd \subseteq mOutputs
    /\ active \subseteq Tracks /\ invalid \subseteq active
    /\ alarmMutes \in [Outputs -> Nat]
    /\ phone \in Modes
    /\ forceUse \in [COMMUNICATION : {"NONE", "BT_SCO"},
                     SYSTEM : {"NONE", "SYSTEM_ENFORCED"}]
    /\ mLastVoiceVolume \in {"full", "index", "old"}

Init ==
    /\ mAvailableOutputDevices = Attached /\ mAvailableInputDevices = {}
    /\ hal = Attached
    /\ mHdmiAudioDisabled = FALSE /\ mHdmiAudioEvent = FALSE
    /\ reported = [speakers |-> TRUE, plugged |-> FALSE]
    /\ dpForVoice = FALSE
    /\ mOutputs = Boot /\ mDirectOpenCount = [o \in Outputs |-> 0]
    /\ dsd = {}
    /\ route = [devices |-> [o \in Outputs |-> IF o \in Boot
                                               THEN {"speaker"} ELSE {}],
                patches |-> Only(Order, Boot)]
    /\ active = {} /\ invalid = {}
    /\ alarmMutes = [o \in Outputs |-> 0]
    /\ phone = "NORMAL" /\ phone \in Modes
    /\ forceUse = [COMMUNICATION |-> "NONE", SYSTEM |-> "NONE"]
    /\ mLastVoiceVolume = "old"
-----------------------------------------------------------------------------
(***************************************************************************)
(* The engine's choice of devices, as the platform makes it.               *)
(***************************************************************************)
isInCall == phone \in {"IN_CALL", "IN_COMMUNICATION"}

Playing(stream) == {t \in active : Stream[t] = stream}

On(o) == {t \in active : Output[t] = o}

isActive(o) == On(o) # {}

sharesHwModuleWith(o, p) == Module[o] = Module[p]

MediaDevices ==
    CASE "usb" \in mAvailableOutputDevices -> {"usb"}
      [] mAvailableOutputDevices \cap Removable = {"aux"} -> {"aux"}
      [] OTHER -> {"speaker"}

PhoneDevices ==
    IF dpForVoice THEN {"aux"}
    ELSE IF forceUse.COMMUNICATION = "BT_SCO" THEN {"sco"} ELSE {"earpiece"}

\* The first strategy that applies decides: the call, unless an enforced
\* sound plays, then whatever alarm or enforced sound plays on the module.
getNewOutputDevices(o) ==
    IF isInCall /\ Playing("ENFORCED_AUDIBLE") = {} THEN PhoneDevices
    ELSE IF \E t \in active : /\ Stream[t] # "MUSIC"
                              /\ sharesHwModuleWith(Output[t], o)
         THEN {"speaker"}
         ELSE IF \E t \in On(o) : Stream[t] = "MUSIC" THEN MediaDevices ELSE {}

(***************************************************************************)
(* checkAndSetVolume for the two sources that set the voice volume: a      *)
(* headset keeps the volume itself, and each source is refused while the   *)
(* other one is in charge.                                                 *)
(***************************************************************************)
VoiceVolume == IF forceUse.COMMUNICATION = "BT_SCO" THEN "full" ELSE "index"

(***************************************************************************)
(* setOutputDevices of the platform, for the outputs outs one after the    *)
(* other: the HAL is called for those that can reach a device wanted of    *)
(* them, or of which none is, unless nothing is new.  route has the        *)
(* devices that each output was last given, and the outputs that have a    *)
(* patch, the one patched last at the end.  Where the HAL is called,       *)
(* stream volumes are applied; closed outputs take their patches along.    *)
(***************************************************************************)
setOutputDevices(outs, want, force, volumes) ==
    \E routed \in {outs}, wanted \in {want}, forced \in {force} :
    \E to \in {[o \in Outputs |-> wanted[o] \cap Supports[o]]} :
    \E calls \in {{o \in ToSet(routed) :
                     /\ wanted[o] = {} \/ to[o] # {}
                     /\ \/ to[o] \notin {{}, route.devices[o]}
                        \/ o \in forced \/ o \notin ToSet(route.patches)}} :
        LET patched == {o \in calls : to[o] # {}}
            devices == [o \in Outputs |->
                           IF o \notin mOutputs' THEN {}
                           ELSE IF o \in patched THEN to[o] ELSE route.devices[o]]
        IN  /\ route' = [devices |-> devices,
                         patches |-> Only(route.patches, mOutputs' \ calls)
                                         \o Only(routed, patched)]
            /\ mLastVoiceVolume' = IF volumes \/ calls # {}
                                   THEN VoiceVolume' ELSE mLastVoiceVolume

\* The outputs of a set, in the order of mOutputs.
InOrder(outs) == Only(Order, outs)

Wanted == [o \in Outputs |-> getNewOutputDevices(o)]

\* The outputs of a module share its backend, which plays to the devices of
\* the one that was patched last.
Backend(m) ==
    LET patched == Only(route.patches, {o \in Outputs : Module[o] = m})
    IN  IF patched = <<>> THEN {} ELSE route.devices[Last(patched)]
-----------------------------------------------------------------------------
(***************************************************************************)
(* setDeviceConnectionStateInt                                             *)
(***************************************************************************)
Addresses(d) == IF d = "aux" THEN {"hdmi_spkr", ""} ELSE {""}

\* A report about an HDMI sink is remembered whatever comes of the call: the
\* address tells whether the speakers or the plug have changed.
HdmiReport(d, address, on) ==
    LET hdmi     == d = "aux" /\ isHDMISpkEnabled
        speakers == address = "hdmi_spkr"
    IN  /\ mHdmiAudioDisabled' = IF hdmi /\ speakers THEN ~on
                                 ELSE mHdmiAudioDisabled
        /\ mHdmiAudioEvent' = IF hdmi /\ ~speakers THEN on ELSE mHdmiAudioEvent
        /\ reported' = IF d # "aux" THEN reported
                       ELSE IF speakers THEN [reported EXCEPT !.speakers = on]
                       ELSE [reported EXCEPT !.plugged = on]

\* "HDMI sink not connected, do not route audio to HDMI out"
SinkOff_OnlyBoth(d) ==
    d = "aux" /\ isHDMISpkEnabled /\ mHdmiAudioDisabled /\ ~mHdmiAudioEvent

SinkOff(d) ==
    d = "aux" /\ isHDMISpkEnabled /\ (mHdmiAudioDisabled \/ ~mHdmiAudioEvent)

\* checkOutputForAttributes for media, before outputs are closed: tracks are
\* invalidated when the device is reached by other outputs than before, and
\* no output plays DSD.
MovesMedia_OldOutputs(outs) ==
    LET from == {o \in mOutputs : MediaDevices \subseteq Supports[o]}
        to   == {o \in mOutputs : MediaDevices' \subseteq Supports[o]}
    IN  to # {} /\ from # to /\ dsd = {}

MovesMedia(outs) ==
    LET from == {o \in mOutputs : MediaDevices \subseteq Supports[o]}
        to   == {o \in outs : MediaDevices' \subseteq Supports[o]}
    IN  to # {} /\ from # to /\ dsd = {}

Invalidated(outs) ==
    invalid \cup IF MovesMedia(outs) THEN Playing("MUSIC") ELSE {}

\* checkCloseOutputs on a connection closes the direct outputs that were
\* opened to ask what the device can do.
OnlyQueried_None(outs) == {}

OnlyQueried(outs) == {o \in outs \cap Direct : mDirectOpenCount[o] = 0}

\* What goes with outputs that are closed.
CloseOutputs(closed) ==
    /\ active' = {t \in active : Output[t] \notin closed}
    /\ alarmMutes' = [o \in Outputs |-> IF o \in closed THEN 0
                                        ELSE alarmMutes[o]]
    /\ mDirectOpenCount' = [o \in Outputs |-> IF o \in closed THEN 0
                                              ELSE mDirectOpenCount[o]]
    /\ dsd' = dsd \ closed

\* The end: the call is routed first, then every other output, by force.
RerouteAll ==
    LET call == IF phone = "IN_CALL" THEN {"primary"} ELSE {}
    IN  setOutputDevices(InOrder(call) \o InOrder(mOutputs' \ call), Wanted',
                         Outputs, FALSE)

\* The device is there already, or an HDMI sink stays off, or no module has
\* the device: nothing but the report is kept.
ConnectRefused(d, address) ==
    /\ HdmiReport(d, address, TRUE)
    /\ \/ d \in mAvailableOutputDevices
       \/ SinkOff(d)'
       \/ \A o \in Outputs : d \notin Supports[o]
    /\ UNCHANGED <<dpForVoice, devVars, openVars, trackVars, engineVars,
                   routeVars>>

ConnectFails_StaysInHal(d, address) ==
    /\ d \notin mAvailableOutputDevices
    /\ HdmiReport(d, address, TRUE)
    /\ ~SinkOff(d)'
    /\ \A o \in mOutputs : d \notin Supports[o]
    /\ \E o \in Outputs : d \in Supports[o]
    /\ hal' = hal \cup {d}
    /\ UNCHANGED <<mAvailableOutputDevices, mAvailableInputDevices, dpForVoice,
                   openVars, trackVars, engineVars, routeVars>>

\* No output can be opened for the device: the HAL, which was told of it, is
\* told that it is gone.
ConnectFails(d, address) ==
    /\ d \notin mAvailableOutputDevices
    /\ HdmiReport(d, address, TRUE)
    /\ ~SinkOff(d)'
    /\ \A o \in mOutputs : d \notin Supports[o]
    /\ \E o \in Outputs : d \in Supports[o]
    /\ hal' = (hal \cup {d}) \ {d}
    /\ UNCHANGED <<mAvailableOutputDevices, mAvailableInputDevices, dpForVoice,
                   openVars, trackVars, engineVars, routeVars>>

\* The open outputs that reach the device are listed, the others that would
\* are opened, as far as that works.
Connect(d, address) ==
    /\ d \notin mAvailableOutputDevices
    /\ HdmiReport(d, address, TRUE)
    /\ ~SinkOff(d)'
    /\ \E opened \in SUBSET {o \in Outputs \ mOutputs : d \in Supports[o]} :
         LET outs   == mOutputs \cup opened
             listed == {o \in outs : d \in Supports[o]}
         IN  /\ listed # {}
             /\ mAvailableOutputDevices' = mAvailableOutputDevices \cup {d}
             /\ hal' = hal \cup {d}
             /\ mOutputs' = outs \ OnlyQueried(listed)
             /\ invalid' = {t \in Invalidated(outs) :
                              Output[t] \notin OnlyQueried(listed)}
             /\ CloseOutputs(OnlyQueried(listed))
             /\ dpForVoice' \in IF d = "aux" THEN BOOLEAN ELSE {dpForVoice}
             /\ UNCHANGED <<mAvailableInputDevices, engineVars>>
             /\ RerouteAll

\* A device that is not there: again only the report is kept.
DisconnectRefused(d, address) ==
    /\ d \notin mAvailableOutputDevices
    /\ HdmiReport(d, address, FALSE)
    /\ UNCHANGED <<dpForVoice, devVars, openVars, trackVars, engineVars,
                   routeVars>>

\* Outputs that reach no device any more are closed, once the tracks that
\* must move are invalidated.
Disconnect(d, address) ==
    LET left   == mAvailableOutputDevices \ {d}
        closed == {o \in mOutputs : Supports[o] \cap left = {}}
    IN  /\ d \in mAvailableOutputDevices
        /\ HdmiReport(d, address, FALSE)
        /\ mAvailableOutputDevices' = left
        /\ hal' = hal \ {d}
        /\ dpForVoice' = (dpForVoice /\ d # "aux")
        /\ mOutputs' = mOutputs \ closed
        /\ invalid' = {t \in Invalidated(mOutputs) : Output[t] \notin closed}
        /\ CloseOutputs(closed)
        /\ UNCHANGED <<mAvailableInputDevices, engineVars>>
        /\ RerouteAll
-----------------------------------------------------------------------------
\* In a call an input device that comes or goes routes the call anew.
CallRouting ==
    IF phone = "IN_CALL"
    THEN setOutputDevices(<<"primary">>, Wanted, {"primary"}, FALSE)
    ELSE UNCHANGED routeVars

\* (The return of NO_MEMORY, when the list of devices cannot grow, is left out
\* of this and of Connect.)
ConnectInput(d) ==
    /\ d \notin mAvailableInputDevices
    /\ mAvailableInputDevices' = mAvailableInputDevices \cup {d}
    /\ hal' = hal \cup {d}
    /\ UNCHANGED <<mAvailableOutputDevices, hdmiVars, openVars, trackVars,
                   engineVars>>
    /\ CallRouting

\* checkInputsForDevice fails, and the HAL hears of both: nothing is left.
ConnectInputFails(d) ==
    /\ d \notin mAvailableInputDevices
    /\ hal' = (hal \cup {d}) \ {d}
    /\ UNCHANGED <<mAvailableOutputDevices, mAvailableInputDevices, hdmiVars,
                   openVars, trackVars, engineVars, routeVars>>

DisconnectInput(d) ==
    /\ d \in mAvailableInputDevices
    /\ mAvailableInputDevices' = mAvailableInputDevices \ {d}
    /\ hal' = hal \ {d}
    /\ UNCHANGED <<mAvailableOutputDevices, hdmiVars, openVars, trackVars,
                   engineVars>>
    /\ CallRouting
-----------------------------------------------------------------------------
(***************************************************************************)
(* startSource and stopSource                                              *)
(***************************************************************************)
getActivityCount(o, stream) ==
    Cardinality({t \in On(o) : Stream[t] = stream})

\* Another output on the module that has a patch and other devices selected:
\* the HAL must be told of the selection even if this output's is not new.
ForcedByOther(o, devices) ==
    \E p \in (mOutputs \cap ToSet(route.patches)) \ {o} :
        /\ sharesHwModuleWith(o, p)
        /\ devices \cap Supports[p] # {}
        /\ route.devices[p] # devices

SystemEnforced == forceUse.SYSTEM = "SYSTEM_ENFORCED"

setStrategyMute(o, on) ==
    [alarmMutes EXCEPT ![o] = IF on THEN @ + 1 ELSE IF @ > 0 THEN @ - 1 ELSE 0]

\* A track starts on the output it was given.  A music track was given one
\* that reaches the device for media, and holds a direct one.
StartSource(t) ==
    LET o == Output[t]
        force == ~isActive(o) /\ o \notin ToSet(route.patches)
    IN  /\ t \notin active /\ o \in mOutputs
        /\ o \in Direct => mDirectOpenCount[o] > 0
        /\ Stream[t] = "MUSIC" => MediaDevices \subseteq Supports[o]
        /\ active' = active \cup {t}
        /\ alarmMutes' = IF Stream[t] = "ENFORCED_AUDIBLE" /\ SystemEnforced
                         THEN setStrategyMute(o, TRUE) ELSE alarmMutes
        /\ UNCHANGED <<invalid, devVars, hdmiVars, openVars, engineVars>>
        /\ IF getActivityCount(o, Stream[t])' = 1
           THEN setOutputDevices(<<o>>, Wanted',
                    IF force \/ ForcedByOther(o, getNewOutputDevices(o)')
                    THEN {o} ELSE {}, FALSE)
           ELSE UNCHANGED routeVars

\* Once the last track of a stream is gone from an output, the output is
\* routed anew, and so is every active output beside it whose selection is
\* not the new one: by force unless it wants what this output just had.
Rest_Alone(o) == {}

Rest(o) ==
    {p \in mOutputs \ {o} : /\ isActive(p)'
                            /\ sharesHwModuleWith(o, p)
                            /\ getNewOutputDevices(o)' # route.devices[p]}

StopSource(t) ==
    LET o == Output[t]
        before == route.devices[o]
    IN  /\ t \in active
        /\ active' = active \ {t} /\ invalid' = invalid \ {t}
        /\ alarmMutes' = IF Stream[t] = "ENFORCED_AUDIBLE" /\ SystemEnforced
                         THEN setStrategyMute(o, FALSE) ELSE alarmMutes
        /\ UNCHANGED <<devVars, hdmiVars, openVars, engineVars>>
        /\ IF getActivityCount(o, Stream[t])' = 0
           THEN setOutputDevices(<<o>> \o InOrder(Rest(o)), Wanted',
                    {p \in Rest(o) : getNewOutputDevices(p)' # before},
                    Rest(o) # {})
           ELSE UNCHANGED routeVars

\* getOutput opens a direct output for a client, and releaseOutput closes it.
\* That clients may share one is AudioConcurrency's: mDirectOpenCount only
\* tells here whether there is a client.
OpenDirect(o, isDsd) ==
    /\ o \in Direct /\ mDirectOpenCount[o] = 0
    /\ MediaDevices \subseteq Supports[o]
    /\ mOutputs' = mOutputs \cup {o}
    /\ mDirectOpenCount' = [mDirectOpenCount EXCEPT ![o] = 1]
    /\ dsd' = IF isDsd THEN dsd \cup {o} ELSE dsd
    /\ UNCHANGED <<devVars, hdmiVars, trackVars, engineVars, routeVars>>

ReleaseDirect(o) ==
    /\ o \in Direct /\ mDirectOpenCount[o] > 0 /\ ~isActive(o)
    /\ mOutputs' = mOutputs \ {o}
    /\ mDirectOpenCount' = [mDirectOpenCount EXCEPT ![o] = 0]
    /\ dsd' = dsd \ {o}
    /\ UNCHANGED <<devVars, hdmiVars, trackVars, engineVars, mLastVoiceVolume>>
    /\ route' = [route EXCEPT !.devices[o] = {}, !.patches = Only(@, Outputs \ {o})]
-----------------------------------------------------------------------------
(***************************************************************************)
(* setForceUse, the routing half of setPhoneState, and the voice volume.   *)
(***************************************************************************)
\* Active outputs are routed anew, the last one first, and get their volumes;
\* in a call the primary output is routed for the call before them.
RerouteActive_NotTheCall ==
    \E want \in {Wanted'} :
        LET call == IF phone = "IN_CALL" THEN {"primary"} ELSE {}
            outs == {o \in mOutputs \ call : isActive(o) /\ want[o] # {}}
        IN  setOutputDevices(Reverse(InOrder(outs)), want, Outputs, outs # {})

RerouteActive ==
    \E want \in {Wanted'} :
        LET call == IF phone = "IN_CALL" THEN {"primary"} ELSE {}
            outs == {o \in mOutputs \ call : isActive(o) /\ want[o] # {}}
        IN  setOutputDevices(InOrder(call) \o Reverse(InOrder(outs)), want,
                             Outputs, outs # {})

setForceUse(usage, config) ==
    /\ forceUse[usage] # config
    /\ forceUse' = [forceUse EXCEPT ![usage] = config]
    /\ UNCHANGED <<phone, devVars, hdmiVars, openVars, trackVars>>
    /\ RerouteActive

\* The primary output is routed for the call, or as before when a call ends
\* and nothing plays; then every other output.
setPhoneState(state) ==
    LET force == isInCall \/ isInCall'
        rx    == IF isInCall /\ getNewOutputDevices("primary")' = {}
                 THEN route.devices["primary"] ELSE getNewOutputDevices("primary")'
        want  == [Wanted' EXCEPT !["primary"] = rx]
    IN  /\ state \in Modes \ {phone}
        /\ phone' = state
        /\ UNCHANGED <<forceUse, devVars, hdmiVars, openVars,
                       trackVars>>
        /\ setOutputDevices(<<"primary">> \o InOrder(mOutputs \ {"primary"}), want,
               {o \in Outputs : IF o = "primary" THEN force ELSE want[o] # {}},
               FALSE)

\* The index of the voice stream is set; the HAL hears of it in a call, but
\* not while the headset keeps the volume.
SetVoiceIndex ==
    /\ mLastVoiceVolume' =
           CASE isInCall /\ forceUse.COMMUNICATION # "BT_SCO" -> "index"
             [] OTHER -> IF mLastVoiceVolume = "index" THEN "old"
                         ELSE mLastVoiceVolume
    /\ UNCHANGED <<devVars, hdmiVars, openVars, trackVars, engineVars, route>>
-----------------------------------------------------------------------------
DeviceNext ==
    \/ \E d \in Removable : \E address \in Addresses(d) :
           \/ ConnectRefused(d, address)
           \/ ConnectFails(d, address)
           \/ Connect(d, address)
           \/ DisconnectRefused(d, address)
           \/ Disconnect(d, address)
    \/ \E d \in InDevices : \/ ConnectInput(d)
                            \/ ConnectInputFails(d)
                            \/ DisconnectInput(d)

TrackNext ==
    \/ \E t \in Tracks : StartSource(t) \/ StopSource(t)
    \/ \E o \in Direct : ReleaseDirect(o) \/ \E isDsd \in BOOLEAN : OpenDirect(o, isDsd)

EngineNext ==
    \/ \E config \in {"NONE", "BT_SCO"} : setForceUse("COMMUNICATION", config)
    \/ \E config \in {"NONE", "SYSTEM_ENFORCED"} : setForceUse("SYSTEM", config)
    \/ \E state \in Modes : setPhoneState(state)
    \/ SetVoiceIndex

Next == DeviceNext \/ TrackNext \/ EngineNext

Spec == Init /\ [][Next]_vars
-----------------------------------------------------------------------------
(***************************************************************************)
(* What the theorems assume of the audio policy configuration, which is    *)
(* not part of the repository.                                             *)
(***************************************************************************)
\* Whatever reaches one of the phone's own devices reaches the speaker, and an
\* output opened at boot reaches HDMI but not USB.
OwnSpeaker == \A o \in Outputs : Supports[o] \cap Attached # {} => "speaker" \in Supports[o]
HdmiAtBoot == \E b \in Boot : "aux" \in Supports[b] /\ "usb" \notin Supports[b]

\* The primary output reaches whatever a call goes to, and the output of an
\* enforced sound the speaker.
CallReach == Attached \cup {"aux"} \subseteq Supports["primary"]
EnforcedReach ==
    \A t \in Tracks : Stream[t] = "ENFORCED_AUDIBLE" => "speaker" \in Supports[Output[t]]

\* What is heard in a call, the primary output and those of enforced sounds,
\* is on one module and reaches whatever a call goes to.
OneCallModule ==
    \A o \in {"primary"} \cup {Output[t] : t \in {u \in Tracks :
                                                  Stream[u] = "ENFORCED_AUDIBLE"}} :
        /\ sharesHwModuleWith(o, "primary")
        /\ Attached \cup {"aux"} \subseteq Supports[o]

\* Only music is played by direct outputs, all else by ones with the speaker.
MixedSounds ==
    \A t \in Tracks : Stream[t] # "MUSIC" => /\ "speaker" \in Supports[Output[t]]
                                             /\ Output[t] \notin Direct

\* The outputs of a module reach the devices for media alike, and those of the
\* primary output's the two that a call changes between.
ModuleReach ==
    \A o, p \in Outputs : sharesHwModuleWith(o, p) =>
        \A d \in {"speaker", "aux", "usb"} : d \in Supports[o] <=> d \in Supports[p]
CallReachTogether ==
    \A o \in Outputs : sharesHwModuleWith(o, "primary") =>
        ("earpiece" \in Supports[o] <=> "sco" \in Supports[o])

OneBackend == OneCallModule /\ MixedSounds /\ ModuleReach /\ CallReachTogether
-----------------------------------------------------------------------------
\* Between two calls the HAL takes for connected just the devices that the
\* policy manager has: what setDeviceConnectionStateInt broadcasts before it
\* tries the outputs is taken back when they fail.
HalKnowsDevices == hal = mAvailableOutputDevices \cup mAvailableInputDevices

\* Audio is only ever sent to an HDMI sink that is plugged in and whose
\* speakers are on, by the last reports of both, whichever of them came first
\* and whatever each call returned; and only then may a call be sent there.
HdmiFollows ==
    /\ (isHDMISpkEnabled /\ "aux" \in mAvailableOutputDevices)
            => reported.plugged /\ reported.speakers
    /\ dpForVoice => "aux" \in mAvailableOutputDevices

\* After every call, each output that plays, and in a call the primary one,
\* is heard where the engine wants it: though outputs of a module share a
\* backend, and the selection of each is only renewed by some calls.  (Music on
\* a module of its own is not looked at during a call.)
RoutedAsWanted ==
    \A o \in mOutputs :
        LET want  == getNewOutputDevices(o) \cap Supports[o]
            heard == isActive(o) \/ (phone = "IN_CALL" /\ o = "primary")
            here  == isInCall => sharesHwModuleWith(o, "primary")
        IN  (heard /\ here /\ want # {}) => Backend(Module[o]) = want

\* In a call the HAL has the volume of whoever is in charge of it: full when a
\* headset keeps it, else what the voice stream was last set to.
VoiceVolumeFollows ==
    phone = "IN_CALL" =>
        (mLastVoiceVolume = IF forceUse.COMMUNICATION = "BT_SCO"
                            THEN "full" ELSE "index")

\* No direct output stays open that nobody asked for.
DirectOnlyForClients ==
    \A o \in mOutputs \cap Direct : mDirectOpenCount[o] > 0

\* A change of devices takes no playback away: a direct output in use is only
\* closed when all of its devices are gone, and music on an output that does
\* not reach the new device for media is invalidated, so that it moves there,
\* unless DSD plays somewhere.
MediaFollows ==
    LET changed == mAvailableOutputDevices' # mAvailableOutputDevices
    IN  /\ changed => \A o \in (mOutputs \ mOutputs') :
              Supports[o] \cap mAvailableOutputDevices' = {}
        /\ MediaDevices' # MediaDevices /\ dsd = {} =>
              \A t \in active' : Stream[t] = "MUSIC" =>
                  t \in invalid' \/ MediaDevices' \subseteq Supports[Output[t]]

PlaybackFollows == [][MediaFollows]_vars
=============================================================================
