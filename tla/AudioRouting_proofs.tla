------------------------ MODULE AudioRouting_proofs ------------------------
(***************************************************************************)
(* Theorems about AudioRouting, for any outputs, hardware modules, tracks  *)
(* and modes, with and without the workaround for HDMI speakers.  The last *)
(* part is about where playback is heard: of the outputs of a module the   *)
(* one that was patched last decides, so its invariant is about the end of *)
(* the list of patches.                                                    *)
(***************************************************************************)
EXTENDS AudioRouting, Integers, FiniteSetTheorems, SequenceTheorems,
        WellFoundedInduction, TLAPS

\* Whatever outputs are routed, the HAL has the volume of the moment or the
\* one that it had.
LEMMA RoutingVolume ==
    ASSUME NEW outs, NEW want, NEW force, NEW volumes,
           setOutputDevices(outs, want, force, volumes)
    PROVE  mLastVoiceVolume' \in {VoiceVolume', mLastVoiceVolume}
    BY Zenon DEF setOutputDevices

\* The devices that are attached stay, and the rest is of its type.
DevicesOK ==
    /\ mAvailableOutputDevices \subseteq Devices
    /\ Attached \subseteq mAvailableOutputDevices
    /\ mAvailableInputDevices \subseteq InDevices
    /\ mHdmiAudioDisabled \in BOOLEAN /\ mHdmiAudioEvent \in BOOLEAN
    /\ reported \in [speakers : BOOLEAN, plugged : BOOLEAN]
    /\ dpForVoice \in BOOLEAN

LEMMA ReportType ==
    ASSUME DevicesOK, NEW d, NEW address, NEW on \in BOOLEAN,
           HdmiReport(d, address, on)
    PROVE  /\ mHdmiAudioDisabled' \in BOOLEAN /\ mHdmiAudioEvent' \in BOOLEAN
           /\ reported' \in [speakers : BOOLEAN, plugged : BOOLEAN]
    BY DEF HdmiReport, DevicesOK

\* What an action is to the devices and the reports: a refused or failed call
\* is a report and no more, and all other calls leave both alone.
LEMMA DeviceSteps ==
    ASSUME [Next]_vars
    PROVE  \/ \E d \in Removable : \E address \in Addresses(d) :
                  \/ ConnectRefused(d, address)
                  \/ ConnectFails(d, address)
                  \/ Connect(d, address)
                  \/ DisconnectRefused(d, address)
                  \/ Disconnect(d, address)
           \/ \E d \in InDevices : \/ ConnectInput(d)
                                   \/ ConnectInputFails(d)
                                   \/ DisconnectInput(d)
           \/ UNCHANGED <<devVars, hdmiVars>>
<1>1. ASSUME TrackNext PROVE UNCHANGED <<devVars, hdmiVars>>
  <2>1. ASSUME NEW t \in Tracks, StartSource(t) \/ StopSource(t)
        PROVE  UNCHANGED <<devVars, hdmiVars>>
      BY <2>1 DEF StartSource, StopSource
  <2>2. ASSUME NEW o \in Direct,
               ReleaseDirect(o) \/ \E isDsd \in BOOLEAN : OpenDirect(o, isDsd)
        PROVE  UNCHANGED <<devVars, hdmiVars>>
      BY <2>2 DEF ReleaseDirect, OpenDirect
  <2> QED
      BY <1>1, <2>1, <2>2 DEF TrackNext
<1>2. ASSUME EngineNext PROVE UNCHANGED <<devVars, hdmiVars>>
    BY <1>2 DEF EngineNext, setForceUse, setPhoneState, SetVoiceIndex
<1>3. UNCHANGED vars => UNCHANGED <<devVars, hdmiVars>>
    BY DEF vars
<1> QED
    BY <1>1, <1>2, <1>3 DEF Next, DeviceNext

THEOREM DevicesTyped == Spec => []DevicesOK
<1>1. Init => DevicesOK
  <2> SUFFICES ASSUME Init PROVE DevicesOK
      OBVIOUS
  <2>1. Attached \subseteq Devices
      BY DEF Devices
  <2>2. /\ mAvailableOutputDevices = Attached /\ mAvailableInputDevices = {}
        /\ mHdmiAudioDisabled = FALSE /\ mHdmiAudioEvent = FALSE
        /\ reported = [speakers |-> TRUE, plugged |-> FALSE]
        /\ dpForVoice = FALSE
      BY DEF Init
  <2> QED
      BY <2>1, <2>2 DEF DevicesOK
<1>2. DevicesOK /\ [Next]_vars => DevicesOK'
  <2> SUFFICES ASSUME DevicesOK, [Next]_vars PROVE DevicesOK'
      OBVIOUS
  <2>1. ASSUME NEW d \in Removable, NEW address,
               ConnectRefused(d, address) \/ ConnectFails(d, address)
                   \/ DisconnectRefused(d, address)
        PROVE  DevicesOK'
    <3>1. /\ HdmiReport(d, address, TRUE) \/ HdmiReport(d, address, FALSE)
          /\ UNCHANGED <<mAvailableOutputDevices, mAvailableInputDevices,
                         dpForVoice>>
        BY <2>1 DEF ConnectRefused, ConnectFails, DisconnectRefused, devVars
    <3> QED
        BY <3>1, ReportType DEF DevicesOK
  <2>2. ASSUME NEW d \in Removable, NEW address, Connect(d, address)
        PROVE  DevicesOK'
    <3>1. /\ HdmiReport(d, address, TRUE)
          /\ mAvailableOutputDevices' = mAvailableOutputDevices \cup {d}
          /\ UNCHANGED mAvailableInputDevices
          /\ dpForVoice' \in IF d = "aux" THEN BOOLEAN ELSE {dpForVoice}
        BY <2>2 DEF Connect
    <3> QED
        BY <3>1, ReportType DEF DevicesOK, Devices
  <2>3. ASSUME NEW d \in Removable, NEW address, Disconnect(d, address)
        PROVE  DevicesOK'
    <3>1. /\ HdmiReport(d, address, FALSE)
          /\ mAvailableOutputDevices' = mAvailableOutputDevices \ {d}
          /\ UNCHANGED mAvailableInputDevices
          /\ dpForVoice' = (dpForVoice /\ d # "aux")
        BY <2>3 DEF Disconnect
    <3>2. d \notin Attached
        BY DEF Attached, Removable
    <3> QED
        BY <3>1, <3>2, ReportType DEF DevicesOK
  <2>4. ASSUME NEW d \in InDevices,
               ConnectInput(d) \/ ConnectInputFails(d) \/ DisconnectInput(d)
        PROVE  DevicesOK'
      BY <2>4 DEF ConnectInput, ConnectInputFails, DisconnectInput, hdmiVars,
                  DevicesOK
  <2>5. CASE UNCHANGED <<devVars, hdmiVars>>
      BY <2>5 DEF devVars, hdmiVars, DevicesOK
  <2> QED
      BY <2>1, <2>2, <2>3, <2>4, <2>5, DeviceSteps
<1> QED
    BY <1>1, <1>2, PTL DEF Spec
-----------------------------------------------------------------------------
\* The HAL knows just the devices that the policy manager has: every early
\* return of setDeviceConnectionStateInt takes back what it broadcast.
THEOREM HalKnows == Spec => []HalKnowsDevices
<1>1. Init => HalKnowsDevices
    BY DEF Init, HalKnowsDevices
<1>2. DevicesOK /\ HalKnowsDevices /\ [Next]_vars => HalKnowsDevices'
  <2> SUFFICES ASSUME DevicesOK, HalKnowsDevices, [Next]_vars
               PROVE  HalKnowsDevices'
      OBVIOUS
  <2>0. Devices \cap InDevices = {} /\ Removable \subseteq Devices
      BY DEF Devices, Attached, Removable, InDevices
  <2> USE <2>0 DEF DevicesOK, HalKnowsDevices
  <2>1. ASSUME NEW d \in Removable, NEW address,
               ConnectRefused(d, address) \/ DisconnectRefused(d, address)
        PROVE  HalKnowsDevices'
      BY <2>1 DEF ConnectRefused, DisconnectRefused, devVars
  <2>2. ASSUME NEW d \in Removable, NEW address, ConnectFails(d, address)
        PROVE  HalKnowsDevices'
      BY <2>2 DEF ConnectFails
  <2>3. ASSUME NEW d \in Removable, NEW address, Connect(d, address)
        PROVE  HalKnowsDevices'
    <3>1. /\ mAvailableOutputDevices' = mAvailableOutputDevices \cup {d}
          /\ hal' = hal \cup {d} /\ UNCHANGED mAvailableInputDevices
        BY <2>3 DEF Connect
    <3> QED
        BY <3>1
  <2>4. ASSUME NEW d \in Removable, NEW address, Disconnect(d, address)
        PROVE  HalKnowsDevices'
    <3>1. /\ mAvailableOutputDevices' = mAvailableOutputDevices \ {d}
          /\ hal' = hal \ {d} /\ UNCHANGED mAvailableInputDevices
        BY <2>4 DEF Disconnect
    <3> QED
        BY <3>1
  <2>5. ASSUME NEW d \in InDevices,
               ConnectInput(d) \/ ConnectInputFails(d) \/ DisconnectInput(d)
        PROVE  HalKnowsDevices'
      BY <2>5 DEF ConnectInput, ConnectInputFails, DisconnectInput
  <2>6. CASE UNCHANGED <<devVars, hdmiVars>>
      BY <2>6 DEF devVars
  <2> QED
      BY <2>1, <2>2, <2>3, <2>4, <2>5, <2>6, DeviceSteps
<1> QED
    BY <1>1, <1>2, DevicesTyped, PTL DEF Spec
-----------------------------------------------------------------------------
(***************************************************************************)
(* HDMI: the two flags are the two last reports, whatever became of the    *)
(* calls that brought them.                                                *)
(***************************************************************************)
HdmiInv ==
    /\ isHDMISpkEnabled => /\ mHdmiAudioDisabled = ~reported.speakers
                           /\ mHdmiAudioEvent = reported.plugged
    /\ HdmiFollows

LEMMA ReportKept ==
    ASSUME DevicesOK, HdmiInv, NEW d, NEW address, NEW on \in BOOLEAN,
           HdmiReport(d, address, on)
    PROVE  /\ isHDMISpkEnabled => /\ mHdmiAudioDisabled' = ~reported'.speakers
                                  /\ mHdmiAudioEvent' = reported'.plugged
           /\ d # "aux" => reported' = reported
           /\ on /\ reported.speakers => reported'.speakers
           /\ on /\ reported.plugged => reported'.plugged
<1>1. CASE d = "aux" /\ address = "hdmi_spkr"
  <2>1. reported' = [reported EXCEPT !.speakers = on]
      BY <1>1 DEF HdmiReport
  <2>2. reported'.speakers = on /\ reported'.plugged = reported.plugged
      BY <2>1 DEF DevicesOK
  <2>3. isHDMISpkEnabled => /\ mHdmiAudioDisabled' = ~on
                            /\ mHdmiAudioEvent' = mHdmiAudioEvent
      BY <1>1 DEF HdmiReport
  <2>4. reported \in [speakers : BOOLEAN, plugged : BOOLEAN]
      BY DEF DevicesOK
  <2> QED
      BY <1>1, <2>2, <2>3, <2>4 DEF HdmiInv
<1>2. CASE d = "aux" /\ address # "hdmi_spkr"
  <2>1. reported' = [reported EXCEPT !.plugged = on]
      BY <1>2 DEF HdmiReport
  <2>2. reported'.plugged = on /\ reported'.speakers = reported.speakers
      BY <2>1 DEF DevicesOK
  <2>3. mHdmiAudioDisabled' = mHdmiAudioDisabled
      BY <1>2 DEF HdmiReport
  <2>4. isHDMISpkEnabled => mHdmiAudioEvent' = on
      BY <1>2, SwitchAssumption DEF HdmiReport
  <2> QED
      BY <1>2, <2>2, <2>3, <2>4 DEF HdmiInv
<1>3. CASE d # "aux"
  <2>0. reported' = reported
      BY <1>3 DEF HdmiReport
  <2>1. /\ reported' = reported /\ mHdmiAudioDisabled' = mHdmiAudioDisabled
        /\ mHdmiAudioEvent' = mHdmiAudioEvent
      BY <1>3, <2>0, SwitchAssumption DEF HdmiReport
  <2>2. /\ mHdmiAudioDisabled \in BOOLEAN /\ mHdmiAudioEvent \in BOOLEAN
        /\ reported.speakers \in BOOLEAN /\ reported.plugged \in BOOLEAN
      BY DEF DevicesOK
  <2>3. isHDMISpkEnabled => /\ mHdmiAudioDisabled = ~reported.speakers
                            /\ mHdmiAudioEvent = reported.plugged
      BY DEF HdmiInv
  <2> QED
      BY <1>3, <2>1, <2>2, <2>3
<1> QED
    BY <1>1, <1>2, <1>3

\* Audio is only sent to an HDMI sink that is plugged in and whose speakers are
\* on, whichever of the reports came last and whatever its call returned.
THEOREM HdmiFollowed == Spec => []HdmiFollows
<1>1. Init => HdmiInv
  <2>1. "aux" \notin Attached
      BY DEF Attached
  <2> SUFFICES ASSUME Init PROVE HdmiInv
      OBVIOUS
  <2>2. /\ mAvailableOutputDevices = Attached /\ dpForVoice = FALSE
        /\ mHdmiAudioDisabled = FALSE /\ mHdmiAudioEvent = FALSE
        /\ reported.speakers = TRUE /\ reported.plugged = FALSE
      BY DEF Init
  <2> QED
      BY <2>1, <2>2 DEF HdmiInv, HdmiFollows
<1>2. DevicesOK /\ HdmiInv /\ [Next]_vars => HdmiInv'
  <2> SUFFICES ASSUME DevicesOK, HdmiInv, [Next]_vars PROVE HdmiInv'
      OBVIOUS
  <2>1. ASSUME NEW d \in Removable, NEW address, ConnectRefused(d, address)
        PROVE  HdmiInv'
    <3>1. /\ HdmiReport(d, address, TRUE)
          /\ UNCHANGED <<mAvailableOutputDevices, dpForVoice>>
        BY <2>1 DEF ConnectRefused, devVars
    <3> QED
        BY <3>1, ReportKept DEF HdmiInv, HdmiFollows
  <2>2. ASSUME NEW d \in Removable, NEW address, ConnectFails(d, address)
        PROVE  HdmiInv'
    <3>1. /\ HdmiReport(d, address, TRUE)
          /\ UNCHANGED <<mAvailableOutputDevices, dpForVoice>>
        BY <2>2 DEF ConnectFails
    <3> QED
        BY <3>1, ReportKept DEF HdmiInv, HdmiFollows
  <2>3. ASSUME NEW d \in Removable, NEW address, Connect(d, address)
        PROVE  HdmiInv'
    <3>1. /\ HdmiReport(d, address, TRUE) /\ ~SinkOff(d)'
          /\ mAvailableOutputDevices' = mAvailableOutputDevices \cup {d}
          /\ dpForVoice' \in IF d = "aux" THEN BOOLEAN ELSE {dpForVoice}
        BY <2>3 DEF Connect
    <3>2. d = "aux" /\ isHDMISpkEnabled =>
              mHdmiAudioDisabled' = FALSE /\ mHdmiAudioEvent' = TRUE
        BY <3>1, ReportType DEF SinkOff
    <3>3. dpForVoice' => "aux" \in mAvailableOutputDevices'
        BY <3>1 DEF HdmiInv, HdmiFollows
    <3>4. reported' \in [speakers : BOOLEAN, plugged : BOOLEAN]
        BY <3>1, ReportType
    <3> QED
        BY <3>1, <3>2, <3>3, <3>4, ReportKept DEF HdmiInv, HdmiFollows
  <2>4. ASSUME NEW d \in Removable, NEW address, DisconnectRefused(d, address)
        PROVE  HdmiInv'
    <3>1. /\ HdmiReport(d, address, FALSE) /\ d \notin mAvailableOutputDevices
          /\ UNCHANGED <<mAvailableOutputDevices, dpForVoice>>
        BY <2>4 DEF DisconnectRefused, devVars
    <3> QED
        BY <3>1, ReportKept DEF HdmiInv, HdmiFollows
  <2>5. ASSUME NEW d \in Removable, NEW address, Disconnect(d, address)
        PROVE  HdmiInv'
    <3>1. /\ HdmiReport(d, address, FALSE)
          /\ mAvailableOutputDevices' = mAvailableOutputDevices \ {d}
          /\ dpForVoice' = (dpForVoice /\ d # "aux")
        BY <2>5 DEF Disconnect
    <3> QED
        BY <3>1, ReportKept DEF HdmiInv, HdmiFollows
  <2>6. ASSUME NEW d \in InDevices,
               ConnectInput(d) \/ ConnectInputFails(d) \/ DisconnectInput(d)
        PROVE  HdmiInv'
      BY <2>6 DEF ConnectInput, ConnectInputFails, DisconnectInput, hdmiVars,
                  HdmiInv, HdmiFollows
  <2>7. CASE UNCHANGED <<devVars, hdmiVars>>
      BY <2>7 DEF devVars, hdmiVars, HdmiInv, HdmiFollows
  <2> QED
      BY <2>1, <2>2, <2>3, <2>4, <2>5, <2>6, <2>7, DeviceSteps
<1>3. HdmiInv => HdmiFollows
    BY DEF HdmiInv
<1> QED
    BY <1>1, <1>2, <1>3, DevicesTyped, PTL DEF Spec
-----------------------------------------------------------------------------
(***************************************************************************)
(* Outputs and tracks                                                      *)
(***************************************************************************)
OutputsOK ==
    /\ Boot \subseteq mOutputs /\ mOutputs \subseteq Outputs
    /\ mDirectOpenCount \in [Outputs -> Nat]
    /\ active \subseteq Tracks
    /\ alarmMutes \in [Outputs -> Nat]
    /\ forceUse \in [COMMUNICATION : {"NONE", "BT_SCO"},
                     SYSTEM : {"NONE", "SYSTEM_ENFORCED"}]
    /\ DirectOnlyForClients

\* What closes and opens outputs, or starts and stops tracks; and all the rest.
LEMMA OutputSteps ==
    ASSUME [Next]_vars
    PROVE  \/ \E d \in Removable : \E address \in Addresses(d) :
                  Connect(d, address) \/ Disconnect(d, address)
           \/ \E t \in Tracks : StartSource(t) \/ StopSource(t)
           \/ \E o \in Direct : \/ ReleaseDirect(o)
                                \/ \E isDsd \in BOOLEAN : OpenDirect(o, isDsd)
           \/ \E config \in {"NONE", "BT_SCO"} :
                  setForceUse("COMMUNICATION", config)
           \/ \E config \in {"NONE", "SYSTEM_ENFORCED"} :
                  setForceUse("SYSTEM", config)
           \/ UNCHANGED <<openVars, trackVars, forceUse>>
<1>1. ASSUME NEW d \in Removable, NEW address \in Addresses(d),
             ConnectRefused(d, address) \/ ConnectFails(d, address)
                 \/ DisconnectRefused(d, address)
      PROVE  UNCHANGED <<openVars, trackVars, forceUse>>
    BY <1>1 DEF ConnectRefused, ConnectFails, DisconnectRefused, engineVars
<1>2. ASSUME NEW d \in InDevices,
             ConnectInput(d) \/ ConnectInputFails(d) \/ DisconnectInput(d)
      PROVE  UNCHANGED <<openVars, trackVars, forceUse>>
    BY <1>2 DEF ConnectInput, ConnectInputFails, DisconnectInput, engineVars
<1>3. ASSUME NEW state \in Modes, setPhoneState(state)
      PROVE  UNCHANGED <<openVars, trackVars, forceUse>>
    BY <1>3 DEF setPhoneState
<1>4. SetVoiceIndex => UNCHANGED <<openVars, trackVars, forceUse>>
    BY DEF SetVoiceIndex, engineVars
<1>5. UNCHANGED vars => UNCHANGED <<openVars, trackVars, forceUse>>
    BY DEF vars, engineVars
<1> QED
    BY <1>1, <1>2, <1>3, <1>4, <1>5
    DEF Next, DeviceNext, TrackNext, EngineNext

\* What goes with the outputs that are closed.
LEMMA Closing ==
    ASSUME OutputsOK, NEW closed, CloseOutputs(closed)
    PROVE  /\ mDirectOpenCount' \in [Outputs -> Nat]
           /\ alarmMutes' \in [Outputs -> Nat]
           /\ active' = {t \in active : Output[t] \notin closed}
           /\ \A o \in Outputs \ closed :
                  /\ mDirectOpenCount'[o] = mDirectOpenCount[o]
                  /\ alarmMutes'[o] = alarmMutes[o]
           /\ \A o \in Outputs \cap closed : alarmMutes'[o] = 0
    BY DEF OutputsOK, CloseOutputs

\* On a connection the outputs that were only opened to ask are closed again.
LEMMA Connected ==
    ASSUME OutputsOK, NEW d, NEW address, Connect(d, address)
    PROVE  \E closed \in SUBSET Outputs :
              /\ CloseOutputs(closed) /\ UNCHANGED forceUse
              /\ Boot \subseteq mOutputs' /\ mOutputs' \subseteq Outputs
              /\ closed \cap mOutputs' = {}
              /\ \A o \in mOutputs' \cap Direct : mDirectOpenCount[o] > 0
<1>1. PICK opened \in SUBSET {o \in Outputs \ mOutputs : d \in Supports[o]} :
        LET outs   == mOutputs \cup opened
            listed == {o \in outs : d \in Supports[o]}
        IN  /\ mOutputs' = outs \ OnlyQueried(listed)
            /\ CloseOutputs(OnlyQueried(listed))
            /\ UNCHANGED forceUse
    BY DEF Connect, engineVars
<1> DEFINE outs   == mOutputs \cup opened
           listed == {o \in outs : d \in Supports[o]}
           closed == OnlyQueried(listed)
<1>2. closed = {o \in listed \cap Direct : mDirectOpenCount[o] = 0}
    BY DEF OnlyQueried
<1>3. outs \subseteq Outputs /\ closed \subseteq Outputs
    BY <1>2 DEF OutputsOK
<1>4. closed \cap Boot = {}
    BY <1>2, OutputsAssumption
<1>5. ASSUME NEW o \in mOutputs' \cap Direct PROVE mDirectOpenCount[o] > 0
  <2>1. CASE o \in mOutputs
      BY <2>1 DEF OutputsOK, DirectOnlyForClients
  <2>2. CASE o \in opened
    <3>1. o \in Outputs /\ mDirectOpenCount[o] \in Nat
        BY <2>2 DEF OutputsOK
    <3> QED
        BY <1>1, <1>2, <1>5, <2>2, <3>1
  <2> QED
      BY <1>1, <1>5, <2>1, <2>2
<1> QED
    BY <1>1, <1>3, <1>4, <1>5 DEF OutputsOK

LEMMA Disconnected ==
    ASSUME DevicesOK, OutputsOK, NEW d \in Removable, NEW address,
           Disconnect(d, address)
    PROVE  \E closed \in SUBSET Outputs :
              /\ CloseOutputs(closed) /\ UNCHANGED forceUse
              /\ Boot \subseteq mOutputs' /\ mOutputs' \subseteq Outputs
              /\ closed \cap mOutputs' = {}
              /\ \A o \in mOutputs' \cap Direct : mDirectOpenCount[o] > 0
<1> DEFINE left   == mAvailableOutputDevices \ {d}
           closed == {o \in mOutputs : Supports[o] \cap left = {}}
<1>1. /\ mOutputs' = mOutputs \ closed /\ CloseOutputs(closed)
      /\ UNCHANGED forceUse
    BY DEF Disconnect, engineVars
<1>2. Attached \subseteq left
    BY DEF DevicesOK, Attached, Removable
<1>3. closed \cap Boot = {}
    BY <1>2, OutputsAssumption
<1>4. closed \subseteq Outputs
    BY DEF OutputsOK
<1> QED
    BY <1>1, <1>3, <1>4 DEF OutputsOK, DirectOnlyForClients

THEOREM OutputsTyped == Spec => []OutputsOK
<1>1. Init => OutputsOK
  <2> SUFFICES ASSUME Init PROVE OutputsOK
      OBVIOUS
  <2>1. /\ mOutputs = Boot /\ mDirectOpenCount = [o \in Outputs |-> 0]
        /\ active = {} /\ alarmMutes = [o \in Outputs |-> 0]
        /\ forceUse = [COMMUNICATION |-> "NONE", SYSTEM |-> "NONE"]
      BY DEF Init
  <2> QED
      BY <2>1, OutputsAssumption DEF OutputsOK, DirectOnlyForClients
<1>2. DevicesOK /\ OutputsOK /\ [Next]_vars => OutputsOK'
  <2> SUFFICES ASSUME DevicesOK, OutputsOK, [Next]_vars PROVE OutputsOK'
      OBVIOUS
  <2>1. ASSUME NEW d \in Removable, NEW address \in Addresses(d),
               Connect(d, address) \/ Disconnect(d, address)
        PROVE  OutputsOK'
    <3>1. PICK closed \in SUBSET Outputs :
              /\ CloseOutputs(closed) /\ UNCHANGED forceUse
              /\ Boot \subseteq mOutputs' /\ mOutputs' \subseteq Outputs
              /\ closed \cap mOutputs' = {}
              /\ \A o \in mOutputs' \cap Direct : mDirectOpenCount[o] > 0
        BY <2>1, Connected, Disconnected
    <3>2. /\ mDirectOpenCount' \in [Outputs -> Nat]
          /\ alarmMutes' \in [Outputs -> Nat]
          /\ active' = {t \in active : Output[t] \notin closed}
          /\ \A o \in Outputs \ closed :
                 mDirectOpenCount'[o] = mDirectOpenCount[o]
        BY <3>1, Closing
    <3>3. \A o \in mOutputs' \cap Direct : mDirectOpenCount'[o] > 0
        BY <3>1, <3>2
    <3> QED
        BY <3>1, <3>2, <3>3 DEF OutputsOK, DirectOnlyForClients
  <2>2. ASSUME NEW t \in Tracks, StartSource(t) \/ StopSource(t)
        PROVE  OutputsOK'
    <3>1. /\ active' = active \cup {t} \/ active' = active \ {t}
          /\ UNCHANGED <<openVars, engineVars>>
        BY <2>2 DEF StartSource, StopSource
    <3>2. \E on \in BOOLEAN :
              alarmMutes' \in {setStrategyMute(Output[t], on), alarmMutes}
        BY <2>2 DEF StartSource, StopSource
    <3>3. Output[t] \in Outputs
        BY TracksAssumption
    <3>4. alarmMutes' \in [Outputs -> Nat]
        BY <3>2, <3>3 DEF setStrategyMute, OutputsOK
    <3> QED
        BY <3>1, <3>4 DEF openVars, engineVars, OutputsOK, DirectOnlyForClients
  <2>3. ASSUME NEW o \in Direct, ReleaseDirect(o) PROVE OutputsOK'
    <3>1. /\ mOutputs' = mOutputs \ {o}
          /\ mDirectOpenCount' = [mDirectOpenCount EXCEPT ![o] = 0]
          /\ UNCHANGED <<trackVars, engineVars>>
        BY <2>3 DEF ReleaseDirect
    <3> QED
        BY <3>1, OutputsAssumption
        DEF trackVars, engineVars, OutputsOK, DirectOnlyForClients
  <2>4. ASSUME NEW o \in Direct, NEW isDsd \in BOOLEAN, OpenDirect(o, isDsd)
        PROVE  OutputsOK'
    <3>1. /\ mOutputs' = mOutputs \cup {o}
          /\ mDirectOpenCount' = [mDirectOpenCount EXCEPT ![o] = 1]
          /\ UNCHANGED <<trackVars, engineVars>>
        BY <2>4 DEF OpenDirect
    <3> QED
        BY <3>1, OutputsAssumption
        DEF trackVars, engineVars, OutputsOK, DirectOnlyForClients
  <2>5. ASSUME NEW config \in {"NONE", "BT_SCO"},
               setForceUse("COMMUNICATION", config)
        PROVE  OutputsOK'
    <3>1. /\ forceUse' = [forceUse EXCEPT !["COMMUNICATION"] = config]
          /\ UNCHANGED <<openVars, trackVars>>
        BY <2>5 DEF setForceUse
    <3> QED
        BY <3>1 DEF openVars, trackVars, OutputsOK, DirectOnlyForClients
  <2>6. ASSUME NEW config \in {"NONE", "SYSTEM_ENFORCED"},
               setForceUse("SYSTEM", config)
        PROVE  OutputsOK'
    <3>1. /\ forceUse' = [forceUse EXCEPT !["SYSTEM"] = config]
          /\ UNCHANGED <<openVars, trackVars>>
        BY <2>6 DEF setForceUse
    <3> QED
        BY <3>1 DEF openVars, trackVars, OutputsOK, DirectOnlyForClients
  <2>7. CASE UNCHANGED <<openVars, trackVars, forceUse>>
      BY <2>7 DEF openVars, trackVars, OutputsOK, DirectOnlyForClients
  <2> QED
      BY <2>1, <2>2, <2>3, <2>4, <2>5, <2>6, <2>7, OutputSteps
<1> QED
    BY <1>1, <1>2, DevicesTyped, PTL DEF Spec

\* No direct output stays open that nobody asked for: what a connection opens
\* to learn the formats of a device it closes again, and it closes nothing
\* that a client has.
THEOREM DirectForClients == Spec => []DirectOnlyForClients
<1>1. OutputsOK => DirectOnlyForClients
    BY DEF OutputsOK
<1> QED
    BY <1>1, OutputsTyped, PTL
-----------------------------------------------------------------------------
(***************************************************************************)
(* Playback that follows the devices.  An open output always reaches a     *)
(* device that is there, and tracks play on open outputs only.             *)
(***************************************************************************)
ReachInv ==
    /\ \A o \in mOutputs : Supports[o] \cap mAvailableOutputDevices # {}
    /\ \A t \in active : Output[t] \in mOutputs

LEMMA MediaThere ==
    ASSUME DevicesOK
    PROVE  /\ MediaDevices \in {{"usb"}, {"aux"}, {"speaker"}}
           /\ MediaDevices \subseteq mAvailableOutputDevices
           /\ MediaDevices = {"speaker"} => mAvailableOutputDevices = Attached
           /\ "usb" \in mAvailableOutputDevices => MediaDevices = {"usb"}
    BY DEF DevicesOK, MediaDevices, Devices, Attached, Removable

\* What a connection is to playback.
LEMMA ConnectSteps ==
    ASSUME NEW d, NEW address, Connect(d, address)
    PROVE  \E opened \in SUBSET {o \in Outputs \ mOutputs : d \in Supports[o]} :
              LET outs   == mOutputs \cup opened
                  listed == {o \in outs : d \in Supports[o]}
                  closed == OnlyQueried(listed)
              IN  /\ listed # {}
                  /\ mOutputs' = outs \ closed
                  /\ invalid' = {t \in Invalidated(outs) : Output[t] \notin closed}
                  /\ active' = {t \in active : Output[t] \notin closed}
    BY DEF Connect, CloseOutputs

LEMMA DisconnectSteps ==
    ASSUME NEW d, NEW address, Disconnect(d, address)
    PROVE  LET left   == mAvailableOutputDevices \ {d}
               closed == {o \in mOutputs : Supports[o] \cap left = {}}
           IN  /\ mAvailableOutputDevices' = left
               /\ mOutputs' = mOutputs \ closed
               /\ invalid' = {t \in Invalidated(mOutputs) : Output[t] \notin closed}
               /\ active' = {t \in active : Output[t] \notin closed}
    BY DEF Disconnect, CloseOutputs

LEMMA ReachStep ==
    ASSUME DevicesOK, OutputsOK, ReachInv, [Next]_vars PROVE ReachInv'
<1>1. ASSUME NEW d \in Removable, NEW address, Connect(d, address)
      PROVE  ReachInv'
  <2>1. PICK opened \in SUBSET {o \in Outputs \ mOutputs : d \in Supports[o]} :
           LET outs   == mOutputs \cup opened
               listed == {o \in outs : d \in Supports[o]}
               closed == OnlyQueried(listed)
           IN  /\ mOutputs' = outs \ closed
               /\ active' = {t \in active : Output[t] \notin closed}
      BY <1>1, ConnectSteps
  <2>2. mAvailableOutputDevices' = mAvailableOutputDevices \cup {d}
      BY <1>1 DEF Connect
  <2> QED
      BY <2>1, <2>2 DEF ReachInv
<1>2. ASSUME NEW d \in Removable, NEW address, Disconnect(d, address)
      PROVE  ReachInv'
    BY <1>2, DisconnectSteps DEF ReachInv
<1>3. ASSUME NEW d \in Removable, NEW address,
             ConnectRefused(d, address) \/ ConnectFails(d, address)
                 \/ DisconnectRefused(d, address)
      PROVE  ReachInv'
    BY <1>3 DEF ConnectRefused, ConnectFails, DisconnectRefused, devVars, openVars,
                trackVars, ReachInv
<1>4. ASSUME NEW d \in InDevices,
             ConnectInput(d) \/ ConnectInputFails(d) \/ DisconnectInput(d)
      PROVE  ReachInv'
    BY <1>4 DEF ConnectInput, ConnectInputFails, DisconnectInput, openVars,
                trackVars, ReachInv
<1>5. ASSUME NEW t \in Tracks, StartSource(t) \/ StopSource(t)
      PROVE  ReachInv'
  <2>1. /\ \/ active' = active \cup {t} /\ Output[t] \in mOutputs
           \/ active' = active \ {t}
        /\ UNCHANGED <<devVars, openVars>>
      BY <1>5 DEF StartSource, StopSource
  <2> QED
      BY <2>1 DEF devVars, openVars, ReachInv
<1>6. ASSUME NEW o \in Direct, ReleaseDirect(o)
      PROVE  ReachInv'
    BY <1>6 DEF ReleaseDirect, isActive, On, devVars, trackVars, ReachInv
<1>7. ASSUME NEW o \in Direct, NEW isDsd \in BOOLEAN, OpenDirect(o, isDsd)
      PROVE  ReachInv'
  <2>1. /\ mOutputs' = mOutputs \cup {o} /\ MediaDevices \subseteq Supports[o]
        /\ UNCHANGED <<devVars, trackVars>>
      BY <1>7 DEF OpenDirect
  <2>2. Supports[o] \cap mAvailableOutputDevices # {}
      BY <2>1, MediaThere
  <2> QED
      BY <2>1, <2>2 DEF devVars, trackVars, ReachInv
<1>8. ASSUME EngineNext PROVE ReachInv'
  <2>1. UNCHANGED <<devVars, openVars, trackVars>>
      BY <1>8 DEF EngineNext, setForceUse, setPhoneState, SetVoiceIndex
  <2> QED
      BY <2>1 DEF devVars, openVars, trackVars, ReachInv
<1>9. CASE UNCHANGED vars
    BY <1>9 DEF vars, devVars, openVars, trackVars, ReachInv
<1> QED
    BY <1>1, <1>2, <1>3, <1>4, <1>5, <1>6, <1>7, <1>8, <1>9
    DEF Next, DeviceNext, TrackNext

THEOREM OutputsReach == Spec => []ReachInv
<1>1. Init => ReachInv
    BY OutputsAssumption DEF Init, ReachInv
<1>2. DevicesOK /\ OutputsOK /\ ReachInv /\ [Next]_vars => ReachInv'
    BY ReachStep
<1> QED
    BY <1>1, <1>2, DevicesTyped, OutputsTyped, PTL DEF Spec

\* Music whose output does not reach the new device for media is invalidated:
\* some output does, and the outputs that do are not those of the old device.
LEMMA Moves ==
    ASSUME OwnSpeaker, HdmiAtBoot, DevicesOK, DevicesOK', OutputsOK, ReachInv,
           NEW outs \in SUBSET Outputs, mOutputs \subseteq outs,
           \A o \in outs \ mOutputs : mAvailableOutputDevices' \cap Supports[o] # {},
           NEW d \in Removable,
           \/ /\ mAvailableOutputDevices' = mAvailableOutputDevices \cup {d}
              /\ \E o \in outs : d \in Supports[o]
           \/ mAvailableOutputDevices' = mAvailableOutputDevices \ {d},
           MediaDevices' # MediaDevices, dsd = {},
           NEW p \in mOutputs, Supports[p] \cap mAvailableOutputDevices' # {},
           ~(MediaDevices' \subseteq Supports[p])
    PROVE  MovesMedia(outs)
<1> DEFINE from == {o \in mOutputs : MediaDevices \subseteq Supports[o]}
           to   == {o \in outs : MediaDevices' \subseteq Supports[o]}
<1>1. /\ MediaDevices \in {{"usb"}, {"aux"}, {"speaker"}}
      /\ MediaDevices = {"speaker"} => mAvailableOutputDevices = Attached
      /\ "usb" \in mAvailableOutputDevices => MediaDevices = {"usb"}
    BY MediaThere
<1>2. /\ MediaDevices' \in {{"usb"}, {"aux"}, {"speaker"}}
      /\ MediaDevices' \subseteq mAvailableOutputDevices'
      /\ MediaDevices' = {"speaker"} => mAvailableOutputDevices' = Attached
  <2>1. /\ MediaDevices' \in {{"usb"}, {"aux"}, {"speaker"}}
        /\ MediaDevices' \subseteq mAvailableOutputDevices'
        /\ MediaDevices' = {"speaker"} => mAvailableOutputDevices' = Attached
      BY DEF DevicesOK, MediaDevices, Devices, Attached, Removable
  <2> QED
      BY <2>1
<1>3. PICK b \in Boot : "aux" \in Supports[b] /\ "usb" \notin Supports[b]
    BY DEF HdmiAtBoot
<1>4. b \in mOutputs /\ b \in outs /\ p \in Outputs /\ p \in outs
    BY OutputsAssumption DEF OutputsOK
<1>5. MediaDevices' # {"speaker"}
    BY <1>2, <1>4 DEF OwnSpeaker
<1>6. MediaDevices = {"speaker"} => "speaker" \in Supports[p]
    BY <1>1, <1>4 DEF OwnSpeaker, ReachInv
<1>7. MediaDevices' = {"usb"} => mAvailableOutputDevices' = mAvailableOutputDevices \cup {d} /\ d = "usb"
    BY <1>1, <1>2
<1>8. to # {}
  <2>1. CASE MediaDevices' = {"aux"}
      BY <2>1, <1>3, <1>4
  <2>2. CASE MediaDevices' = {"usb"}
      BY <2>2, <1>1, <1>7
  <2> QED
      BY <2>1, <2>2, <1>2, <1>5
<1>9. from # to
  <2>1. CASE MediaDevices = {"speaker"}
      BY <2>1, <1>4, <1>6
  <2>2. CASE MediaDevices = {"aux"}
      BY <2>2, <1>2, <1>3, <1>4, <1>5
  <2>3. CASE MediaDevices = {"usb"}
      BY <2>3, <1>2, <1>3, <1>4, <1>5
  <2> QED
      BY <2>1, <2>2, <2>3, <1>1
<1> QED
    BY <1>8, <1>9 DEF MovesMedia

\* A device that comes or goes closes no output that still reaches a device and
\* is in use, and no music is left behind on an output that does not reach the
\* new device for media: it is invalidated, which makes its client ask for an
\* output again.
THEOREM PlaybackFollowed ==
    ASSUME OwnSpeaker, HdmiAtBoot
    PROVE  Spec => PlaybackFollows
<1>1. ASSUME DevicesOK, DevicesOK', OutputsOK, ReachInv, ReachInv', [Next]_vars
      PROVE  MediaFollows \/ UNCHANGED vars
  <2>1. ASSUME NEW d \in Removable, NEW address, Connect(d, address)
        PROVE  MediaFollows
    <3>1. PICK opened \in SUBSET {o \in Outputs \ mOutputs : d \in Supports[o]} :
             LET outs   == mOutputs \cup opened
                 listed == {o \in outs : d \in Supports[o]}
                 closed == OnlyQueried(listed)
             IN  /\ listed # {}
                 /\ mOutputs' = outs \ closed
                 /\ invalid' = {t \in Invalidated(outs) : Output[t] \notin closed}
                 /\ active' = {t \in active : Output[t] \notin closed}
        BY <2>1, ConnectSteps
    <3>2. mAvailableOutputDevices' = mAvailableOutputDevices \cup {d}
        BY <2>1 DEF Connect
    <3> DEFINE outs   == mOutputs \cup opened
    <3>3. mOutputs \ mOutputs' = {}
        BY <1>1, <3>1 DEF OnlyQueried, OutputsOK, DirectOnlyForClients
    <3>4. ASSUME MediaDevices' # MediaDevices, dsd = {}, NEW t \in active',
                 Stream[t] = "MUSIC", ~(MediaDevices' \subseteq Supports[Output[t]])
          PROVE  t \in invalid'
      <4>1. /\ t \in active /\ Output[t] \in mOutputs
            /\ Supports[Output[t]] \cap mAvailableOutputDevices' # {}
          BY <1>1, <3>1, <3>4 DEF ReachInv
      <4>2. outs \in SUBSET Outputs /\ mOutputs \subseteq outs
          BY <1>1 DEF OutputsOK
      <4>3. /\ \A o \in outs \ mOutputs : mAvailableOutputDevices' \cap Supports[o] # {}
            /\ \E o \in outs : d \in Supports[o]
          BY <3>1, <3>2
      <4>4. MovesMedia(outs)
        <5> HIDE DEF outs
        <5> QED
          BY <1>1, <3>2, <3>4, <4>1, <4>2, <4>3, Moves
      <4>5. t \in Invalidated(outs)
          BY <4>1, <4>4, <3>4 DEF Invalidated, Playing
      <4> QED
          BY <3>1, <3>4, <4>5
    <3> QED
        BY <3>3, <3>4 DEF MediaFollows
  <2>2. ASSUME NEW d \in Removable, NEW address, Disconnect(d, address)
        PROVE  MediaFollows
    <3> DEFINE left   == mAvailableOutputDevices \ {d}
               closed == {o \in mOutputs : Supports[o] \cap left = {}}
    <3>1. /\ mAvailableOutputDevices' = left
          /\ mOutputs' = mOutputs \ closed
          /\ invalid' = {t \in Invalidated(mOutputs) : Output[t] \notin closed}
          /\ active' = {t \in active : Output[t] \notin closed}
        BY <2>2, DisconnectSteps
    <3>2. \A o \in mOutputs \ mOutputs' :
              Supports[o] \cap mAvailableOutputDevices' = {}
        BY <3>1
    <3>3. ASSUME MediaDevices' # MediaDevices, dsd = {}, NEW t \in active',
                 Stream[t] = "MUSIC", ~(MediaDevices' \subseteq Supports[Output[t]])
          PROVE  t \in invalid'
      <4>1. /\ t \in active /\ Output[t] \in mOutputs
            /\ Supports[Output[t]] \cap mAvailableOutputDevices' # {}
          BY <1>1, <3>1, <3>3 DEF ReachInv
      <4>2. mOutputs \in SUBSET Outputs
          BY <1>1 DEF OutputsOK
      <4>4. MovesMedia(mOutputs)
          BY <1>1, <3>1, <3>3, <4>1, <4>2, Moves
      <4>5. t \in Invalidated(mOutputs)
          BY <4>1, <4>4, <3>3 DEF Invalidated, Playing
      <4> QED
          BY <3>1, <3>3, <4>5
    <3> QED
        BY <3>2, <3>3 DEF MediaFollows
  <2>3. ASSUME mAvailableOutputDevices' = mAvailableOutputDevices PROVE MediaFollows
      BY <2>3 DEF MediaFollows, MediaDevices
  <2>4. ASSUME NEW d \in Removable, NEW address,
               ConnectRefused(d, address) \/ ConnectFails(d, address)
                   \/ DisconnectRefused(d, address)
        PROVE  mAvailableOutputDevices' = mAvailableOutputDevices
      BY <2>4 DEF ConnectRefused, ConnectFails, DisconnectRefused, devVars
  <2>5. ASSUME NEW d \in InDevices,
               ConnectInput(d) \/ ConnectInputFails(d) \/ DisconnectInput(d)
        PROVE  mAvailableOutputDevices' = mAvailableOutputDevices
      BY <2>5 DEF ConnectInput, ConnectInputFails, DisconnectInput
  <2>6. UNCHANGED <<devVars, hdmiVars>>
            => mAvailableOutputDevices' = mAvailableOutputDevices
      BY DEF devVars
  <2> QED
      BY <1>1, <2>1, <2>2, <2>3, <2>4, <2>5, <2>6, DeviceSteps
<1>2. DevicesOK /\ DevicesOK' /\ OutputsOK /\ ReachInv /\ ReachInv' /\ [Next]_vars
          => [MediaFollows]_vars
    BY <1>1
<1> QED
    BY <1>2, DevicesTyped, OutputsTyped, OutputsReach, PTL DEF Spec, PlaybackFollows

-----------------------------------------------------------------------------
(***************************************************************************)
(* Only, the order-preserving filter.  first[n] is what it has kept of the *)
(* first n elements; that there is such a function is shown by extending   *)
(* one for n - 1 elements, from the least n that would have none.          *)
(***************************************************************************)
Kept(list, s, S, n) == IF s[n] \in S THEN Append(list, s[n]) ELSE list

\* f is what is kept of the first elements of s, up to m of them.
Filters(f, s, S, m) ==
    f = [n \in 0 .. m |-> IF n = 0 THEN <<>> ELSE Kept(f[n - 1], s, S, n)]

\* A set of naturals has a least one.
LEMMA LeastNat ==
    ASSUME NEW T \in SUBSET Nat, T # {} PROVE \E m \in T : \A n \in T : m <= n
<1>1. IsWellFoundedOn(OpToRel(<, Nat), Nat)
    BY NatLessThanWellFounded, Zenon
<1>2. PICK m \in T : \A n \in T : <<n, m>> \notin OpToRel(<, Nat)
    BY <1>1, WFMin, Zenon
<1>3. \A n \in T : ~(n < m)
    BY <1>2, Zenon DEF OpToRel
<1> QED
    BY <1>3

LEMMA FilterExists ==
    ASSUME NEW s, NEW S, Len(s) \in Nat PROVE \E f : Filters(f, s, S, Len(s))
<1> DEFINE Without == {m \in Nat : ~ \E f : Filters(f, s, S, m)}
<1> SUFFICES ASSUME Without # {} PROVE FALSE
    OBVIOUS
<1>1. PICK m \in Without : \A n \in Without : m <= n
  <2>1. Without \in SUBSET Nat
      OBVIOUS
  <2> HIDE DEF Without
  <2> QED
      BY <2>1, LeastNat
<1>2. m \in Nat /\ ~ \E f : Filters(f, s, S, m)
    OBVIOUS
<1>3. m # 0
  <2>1. Filters([n \in 0 .. 0 |-> <<>>], s, S, 0)
      BY DEF Filters
  <2> QED
      BY <2>1, <1>2
<1>4. m - 1 \in Nat /\ m - 1 \notin Without
    BY <1>1, <1>2, <1>3
<1>5. PICK f : Filters(f, s, S, m - 1)
    BY <1>4
<1> DEFINE g == [n \in 0 .. m |-> IF n < m THEN f[n] ELSE Kept(f[m - 1], s, S, m)]
<1>6. \A n \in 0 .. m : g[n] = IF n = 0 THEN <<>> ELSE Kept(g[n - 1], s, S, n)
  <2>1. \A n \in 0 .. m - 1 : f[n] = IF n = 0 THEN <<>> ELSE Kept(f[n - 1], s, S, n)
      BY <1>5 DEF Filters
  <2>2. \A n \in 0 .. m - 1 : g[n] = f[n]
      BY <1>2
  <2>3. g[m] = Kept(f[m - 1], s, S, m)
      BY <1>2
  <2> HIDE DEF g
  <2>4. g[m] = Kept(g[m - 1], s, S, m)
      BY <2>2, <2>3, <1>2, <1>3
  <2>5. \A n \in 0 .. m : n = m \/ n \in 0 .. m - 1
      BY <1>2
  <2>6. \A n \in 0 .. m - 1 : n # 0 => n - 1 \in 0 .. m - 1
      BY <1>2
  <2> QED
      BY <2>1, <2>2, <2>4, <2>5, <2>6, <1>3
<1>7. Filters(g, s, S, m)
  <2>1. g = [n \in 0 .. m |-> g[n]]
      OBVIOUS
  <2> HIDE DEF g
  <2> QED
      BY <2>1, <1>6 DEF Filters
<1> HIDE DEF g
<1> QED
    BY <1>7, <1>2

LEMMA OnlyFilters ==
    ASSUME NEW s, NEW S, Len(s) \in Nat
    PROVE  \E f : Filters(f, s, S, Len(s)) /\ Only(s, S) = f[Len(s)]
<1> DEFINE first == CHOOSE f : Filters(f, s, S, Len(s))
<1>1. Filters(first, s, S, Len(s))
    BY FilterExists
<1>2. Only(s, S) = first[Len(s)]
    BY DEF Only, Filters, Kept
<1> HIDE DEF first
<1> QED
    BY <1>1, <1>2

LEMMA AppendedTo ==
    ASSUME NEW X, NEW s \in Seq(X), NEW x \in X
    PROVE  ToSet(Append(s, x)) = ToSet(s) \cup {x}
<1>1. Len(s) \in Nat /\ DOMAIN s = 1 .. Len(s)
    OBVIOUS
<1>2. /\ DOMAIN Append(s, x) = 1 .. Len(s) + 1
      /\ \A j \in 1 .. Len(s) : Append(s, x)[j] = s[j]
      /\ Append(s, x)[Len(s) + 1] = x
    OBVIOUS
<1>3. \A j : j \in 1 .. Len(s) + 1 <=> j \in 1 .. Len(s) \/ j = Len(s) + 1
    BY <1>1
<1>4. ToSet(Append(s, x)) \subseteq ToSet(s) \cup {x}
    BY <1>1, <1>2, <1>3, Zenon DEF ToSet
<1>5. ToSet(s) \subseteq ToSet(Append(s, x))
    BY <1>1, <1>2, <1>3, Zenon DEF ToSet
<1>6. x \in ToSet(Append(s, x))
    BY <1>2, <1>3, Zenon DEF ToSet
<1> QED
    BY <1>4, <1>5, <1>6

\* What is kept are the elements that are in the set.
LEMMA OnlyThose ==
    ASSUME NEW X, NEW s \in Seq(X), NEW S
    PROVE  Only(s, S) \in Seq(X) /\ ToSet(Only(s, S)) = ToSet(s) \cap S
<1> DEFINE N == Len(s)
<1>0. N \in Nat
    OBVIOUS
<1>1. PICK f : Filters(f, s, S, N) /\ Only(s, S) = f[N]
    BY OnlyFilters
<1> DEFINE Right(n) == /\ f[n] \in Seq(X)
                       /\ ToSet(f[n]) = {s[j] : j \in 1 .. n} \cap S
           Bad == {n \in 0 .. N : ~Right(n)}
<1>2. Bad = {}
  <2> SUFFICES ASSUME Bad # {} PROVE FALSE
      OBVIOUS
  <2>1. PICK n \in Bad : \A m \in Bad : n <= m
    <3>1. Bad \in SUBSET Nat
        BY <1>0
    <3> HIDE DEF Bad
    <3> QED
        BY <3>1, LeastNat
  <2>2. n \in 0 .. N /\ ~Right(n)
      OBVIOUS
  <2>3. n # 0
    <3>1. f[0] = <<>>
        BY <1>0, <1>1 DEF Filters
    <3>2. <<>> \in Seq(X) /\ ToSet(<<>>) = {} /\ {s[j] : j \in 1 .. 0} = {}
        BY DEF ToSet
    <3> QED
        BY <3>1, <3>2, <2>2
  <2>4. n \in 1 .. N /\ n - 1 \in 0 .. N /\ n - 1 \notin Bad
    <3> HIDE DEF Bad, N, Right
    <3>1. n \in 1 .. N /\ n - 1 \in 0 .. N /\ ~(n <= n - 1)
        BY <1>0, <2>2, <2>3
    <3> QED
        BY <3>1, <2>1
  <2>5. f[n - 1] \in Seq(X) /\ ToSet(f[n - 1]) = {s[j] : j \in 1 .. n - 1} \cap S
      BY <2>4
  <2>6. f[n] = Kept(f[n - 1], s, S, n)
    <3> HIDE DEF Bad, N, Right
    <3>1. n \in 0 .. N /\ n # 0
        BY <2>2, <2>3
    <3> QED
        BY <1>1, <3>1 DEF Filters
  <2>7. {s[j] : j \in 1 .. n} = {s[j] : j \in 1 .. n - 1} \cup {s[n]}
    <3>1. \A j : j \in 1 .. n <=> j \in 1 .. n - 1 \/ j = n
        BY <2>4, <1>0
    <3> QED
        BY <3>1
  <2>8. s[n] \in X
      BY <2>4
  <2> HIDE DEF Bad
  <2>9. CASE s[n] \in S
    <3>1. f[n] = Append(f[n - 1], s[n])
        BY <2>6, <2>9 DEF Kept
    <3>2. ToSet(f[n]) = ToSet(f[n - 1]) \cup {s[n]} /\ f[n] \in Seq(X)
        BY <3>1, <2>5, <2>8, AppendedTo
    <3> QED
        BY <3>2, <2>2, <2>5, <2>7, <2>9
  <2>10. CASE s[n] \notin S
      BY <2>10, <2>2, <2>5, <2>6, <2>7 DEF Kept
  <2> QED
      BY <2>9, <2>10
<1>3. Right(N)
  <2>1. N \in 0 .. N
      BY <1>0
  <2> HIDE DEF N, Right
  <2> QED
      BY <2>1, <1>2
<1>4. ToSet(s) = {s[j] : j \in 1 .. N}
    BY DEF ToSet
<1> QED
    BY <1>1, <1>3, <1>4

LEMMA InOrderElements ==
    ASSUME NEW S \in SUBSET Outputs
    PROVE  InOrder(S) \in Seq(Outputs) /\ ToSet(InOrder(S)) = S
<1>1. Order \in Seq(Outputs)
    BY OutputsAssumption
<1>2. Only(Order, S) \in Seq(Outputs) /\ ToSet(Only(Order, S)) = ToSet(Order) \cap S
    BY <1>1, OnlyThose
<1> QED
    BY <1>2 DEF InOrder, Outputs

LEMMA JoinElements ==
    ASSUME NEW X, NEW s \in Seq(X), NEW t \in Seq(X)
    PROVE  s \o t \in Seq(X) /\ ToSet(s \o t) = ToSet(s) \cup ToSet(t)
<1>1. /\ s \o t \in Seq(X) /\ Len(s \o t) = Len(s) + Len(t)
      /\ Len(s) \in Nat /\ Len(t) \in Nat
      /\ \A j \in 1 .. Len(s) : (s \o t)[j] = s[j]
      /\ \A j \in 1 .. Len(t) : (s \o t)[Len(s) + j] = t[j]
    OBVIOUS
<1>2. /\ DOMAIN (s \o t) = 1 .. Len(s) + Len(t)
      /\ DOMAIN s = 1 .. Len(s) /\ DOMAIN t = 1 .. Len(t)
    OBVIOUS
<1>3. ASSUME NEW j \in 1 .. Len(s) + Len(t)
      PROVE  j \in 1 .. Len(s) \/ \E k \in 1 .. Len(t) : j = Len(s) + k
  <2>0. Len(s) \in Nat /\ Len(t) \in Nat
      BY <1>1
  <2>1. j > Len(s) => j - Len(s) \in 1 .. Len(t) /\ j = Len(s) + (j - Len(s))
      BY <2>0
  <2>2. j > Len(s) \/ j \in 1 .. Len(s)
      BY <2>0
  <2> QED
      BY <2>1, <2>2, Zenon
<1>4. \A j \in 1 .. Len(s) : j \in 1 .. Len(s) + Len(t)
    BY <1>1
<1>5. \A j \in 1 .. Len(t) : Len(s) + j \in 1 .. Len(s) + Len(t)
    BY <1>1
<1>6. ToSet(s \o t) \subseteq ToSet(s) \cup ToSet(t)
  <2> SUFFICES ASSUME NEW j \in 1 .. Len(s) + Len(t)
               PROVE  (s \o t)[j] \in ToSet(s) \cup ToSet(t)
      BY <1>2 DEF ToSet
  <2>1. CASE j \in 1 .. Len(s)
      BY <2>1, <1>1, <1>2 DEF ToSet
  <2>2. CASE \E k \in 1 .. Len(t) : j = Len(s) + k
      BY <2>2, <1>1, <1>2 DEF ToSet
  <2> QED
      BY <2>1, <2>2, <1>3
<1>7. ToSet(s) \subseteq ToSet(s \o t)
    BY <1>1, <1>2, <1>4, Zenon DEF ToSet
<1>8. ToSet(t) \subseteq ToSet(s \o t)
    BY <1>1, <1>2, <1>5, Zenon DEF ToSet
<1> QED
    BY <1>1, <1>6, <1>7, <1>8

LEMMA ReverseElements ==
    ASSUME NEW X, NEW s \in Seq(X)
    PROVE  Reverse(s) \in Seq(X) /\ ToSet(Reverse(s)) = ToSet(s)
<1>1. Len(s) \in Nat /\ DOMAIN s = 1 .. Len(s)
    OBVIOUS
<1>2. /\ Reverse(s) \in Seq(X) /\ DOMAIN Reverse(s) = 1 .. Len(s)
      /\ \A j \in 1 .. Len(s) : Reverse(s)[j] = s[(Len(s) - j) + 1]
    BY <1>1 DEF Reverse
<1>3. \A j \in 1 .. Len(s) : /\ (Len(s) - j) + 1 \in 1 .. Len(s)
                             /\ (Len(s) - ((Len(s) - j) + 1)) + 1 = j
    BY <1>1
<1>4. ToSet(Reverse(s)) \subseteq ToSet(s)
    BY <1>1, <1>2, <1>3 DEF ToSet
<1>5. ToSet(s) \subseteq ToSet(Reverse(s))
  <2> SUFFICES ASSUME NEW j \in 1 .. Len(s) PROVE s[j] \in ToSet(Reverse(s))
      BY <1>1 DEF ToSet
  <2>1. Reverse(s)[(Len(s) - j) + 1] = s[j]
      BY <1>2, <1>3
  <2> QED
      BY <2>1, <1>2, <1>3 DEF ToSet
<1> QED
    BY <1>2, <1>4, <1>5

-----------------------------------------------------------------------------
(***************************************************************************)
(* The volume of a call.                                                   *)
(***************************************************************************)
\* Where the HAL is called for one of the outputs, it gets the volume.
LEMMA RoutingCalls ==
    ASSUME NEW outs, NEW want, NEW force, NEW volumes,
           setOutputDevices(outs, want, force, volumes),
           \/ volumes
           \/ \E o \in ToSet(outs) \cap Outputs \cap force :
                 want[o] = {} \/ want[o] \cap Supports[o] # {}
    PROVE  mLastVoiceVolume' = VoiceVolume'
<1>1. PICK calls \in SUBSET ToSet(outs) :
        /\ \A o \in ToSet(outs) \cap Outputs \cap force :
              want[o] = {} \/ want[o] \cap Supports[o] # {} => o \in calls
        /\ mLastVoiceVolume' = IF volumes \/ calls # {}
                               THEN VoiceVolume' ELSE mLastVoiceVolume
    BY DEF setOutputDevices
<1> QED
    BY <1>1

\* What an output is given it can reach.
LEMMA RoutingReaches ==
    ASSUME NEW outs, NEW want, NEW force, NEW volumes,
           setOutputDevices(outs, want, force, volumes), NEW o \in Outputs
    PROVE  route'.devices[o] \in {{}, route.devices[o], want[o] \cap Supports[o]}
    BY DEF setOutputDevices

VolumeInv == /\ route.devices["primary"] \subseteq Supports["primary"]
             /\ VoiceVolumeFollows

\* In a call the primary output is routed to a device that it reaches, unless
\* an enforced sound plays on another output, which is then routed to one.
CallReaches ==
    \/ getNewOutputDevices("primary") \cap Supports["primary"] # {}
    \/ \E o \in mOutputs \ {"primary"} : /\ isActive(o)
                                         /\ getNewOutputDevices(o) = {"speaker"}
                                         /\ "speaker" \in Supports[o]

LEMMA CallRouted ==
    CallReach /\ EnforcedReach /\ OutputsOK /\ ReachInv /\ phone = "IN_CALL"
        => CallReaches
<1> SUFFICES ASSUME CallReach, EnforcedReach, OutputsOK, ReachInv, phone = "IN_CALL"
             PROVE  CallReaches
    OBVIOUS
<1> USE DEF CallReaches
<1>1. isInCall
    BY DEF isInCall
<1>2. CASE Playing("ENFORCED_AUDIBLE") = {}
    BY <1>1, <1>2 DEF getNewOutputDevices, PhoneDevices, CallReach, Attached
<1>3. CASE Playing("ENFORCED_AUDIBLE") # {}
  <2>1. PICK t \in active : Stream[t] = "ENFORCED_AUDIBLE"
      BY <1>3 DEF Playing
  <2>2. t \in Tracks /\ Output[t] \in mOutputs /\ isActive(Output[t])
        /\ "speaker" \in Supports[Output[t]]
      BY <2>1 DEF OutputsOK, ReachInv, isActive, On, EnforcedReach
  <2>3. getNewOutputDevices(Output[t]) = {"speaker"}
    <3>1. \E u \in active : /\ Stream[u] # "MUSIC"
                            /\ sharesHwModuleWith(Output[u], Output[t])
        BY <2>1 DEF sharesHwModuleWith
    <3> QED
        BY <3>1, <1>3 DEF getNewOutputDevices
  <2>4. CASE Output[t] = "primary"
      BY <2>2, <2>3, <2>4
  <2>5. CASE Output[t] # "primary"
      BY <2>2, <2>3, <2>5
  <2> QED
      BY <2>4, <2>5
<1> QED
    BY <1>2, <1>3

LEMMA CallRoutedNext ==
    CallReach /\ EnforcedReach /\ OutputsOK' /\ ReachInv' /\ phone' = "IN_CALL"
        => CallReaches'
<1>1. CallReach /\ EnforcedReach /\ OutputsOK /\ ReachInv /\ phone = "IN_CALL"
        => CallReaches
    BY CallRouted
<1>2. (CallReach /\ EnforcedReach /\ OutputsOK /\ ReachInv /\ phone = "IN_CALL"
        => CallReaches)'
    BY <1>1, PTL
<1> QED
    BY <1>2 DEF CallReach, EnforcedReach

LEMMA ForceUseVolume ==
    ASSUME OutputsOK, OutputsOK', ReachInv, ReachInv', CallReach, EnforcedReach, VolumeInv,
           NEW usage \in {"COMMUNICATION", "SYSTEM"}, NEW config,
           setForceUse(usage, config)
    PROVE  VoiceVolumeFollows'
<1> SUFFICES ASSUME phone' = "IN_CALL" PROVE mLastVoiceVolume' = VoiceVolume'
    BY DEF VoiceVolumeFollows, VoiceVolume
<1> DEFINE call == IF phone = "IN_CALL" THEN {"primary"} ELSE {}
<1>1. /\ phone = "IN_CALL" /\ active' = active /\ mOutputs' = mOutputs
    BY DEF setForceUse, trackVars, openVars
<1>2. PICK want \in {Wanted'} :
        LET outs == {o \in mOutputs \ call : isActive(o) /\ want[o] # {}}
        IN  setOutputDevices(InOrder(call) \o Reverse(InOrder(outs)), want,
                             Outputs, outs # {})
    BY DEF setForceUse, RerouteActive
<1>3. want = [o \in Outputs |-> getNewOutputDevices(o)']
    BY <1>2 DEF Wanted
<1> DEFINE outs == {o \in mOutputs \ call : isActive(o) /\ want[o] # {}}
<1>4. /\ "primary" \in Outputs /\ call = {"primary"}
      /\ call \in SUBSET Outputs /\ outs \in SUBSET Outputs
    BY <1>1, OutputsAssumption DEF OutputsOK
<1>5. "primary" \in ToSet(InOrder(call) \o Reverse(InOrder(outs)))
  <2> HIDE DEF outs, call
  <2>1. /\ InOrder(call) \in Seq(Outputs) /\ ToSet(InOrder(call)) = call
        /\ InOrder(outs) \in Seq(Outputs)
      BY <1>4, InOrderElements
  <2>2. Reverse(InOrder(outs)) \in Seq(Outputs)
      BY <2>1, ReverseElements
  <2>3. ToSet(InOrder(call) \o Reverse(InOrder(outs)))
            = ToSet(InOrder(call)) \cup ToSet(Reverse(InOrder(outs)))
      BY <2>1, <2>2, JoinElements
  <2> QED
      BY <2>1, <2>3, <1>4
<1>6. \/ getNewOutputDevices("primary")' \cap Supports["primary"] # {}
      \/ \E o \in mOutputs \ {"primary"} :
            isActive(o) /\ getNewOutputDevices(o)' = {"speaker"}
  <2>1. \/ (getNewOutputDevices("primary") \cap Supports["primary"])' # {}
        \/ \E o \in mOutputs' \ {"primary"} :
              /\ isActive(o)'
              /\ getNewOutputDevices(o)' = {"speaker"}
      BY <1>1, CallRoutedNext DEF CallReaches
  <2> QED
      BY <2>1, <1>1 DEF isActive, On
<1>7. outs # {} \/ want["primary"] \cap Supports["primary"] # {}
    BY <1>3, <1>4, <1>6 DEF OutputsOK
<1> HIDE DEF outs
<1> QED
    BY <1>2, <1>4, <1>5, <1>7, RoutingCalls DEF outs

LEMMA PhoneStateVolume ==
    ASSUME OutputsOK, OutputsOK', ReachInv', CallReach, EnforcedReach, VolumeInv,
           NEW state, setPhoneState(state)
    PROVE  VoiceVolumeFollows'
<1> SUFFICES ASSUME phone' = "IN_CALL" PROVE mLastVoiceVolume' = VoiceVolume'
    BY DEF VoiceVolumeFollows, VoiceVolume
<1> DEFINE force == isInCall \/ isInCall'
           rx    == IF isInCall /\ getNewOutputDevices("primary")' = {}
                    THEN route.devices["primary"] ELSE getNewOutputDevices("primary")'
           want  == [Wanted' EXCEPT !["primary"] = rx]
           outs  == <<"primary">> \o InOrder(mOutputs \ {"primary"})
           forced == {o \in Outputs : IF o = "primary" THEN force ELSE want[o] # {}}
<1>1. /\ active' = active /\ mOutputs' = mOutputs
      /\ setOutputDevices(outs, want, forced, FALSE)
    BY DEF setPhoneState, trackVars, openVars
<1>2. force
    BY DEF isInCall
<1>3. "primary" \in Outputs /\ mOutputs \ {"primary"} \in SUBSET Outputs
    BY OutputsAssumption DEF OutputsOK
<1>4. /\ want["primary"] = rx
      /\ \A o \in Outputs \ {"primary"} : want[o] = getNewOutputDevices(o)'
    BY <1>3 DEF Wanted
<1>5. "primary" \in forced
    BY <1>2, <1>3
<1>6. ToSet(outs) = {"primary"} \cup (mOutputs \ {"primary"})
  <2>1. /\ <<"primary">> \in Seq(Outputs) /\ ToSet(<<"primary">>) = {"primary"}
      BY <1>3 DEF ToSet
  <2>2. /\ InOrder(mOutputs \ {"primary"}) \in Seq(Outputs)
        /\ ToSet(InOrder(mOutputs \ {"primary"})) = mOutputs \ {"primary"}
      BY <1>3, InOrderElements
  <2> DEFINE one == <<"primary">>
             rest == InOrder(mOutputs \ {"primary"})
  <2>3. one \in Seq(Outputs) /\ rest \in Seq(Outputs) /\ outs = one \o rest
      BY <2>1, <2>2
  <2>4. ToSet(outs) = ToSet(one) \cup ToSet(rest)
    <3> HIDE DEF one, rest, outs
    <3> QED
        BY <2>3, JoinElements
  <2> QED
      BY <2>1, <2>2, <2>4
<1>7. \E o \in ToSet(outs) \cap Outputs \cap forced :
         want[o] = {} \/ want[o] \cap Supports[o] # {}
  <2>1. CallReaches'
      BY CallRoutedNext
  <2>2. CASE rx = {} \/ rx \cap Supports["primary"] # {}
      BY <2>2, <1>3, <1>4, <1>5, <1>6
  <2>3. CASE rx # {} /\ rx \cap Supports["primary"] = {}
    <3>1. getNewOutputDevices("primary")' \cap Supports["primary"] = {}
      <4>1. rx = getNewOutputDevices("primary")'
          BY <2>3 DEF VolumeInv
      <4> QED
          BY <2>3, <4>1
    <3>2. PICK o \in mOutputs' \ {"primary"} :
             getNewOutputDevices(o)' = {"speaker"} /\ "speaker" \in Supports[o]
        BY <2>1, <3>1 DEF CallReaches
    <3>3. o \in mOutputs \ {"primary"} /\ o \in Outputs
        BY <3>2, <1>1, <1>3
    <3>4. want[o] = {"speaker"}
        BY <3>2, <3>3, <1>4
    <3>5. o \in forced /\ o \in ToSet(outs)
        BY <3>3, <3>4, <1>6
    <3> HIDE DEF want, forced, outs
    <3> QED
        BY <3>2, <3>3, <3>4, <3>5
  <2> QED
      BY <2>2, <2>3
<1> HIDE DEF want, forced, outs
<1> QED
    BY <1>1, <1>7, RoutingCalls

\* A call keeps the volume that the HAL has, or gives it the one of now, which
\* only a new force use or state of the phone changes.
LEMMA OtherVolume ==
    ASSUME [Next]_vars
    PROVE  \/ \E config \in {"NONE", "BT_SCO"} : setForceUse("COMMUNICATION", config)
           \/ \E config \in {"NONE", "SYSTEM_ENFORCED"} : setForceUse("SYSTEM", config)
           \/ \E state \in Modes : setPhoneState(state)
           \/ SetVoiceIndex
           \/ /\ UNCHANGED engineVars
              /\ mLastVoiceVolume' \in {VoiceVolume', mLastVoiceVolume}
<1> DEFINE Same == /\ UNCHANGED engineVars
                   /\ mLastVoiceVolume' \in {VoiceVolume', mLastVoiceVolume}
<1>1. ASSUME NEW d \in Removable, NEW address \in Addresses(d),
             ConnectRefused(d, address) \/ ConnectFails(d, address)
                 \/ DisconnectRefused(d, address)
      PROVE  Same
    BY <1>1 DEF ConnectRefused, ConnectFails, DisconnectRefused, routeVars
<1>2. ASSUME NEW d \in Removable, NEW address \in Addresses(d),
             Connect(d, address) \/ Disconnect(d, address)
      PROVE  Same
  <2>1. RerouteAll /\ UNCHANGED engineVars
      BY <1>2 DEF Connect, Disconnect
  <2> QED
      BY <2>1, RoutingVolume DEF RerouteAll
<1>3. ASSUME NEW d \in InDevices,
             ConnectInput(d) \/ ConnectInputFails(d) \/ DisconnectInput(d)
      PROVE  Same
  <2>1. UNCHANGED engineVars /\ (CallRouting \/ UNCHANGED routeVars)
      BY <1>3 DEF ConnectInput, ConnectInputFails, DisconnectInput
  <2>2. CallRouting => mLastVoiceVolume' \in {VoiceVolume', mLastVoiceVolume}
      BY RoutingVolume DEF CallRouting, routeVars
  <2> QED
      BY <2>1, <2>2 DEF routeVars
<1>4. ASSUME NEW t \in Tracks, StartSource(t) PROVE Same
  <2>1. UNCHANGED engineVars
      BY <1>4 DEF StartSource
  <2>2. \/ UNCHANGED routeVars
        \/ \E outs, want, force, volumes : setOutputDevices(outs, want, force, volumes)
      BY <1>4 DEF StartSource
  <2> QED
      BY <2>1, <2>2, RoutingVolume DEF routeVars
<1>5. ASSUME NEW t \in Tracks, StopSource(t) PROVE Same
  <2>1. UNCHANGED engineVars
      BY <1>5 DEF StopSource
  <2>2. \/ UNCHANGED routeVars
        \/ \E outs, want, force, volumes : setOutputDevices(outs, want, force, volumes)
      BY <1>5 DEF StopSource
  <2> QED
      BY <2>1, <2>2, RoutingVolume DEF routeVars
<1>6. ASSUME NEW o \in Direct,
             ReleaseDirect(o) \/ \E isDsd \in BOOLEAN : OpenDirect(o, isDsd)
      PROVE  Same
    BY <1>6 DEF ReleaseDirect, OpenDirect, routeVars
<1>7. UNCHANGED vars => Same
    BY DEF vars, routeVars
<1> HIDE DEF Same
<1>8. Same \/ EngineNext
    BY <1>1, <1>2, <1>3, <1>4, <1>5, <1>6, <1>7 DEF Next, DeviceNext, TrackNext
<1> QED
    BY <1>8 DEF EngineNext, Same

\* What an action is to the devices of the outputs.
LEMMA RouteSteps ==
    ASSUME [Next]_vars
    PROVE  \/ route' = route
           \/ \E outs, want, force, volumes : setOutputDevices(outs, want, force, volumes)
           \/ \E o \in Direct : ReleaseDirect(o)
<1> DEFINE Routes == \E outs, want, force, volumes :
                         setOutputDevices(outs, want, force, volumes)
<1>1. ASSUME DeviceNext PROVE route' = route \/ Routes
  <2>1. CallRouting => route' = route \/ Routes
      BY DEF CallRouting, routeVars
  <2>2. RerouteAll => Routes
      BY DEF RerouteAll
  <2>3. ASSUME NEW d \in Removable, NEW address \in Addresses(d),
               ConnectRefused(d, address) \/ ConnectFails(d, address)
                   \/ DisconnectRefused(d, address)
        PROVE  route' = route
      BY <2>3 DEF ConnectRefused, ConnectFails, DisconnectRefused, routeVars
  <2>4. ASSUME NEW d \in Removable, NEW address \in Addresses(d),
               Connect(d, address) \/ Disconnect(d, address)
        PROVE  RerouteAll
      BY <2>4 DEF Connect, Disconnect
  <2>5. ASSUME NEW d \in InDevices,
               ConnectInput(d) \/ ConnectInputFails(d) \/ DisconnectInput(d)
        PROVE  route' = route \/ CallRouting
      BY <2>5 DEF ConnectInput, ConnectInputFails, DisconnectInput, routeVars
  <2> HIDE DEF Routes
  <2> QED
      BY <1>1, <2>1, <2>2, <2>3, <2>4, <2>5 DEF DeviceNext
<1>2. ASSUME NEW t \in Tracks, StartSource(t) \/ StopSource(t)
      PROVE  route' = route \/ Routes
    BY <1>2 DEF StartSource, StopSource, routeVars
<1>3. ASSUME NEW o \in Direct, NEW isDsd \in BOOLEAN, OpenDirect(o, isDsd)
      PROVE  route' = route
    BY <1>3 DEF OpenDirect, routeVars
<1>4. ASSUME NEW usage, NEW config, setForceUse(usage, config) PROVE Routes
  <2>1. RerouteActive
      BY <1>4 DEF setForceUse
  <2> QED
      BY <2>1 DEF RerouteActive
<1>5. ASSUME NEW state, setPhoneState(state) PROVE Routes
    BY <1>5 DEF setPhoneState
<1>6. SetVoiceIndex \/ UNCHANGED vars => route' = route
    BY DEF SetVoiceIndex, vars, routeVars
<1> HIDE DEF Routes
<1>7. \/ route' = route \/ Routes
      \/ \E o \in Direct : ReleaseDirect(o)
    BY <1>1, <1>2, <1>3, <1>4, <1>5, <1>6 DEF Next, TrackNext, EngineNext
<1> QED
    BY <1>7 DEF Routes

\* In a call the HAL has the volume of whoever is in charge of it, whichever
\* way the call was entered, the headset was chosen or the index was set: some
\* output is routed then, and routing applies the volumes.
THEOREM VolumeFollows ==
    ASSUME CallReach, EnforcedReach
    PROVE  Spec => []VoiceVolumeFollows
<1>1. Init => VolumeInv
    BY OutputsAssumption DEF Init, VolumeInv, VoiceVolumeFollows, CallReach, Attached
<1>2. ASSUME OutputsOK, OutputsOK', ReachInv, ReachInv', VolumeInv, [Next]_vars
      PROVE  VolumeInv'
  <2>1. VoiceVolumeFollows'
    <3>1. ASSUME NEW config, setForceUse("COMMUNICATION", config)
                                 \/ setForceUse("SYSTEM", config)
          PROVE  VoiceVolumeFollows'
        BY <1>2, <3>1, ForceUseVolume
    <3>2. ASSUME NEW state \in Modes, setPhoneState(state)
          PROVE  VoiceVolumeFollows'
        BY <1>2, <3>2, PhoneStateVolume
    <3>3. SetVoiceIndex => VoiceVolumeFollows'
        BY <1>2 DEF SetVoiceIndex, engineVars, VolumeInv, VoiceVolumeFollows, isInCall
    <3>4. ASSUME UNCHANGED engineVars,
                 mLastVoiceVolume' \in {VoiceVolume', mLastVoiceVolume}
          PROVE  VoiceVolumeFollows'
        BY <1>2, <3>4 DEF engineVars, VolumeInv, VoiceVolumeFollows, VoiceVolume
    <3> QED
        BY <1>2, <3>1, <3>2, <3>3, <3>4, OtherVolume
  <2>2. route'.devices["primary"] \subseteq Supports["primary"]
    <3>0. "primary" \in Outputs /\ "primary" \notin Direct
        BY OutputsAssumption
    <3>1. ASSUME NEW outs, NEW want, NEW force, NEW volumes,
                 setOutputDevices(outs, want, force, volumes)
          PROVE  route'.devices["primary"] \subseteq Supports["primary"]
        BY <1>2, <3>0, <3>1, RoutingReaches DEF VolumeInv
    <3>2. ASSUME NEW o \in Direct, ReleaseDirect(o)
          PROVE  route'.devices["primary"] = route.devices["primary"]
        BY <3>0, <3>2 DEF ReleaseDirect
    <3> QED
        BY <1>2, <3>1, <3>2, RouteSteps DEF VolumeInv
  <2> QED
      BY <2>1, <2>2 DEF VolumeInv
<1>3. OutputsOK /\ OutputsOK' /\ ReachInv /\ ReachInv' /\ VolumeInv /\ [Next]_vars
          => VolumeInv'
    BY <1>2
<1>4. VolumeInv => VoiceVolumeFollows
    BY DEF VolumeInv
<1> QED
    BY <1>1, <1>3, <1>4, OutputsTyped, OutputsReach, PTL DEF Spec
-----------------------------------------------------------------------------
\* The list s of outputs ends with some of Q and others that, with them, are
\* all in W.
Parts(s, a, b) == s = a \o b

EndsIn(s, Q, W) ==
    \E a, b \in Seq(Outputs) : /\ Parts(s, a, b)
                               /\ ToSet(b) \cap Q # {} /\ ToSet(b) \subseteq W

\* What is kept of a list in two parts is what is kept of each.
LEMMA OnlyJoin ==
    ASSUME NEW X, NEW a \in Seq(X), NEW b \in Seq(X), NEW S
    PROVE  Only(a \o b, S) = Only(a, S) \o Only(b, S)
<1> DEFINE s == a \o b
           N == Len(a)
           M == Len(b)
<1>0. /\ N \in Nat /\ M \in Nat /\ Len(s) = N + M /\ Len(s) \in Nat
      /\ \A n \in 1 .. N : s[n] = a[n]
      /\ \A n \in 1 .. M : s[N + n] = b[n] /\ b[n] \in X
    OBVIOUS
<1>1. PICK f : Filters(f, s, S, N + M) /\ Only(s, S) = f[N + M]
  <2> HIDE DEF s
  <2> QED
      BY <1>0, OnlyFilters
<1>2. PICK g : Filters(g, a, S, N) /\ Only(a, S) = g[N]
    BY OnlyFilters
<1>3. PICK h : Filters(h, b, S, M) /\ Only(b, S) = h[M]
    BY OnlyFilters
<1>4. g[N] \in Seq(X)
    BY <1>2, OnlyThose
<1> HIDE DEF s, N, M
<1>5. /\ \A n \in 0 .. N + M : f[n] = IF n = 0 THEN <<>> ELSE Kept(f[n - 1], s, S, n)
      /\ \A n \in 0 .. N : g[n] = IF n = 0 THEN <<>> ELSE Kept(g[n - 1], a, S, n)
      /\ \A n \in 0 .. M : h[n] = IF n = 0 THEN <<>> ELSE Kept(h[n - 1], b, S, n)
    BY <1>1, <1>2, <1>3 DEF Filters
<1>6. \A n \in 0 .. N : f[n] = g[n]
  <2> DEFINE Bad == {n \in 0 .. N : f[n] # g[n]}
  <2> SUFFICES ASSUME Bad # {} PROVE FALSE
      OBVIOUS
  <2>1. PICK n \in Bad : \A m \in Bad : n <= m
    <3>1. Bad \subseteq 0 .. N
        OBVIOUS
    <3> HIDE DEF Bad
    <3>2. Bad \in SUBSET Nat
        BY <1>0, <3>1
    <3> QED
        BY <3>2, LeastNat
  <2>2. n \in 0 .. N /\ f[n] # g[n] /\ n \in 0 .. N + M
      BY <1>0
  <2>3. n # 0
      BY <1>5, <2>2
  <2>4. n \in 1 .. N /\ n - 1 \in 0 .. N /\ n - 1 \notin Bad
      BY <1>0, <2>1, <2>2, <2>3
  <2>5. f[n - 1] = g[n - 1]
      BY <2>4
  <2>6. f[n] = Kept(f[n - 1], s, S, n) /\ g[n] = Kept(g[n - 1], a, S, n)
      BY <1>5, <2>2, <2>3
  <2>7. s[n] = a[n]
      BY <1>0, <2>4
  <2> QED
      BY <2>2, <2>5, <2>6, <2>7 DEF Kept
<1>7. \A n \in 0 .. M : f[N + n] = g[N] \o h[n] /\ h[n] \in Seq(X)
  <2> DEFINE Right(n) == f[N + n] = g[N] \o h[n] /\ h[n] \in Seq(X)
             Bad == {n \in 0 .. M : ~Right(n)}
  <2> SUFFICES ASSUME Bad # {} PROVE FALSE
      OBVIOUS
  <2>1. PICK n \in Bad : \A m \in Bad : n <= m
    <3>1. Bad \subseteq 0 .. M
        OBVIOUS
    <3> HIDE DEF Bad
    <3>2. Bad \in SUBSET Nat
        BY <1>0, <3>1
    <3> QED
        BY <3>2, LeastNat
  <2>2. n \in 0 .. M /\ ~Right(n)
      OBVIOUS
  <2>3. n # 0
    <3>1. h[0] = <<>> /\ N \in 0 .. N /\ f[N] = g[N] /\ N + 0 = N
        BY <1>0, <1>5, <1>6
    <3>2. g[N] \o <<>> = g[N] /\ <<>> \in Seq(X)
        BY <1>4
    <3> QED
        BY <2>2, <3>1, <3>2
  <2>4. /\ n \in 1 .. M /\ n - 1 \in 0 .. M /\ ~(n <= n - 1)
        /\ N + n \in 0 .. N + M /\ N + n # 0 /\ (N + n) - 1 = N + (n - 1)
      BY <1>0, <2>2, <2>3
  <2>5. Right(n - 1)
    <3>1. n - 1 \notin Bad
        BY <2>1, <2>4
    <3> QED
        BY <2>4, <3>1
  <2>6. /\ f[N + n] = Kept(f[N + (n - 1)], s, S, N + n)
        /\ h[n] = Kept(h[n - 1], b, S, n)
      BY <1>5, <2>2, <2>3, <2>4
  <2>7. s[N + n] = b[n] /\ b[n] \in X
      BY <1>0, <2>4
  <2> HIDE DEF Bad
  <2>8. CASE b[n] \in S
    <3>1. /\ f[N + n] = Append(g[N] \o h[n - 1], b[n])
          /\ h[n] = Append(h[n - 1], b[n])
        BY <2>5, <2>6, <2>7, <2>8 DEF Kept
    <3>2. PICK p \in Seq(X), q \in Seq(X), x \in X : p = g[N] /\ q = h[n - 1] /\ x = b[n]
        BY <1>4, <2>5, <2>7
    <3>3. p \o q \in Seq(X) /\ <<x>> \in Seq(X)
        OBVIOUS
    <3>4. /\ Append(p \o q, x) = (p \o q) \o <<x>>
          /\ Append(q, x) = q \o <<x>>
        BY <3>3, AppendIsConcat
    <3>6. (p \o q) \o <<x>> = p \o (q \o <<x>>)
        BY <3>3, ConcatAssociative
    <3>7. f[N + n] = g[N] \o h[n]
        BY <3>1, <3>2, <3>4, <3>6, Zenon
    <3>5. h[n] \in Seq(X)
        BY <2>5, <2>7, <3>1
    <3> QED
        BY <2>2, <3>5, <3>7
  <2>9. CASE b[n] \notin S
      BY <2>2, <2>5, <2>6, <2>7, <2>9 DEF Kept
  <2> QED
      BY <2>8, <2>9
<1>8. M \in 0 .. M
    BY <1>0
<1> QED
    BY <1>1, <1>2, <1>3, <1>7, <1>8 DEF s

\* The same of a list whose parts are named.
LEMMA OnlyParts ==
    ASSUME NEW s, NEW a \in Seq(Outputs), NEW b \in Seq(Outputs), NEW K, Parts(s, a, b)
    PROVE  Parts(Only(s, K), Only(a, K), Only(b, K))
<1>1. Only(a \o b, K) = Only(a, K) \o Only(b, K)
    BY OnlyJoin
<1> QED
    BY <1>1 DEF Parts

\* What is put behind a list is put behind its last part.
LEMMA PartsJoined ==
    ASSUME NEW a \in Seq(Outputs), NEW b \in Seq(Outputs), NEW t \in Seq(Outputs),
           NEW s, Parts(s, a, b)
    PROVE  Parts(s \o t, a, b \o t)
<1>1. (a \o b) \o t = a \o (b \o t)
    BY ConcatAssociative
<1> QED
    BY <1>1 DEF Parts

\* The elements of a list are those of its parts.
LEMMA PartsElements ==
    ASSUME NEW a \in Seq(Outputs), NEW b \in Seq(Outputs), NEW s, Parts(s, a, b)
    PROVE  s \in Seq(Outputs) /\ ToSet(s) = ToSet(a) \cup ToSet(b)
    BY JoinElements DEF Parts

\* Of a list that ends well the outputs in K are kept, and t is put behind.
Keeps(s, K, t, Q, W, V) ==
    /\ t \in Seq(Outputs)
    /\ Q \cap ToSet(s) \subseteq K \cup ToSet(t)
    /\ W \cap K \cap ToSet(s) \subseteq V /\ ToSet(t) \subseteq V

\* Such a list ends well again.
LEMMA EndsKept ==
    ASSUME NEW s, NEW t, NEW K, NEW r, r = Only(s, K) \o t,
           NEW Q, NEW W, NEW V, EndsIn(s, Q, W), Keeps(s, K, t, Q, W, V)
    PROVE  EndsIn(r, Q, V)
<1>0. t \in Seq(Outputs)
    BY DEF Keeps
<1>1. PICK a \in Seq(Outputs), b \in Seq(Outputs) :
         Parts(s, a, b) /\ ToSet(b) \cap Q # {} /\ ToSet(b) \subseteq W
    BY DEF EndsIn
<1>2. ToSet(b) \subseteq ToSet(s)
    BY <1>1, PartsElements
<1>3. PICK c \in Seq(Outputs), d \in Seq(Outputs) :
         /\ c = Only(a, K) /\ d = Only(b, K)
         /\ ToSet(d) = ToSet(b) \cap K
    BY OnlyThose
<1>4. Parts(Only(s, K), c, d)
    BY <1>1, <1>3, OnlyParts
<1>5. PICK e \in Seq(Outputs) : /\ Parts(r, c, e)
                                /\ ToSet(e) = ToSet(d) \cup ToSet(t)
  <2>1. Parts(Only(s, K) \o t, c, d \o t)
      BY <1>0, <1>4, PartsJoined, Zenon
  <2>2. d \o t \in Seq(Outputs) /\ ToSet(d \o t) = ToSet(d) \cup ToSet(t)
      BY <1>0, JoinElements
  <2> QED
      BY <2>1, <2>2, Zenon
<1>6. ToSet(e) \cap Q # {} /\ ToSet(e) \subseteq V
    BY <1>1, <1>2, <1>3, <1>5 DEF Keeps
<1> QED
    BY <1>5, <1>6 DEF EndsIn

\* Where a list ends well for outputs that are all in M, its last output in M is
\* one of W: it is the one that the module M plays.
LEMMA EndsHeard ==
    ASSUME NEW s \in Seq(Outputs), NEW M, NEW Q, NEW W,
           EndsIn(s, Q, W), Q \subseteq M
    PROVE  /\ Only(s, M) # <<>>
           /\ Last(Only(s, M)) \in W \cap M
<1>1. PICK a \in Seq(Outputs), b \in Seq(Outputs) :
         Parts(s, a, b) /\ ToSet(b) \cap Q # {} /\ ToSet(b) \subseteq W
    BY DEF EndsIn
<1> DEFINE c == Only(a, M)
           d == Only(b, M)
<1>2. Only(s, M) = c \o d
  <2>1. Only(a \o b, M) = Only(a, M) \o Only(b, M)
      BY OnlyJoin
  <2> QED
      BY <1>1, <2>1 DEF Parts
<1>3. c \in Seq(Outputs) /\ d \in Seq(Outputs) /\ ToSet(d) = ToSet(b) \cap M
    BY OnlyThose
<1>4. ToSet(d) # {} /\ ToSet(d) \subseteq W \cap M
    BY <1>1, <1>3
<1> HIDE DEF c, d
<1>5. Len(d) \in Nat /\ Len(c) \in Nat /\ DOMAIN d = 1 .. Len(d) /\ Len(d) >= 1
  <2>1. Len(d) \in Nat /\ Len(c) \in Nat /\ DOMAIN d = 1 .. Len(d)
      BY <1>3
  <2>2. Len(d) # 0
    <3>1. Len(d) = 0 => ToSet(d) = {}
        BY <2>1 DEF ToSet
    <3> QED
        BY <1>4, <3>1
  <2> QED
      BY <2>1, <2>2
<1>6. /\ Len(c \o d) = Len(c) + Len(d)
      /\ (c \o d)[Len(c) + Len(d)] = d[Len(d)]
    BY <1>3, <1>5
<1>7. d[Len(d)] \in W \cap M
    BY <1>4, <1>5 DEF ToSet
<1>8. c \o d # <<>> /\ Last(c \o d) = (c \o d)[Len(c \o d)]
    BY <1>3, <1>5, <1>6 DEF Last
<1> QED
    BY <1>2, <1>6, <1>7, <1>8

-----------------------------------------------------------------------------
\* What the engine can choose: something for what is active, and for all of a
\* module the same.
EngineRule ==
    /\ MediaDevices \in {{"speaker"}, {"aux"}, {"usb"}}
    /\ PhoneDevices \in {{"earpiece"}, {"sco"}, {"aux"}}
    /\ \A o \in Outputs :
          /\ getNewOutputDevices(o) \in {{}, PhoneDevices, {"speaker"}, MediaDevices}
          /\ isActive(o) => getNewOutputDevices(o) # {}
          /\ \A p \in Outputs :
                sharesHwModuleWith(o, p) /\ getNewOutputDevices(o) # {}
                    /\ getNewOutputDevices(p) # {}
                => getNewOutputDevices(o) = getNewOutputDevices(p)

LEMMA Engine == EngineRule
<1>1. /\ MediaDevices \in {{"speaker"}, {"aux"}, {"usb"}}
      /\ PhoneDevices \in {{"earpiece"}, {"sco"}, {"aux"}}
    BY DEF MediaDevices, PhoneDevices
<1>2. MediaDevices # {} /\ PhoneDevices # {}
    BY <1>1
<1>3. ASSUME NEW o \in Outputs
      PROVE  /\ getNewOutputDevices(o) \in {{}, PhoneDevices, {"speaker"}, MediaDevices}
             /\ isActive(o) => getNewOutputDevices(o) # {}
  <2>1. getNewOutputDevices(o) \in {{}, PhoneDevices, {"speaker"}, MediaDevices}
      BY DEF getNewOutputDevices
  <2>2. ASSUME isActive(o) PROVE getNewOutputDevices(o) # {}
    <3>1. PICK t \in active : Output[t] = o
        BY <2>2 DEF isActive, On
    <3>2. CASE Stream[t] = "MUSIC"
        BY <1>2, <3>1, <3>2 DEF getNewOutputDevices, On
    <3>3. CASE Stream[t] # "MUSIC"
        BY <1>2, <3>1, <3>3 DEF getNewOutputDevices, sharesHwModuleWith
    <3> QED
        BY <3>2, <3>3
  <2> QED
      BY <2>1, <2>2
<1>4. ASSUME NEW o \in Outputs, NEW p \in Outputs, sharesHwModuleWith(o, p),
             getNewOutputDevices(o) # {}, getNewOutputDevices(p) # {}
      PROVE  getNewOutputDevices(o) = getNewOutputDevices(p)
    BY <1>4 DEF getNewOutputDevices, sharesHwModuleWith
<1> QED
    BY <1>1, <1>3, <1>4 DEF EngineRule

\* The rule holds of the next state too, as of every state.
LEMMA EngineNextRule == EngineRule'
<1>1. EngineRule
    BY Engine
<1> QED
    BY <1>1, PTL

\* The parts of setOutputDevices: what each output can reach of what is wanted
\* of it, for which the HAL is called, which are patched, and what comes of it.
Reached(want) == [o \in Outputs |-> want[o] \cap Supports[o]]
CalledFor(outs, want, force, to) ==
    {o \in ToSet(outs) :
        /\ want[o] = {} \/ to[o] # {}
        /\ \/ to[o] \notin {{}, route.devices[o]}
           \/ o \in force \/ o \notin ToSet(route.patches)}
PatchedTo(to, calls) == {o \in calls : to[o] # {}}
DevicesThen(to, patched) ==
    [o \in Outputs |-> IF o \notin mOutputs' THEN {}
                       ELSE IF o \in patched THEN to[o] ELSE route.devices[o]]
RouteThen(outs, to, calls, patched) ==
    route' = [devices |-> DevicesThen(to, patched),
              patches |-> Only(route.patches, mOutputs' \ calls) \o Only(outs, patched)]
VolumeThen(volumes, calls) ==
    mLastVoiceVolume' = IF volumes \/ calls # {} THEN VoiceVolume' ELSE mLastVoiceVolume

Called(outs, want, force) == CalledFor(outs, want, force, Reached(want))
Patched(outs, want, force) == PatchedTo(Reached(want), Called(outs, want, force))

\* A call of setOutputDevices for open outputs.
Routes(outs, want, force, volumes) ==
    /\ setOutputDevices(outs, want, force, volumes)
    /\ outs \in Seq(Outputs)
    /\ ToSet(outs) \subseteq mOutputs' /\ mOutputs' \subseteq Outputs

\* What setOutputDevices does, in those terms.
LEMMA Routing ==
    ASSUME NEW outs, NEW want, NEW force, NEW volumes,
           Routes(outs, want, force, volumes)
    PROVE  /\ Called(outs, want, force) \subseteq ToSet(outs)
           /\ Patched(outs, want, force) \subseteq Called(outs, want, force)
           /\ route'.patches =
                 Only(route.patches, mOutputs' \ Called(outs, want, force))
                     \o Only(outs, Patched(outs, want, force))
           /\ \A p \in mOutputs' :
                 route'.devices[p] = IF p \in Patched(outs, want, force)
                                     THEN want[p] \cap Supports[p] ELSE route.devices[p]
           /\ \A p \in Outputs : p \in Called(outs, want, force) <=>
                    /\ p \in ToSet(outs)
                    /\ want[p] = {} \/ want[p] \cap Supports[p] # {}
                    /\ \/ want[p] \cap Supports[p] \notin {{}, route.devices[p]}
                       \/ p \in force \/ p \notin ToSet(route.patches)
           /\ \A p \in Outputs : p \in Patched(outs, want, force) <=>
                    /\ p \in Called(outs, want, force)
                    /\ want[p] \cap Supports[p] # {}
<1>0. /\ setOutputDevices(outs, want, force, volumes)
      /\ ToSet(outs) \subseteq Outputs /\ mOutputs' \subseteq Outputs
    BY DEF Routes
<1>1. \E routed \in {outs}, wanted \in {want}, forced \in {force} :
      \E to \in {Reached(wanted)} :
      \E calls \in {CalledFor(routed, wanted, forced, to)} :
         /\ RouteThen(routed, to, calls, PatchedTo(to, calls))
         /\ VolumeThen(volumes, calls)
    BY <1>0, Zenon DEF setOutputDevices, Reached, CalledFor, PatchedTo, DevicesThen,
                 RouteThen, VolumeThen
<1>2. RouteThen(outs, Reached(want), Called(outs, want, force),
                Patched(outs, want, force))
    BY <1>1, Zenon DEF Called, Patched
<1>3. \A o \in Outputs : Reached(want)[o] = want[o] \cap Supports[o]
    BY DEF Reached
<1>4. /\ route'.devices = DevicesThen(Reached(want), Patched(outs, want, force))
      /\ route'.patches =
            Only(route.patches, mOutputs' \ Called(outs, want, force))
                \o Only(outs, Patched(outs, want, force))
    BY <1>2 DEF RouteThen
<1>5. ASSUME NEW o \in Outputs
      PROVE  DevicesThen(Reached(want), Patched(outs, want, force))[o] =
                IF o \notin mOutputs' THEN {}
                ELSE IF o \in Patched(outs, want, force)
                     THEN want[o] \cap Supports[o] ELSE route.devices[o]
    BY <1>3 DEF DevicesThen
<1>6. /\ Called(outs, want, force) \subseteq ToSet(outs)
      /\ Patched(outs, want, force) \subseteq Called(outs, want, force)
    BY DEF Called, CalledFor, Patched, PatchedTo
<1>7. ASSUME NEW p \in Outputs
      PROVE  /\ p \in Called(outs, want, force) <=>
                    /\ p \in ToSet(outs)
                    /\ want[p] = {} \/ want[p] \cap Supports[p] # {}
                    /\ \/ want[p] \cap Supports[p] \notin {{}, route.devices[p]}
                       \/ p \in force \/ p \notin ToSet(route.patches)
             /\ p \in Patched(outs, want, force) <=>
                    /\ p \in Called(outs, want, force)
                    /\ want[p] \cap Supports[p] # {}
  <2>1. Reached(want)[p] = want[p] \cap Supports[p]
      BY <1>3
  <2> QED
      BY <2>1 DEF Called, CalledFor, Patched, PatchedTo
<1> QED
    BY <1>0, <1>4, <1>5, <1>6, <1>7

\* Lists that end well: by what is put behind, or altogether, or less strictly.
LEMMA EndsBehind ==
    ASSUME NEW s \in Seq(Outputs), NEW t \in Seq(Outputs), NEW r, r = s \o t,
           NEW Q, NEW W, ToSet(t) \cap Q # {}, ToSet(t) \subseteq W
    PROVE  EndsIn(r, Q, W)
<1>1. Parts(r, s, t)
    BY DEF Parts
<1> QED
    BY <1>1, Zenon DEF EndsIn

LEMMA EndsWhole ==
    ASSUME NEW s \in Seq(Outputs), NEW Q, NEW W, ToSet(s) \cap Q # {}, ToSet(s) \subseteq W
    PROVE  EndsIn(s, Q, W)
<1>1. <<>> \in Seq(Outputs) /\ s = <<>> \o s
    BY ConcatEmptySeq
<1> QED
    BY <1>1, EndsBehind

LEMMA EndsWider ==
    ASSUME NEW s, NEW Q, NEW W, NEW P, NEW V, EndsIn(s, Q, W),
           Q \cap ToSet(s) \subseteq P, W \cap ToSet(s) \subseteq V
    PROVE  EndsIn(s, P, V)
<1>1. PICK a \in Seq(Outputs), b \in Seq(Outputs) :
         Parts(s, a, b) /\ ToSet(b) \cap Q # {} /\ ToSet(b) \subseteq W
    BY DEF EndsIn
<1>2. ToSet(b) \subseteq ToSet(s)
    BY <1>1, PartsElements
<1>3. ToSet(b) \cap P # {} /\ ToSet(b) \subseteq V
    BY <1>1, <1>2
<1> QED
    BY <1>1, <1>3 DEF EndsIn

\* An output that is heard where the engine has it routed: the outputs whose
\* patches last as long, and those that play to the same devices.
Reaches(o) == getNewOutputDevices(o) \cap Supports[o] # {}
Heard(o) ==
    /\ isActive(o) \/ (phone = "IN_CALL" /\ o = "primary")
    /\ isInCall => sharesHwModuleWith(o, "primary")
    /\ Reaches(o)
Lasting(o) == {p \in Outputs : sharesHwModuleWith(o, p) /\ (p = o \/ p \notin Direct)}
Right(o) ==
    {p \in Outputs : sharesHwModuleWith(o, p) =>
                         route.devices[p] = getNewOutputDevices(o)}
CallLasting == {p \in Outputs : sharesHwModuleWith(p, "primary") /\ p \notin Direct}
CallReached ==
    {p \in Outputs : sharesHwModuleWith(p, "primary") => PhoneDevices \subseteq Supports[p]}

PatchInv == route.patches \in Seq(Outputs) /\ ToSet(route.patches) \subseteq mOutputs
HeardInv == \A o \in mOutputs : Heard(o) => EndsIn(route.patches, Lasting(o), Right(o))
CallInv ==
    isInCall /\ Playing("ENFORCED_AUDIBLE") = {}
        => EndsIn(route.patches, CallLasting, CallReached)
SoundInv ==
    \A t \in active :
        Stream[t] # "MUSIC" /\ (isInCall => Stream[t] = "ENFORCED_AUDIBLE")
            => route.devices[Output[t]] = {"speaker"}
MusicInv ==
    ~isInCall => \A o \in mOutputs :
        isActive(o) /\ MediaDevices \subseteq Supports[o] => route.devices[o] # {}

RoutedInv == PatchInv /\ HeardInv /\ CallInv /\ SoundInv /\ MusicInv

\* What the invariant is for: the backend of a module plays the output that was
\* patched last, and that one has the devices wanted.
LEMMA HeardRight ==
    ASSUME OutputsOK, PatchInv, HeardInv PROVE RoutedAsWanted
<1> SUFFICES ASSUME NEW o \in mOutputs,
                    isActive(o) \/ (phone = "IN_CALL" /\ o = "primary"),
                    isInCall => sharesHwModuleWith(o, "primary"),
                    getNewOutputDevices(o) \cap Supports[o] # {}
             PROVE  Backend(Module[o]) = getNewOutputDevices(o) \cap Supports[o]
    BY DEF RoutedAsWanted
<1> DEFINE M == {p \in Outputs : Module[p] = Module[o]}
           s == route.patches
<1>1. o \in Outputs /\ s \in Seq(Outputs)
    BY DEF OutputsOK, PatchInv
<1>2. EndsIn(s, Lasting(o), Right(o))
    BY DEF HeardInv, Heard, Reaches
<1>3. Lasting(o) \subseteq M
    BY DEF Lasting, sharesHwModuleWith
<1>4. Only(s, M) # <<>> /\ Last(Only(s, M)) \in Right(o) \cap M
  <2> HIDE DEF s, M
  <2> QED
      BY <1>1, <1>2, <1>3, EndsHeard
<1>5. Backend(Module[o]) = route.devices[Last(Only(s, M))]
    BY <1>4 DEF Backend
<1>6. route.devices[Last(Only(s, M))] = getNewOutputDevices(o)
    BY <1>4 DEF Right, sharesHwModuleWith
<1>7. getNewOutputDevices(o) \cap Supports[o] = getNewOutputDevices(o)
    BY <1>1, Engine DEF EngineRule
<1> QED
    BY <1>5, <1>6, <1>7

-----------------------------------------------------------------------------
\* What keeps its patch, and what gets a new one.
LEMMA RoutesLists ==
    ASSUME NEW outs, NEW want, NEW force, NEW volumes,
           Routes(outs, want, force, volumes), PatchInv
    PROVE  LET kept == mOutputs' \ Called(outs, want, force)
               new  == Only(outs, Patched(outs, want, force))
           IN  /\ Only(route.patches, kept) \in Seq(Outputs)
               /\ ToSet(Only(route.patches, kept)) = ToSet(route.patches) \cap kept
               /\ new \in Seq(Outputs)
               /\ ToSet(new) = Patched(outs, want, force)
               /\ route'.patches = Only(route.patches, kept) \o new
               /\ PatchInv'
<1> DEFINE calls == Called(outs, want, force)
           patched == Patched(outs, want, force)
           old == Only(route.patches, mOutputs' \ calls)
           new == Only(outs, patched)
<1>1. /\ route'.patches = old \o new
      /\ calls \subseteq ToSet(outs) /\ patched \subseteq calls
    BY Routing
<1>2. old \in Seq(Outputs) /\ ToSet(old) = ToSet(route.patches) \cap (mOutputs' \ calls)
    BY OnlyThose DEF PatchInv
<1>3. new \in Seq(Outputs) /\ ToSet(new) = ToSet(outs) \cap patched
    BY OnlyThose DEF Routes
<1>4. ToSet(new) = patched /\ patched \subseteq mOutputs'
    BY <1>1, <1>3 DEF Routes
<1> HIDE DEF old, new, calls, patched
<1>5. old \o new \in Seq(Outputs) /\ ToSet(old \o new) = ToSet(old) \cup ToSet(new)
    BY <1>2, <1>3, JoinElements
<1>6. PatchInv'
    BY <1>1, <1>2, <1>4, <1>5 DEF PatchInv
<1> QED
    BY <1>1, <1>2, <1>3, <1>4, <1>6 DEF old, new, calls, patched

\* What is patched plays what its module does.
LEMMA PatchedRight ==
    ASSUME NEW outs, NEW want, NEW force, NEW volumes,
           Routes(outs, want, force, volumes), NEW o \in Outputs,
           getNewOutputDevices(o)' # {},
           NEW p \in Patched(outs, want, force),
           sharesHwModuleWith(o, p), want[p] = getNewOutputDevices(p)'
    PROVE  /\ p \in mOutputs'
           /\ getNewOutputDevices(p)' = getNewOutputDevices(o)'
           /\ route'.devices[p] = getNewOutputDevices(o)'
<1>1. /\ p \in mOutputs' /\ p \in Outputs
      /\ want[p] \cap Supports[p] # {}
      /\ route'.devices[p] = want[p] \cap Supports[p]
  <2>1. Patched(outs, want, force) \subseteq ToSet(outs) /\ ToSet(outs) \subseteq Outputs
    <3>1. ToSet(outs) \subseteq Outputs
        BY DEF Routes
    <3> QED
        BY <3>1, Routing
  <2>2. ToSet(outs) \subseteq mOutputs'
      BY DEF Routes
  <2> QED
      BY <2>1, <2>2, Routing
<1>2. getNewOutputDevices(p)' = getNewOutputDevices(o)'
    BY <1>1, EngineNextRule DEF EngineRule
<1>3. getNewOutputDevices(p)' \cap Supports[p] = getNewOutputDevices(p)'
    BY <1>1, EngineNextRule DEF EngineRule
<1> QED
    BY <1>1, <1>2, <1>3

\* Where an output that lasts is patched, o is heard right.
LEMMA Renewed ==
    ASSUME NEW outs, NEW want, NEW force, NEW volumes,
           Routes(outs, want, force, volumes), PatchInv,
           NEW o \in Outputs, getNewOutputDevices(o)' # {},
           \A p \in ToSet(outs) :
              sharesHwModuleWith(o, p) => want[p] = getNewOutputDevices(p)',
           Patched(outs, want, force) \cap Lasting(o) # {}
    PROVE  EndsIn(route'.patches, Lasting(o), Right(o)')
<1> DEFINE patched == Patched(outs, want, force)
           old == Only(route.patches, mOutputs' \ Called(outs, want, force))
           new == Only(outs, patched)
<1>1. /\ old \in Seq(Outputs) /\ new \in Seq(Outputs)
      /\ ToSet(new) = patched
      /\ route'.patches = old \o new
    BY RoutesLists
<1>2. patched \subseteq Right(o)'
  <2>1. patched \subseteq ToSet(outs) /\ ToSet(outs) \subseteq Outputs
    <3>1. ToSet(outs) \subseteq Outputs
        BY DEF Routes
    <3> QED
        BY <3>1, Routing
  <2>2. \A p \in patched : sharesHwModuleWith(o, p) =>
                               route'.devices[p] = getNewOutputDevices(o)'
      BY <2>1, PatchedRight
  <2> QED
      BY <2>1, <2>2 DEF Right
<1> HIDE DEF patched, old, new
<1>3. ToSet(new) \cap Lasting(o) # {} /\ ToSet(new) \subseteq Right(o)'
    BY <1>1, <1>2 DEF patched
<1> QED
    BY <1>1, <1>3, EndsBehind

\* Where the engine still wants the same of o and what lasted stays patched, o
\* is heard right as before.
LEMMA Stable ==
    ASSUME NEW outs, NEW want, NEW force, NEW volumes,
           Routes(outs, want, force, volumes), PatchInv, mOutputs' = mOutputs,
           NEW o \in Outputs, getNewOutputDevices(o)' = getNewOutputDevices(o),
           getNewOutputDevices(o) # {}, EndsIn(route.patches, Lasting(o), Right(o)),
           \A p \in ToSet(outs) :
              sharesHwModuleWith(o, p) => want[p] = getNewOutputDevices(p)',
           Called(outs, want, force) \cap ToSet(route.patches) \cap Lasting(o)
               \subseteq Patched(outs, want, force)
    PROVE  EndsIn(route'.patches, Lasting(o), Right(o)')
<1> DEFINE patched == Patched(outs, want, force)
           calls == Called(outs, want, force)
           kept == mOutputs' \ calls
           new == Only(outs, patched)
           s == route.patches
<1>1. /\ new \in Seq(Outputs) /\ ToSet(new) = patched
      /\ route'.patches = Only(s, kept) \o new
    BY RoutesLists
<1>2. patched \subseteq Right(o)'
  <2>1. patched \subseteq ToSet(outs) /\ ToSet(outs) \subseteq Outputs
    <3>1. ToSet(outs) \subseteq Outputs
        BY DEF Routes
    <3> QED
        BY <3>1, Routing
  <2>2. \A p \in patched : sharesHwModuleWith(o, p) =>
                               route'.devices[p] = getNewOutputDevices(o)'
      BY <2>1, PatchedRight
  <2> QED
      BY <2>1, <2>2 DEF Right
<1>3. Lasting(o) \cap ToSet(s) \subseteq kept \cup ToSet(new)
    BY <1>1 DEF PatchInv
<1>4. Right(o) \cap kept \cap ToSet(s) \subseteq Right(o)'
  <2>1. \A p \in kept : p \in Outputs /\ route'.devices[p] = route.devices[p]
    <3>1. kept \subseteq Outputs /\ kept \subseteq mOutputs'
        BY DEF Routes
    <3>2. kept \cap patched = {}
        BY Routing
    <3> QED
        BY <3>1, <3>2, Routing
  <2> QED
      BY <2>1 DEF Right
<1> HIDE DEF patched, calls, kept, new, s
<1>5. ToSet(new) \subseteq Right(o)'
    BY <1>1, <1>2
<1>6. EndsIn(s, Lasting(o), Right(o))
    BY DEF s
<1>7. Keeps(s, kept, new, Lasting(o), Right(o), Right(o)')
    BY <1>1, <1>3, <1>4, <1>5 DEF Keeps
<1> QED
    BY <1>1, <1>6, <1>7, EndsKept

\* What has to be heard and reaches its devices, in the call or out of it, is
\* all patched: everything is heard right.
LEMMA AllRenewed ==
    ASSUME NEW outs, NEW want, NEW force, NEW volumes,
           Routes(outs, want, force, volumes), PatchInv,
           \A p \in ToSet(outs) : want[p] = getNewOutputDevices(p)',
           \A o \in mOutputs' : Heard(o)' => o \in Patched(outs, want, force)
    PROVE  HeardInv'
<1> SUFFICES ASSUME NEW o \in mOutputs', Heard(o)'
             PROVE  EndsIn(route'.patches, Lasting(o), Right(o)')
    BY DEF HeardInv, Lasting, sharesHwModuleWith
<1>1. o \in Outputs /\ o \in Lasting(o)
    BY DEF Routes, Lasting, sharesHwModuleWith
<1>2. getNewOutputDevices(o)' # {}
    BY DEF Heard, Reaches
<1> QED
    BY <1>1, <1>2, Renewed

-----------------------------------------------------------------------------
\* What the engine wants can be reached where it has to be.
WantRule ==
    /\ isInCall => Reaches("primary")
    /\ isInCall /\ Playing("ENFORCED_AUDIBLE") = {}
           => \A o \in Outputs : getNewOutputDevices(o) = PhoneDevices
    /\ \A t \in active :
          Stream[t] # "MUSIC" /\ (isInCall => Stream[t] = "ENFORCED_AUDIBLE")
              => \A o \in Outputs : sharesHwModuleWith(Output[t], o)
                     => /\ getNewOutputDevices(o) = {"speaker"}
                        /\ "speaker" \in Supports[o]
    /\ ~isInCall => \A o \in Outputs :
          isActive(o) /\ MediaDevices \subseteq Supports[o] => Reaches(o)

LEMMA Wants == OneBackend /\ OutputsOK => WantRule
<1> SUFFICES ASSUME OneBackend, OutputsOK PROVE WantRule
    OBVIOUS
<1> USE DEF OneBackend
<1>0. /\ "primary" \in Outputs /\ active \subseteq Tracks
      /\ \A t \in Tracks : Output[t] \in Outputs
    BY OutputsAssumption, TracksAssumption DEF OutputsOK
<1>1. ASSUME isInCall, Playing("ENFORCED_AUDIBLE") = {}
      PROVE  \A o \in Outputs : getNewOutputDevices(o) = PhoneDevices
    BY <1>1 DEF getNewOutputDevices
<1>2. ASSUME NEW t \in active, Stream[t] # "MUSIC",
             isInCall => Stream[t] = "ENFORCED_AUDIBLE",
             NEW o \in Outputs, sharesHwModuleWith(Output[t], o)
      PROVE  getNewOutputDevices(o) = {"speaker"} /\ "speaker" \in Supports[o]
  <2>1. ~(isInCall /\ Playing("ENFORCED_AUDIBLE") = {})
      BY <1>2 DEF Playing
  <2>2. getNewOutputDevices(o) = {"speaker"}
      BY <1>2, <2>1 DEF getNewOutputDevices
  <2>3. "speaker" \in Supports[o]
      BY <1>0, <1>2 DEF MixedSounds, ModuleReach
  <2> QED
      BY <2>2, <2>3
<1>3. ASSUME isInCall PROVE Reaches("primary")
  <2>1. Attached \cup {"aux"} \subseteq Supports["primary"]
      BY DEF OneCallModule
  <2>2. CASE Playing("ENFORCED_AUDIBLE") = {}
    <3>1. getNewOutputDevices("primary") = PhoneDevices
        BY <1>0, <1>1, <1>3, <2>2
    <3>2. PhoneDevices # {} /\ PhoneDevices \subseteq Attached \cup {"aux"}
        BY DEF PhoneDevices, Attached
    <3> QED
        BY <2>1, <3>1, <3>2 DEF Reaches
  <2>3. CASE Playing("ENFORCED_AUDIBLE") # {}
    <3>1. PICK t \in active : Stream[t] = "ENFORCED_AUDIBLE"
        BY <2>3 DEF Playing
    <3>2. t \in Tracks
        BY <1>0
    <3>3. sharesHwModuleWith(Output[t], "primary")
        BY <3>1, <3>2 DEF OneCallModule
    <3> QED
        BY <1>0, <1>2, <3>1, <3>3 DEF Reaches
  <2> QED
      BY <2>2, <2>3
<1>4. ASSUME ~isInCall, NEW o \in Outputs, isActive(o), MediaDevices \subseteq Supports[o]
      PROVE  Reaches(o)
  <2>1. PICK t \in active : Output[t] = o
      BY <1>4 DEF isActive, On
  <2>2. CASE \E u \in active : Stream[u] # "MUSIC" /\ sharesHwModuleWith(Output[u], o)
      BY <1>2, <1>4, <2>2 DEF Reaches
  <2>3. CASE ~\E u \in active : Stream[u] # "MUSIC" /\ sharesHwModuleWith(Output[u], o)
    <3>1. Stream[t] = "MUSIC"
        BY <2>1, <2>3 DEF sharesHwModuleWith
    <3>2. getNewOutputDevices(o) = MediaDevices
        BY <1>4, <2>1, <2>3, <3>1 DEF getNewOutputDevices, On
    <3> QED
        BY <1>4, <3>2, Engine DEF EngineRule, Reaches
  <2> QED
      BY <2>2, <2>3
<1> QED
    BY <1>1, <1>2, <1>3, <1>4 DEF WantRule

\* And it can in the next state, the hypotheses being about constants.
LEMMA WantsNext == OneBackend /\ OutputsOK' => WantRule'
<1>1. OneBackend /\ OutputsOK => WantRule
    BY Wants
<1>2. (OneBackend /\ OutputsOK => WantRule)'
    BY <1>1, PTL
<1> QED
    BY <1>2 DEF OneBackend, OneCallModule, MixedSounds, ModuleReach, CallReachTogether,
                sharesHwModuleWith

\* Where every output that is open, or has to be heard, is routed by force.
LEMMA ForcedAll ==
    ASSUME OneBackend, OutputsOK', ReachInv', PatchInv,
           NEW outs, NEW want, NEW force, NEW volumes,
           Routes(outs, want, force, volumes),
           \A p \in ToSet(outs) : want[p] = getNewOutputDevices(p)',
           \A o \in mOutputs' : /\ isActive(o)' \/ (phone' = "IN_CALL" /\ o = "primary")
                                /\ Reaches(o)'
                                => o \in ToSet(outs) /\ o \in force
    PROVE  HeardInv' /\ SoundInv' /\ MusicInv' /\ PatchInv'
<1>1. ASSUME NEW o \in mOutputs', Reaches(o)',
             isActive(o)' \/ (phone' = "IN_CALL" /\ o = "primary")
      PROVE  o \in Patched(outs, want, force)
  <2>1. o \in Outputs /\ o \in ToSet(outs) /\ o \in force
      BY <1>1 DEF Routes
  <2>2. want[o] \cap Supports[o] # {}
      BY <1>1, <2>1 DEF Reaches
  <2> QED
      BY <2>1, <2>2, Routing
<1>2. HeardInv'
    BY <1>1, AllRenewed DEF Heard
<1>3. ASSUME NEW o \in mOutputs', Reaches(o)', isActive(o)'
      PROVE  /\ route'.devices[o] # {}
             /\ getNewOutputDevices(o)' = {"speaker"} => route'.devices[o] = {"speaker"}
  <2>1. o \in Patched(outs, want, force)
      BY <1>1, <1>3
  <2>2. route'.devices[o] = want[o] \cap Supports[o] /\ want[o] = getNewOutputDevices(o)'
      BY <1>1, <1>3, <2>1, Routing
  <2> QED
      BY <1>3, <2>2 DEF Reaches
<1>4. WantRule'
    BY WantsNext
<1>5. SoundInv'
  <2> SUFFICES ASSUME NEW t \in active', Stream[t] # "MUSIC",
                      isInCall' => Stream[t] = "ENFORCED_AUDIBLE"
               PROVE  route'.devices[Output[t]] = {"speaker"}
      BY DEF SoundInv
  <2>1. Output[t] \in mOutputs' /\ Output[t] \in Outputs /\ isActive(Output[t])'
      BY DEF ReachInv, OutputsOK, isActive, On
  <2>2. getNewOutputDevices(Output[t])' = {"speaker"} /\ "speaker" \in Supports[Output[t]]
      BY <1>4, <2>1 DEF WantRule, sharesHwModuleWith
  <2>3. Reaches(Output[t])'
      BY <2>2 DEF Reaches
  <2> QED
      BY <1>3, <2>1, <2>2, <2>3
<1>6. MusicInv'
  <2> SUFFICES ASSUME ~isInCall', NEW o \in mOutputs', isActive(o)',
                      MediaDevices' \subseteq Supports[o]
               PROVE  route'.devices[o] # {}
      BY DEF MusicInv
  <2>1. Reaches(o)'
      BY <1>4 DEF WantRule, OutputsOK
  <2> QED
      BY <1>3, <2>1
<1> QED
    BY <1>2, <1>5, <1>6, RoutesLists

\* In a call what is patched reaches the call's devices.
LEMMA CallPatched ==
    ASSUME NEW outs, NEW want, NEW force, NEW volumes,
           Routes(outs, want, force, volumes), WantRule',
           isInCall', Playing("ENFORCED_AUDIBLE")' = {},
           \A p \in ToSet(outs) : want[p] = getNewOutputDevices(p)'
    PROVE  Patched(outs, want, force) \subseteq CallReached'
<1> SUFFICES ASSUME NEW p \in Patched(outs, want, force) PROVE p \in CallReached'
    OBVIOUS
<1>1. p \in Outputs /\ p \in ToSet(outs) /\ want[p] \cap Supports[p] # {}
  <2>1. p \in ToSet(outs) /\ ToSet(outs) \subseteq Outputs
      BY Routing DEF Routes
  <2> QED
      BY <2>1, Routing
<1>2. want[p] = PhoneDevices'
    BY <1>1 DEF WantRule
<1>3. PhoneDevices' \subseteq Supports[p]
    BY <1>1, <1>2, EngineNextRule DEF EngineRule
<1> QED
    BY <1>1, <1>3 DEF CallReached

\* In a call the list ends well for it where an output of the module is patched,
\* or where those that were there are patched at most.
LEMMA CallRenewed ==
    ASSUME NEW outs, NEW want, NEW force, NEW volumes,
           Routes(outs, want, force, volumes), WantRule', PatchInv,
           \A p \in ToSet(outs) : want[p] = getNewOutputDevices(p)',
           isInCall' => Patched(outs, want, force) \cap CallLasting # {}
    PROVE  CallInv'
<1> SUFFICES ASSUME isInCall', Playing("ENFORCED_AUDIBLE")' = {}
             PROVE  EndsIn(route'.patches, CallLasting, CallReached')
    BY DEF CallInv, CallLasting, sharesHwModuleWith
<1> DEFINE patched == Patched(outs, want, force)
           old == Only(route.patches, mOutputs' \ Called(outs, want, force))
           new == Only(outs, patched)
<1>1. /\ old \in Seq(Outputs) /\ new \in Seq(Outputs)
      /\ ToSet(new) = patched
      /\ route'.patches = old \o new
    BY RoutesLists
<1>2. patched \cap CallLasting # {} /\ patched \subseteq CallReached'
    BY CallPatched
<1> HIDE DEF patched, old, new
<1>3. ToSet(new) \cap CallLasting # {} /\ ToSet(new) \subseteq CallReached'
    BY <1>1, <1>2
<1> QED
    BY <1>1, <1>3, EndsBehind

LEMMA CallStable ==
    ASSUME NEW outs, NEW want, NEW force, NEW volumes,
           Routes(outs, want, force, volumes), WantRule', PatchInv, CallInv,
           mOutputs' = mOutputs, isInCall' => isInCall,
           Playing("ENFORCED_AUDIBLE")' = {} => Playing("ENFORCED_AUDIBLE") = {},
           CallReached \subseteq CallReached',
           \A p \in ToSet(outs) : want[p] = getNewOutputDevices(p)',
           Called(outs, want, force) \cap ToSet(route.patches) \subseteq
               Patched(outs, want, force)
    PROVE  CallInv'
<1> SUFFICES ASSUME isInCall', Playing("ENFORCED_AUDIBLE")' = {}
             PROVE  EndsIn(route'.patches, CallLasting, CallReached')
    BY DEF CallInv, CallLasting, sharesHwModuleWith
<1> DEFINE patched == Patched(outs, want, force)
           kept == mOutputs' \ Called(outs, want, force)
           new == Only(outs, patched)
           s == route.patches
<1>1. /\ new \in Seq(Outputs) /\ ToSet(new) = patched
      /\ route'.patches = Only(s, kept) \o new
    BY RoutesLists
<1>2. patched \subseteq CallReached'
    BY CallPatched
<1>3. CallLasting \cap ToSet(s) \subseteq kept \cup ToSet(new)
    BY <1>1 DEF PatchInv
<1>4. EndsIn(s, CallLasting, CallReached)
    BY DEF CallInv
<1> HIDE DEF patched, kept, new, s
<1>5. Keeps(s, kept, new, CallLasting, CallReached, CallReached')
    BY <1>1, <1>2, <1>3 DEF Keeps
<1> QED
    BY <1>1, <1>4, <1>5, EndsKept

\* The lists of outputs that are routed.
LEMMA TwoLists ==
    ASSUME NEW a \in SUBSET Outputs, NEW b \in SUBSET Outputs
    PROVE  LET forth == InOrder(a) \o InOrder(b)
               back  == InOrder(a) \o Reverse(InOrder(b))
           IN  /\ forth \in Seq(Outputs) /\ ToSet(forth) = a \cup b
               /\ back \in Seq(Outputs) /\ ToSet(back) = a \cup b
<1>1. PICK s \in Seq(Outputs) : s = InOrder(a) /\ ToSet(s) = a
    BY InOrderElements
<1>2. PICK t \in Seq(Outputs) : t = InOrder(b) /\ ToSet(t) = b
    BY InOrderElements
<1>3. PICK r \in Seq(Outputs) : r = Reverse(t) /\ ToSet(r) = b
    BY <1>2, ReverseElements
<1>4. s \o t \in Seq(Outputs) /\ ToSet(s \o t) = a \cup b
    BY <1>1, <1>2, JoinElements
<1>5. s \o r \in Seq(Outputs) /\ ToSet(s \o r) = a \cup b
    BY <1>1, <1>3, JoinElements
<1> QED
    BY <1>1, <1>2, <1>3, <1>4, <1>5

\* A device that comes or goes has every output routed.
LEMMA DevicesRouted ==
    ASSUME OneBackend, OutputsOK', ReachInv', RoutedInv, RerouteAll, UNCHANGED engineVars
    PROVE  RoutedInv'
<1> DEFINE call == IF phone = "IN_CALL" THEN {"primary"} ELSE {}
           outs == InOrder(call) \o InOrder(mOutputs' \ call)
           want == Wanted'
<1>1. "primary" \in mOutputs' /\ mOutputs' \subseteq Outputs
    BY OutputsAssumption DEF OutputsOK
<1>2. outs \in Seq(Outputs) /\ ToSet(outs) = mOutputs'
  <2>1. call \in SUBSET Outputs /\ mOutputs' \ call \in SUBSET Outputs
      BY <1>1
  <2>2. call \cup (mOutputs' \ call) = mOutputs'
      BY <1>1
  <2> HIDE DEF call
  <2> QED
      BY <2>1, <2>2, TwoLists
<1>3. setOutputDevices(outs, want, Outputs, FALSE)
    BY DEF RerouteAll
<1>4. \A p \in Outputs : want[p] = getNewOutputDevices(p)'
    BY DEF Wanted
<1> HIDE DEF outs, want, call
<1>5. Routes(outs, want, Outputs, FALSE)
    BY <1>1, <1>2, <1>3 DEF Routes
<1>6. \A p \in ToSet(outs) : want[p] = getNewOutputDevices(p)'
    BY <1>1, <1>2, <1>4
<1>7. HeardInv' /\ SoundInv' /\ MusicInv' /\ PatchInv'
    BY <1>1, <1>2, <1>5, <1>6, ForcedAll DEF RoutedInv
<1>8. WantRule'
    BY WantsNext
<1>9. isInCall' => "primary" \in Patched(outs, want, Outputs)
  <2> SUFFICES ASSUME isInCall' PROVE "primary" \in Patched(outs, want, Outputs)
      OBVIOUS
  <2>1. want["primary"] \cap Supports["primary"] # {}
      BY <1>1, <1>4, <1>8 DEF WantRule, Reaches
  <2>2. "primary" \in Outputs /\ "primary" \in ToSet(outs)
      BY <1>1, <1>2
  <2> QED
      BY <1>5, <2>1, <2>2, Routing
<1>10. "primary" \in CallLasting
    BY <1>1, OutputsAssumption DEF CallLasting, sharesHwModuleWith
<1>11. CallInv'
    BY <1>5, <1>6, <1>8, <1>9, <1>10, CallRenewed DEF RoutedInv
<1> QED
    BY <1>7, <1>11 DEF RoutedInv

\* Tracks and outputs that are not routed keep what they have.
LEMMA SoundKept ==
    ASSUME NEW outs, NEW want, NEW force, NEW volumes,
           Routes(outs, want, force, volumes), WantRule', OutputsOK', ReachInv',
           \A p \in ToSet(outs) : want[p] = getNewOutputDevices(p)',
           \A t \in active' :
              Stream[t] # "MUSIC" /\ (isInCall' => Stream[t] = "ENFORCED_AUDIBLE")
                 => \/ route.devices[Output[t]] = {"speaker"}
                    \/ Output[t] \in Patched(outs, want, force)
    PROVE  SoundInv'
<1> SUFFICES ASSUME NEW t \in active', Stream[t] # "MUSIC",
                    isInCall' => Stream[t] = "ENFORCED_AUDIBLE"
             PROVE  route'.devices[Output[t]] = {"speaker"}
    BY DEF SoundInv
<1>1. Output[t] \in mOutputs' /\ Output[t] \in Outputs
    BY DEF ReachInv, OutputsOK
<1>2. CASE Output[t] \in Patched(outs, want, force)
  <2>1. Output[t] \in ToSet(outs)
      BY <1>2, Routing
  <2>2. want[Output[t]] = {"speaker"} /\ "speaker" \in Supports[Output[t]]
      BY <1>1, <2>1 DEF WantRule, sharesHwModuleWith
  <2>3. route'.devices[Output[t]] = want[Output[t]] \cap Supports[Output[t]]
      BY <1>1, <1>2, Routing
  <2> QED
      BY <2>2, <2>3
<1>3. CASE Output[t] \notin Patched(outs, want, force)
  <2>1. route'.devices[Output[t]] = route.devices[Output[t]]
      BY <1>1, <1>3, Routing
  <2> QED
      BY <1>3, <2>1
<1> QED
    BY <1>2, <1>3

\* So do the outputs with music out of a call.
LEMMA MusicKept ==
    ASSUME NEW outs, NEW want, NEW force, NEW volumes,
           Routes(outs, want, force, volumes),
           ~isInCall' => \A o \in mOutputs' :
              isActive(o)' /\ MediaDevices' \subseteq Supports[o]
                 => route.devices[o] # {} \/ o \in Patched(outs, want, force)
    PROVE  MusicInv'
<1> SUFFICES ASSUME ~isInCall', NEW o \in mOutputs', isActive(o)',
                    MediaDevices' \subseteq Supports[o]
             PROVE  route'.devices[o] # {}
    BY DEF MusicInv
<1>1. o \in Outputs
    BY DEF Routes
<1>2. CASE o \in Patched(outs, want, force)
  <2>1. want[o] \cap Supports[o] # {}
      BY <1>1, <1>2, Routing
  <2>2. route'.devices[o] = want[o] \cap Supports[o]
      BY <1>2, Routing
  <2> QED
      BY <2>1, <2>2
<1>3. CASE o \notin Patched(outs, want, force)
  <2>1. route'.devices[o] = route.devices[o]
      BY <1>3, Routing
  <2> QED
      BY <1>3, <2>1
<1> QED
    BY <1>2, <1>3

\* The engine wants what it wanted while its inputs stay.
EngineSame ==
    UNCHANGED <<active, phone, forceUse, dpForVoice, mAvailableOutputDevices>>

\* Nothing else enters the choice of the engine.
LEMMA SameWants ==
    ASSUME EngineSame
    PROVE  /\ \A o \in Outputs : /\ getNewOutputDevices(o)' = getNewOutputDevices(o)
                                 /\ isActive(o)' = isActive(o)
                                 /\ Reaches(o)' = Reaches(o)
                                 /\ Heard(o)' = Heard(o)
           /\ isInCall' = isInCall /\ PhoneDevices' = PhoneDevices
           /\ MediaDevices' = MediaDevices
           /\ Playing("ENFORCED_AUDIBLE")' = Playing("ENFORCED_AUDIBLE")
<1>1. /\ isInCall' = isInCall /\ PhoneDevices' = PhoneDevices
      /\ MediaDevices' = MediaDevices
      /\ Playing("ENFORCED_AUDIBLE")' = Playing("ENFORCED_AUDIBLE")
    BY DEF EngineSame, isInCall, PhoneDevices, MediaDevices, Playing
<1>2. ASSUME NEW o \in Outputs
      PROVE  isActive(o)' = isActive(o) /\ On(o)' = On(o)
    BY DEF EngineSame, isActive, On
<1>3. ASSUME NEW o \in Outputs
      PROVE  getNewOutputDevices(o)' = getNewOutputDevices(o)
    BY <1>1, <1>2 DEF EngineSame, getNewOutputDevices
<1>4. ASSUME NEW o \in Outputs
      PROVE  Reaches(o)' = Reaches(o)
    BY <1>3 DEF Reaches
<1>5. ASSUME NEW o \in Outputs
      PROVE  Heard(o)' = Heard(o)
    BY <1>1, <1>2, <1>4 DEF Heard, EngineSame
<1> QED
    BY <1>1, <1>2, <1>3, <1>4, <1>5

\* Where nothing is routed and outputs are at most opened, all stays right.
LEMMA Unrouted ==
    ASSUME EngineSame, OutputsOK, OutputsOK', ReachInv, RoutedInv, route' = route,
           mOutputs \subseteq mOutputs'
    PROVE  RoutedInv'
<1>0. /\ "primary" \in mOutputs /\ mOutputs' \subseteq Outputs
      /\ \A o \in Outputs : isActive(o) => o \in mOutputs
    BY OutputsAssumption DEF OutputsOK, ReachInv, isActive, On
<1>1. PatchInv'
    BY DEF RoutedInv, PatchInv
<1>2. HeardInv'
  <2> SUFFICES ASSUME NEW o \in mOutputs', Heard(o)'
               PROVE  EndsIn(route'.patches, Lasting(o), Right(o)')
      BY DEF HeardInv, Lasting, sharesHwModuleWith
  <2>1. o \in Outputs /\ Heard(o) /\ getNewOutputDevices(o)' = getNewOutputDevices(o)
      BY <1>0, SameWants
  <2>2. o \in mOutputs
      BY <1>0, <2>1 DEF Heard
  <2>3. Right(o)' = Right(o)
      BY <2>1 DEF Right
  <2> QED
      BY <2>1, <2>2, <2>3 DEF RoutedInv, HeardInv
<1>3. CallInv'
  <2>1. CallReached' = CallReached
      BY SameWants DEF CallReached
  <2> SUFFICES ASSUME isInCall', Playing("ENFORCED_AUDIBLE")' = {}
               PROVE  EndsIn(route'.patches, CallLasting, CallReached')
      BY DEF CallInv, CallLasting, sharesHwModuleWith
  <2> QED
      BY <2>1, SameWants DEF RoutedInv, CallInv
<1>4. SoundInv'
    BY SameWants DEF RoutedInv, SoundInv, EngineSame
<1>5. MusicInv'
    BY <1>0, SameWants DEF RoutedInv, MusicInv
<1> QED
    BY <1>1, <1>2, <1>3, <1>4, <1>5 DEF RoutedInv

\* An input device that comes or goes has the primary output routed in a call.
LEMMA InputsRouted ==
    ASSUME OneBackend, EngineSame, OutputsOK, OutputsOK', ReachInv, ReachInv', RoutedInv,
           mOutputs' = mOutputs, CallRouting
    PROVE  RoutedInv'
<1>1. CASE phone # "IN_CALL"
  <2>1. route' = route
      BY <1>1 DEF CallRouting, routeVars
  <2> QED
      BY <2>1, Unrouted
<1>2. CASE phone = "IN_CALL"
  <2> DEFINE outs == <<"primary">>
             want == Wanted
             force == {"primary"}
  <2>0. /\ "primary" \in mOutputs' /\ mOutputs' \subseteq Outputs
        /\ isInCall' /\ isInCall
      BY <1>2, OutputsAssumption DEF OutputsOK, EngineSame, isInCall
  <2>1. outs \in Seq(Outputs) /\ ToSet(outs) = {"primary"}
      BY <2>0 DEF ToSet
  <2>2. setOutputDevices(outs, want, force, FALSE)
      BY <1>2 DEF CallRouting
  <2>3. \A p \in Outputs : want[p] = getNewOutputDevices(p)'
      BY SameWants DEF Wanted
  <2>4. WantRule'
      BY WantsNext
  <2> HIDE DEF outs, want
  <2>5. Routes(outs, want, force, FALSE)
      BY <2>0, <2>1, <2>2 DEF Routes
  <2>6. \A p \in ToSet(outs) : want[p] = getNewOutputDevices(p)'
      BY <2>0, <2>1, <2>3
  <2>7. "primary" \in Patched(outs, want, force)
    <3>1. want["primary"] \cap Supports["primary"] # {}
        BY <2>0, <2>3, <2>4 DEF WantRule, Reaches
    <3>2. "primary" \in Outputs /\ "primary" \in ToSet(outs)
        BY <2>0, <2>1
    <3> QED
        BY <2>5, <3>1, <3>2, Routing
  <2>8. "primary" \in CallLasting
      BY <2>0, OutputsAssumption DEF CallLasting, sharesHwModuleWith
  <2>9. CallInv'
      BY <2>4, <2>5, <2>6, <2>7, <2>8, CallRenewed DEF RoutedInv
  <2>10. HeardInv'
    <3> SUFFICES ASSUME NEW o \in mOutputs', Heard(o)'
                 PROVE  EndsIn(route'.patches, Lasting(o), Right(o)')
        BY DEF HeardInv, Lasting, sharesHwModuleWith
    <3>1. sharesHwModuleWith(o, "primary") /\ getNewOutputDevices(o)' # {} /\ o \in Outputs
        BY <2>0 DEF Heard, Reaches
    <3>2. "primary" \in Lasting(o)
        BY <2>0, <3>1, OutputsAssumption DEF Lasting
    <3> QED
        BY <2>5, <2>6, <2>7, <3>1, <3>2, Renewed DEF RoutedInv
  <2>11. SoundInv'
    <3>1. \A t \in active' :
             Stream[t] # "MUSIC" /\ (isInCall' => Stream[t] = "ENFORCED_AUDIBLE")
                 => route.devices[Output[t]] = {"speaker"}
        BY SameWants DEF RoutedInv, SoundInv, EngineSame
    <3> QED
        BY <2>4, <2>5, <2>6, <3>1, SoundKept
  <2>12. MusicInv'
      BY <2>0 DEF MusicInv
  <2> QED
      BY <2>5, <2>9, <2>10, <2>11, <2>12, RoutesLists DEF RoutedInv
<1> QED
    BY <1>1, <1>2

\* A direct output takes its patch along.
LEMMA ReleaseRouted ==
    ASSUME OneBackend, OutputsOK, OutputsOK', ReachInv, RoutedInv,
           NEW x \in Direct, ReleaseDirect(x)
    PROVE  RoutedInv'
<1> DEFINE s == route.patches
           kept == Outputs \ {x}
<1>1. /\ EngineSame /\ mOutputs' = mOutputs \ {x} /\ ~isActive(x)
      /\ route' = [route EXCEPT !.devices[x] = {}, !.patches = Only(@, kept)]
    BY DEF ReleaseDirect, EngineSame, devVars, hdmiVars, trackVars, engineVars
<1>2. /\ mOutputs \subseteq Outputs /\ x # "primary"
    BY OutputsAssumption DEF OutputsOK
<1>3. Only(s, kept) \in Seq(Outputs) /\ ToSet(Only(s, kept)) = ToSet(s) \cap kept
    BY OnlyThose DEF RoutedInv, PatchInv
<1>4. PatchInv'
  <2>1. route'.patches = Only(s, kept)
      BY <1>1
  <2> HIDE DEF s, kept
  <2>2. ToSet(route'.patches) = ToSet(s) \cap kept /\ route'.patches \in Seq(Outputs)
      BY <1>3, <2>1
  <2> QED
      BY <1>1, <2>2 DEF RoutedInv, PatchInv, s, kept
<1>5. ASSUME NEW Q, NEW W, NEW V, EndsIn(s, Q, W), Q \cap ToSet(s) \subseteq kept,
             W \cap kept \subseteq V
      PROVE  EndsIn(route'.patches, Q, V)
  <2>1. route'.patches = Only(s, kept)
      BY <1>1
  <2>2. <<>> \in Seq(Outputs) /\ ToSet(<<>>) = {}
      BY DEF ToSet
  <2> HIDE DEF s, kept
  <2>3. Only(s, kept) = Only(s, kept) \o <<>>
      BY <1>3, ConcatEmptySeq
  <2>4. Keeps(s, kept, <<>>, Q, W, V)
      BY <1>5, <2>2 DEF Keeps
  <2> QED
      BY <1>5, <2>1, <2>3, <2>4, EndsKept
<1>6. \A p \in mOutputs' : p # x /\ p \in Outputs /\ p \in mOutputs
    BY <1>1, <1>2
<1>7. \A p \in kept : route'.devices[p] = route.devices[p]
    BY <1>1
<1>8. HeardInv'
  <2> SUFFICES ASSUME NEW o \in mOutputs', Heard(o)'
               PROVE  EndsIn(route'.patches, Lasting(o), Right(o)')
      BY DEF HeardInv, Lasting, sharesHwModuleWith
  <2>1. o \in Outputs /\ Heard(o) /\ getNewOutputDevices(o)' = getNewOutputDevices(o)
      BY <1>1, <1>6, SameWants
  <2>2. EndsIn(s, Lasting(o), Right(o))
      BY <1>6, <2>1 DEF RoutedInv, HeardInv
  <2>3. Lasting(o) \cap ToSet(s) \subseteq kept
      BY <1>6 DEF Lasting
  <2>4. Right(o) \cap kept \subseteq Right(o)'
      BY <1>7, <2>1 DEF Right
  <2> HIDE DEF s, kept
  <2> QED
      BY <1>5, <2>2, <2>3, <2>4
<1>9. CallInv'
  <2> SUFFICES ASSUME isInCall', Playing("ENFORCED_AUDIBLE")' = {}
               PROVE  EndsIn(route'.patches, CallLasting, CallReached')
      BY DEF CallInv, CallLasting, sharesHwModuleWith
  <2>1. EndsIn(s, CallLasting, CallReached) /\ CallReached' = CallReached
      BY <1>1, SameWants DEF RoutedInv, CallInv, CallReached
  <2>2. CallLasting \cap ToSet(s) \subseteq kept
      BY DEF CallLasting
  <2> HIDE DEF s, kept
  <2> QED
      BY <1>5, <2>1, <2>2
<1>10. SoundInv'
  <2> SUFFICES ASSUME NEW t \in active', Stream[t] # "MUSIC",
                      isInCall' => Stream[t] = "ENFORCED_AUDIBLE"
               PROVE  route'.devices[Output[t]] = {"speaker"}
      BY DEF SoundInv
  <2>1. t \in active /\ isInCall' = isInCall
      BY <1>1, SameWants DEF EngineSame
  <2>2. Output[t] \in kept
      BY <1>1, <1>2, <2>1 DEF ReachInv, isActive, On
  <2> QED
      BY <1>7, <2>1, <2>2 DEF RoutedInv, SoundInv
<1>11. MusicInv'
    BY <1>1, <1>6, <1>7, SameWants DEF RoutedInv, MusicInv
<1> QED
    BY <1>4, <1>8, <1>9, <1>10, <1>11 DEF RoutedInv

\* A new force use has the active outputs routed, and the call before them.
LEMMA ForceUseRouted ==
    ASSUME OneBackend, OutputsOK, OutputsOK', ReachInv', RoutedInv,
           NEW usage \in {"COMMUNICATION", "SYSTEM"}, NEW config, setForceUse(usage, config)
    PROVE  RoutedInv'
<1> DEFINE call == IF phone = "IN_CALL" THEN {"primary"} ELSE {}
<1>0. /\ UNCHANGED <<active, phone, dpForVoice, mAvailableOutputDevices, mOutputs>>
      /\ RerouteActive
    BY DEF setForceUse, devVars, hdmiVars, openVars, trackVars
<1>1. PICK want \in {Wanted'} :
        setOutputDevices(
            InOrder(call) \o
              Reverse(InOrder({o \in mOutputs \ call : isActive(o) /\ want[o] # {}})),
            want, Outputs, {o \in mOutputs \ call : isActive(o) /\ want[o] # {}} # {})
    BY <1>0 DEF RerouteActive
<1> DEFINE rest == {o \in mOutputs \ call : isActive(o) /\ want[o] # {}}
           outs == InOrder(call) \o Reverse(InOrder(rest))
<1>2. /\ "primary" \in mOutputs /\ mOutputs' \subseteq Outputs /\ mOutputs' = mOutputs
      /\ isInCall' = isInCall /\ phone' = phone
      /\ \A o : isActive(o)' = isActive(o)
      /\ Playing("ENFORCED_AUDIBLE")' = Playing("ENFORCED_AUDIBLE")
    BY <1>0, OutputsAssumption DEF OutputsOK, isInCall, isActive, On, Playing
<1>3. \A p \in Outputs : want[p] = getNewOutputDevices(p)'
    BY <1>1 DEF Wanted
<1>4. outs \in Seq(Outputs) /\ ToSet(outs) = call \cup rest
  <2>1. call \in SUBSET Outputs /\ rest \in SUBSET Outputs
      BY <1>2
  <2> HIDE DEF call, rest
  <2> QED
      BY <2>1, TwoLists
<1>5. /\ call \cup rest \subseteq mOutputs'
      /\ \A o \in mOutputs' :
            /\ isActive(o)' \/ (phone' = "IN_CALL" /\ o = "primary")
            /\ want[o] # {}
            => o \in call \cup rest
    BY <1>2
<1>6. WantRule'
    BY WantsNext
<1>7. \A p \in call \cup rest : p \in Outputs /\ want[p] # {}
  <2>1. phone = "IN_CALL" => Reaches("primary")'
      BY <1>2, <1>6 DEF WantRule, isInCall
  <2> QED
      BY <1>2, <1>3, <2>1 DEF Reaches
<1>8. setOutputDevices(outs, want, Outputs, rest # {})
    BY <1>1
<1> HIDE DEF outs, rest, call
<1> DEFINE volumes == rest # {}
<1>9. Routes(outs, want, Outputs, volumes)
    BY <1>2, <1>4, <1>5, <1>8 DEF Routes
<1> HIDE DEF volumes
<1>10. \A p \in ToSet(outs) : want[p] = getNewOutputDevices(p)'
    BY <1>3, <1>4, <1>7
<1>11. \A o \in mOutputs' : /\ isActive(o)' \/ (phone' = "IN_CALL" /\ o = "primary")
                            /\ Reaches(o)'
                            => o \in ToSet(outs) /\ o \in Outputs
  <2>1. \A o \in mOutputs' : Reaches(o)' => want[o] # {}
      BY <1>2, <1>3 DEF Reaches
  <2> QED
      BY <1>2, <1>4, <1>5, <2>1
<1>12. HeardInv' /\ SoundInv' /\ MusicInv' /\ PatchInv'
    BY <1>9, <1>10, <1>11, ForcedAll DEF RoutedInv
<1>13. CallReached \subseteq CallReached'
  <2>1. \/ PhoneDevices' = PhoneDevices
        \/ PhoneDevices \in {{"earpiece"}, {"sco"}} /\ PhoneDevices' \in {{"earpiece"}, {"sco"}}
      BY <1>0 DEF PhoneDevices
  <2> QED
      BY <2>1 DEF CallReached, OneBackend, CallReachTogether, sharesHwModuleWith
<1>14. Called(outs, want, Outputs) \cap ToSet(route.patches)
          \subseteq Patched(outs, want, Outputs)
  <2> SUFFICES ASSUME NEW p \in Called(outs, want, Outputs)
               PROVE  p \in Patched(outs, want, Outputs)
      OBVIOUS
  <2>1. p \in ToSet(outs)
      BY <1>9, Routing
  <2>2. p \in Outputs /\ want[p] # {}
      BY <1>4, <1>7, <2>1
  <2> QED
      BY <1>9, <2>2, Routing
<1>15. CallInv'
    BY <1>2, <1>6, <1>9, <1>10, <1>13, <1>14, CallStable DEF RoutedInv
<1> QED
    BY <1>12, <1>15 DEF RoutedInv

\* A list that ends with two parts ends well if the last one does.
LEMMA TwoParts ==
    ASSUME NEW old \in Seq(Outputs), NEW first \in Seq(Outputs), NEW second \in Seq(Outputs),
           NEW r, r = old \o (first \o second),
           NEW Q, NEW W, ToSet(second) \cap Q # {}, ToSet(second) \subseteq W
    PROVE  EndsIn(r, Q, W)
<1>1. PICK both \in Seq(Outputs) : both = old \o first
    BY ConcatProperties
<1>2. r = both \o second
  <2>1. (old \o first) \o second = old \o (first \o second)
      BY ConcatAssociative
  <2> QED
      BY <1>1, <2>1
<1> QED
    BY <1>2, EndsBehind

\* The phone's mode is one that is entered.
PhoneOK == phone \in Modes

\* A call that begins or ends has all outputs routed, the primary one first and by
\* force: with the devices it had before if nothing is wanted of it any more.
LEMMA PhoneStateRouted ==
    ASSUME OneBackend, PhoneOK, OutputsOK, OutputsOK', ReachInv', RoutedInv,
           NEW state, setPhoneState(state)
    PROVE  RoutedInv'
<1> DEFINE force == isInCall \/ isInCall'
           rx    == IF isInCall /\ getNewOutputDevices("primary")' = {}
                    THEN route.devices["primary"] ELSE getNewOutputDevices("primary")'
           want  == [Wanted' EXCEPT !["primary"] = rx]
           rest  == mOutputs \ {"primary"}
           outs  == <<"primary">> \o InOrder(rest)
           forced == {o \in Outputs : IF o = "primary" THEN force ELSE want[o] # {}}
<1>1. /\ mOutputs' = mOutputs
      /\ setOutputDevices(outs, want, forced, FALSE)
    BY DEF setPhoneState, openVars
<1>2. force
  <2>1. phone \in Modes /\ phone' \in Modes /\ phone' # phone
      BY DEF PhoneOK, setPhoneState
  <2> QED
      BY <2>1, ModesAssumption DEF isInCall
<1>3. "primary" \in mOutputs' /\ mOutputs' \subseteq Outputs /\ "primary" \in Outputs
    BY OutputsAssumption DEF OutputsOK
<1>4. /\ want["primary"] = rx
      /\ \A o \in Outputs \ {"primary"} : want[o] = getNewOutputDevices(o)'
    BY <1>3 DEF Wanted
<1>5. \A o \in Outputs : o = "primary" \/ want[o] # {} => o \in forced
    BY <1>2
<1>6. /\ <<"primary">> \in Seq(Outputs) /\ ToSet(<<"primary">>) = {"primary"}
      /\ InOrder(rest) \in Seq(Outputs) /\ ToSet(InOrder(rest)) = rest
  <2>1. rest \in SUBSET Outputs
      BY <1>1, <1>3
  <2>2. <<"primary">> \in Seq(Outputs) /\ ToSet(<<"primary">>) = {"primary"}
      BY <1>3 DEF ToSet
  <2> HIDE DEF rest
  <2> QED
      BY <2>1, <2>2, InOrderElements
<1>7. outs \in Seq(Outputs) /\ ToSet(outs) = mOutputs'
  <2>1. PICK a \in Seq(Outputs), b \in Seq(Outputs) :
           /\ a = <<"primary">> /\ b = InOrder(rest)
           /\ ToSet(a) = {"primary"} /\ ToSet(b) = rest
      BY <1>6
  <2>2. a \o b \in Seq(Outputs) /\ ToSet(a \o b) = ToSet(a) \cup ToSet(b)
      BY JoinElements
  <2>3. {"primary"} \cup rest = mOutputs'
      BY <1>1, <1>3
  <2> QED
      BY <2>1, <2>2, <2>3
<1>8. WantRule'
    BY WantsNext
<1> HIDE DEF want, forced, outs, rest
<1>9. Routes(outs, want, forced, FALSE)
    BY <1>1, <1>3, <1>7 DEF Routes
<1>10. ASSUME NEW o \in mOutputs', want[o] \cap Supports[o] # {}
       PROVE  /\ o \in Patched(outs, want, forced)
              /\ route'.devices[o] = want[o] \cap Supports[o]
  <2>1. o \in Outputs /\ o \in ToSet(outs) /\ o \in forced
      BY <1>3, <1>5, <1>7, <1>10
  <2>2. o \in Patched(outs, want, forced)
      BY <1>9, <1>10, <2>1, Routing
  <2> QED
      BY <1>9, <2>2, Routing
<1>11. CASE rx = getNewOutputDevices("primary")'
  <2>1. \A p \in ToSet(outs) : want[p] = getNewOutputDevices(p)'
      BY <1>3, <1>4, <1>7, <1>11
  <2>2. \A o \in mOutputs' : Reaches(o)' => o \in ToSet(outs) /\ o \in forced
      BY <1>3, <1>5, <1>7, <2>1 DEF Reaches
  <2>3. HeardInv' /\ SoundInv' /\ MusicInv' /\ PatchInv'
      BY <1>9, <2>1, <2>2, ForcedAll DEF RoutedInv
  <2>4. isInCall' => "primary" \in Patched(outs, want, forced)
      BY <1>3, <1>7, <1>8, <1>10, <2>1 DEF WantRule, Reaches
  <2>5. "primary" \in CallLasting
      BY <1>3, OutputsAssumption DEF CallLasting, sharesHwModuleWith
  <2>6. CallInv'
      BY <1>8, <1>9, <2>1, <2>4, <2>5, CallRenewed DEF RoutedInv
  <2> QED
      BY <2>3, <2>6 DEF RoutedInv
<1>12. CASE rx # getNewOutputDevices("primary")'
  <2>1. getNewOutputDevices("primary")' = {} /\ ~isInCall' /\ phone' # "IN_CALL"
      BY <1>8, <1>12 DEF WantRule, Reaches, isInCall
  <2>2. ASSUME NEW o \in mOutputs', Reaches(o)'
        PROVE  /\ o \in Outputs /\ o # "primary"
               /\ o \in Patched(outs, want, forced)
               /\ route'.devices[o] = getNewOutputDevices(o)' \cap Supports[o]
    <3>1. o \in Outputs /\ o # "primary" /\ want[o] = getNewOutputDevices(o)'
        BY <1>3, <1>4, <2>1, <2>2 DEF Reaches
    <3> QED
        BY <1>10, <2>2, <3>1 DEF Reaches
  <2>3. HeardInv'
    <3> SUFFICES ASSUME NEW o \in mOutputs', Heard(o)'
                 PROVE  EndsIn(route'.patches, Lasting(o), Right(o)')
        BY DEF HeardInv, Lasting, sharesHwModuleWith
    <3> DEFINE P == Patched(outs, want, forced)
               old == Only(route.patches, mOutputs' \ Called(outs, want, forced))
    <3>1. /\ old \in Seq(Outputs)
          /\ route'.patches = old \o Only(outs, P)
        BY <1>9, RoutesLists DEF RoutedInv
    <3>2. PICK first \in Seq(Outputs), second \in Seq(Outputs) :
             /\ ToSet(second) = rest \cap P
             /\ Only(outs, P) = first \o second
      <4>1. PICK a \in Seq(Outputs), b \in Seq(Outputs) :
               a = <<"primary">> /\ b = InOrder(rest) /\ ToSet(b) = rest
          BY <1>6
      <4> HIDE DEF P
      <4>2. Only(a, P) \in Seq(Outputs)
          BY OnlyThose
      <4>3. Only(b, P) \in Seq(Outputs) /\ ToSet(Only(b, P)) = rest \cap P
          BY <4>1, OnlyThose
      <4>4. Only(a \o b, P) = Only(a, P) \o Only(b, P)
          BY OnlyJoin
      <4>5. outs = a \o b
          BY <4>1 DEF outs
      <4> QED
          BY <4>2, <4>3, <4>4, <4>5
    <3>3. Reaches(o)' /\ getNewOutputDevices(o)' # {}
        BY DEF Heard, Reaches
    <3>4. o \in rest \cap P /\ o \in Lasting(o)
        BY <1>1, <2>2, <3>3 DEF rest, Lasting, sharesHwModuleWith
    <3>5. rest \cap P \subseteq Right(o)'
      <4> SUFFICES ASSUME NEW p \in rest \cap P, sharesHwModuleWith(o, p)
                   PROVE  route'.devices[p] = getNewOutputDevices(o)' /\ p \in Outputs
        <5>1. rest \subseteq Outputs
            BY <1>1, <1>3 DEF rest
        <5> QED
            BY <5>1 DEF Right
      <4>1. p \in Outputs /\ p # "primary" /\ want[p] = getNewOutputDevices(p)' /\ o \in Outputs
          BY <1>1, <1>3, <1>4 DEF rest
      <4>2. p \in Patched(outs, want, forced) /\ sharesHwModuleWith(o, p)
          OBVIOUS
      <4>3. route'.devices[p] = getNewOutputDevices(o)'
        <5>1. route'.devices[p] = want[p] \cap Supports[p] /\ want[p] \cap Supports[p] # {}
              /\ p \in mOutputs'
          <6>1. p \in mOutputs'
              BY <1>1 DEF rest
          <6>2. want[p] \cap Supports[p] # {}
            <7> HIDE DEF P, old, rx, force
            <7> QED
                BY <1>9, <4>1, <4>2, Routing
          <6> QED
              BY <1>10, <6>1, <6>2
        <5>2. getNewOutputDevices(p)' # {}
            BY <4>1, <5>1
        <5>3. getNewOutputDevices(p)' = getNewOutputDevices(o)'
            BY <3>3, <4>1, <4>2, <5>2, EngineNextRule DEF EngineRule
        <5>4. getNewOutputDevices(p)' \cap Supports[p] = getNewOutputDevices(p)'
            BY <4>1, <5>1, EngineNextRule DEF EngineRule
        <5> QED
            BY <4>1, <5>1, <5>3, <5>4
      <4> QED
          BY <4>1, <4>3
    <3> HIDE DEF P, old
    <3>6. ToSet(second) \cap Lasting(o) # {} /\ ToSet(second) \subseteq Right(o)'
        BY <3>2, <3>4, <3>5
    <3>7. route'.patches = old \o (first \o second)
        BY <3>1, <3>2
    <3> QED
        BY <3>1, <3>6, <3>7, TwoParts
  <2>4. SoundInv'
    <3> SUFFICES ASSUME NEW t \in active', Stream[t] # "MUSIC"
                 PROVE  route'.devices[Output[t]] = {"speaker"}
        BY DEF SoundInv
    <3>1. Output[t] \in mOutputs' /\ Output[t] \in Outputs
        BY <1>3 DEF ReachInv
    <3>2. getNewOutputDevices(Output[t])' = {"speaker"} /\ "speaker" \in Supports[Output[t]]
        BY <1>8, <2>1, <3>1 DEF WantRule, sharesHwModuleWith
    <3> QED
        BY <2>2, <3>1, <3>2 DEF Reaches
  <2>5. MusicInv'
      BY <1>3, <1>8, <2>2 DEF MusicInv, WantRule, Reaches
  <2>6. CallInv'
      BY <2>1 DEF CallInv
  <2> QED
      BY <1>9, <2>3, <2>4, <2>5, <2>6, RoutesLists DEF RoutedInv
<1> QED
    BY <1>11, <1>12

\* The same streams play on the same outputs before and after.
SameSounds ==
    /\ UNCHANGED <<phone, forceUse, dpForVoice, mAvailableOutputDevices>>
    /\ \A t \in active : \E u \in active' : Output[u] = Output[t] /\ Stream[u] = Stream[t]
    /\ \A t \in active' : \E u \in active : Output[u] = Output[t] /\ Stream[u] = Stream[t]

\* The engine does not ask how many tracks of a stream play on an output.
LEMMA SoundWants ==
    ASSUME SameSounds
    PROVE  /\ \A o \in Outputs : /\ getNewOutputDevices(o)' = getNewOutputDevices(o)
                                 /\ isActive(o)' = isActive(o)
                                 /\ Heard(o)' = Heard(o)
           /\ isInCall' = isInCall /\ PhoneDevices' = PhoneDevices
           /\ MediaDevices' = MediaDevices
           /\ Playing("ENFORCED_AUDIBLE")' = {} <=> Playing("ENFORCED_AUDIBLE") = {}
<1>1. /\ isInCall' = isInCall /\ PhoneDevices' = PhoneDevices
      /\ MediaDevices' = MediaDevices
      /\ Playing("ENFORCED_AUDIBLE")' = {} <=> Playing("ENFORCED_AUDIBLE") = {}
    BY DEF SameSounds, isInCall, PhoneDevices, MediaDevices, Playing
<1>2. ASSUME NEW o \in Outputs
      PROVE  /\ isActive(o)' = isActive(o)
             /\ (\E t \in On(o) : Stream[t] = "MUSIC")'
                    <=> \E t \in On(o) : Stream[t] = "MUSIC"
             /\ (\E t \in active : Stream[t] # "MUSIC" /\ sharesHwModuleWith(Output[t], o))'
                    <=> \E t \in active : /\ Stream[t] # "MUSIC"
                                          /\ sharesHwModuleWith(Output[t], o)
  <2>1. isActive(o)' <=> isActive(o)
      BY DEF SameSounds, isActive, On
  <2>2. isActive(o)' \in BOOLEAN /\ isActive(o) \in BOOLEAN
      BY DEF isActive
  <2>3. (\E t \in On(o) : Stream[t] = "MUSIC")' <=> \E t \in On(o) : Stream[t] = "MUSIC"
      BY DEF SameSounds, On
  <2>4. (\E t \in active : Stream[t] # "MUSIC" /\ sharesHwModuleWith(Output[t], o))'
           <=> \E t \in active : Stream[t] # "MUSIC" /\ sharesHwModuleWith(Output[t], o)
      BY DEF SameSounds, sharesHwModuleWith
  <2> QED
      BY <2>1, <2>2, <2>3, <2>4
<1>3. ASSUME NEW o \in Outputs
      PROVE  getNewOutputDevices(o)' = getNewOutputDevices(o)
    BY <1>1, <1>2 DEF getNewOutputDevices
<1>4. ASSUME NEW o \in Outputs
      PROVE  Reaches(o)' = Reaches(o)
    BY <1>3 DEF Reaches
<1>5. ASSUME NEW o \in Outputs
      PROVE  Heard(o)' = Heard(o)
    BY <1>1, <1>2, <1>4 DEF Heard, SameSounds
<1> QED
    BY <1>1, <1>2, <1>3, <1>5

\* A track that plays along with another of its stream on its output.
LEMMA TwinRouted ==
    ASSUME SameSounds, OutputsOK, RoutedInv, route' = route, mOutputs' = mOutputs
    PROVE  RoutedInv'
<1>0. mOutputs \subseteq Outputs
    BY DEF OutputsOK
<1>1. PatchInv'
    BY DEF RoutedInv, PatchInv
<1>2. HeardInv'
  <2> SUFFICES ASSUME NEW o \in mOutputs', Heard(o)'
               PROVE  EndsIn(route'.patches, Lasting(o), Right(o)')
      BY DEF HeardInv, Lasting, sharesHwModuleWith
  <2>1. o \in Outputs /\ Heard(o) /\ getNewOutputDevices(o)' = getNewOutputDevices(o)
      BY <1>0, SoundWants
  <2>2. Right(o)' = Right(o)
      BY <2>1 DEF Right
  <2> QED
      BY <2>1, <2>2 DEF RoutedInv, HeardInv
<1>3. CallInv'
  <2>1. CallReached' = CallReached
      BY SoundWants DEF CallReached
  <2> SUFFICES ASSUME isInCall', Playing("ENFORCED_AUDIBLE")' = {}
               PROVE  EndsIn(route'.patches, CallLasting, CallReached')
      BY DEF CallInv, CallLasting, sharesHwModuleWith
  <2> QED
      BY <2>1, SoundWants DEF RoutedInv, CallInv
<1>4. SoundInv'
  <2> SUFFICES ASSUME NEW t \in active', Stream[t] # "MUSIC",
                      isInCall' => Stream[t] = "ENFORCED_AUDIBLE"
               PROVE  route'.devices[Output[t]] = {"speaker"}
      BY DEF SoundInv
  <2>1. PICK u \in active : Output[u] = Output[t] /\ Stream[u] = Stream[t]
      BY DEF SameSounds
  <2> QED
      BY <2>1, SoundWants DEF RoutedInv, SoundInv
<1>5. MusicInv'
    BY <1>0, SoundWants DEF RoutedInv, MusicInv
<1> QED
    BY <1>1, <1>2, <1>3, <1>4, <1>5 DEF RoutedInv

\* Where the HAL is called for no output, all keep their places and devices.
LEMMA NotCalled ==
    ASSUME NEW outs, NEW want, NEW force, NEW volumes,
           Routes(outs, want, force, volumes), PatchInv,
           Called(outs, want, force) = {},
           NEW Q, NEW W, NEW V, EndsIn(route.patches, Q, W),
           mOutputs' = mOutputs, W \cap ToSet(route.patches) \subseteq V
    PROVE  EndsIn(route'.patches, Q, V)
<1> DEFINE patched == Patched(outs, want, force)
           kept == mOutputs' \ Called(outs, want, force)
           new == Only(outs, patched)
           s == route.patches
<1>1. /\ new \in Seq(Outputs) /\ ToSet(new) = patched
      /\ route'.patches = Only(s, kept) \o new
    BY RoutesLists
<1>2. patched = {} /\ kept = mOutputs'
    BY Routing
<1>3. ToSet(s) \subseteq kept
    BY <1>2 DEF PatchInv
<1> HIDE DEF patched, kept, new, s
<1>4. ToSet(new) = {}
    BY <1>1, <1>2
<1>5. Q \cap ToSet(s) \subseteq kept \cup ToSet(new) /\ W \cap kept \cap ToSet(s) \subseteq V
    BY <1>3 DEF s
<1>6. Keeps(s, kept, new, Q, W, V)
    BY <1>1, <1>4, <1>5 DEF Keeps
<1>7. EndsIn(s, Q, W)
    BY DEF s
<1> QED
    BY <1>1, <1>6, <1>7, EndsKept

\* What the engine wants once the track t plays.
Started(t) ==
    /\ active' = active \cup {t} /\ t \notin active
    /\ UNCHANGED <<phone, forceUse, dpForVoice, mAvailableOutputDevices, mOutputs>>

\* What the engine wants changes at most for the output of the track, and for
\* those of its module when the track is not music.
LEMMA StartWants ==
    ASSUME OneBackend, OutputsOK, NEW t \in Tracks, Started(t)
    PROVE  /\ isInCall' = isInCall /\ PhoneDevices' = PhoneDevices
           /\ MediaDevices' = MediaDevices
           /\ Playing("ENFORCED_AUDIBLE")' = {} => Playing("ENFORCED_AUDIBLE") = {}
           /\ isActive(Output[t])'
           /\ \A p \in Outputs : p # Output[t] => isActive(p)' = isActive(p)
           /\ \A p \in Outputs :
                 /\ (isInCall => sharesHwModuleWith(p, "primary"))
                        /\ ~sharesHwModuleWith(Output[t], p)
                       => getNewOutputDevices(p)' = getNewOutputDevices(p)
                 /\ isInCall /\ Playing("ENFORCED_AUDIBLE")' = {}
                       => getNewOutputDevices(p)' = getNewOutputDevices(p)
                 /\ Stream[t] = "MUSIC" /\ p # Output[t]
                       => getNewOutputDevices(p)' = getNewOutputDevices(p)
<1> DEFINE Loud(p) == \E u \in active : Stream[u] # "MUSIC" /\ sharesHwModuleWith(Output[u], p)
           Tune(p) == \E u \in On(p) : Stream[u] = "MUSIC"
<1>1. /\ isInCall' = isInCall /\ PhoneDevices' = PhoneDevices
      /\ MediaDevices' = MediaDevices
    BY DEF Started, isInCall, PhoneDevices, MediaDevices
<1>2. /\ Playing("ENFORCED_AUDIBLE")' = {} => Playing("ENFORCED_AUDIBLE") = {}
      /\ Stream[t] # "ENFORCED_AUDIBLE"
            => Playing("ENFORCED_AUDIBLE")' = Playing("ENFORCED_AUDIBLE")
    BY DEF Started, Playing
<1>3. isActive(Output[t])'
    BY DEF Started, isActive, On
<1>4. ASSUME NEW p \in Outputs, p # Output[t]
      PROVE  isActive(p)' = isActive(p) /\ On(p)' = On(p)
  <2>1. On(p)' = On(p)
      BY <1>4 DEF Started, On
  <2> QED
      BY <2>1 DEF isActive
<1>5. ASSUME NEW p \in Outputs
      PROVE  /\ Stream[t] = "MUSIC" \/ ~sharesHwModuleWith(Output[t], p)
                   => (Loud(p)' <=> Loud(p))
             /\ ~sharesHwModuleWith(Output[t], p) => p # Output[t]
    BY DEF Started, sharesHwModuleWith
<1>6. ASSUME NEW p \in Outputs, isInCall => sharesHwModuleWith(p, "primary"),
             ~sharesHwModuleWith(Output[t], p)
      PROVE  getNewOutputDevices(p)' = getNewOutputDevices(p)
  <2>1. isInCall => Stream[t] # "ENFORCED_AUDIBLE"
    <3>1. Stream[t] = "ENFORCED_AUDIBLE" => sharesHwModuleWith(Output[t], "primary")
        BY DEF OneBackend, OneCallModule
    <3> QED
        BY <1>6, <3>1 DEF sharesHwModuleWith
  <2>2. (isInCall /\ Playing("ENFORCED_AUDIBLE") = {})'
            <=> isInCall /\ Playing("ENFORCED_AUDIBLE") = {}
      BY <1>1, <1>2, <2>1
  <2>3. (Loud(p)' <=> Loud(p)) /\ On(p)' = On(p)
      BY <1>4, <1>5, <1>6
  <2> QED
      BY <1>1, <2>2, <2>3 DEF getNewOutputDevices
<1>7. ASSUME NEW p \in Outputs, isInCall, Playing("ENFORCED_AUDIBLE")' = {}
      PROVE  getNewOutputDevices(p)' = getNewOutputDevices(p)
    BY <1>1, <1>2, <1>7 DEF getNewOutputDevices
<1>8. ASSUME NEW p \in Outputs, Stream[t] = "MUSIC", p # Output[t]
      PROVE  getNewOutputDevices(p)' = getNewOutputDevices(p)
  <2>1. Playing("ENFORCED_AUDIBLE")' = Playing("ENFORCED_AUDIBLE")
      BY <1>2, <1>8
  <2>2. (Loud(p)' <=> Loud(p)) /\ On(p)' = On(p)
      BY <1>4, <1>5, <1>8
  <2> QED
      BY <1>1, <2>1, <2>2 DEF getNewOutputDevices
<1> QED
    BY <1>1, <1>2, <1>3, <1>4, <1>6, <1>7, <1>8

\* The HAL is called for the track's output, or it reaches no device, or it has
\* its devices and so has every output of the module that reaches them.
StartCalls(t, outs, want, force) ==
    LET o == Output[t]
        w == getNewOutputDevices(o)'
    IN  \/ /\ w \cap Supports[o] # {} /\ Called(outs, want, force) = {o}
           /\ Patched(outs, want, force) = {o}
        \/ w \cap Supports[o] = {} /\ Called(outs, want, force) = {}
        \/ /\ w \cap Supports[o] # {} /\ Called(outs, want, force) = {}
           /\ o \in ToSet(route.patches) /\ route.devices[o] = w
           /\ \A p \in ToSet(route.patches) :
                 sharesHwModuleWith(o, p) /\ w \cap Supports[p] # {}
                     => route.devices[p] = w

\* startSource routes the output when the track is the first of its stream there.
LEMMA StartRoutes ==
    ASSUME OutputsOK, OutputsOK', PatchInv, NEW t \in Tracks, StartSource(t),
           getActivityCount(Output[t], Stream[t])' = 1
    PROVE  \E outs, want, force :
              /\ Routes(outs, want, force, FALSE)
              /\ ToSet(outs) = {Output[t]}
              /\ \A p \in ToSet(outs) : want[p] = getNewOutputDevices(p)'
              /\ StartCalls(t, outs, want, force)
<1> DEFINE o == Output[t]
           w == getNewOutputDevices(o)'
           outs == <<o>>
           want == Wanted'
           force == IF \/ ~isActive(o) /\ o \notin ToSet(route.patches)
                       \/ ForcedByOther(o, w)
                    THEN {o} ELSE {}
<1>1. /\ setOutputDevices(outs, want, force, FALSE)
      /\ o \in mOutputs /\ mOutputs' = mOutputs /\ o \in Outputs /\ mOutputs' \subseteq Outputs
  <2>1. /\ setOutputDevices(outs, want, force, FALSE)
        /\ o \in mOutputs /\ mOutputs' = mOutputs
      BY DEF StartSource, openVars
  <2> QED
      BY <2>1 DEF OutputsOK
<1>2. outs \in Seq(Outputs) /\ ToSet(outs) = {o}
    BY <1>1 DEF ToSet
<1>3. want[o] = w
    BY <1>1 DEF Wanted
<1>4. w # {} /\ (w \cap Supports[o] # {} => w \cap Supports[o] = w)
  <2>1. isActive(o)'
      BY DEF StartSource, isActive, On
  <2> QED
      BY <1>1, <2>1, EngineNextRule DEF EngineRule
<1>5. o \in force \/ \A p \in ToSet(route.patches) :
                        p # o /\ sharesHwModuleWith(o, p) /\ w \cap Supports[p] # {}
                            => route.devices[p] = w
  <2>1. ForcedByOther(o, w) \/ \A p \in (mOutputs \cap ToSet(route.patches)) \ {o} :
                        sharesHwModuleWith(o, p) /\ w \cap Supports[p] # {}
                            => route.devices[p] = w
      BY DEF ForcedByOther
  <2>2. ToSet(route.patches) \subseteq mOutputs
      BY DEF PatchInv
  <2> HIDE DEF w
  <2> QED
      BY <2>1, <2>2
<1> HIDE DEF outs, want, force, w
<1>6. Routes(outs, want, force, FALSE)
    BY <1>1, <1>2 DEF Routes
<1>7. /\ Called(outs, want, force) \subseteq {o}
      /\ Patched(outs, want, force) \subseteq Called(outs, want, force)
      /\ o \in Called(outs, want, force) <=>
            /\ w \cap Supports[o] # {}
            /\ w \cap Supports[o] # route.devices[o] \/ o \in force
                   \/ o \notin ToSet(route.patches)
      /\ o \in Patched(outs, want, force) <=> o \in Called(outs, want, force)
  <2>1. want[o] \cap Supports[o] = w \cap Supports[o] /\ want[o] # {}
      BY <1>3, <1>4
  <2> HIDE DEF o
  <2>2. o \in Outputs /\ o \in ToSet(outs) /\ ToSet(outs) = {o}
      BY <1>1, <1>2
  <2>3. /\ Called(outs, want, force) \subseteq ToSet(outs)
        /\ Patched(outs, want, force) \subseteq Called(outs, want, force)
      BY <1>6, Routing
  <2>4. /\ o \in Called(outs, want, force) <=>
              /\ o \in ToSet(outs)
              /\ want[o] = {} \/ want[o] \cap Supports[o] # {}
              /\ \/ want[o] \cap Supports[o] \notin {{}, route.devices[o]}
                 \/ o \in force \/ o \notin ToSet(route.patches)
        /\ o \in Patched(outs, want, force) <=>
              o \in Called(outs, want, force) /\ want[o] \cap Supports[o] # {}
      BY <1>6, <2>2, Routing
  <2>5. o \in Called(outs, want, force) <=>
              /\ w \cap Supports[o] # {}
              /\ \/ w \cap Supports[o] \notin {{}, route.devices[o]}
                 \/ o \in force \/ o \notin ToSet(route.patches)
      BY <2>1, <2>2, <2>4
  <2> QED
      BY <2>1, <2>2, <2>3, <2>4, <2>5
<1>8. CASE o \in Called(outs, want, force)
  <2>1. /\ w \cap Supports[o] # {} /\ Called(outs, want, force) = {o}
        /\ Patched(outs, want, force) = {o}
      BY <1>7, <1>8
  <2>2. StartCalls(t, outs, want, force)
      BY <2>1 DEF StartCalls, w
  <2> QED
      BY <1>2, <1>3, <1>6, <2>2 DEF w
<1>9. CASE o \notin Called(outs, want, force)
  <2>1. Called(outs, want, force) = {}
      BY <1>7, <1>9
  <2>2. CASE w \cap Supports[o] = {}
    <3>1. StartCalls(t, outs, want, force)
        BY <2>1, <2>2 DEF StartCalls, w
    <3> QED
        BY <1>2, <1>3, <1>6, <3>1 DEF w
  <2>3. CASE w \cap Supports[o] # {}
    <3>1. route.devices[o] = w /\ o \notin force /\ o \in ToSet(route.patches)
        BY <1>4, <1>7, <1>9, <2>3
    <3>2. \A p \in ToSet(route.patches) :
             sharesHwModuleWith(o, p) /\ w \cap Supports[p] # {}
                 => route.devices[p] = w
        BY <1>5, <3>1
    <3>3. StartCalls(t, outs, want, force)
        BY <2>1, <2>3, <3>1, <3>2 DEF StartCalls, w
    <3> QED
        BY <1>2, <1>3, <1>6, <3>3 DEF w
  <2> QED
      BY <2>2, <2>3
<1> QED
    BY <1>8, <1>9

\* Outputs of a module reach speakers, displays and USB alike; what else is
\* wanted is what a call wants.
LEMMA ReachAlike ==
    ASSUME OneBackend, NEW o \in Outputs, NEW p \in Outputs, NEW q \in Outputs,
           sharesHwModuleWith(o, p), sharesHwModuleWith(o, q),
           getNewOutputDevices(o)' \cap Supports[q] # {},
           ~(isInCall /\ Playing("ENFORCED_AUDIBLE") = {})'
    PROVE  getNewOutputDevices(o)' \cap Supports[p] # {}
<1> DEFINE w == getNewOutputDevices(o)'
<1>1. w \in {{"speaker"}, {"aux"}, {"usb"}}
  <2>1. w \in {{"speaker"}, MediaDevices'}
      BY DEF getNewOutputDevices
  <2> QED
      BY <2>1, EngineNextRule DEF EngineRule
<1>2. \A d \in {"speaker", "aux", "usb"} : d \in Supports[p] <=> d \in Supports[q]
    BY DEF OneBackend, ModuleReach, sharesHwModuleWith
<1>3. w \cap Supports[q] # {}
    OBVIOUS
<1> HIDE DEF w
<1>4. w \cap Supports[p] # {}
    BY <1>1, <1>2, <1>3
<1> QED
    BY <1>4 DEF w

\* Whatever is heard once a track has started is heard right: a stream that is
\* new to a module is patched last, unless all of the module play to its devices.
LEMMA StartHeard ==
    ASSUME OneBackend, OutputsOK, OutputsOK', RoutedInv,
           NEW t \in Tracks, Started(t), NEW outs, NEW want, NEW force,
           Routes(outs, want, force, FALSE), ToSet(outs) = {Output[t]},
           \A p \in ToSet(outs) : want[p] = getNewOutputDevices(p)',
           StartCalls(t, outs, want, force),
           NEW q \in mOutputs', Heard(q)'
    PROVE  EndsIn(route'.patches, Lasting(q), Right(q)')
<1> DEFINE o == Output[t]
           w == getNewOutputDevices(o)'
           calls == Called(outs, want, force)
<1>0. /\ \A p \in mOutputs' :
            p \notin Patched(outs, want, force) => route'.devices[p] = route.devices[p]
      /\ Patched(outs, want, force) \subseteq calls
    BY Routing
<1>1. /\ q \in mOutputs /\ q \in Outputs /\ o \in Outputs /\ mOutputs' = mOutputs
      /\ phone' = phone
    BY TracksAssumption DEF OutputsOK, Started
<1>2. /\ getNewOutputDevices(q)' # {} /\ getNewOutputDevices(q)' \cap Supports[q] # {}
      /\ isActive(q)' \/ (phone = "IN_CALL" /\ q = "primary")
      /\ isInCall => sharesHwModuleWith(q, "primary")
    BY <1>1, StartWants DEF Heard, Reaches
\* An output that was heard, and of which the same is wanted.
<1>3. ASSUME getNewOutputDevices(q)' = getNewOutputDevices(q),
             q # o \/ isActive(q) \/ (phone = "IN_CALL" /\ q = "primary"),
             calls \cap ToSet(route.patches) \cap Lasting(q) \subseteq Patched(outs, want, force)
      PROVE  EndsIn(route'.patches, Lasting(q), Right(q)')
  <2>1. Heard(q)
      BY <1>1, <1>2, <1>3, StartWants DEF Heard, Reaches
  <2>2. EndsIn(route.patches, Lasting(q), Right(q))
      BY <1>1, <2>1 DEF RoutedInv, HeardInv
  <2>3. getNewOutputDevices(q) # {}
      BY <1>2, <1>3
  <2> QED
      BY <1>1, <1>3, <2>2, <2>3, Stable DEF RoutedInv
<1>4. calls \subseteq {o}
    BY DEF StartCalls
<1>5. CASE ~sharesHwModuleWith(o, q)
  <2>1. getNewOutputDevices(q)' = getNewOutputDevices(q)
      BY <1>1, <1>2, <1>5, StartWants
  <2>2. q # o /\ o \notin Lasting(q)
      BY <1>5 DEF Lasting, sharesHwModuleWith
  <2>3. calls \cap ToSet(route.patches) \cap Lasting(q) \subseteq Patched(outs, want, force)
      BY <1>4, <2>2
  <2> QED
      BY <1>3, <2>1, <2>2, <2>3
<1>6. CASE sharesHwModuleWith(o, q)
  <2>0. w # {} /\ getNewOutputDevices(q)' = w
    <3>1. w # {}
        BY <1>1, StartWants, EngineNextRule DEF EngineRule
    <3> QED
        BY <1>1, <1>2, <1>6, <3>1, EngineNextRule DEF EngineRule
  \* A direct output that plays music is no part of what is heard elsewhere.
  <2>1. CASE o \notin Lasting(q)
    <3>1. o \in Direct /\ q # o
        BY <1>1, <1>6, <2>1 DEF Lasting, sharesHwModuleWith
    <3>2. Stream[t] = "MUSIC"
        BY <3>1 DEF OneBackend, MixedSounds
    <3>3. getNewOutputDevices(q)' = getNewOutputDevices(q)
        BY <1>1, <3>1, <3>2, StartWants
    <3>4. calls \cap ToSet(route.patches) \cap Lasting(q)
             \subseteq Patched(outs, want, force)
        BY <1>4, <2>1
    <3> QED
        BY <1>3, <3>1, <3>3, <3>4
  <2>2. CASE o \in Lasting(q) /\ calls = {o} /\ Patched(outs, want, force) = {o}
    <3>1. Patched(outs, want, force) \cap Lasting(q) # {}
        BY <2>2
    <3>2. \A p \in ToSet(outs) :
             sharesHwModuleWith(q, p) => want[p] = getNewOutputDevices(p)'
        OBVIOUS
    <3> QED
        BY <1>1, <1>2, <3>1, <3>2, Renewed DEF RoutedInv
  <2>3. CASE calls = {} /\ isInCall /\ Playing("ENFORCED_AUDIBLE")' = {}
    <3>1. getNewOutputDevices(q)' = getNewOutputDevices(q)
        BY <1>1, <2>3, StartWants
    <3>2. CASE q # o
      <4>1. calls \cap ToSet(route.patches) \cap Lasting(q)
               \subseteq Patched(outs, want, force)
          BY <2>3
      <4> QED
          BY <1>3, <3>1, <3>2, <4>1
    <3>3. CASE q = o
      <4>1. /\ o \in ToSet(route.patches) /\ route.devices[o] = w
            /\ \A p \in ToSet(route.patches) :
                  sharesHwModuleWith(o, p) /\ w \cap Supports[p] # {}
                      => route.devices[p] = w
          BY <1>2, <2>3, <3>3 DEF StartCalls
      <4>2. EndsIn(route.patches, CallLasting, CallReached)
          BY <2>3, StartWants DEF RoutedInv, CallInv
      <4>3. w = PhoneDevices /\ PhoneDevices # {}
        <5>1. WantRule' /\ isInCall'
            BY <2>3, WantsNext, StartWants
        <5>2. w = PhoneDevices'
            BY <1>1, <2>3, <5>1 DEF WantRule
        <5> QED
            BY <2>0, <5>2, StartWants
      <4>4. CallReached \cap ToSet(route.patches) \subseteq Right(q)'
        <5> SUFFICES ASSUME NEW p \in CallReached \cap ToSet(route.patches),
                            sharesHwModuleWith(q, p)
                     PROVE  p \in Outputs /\ route'.devices[p] = getNewOutputDevices(q)'
            BY DEF Right, CallReached
        <5>1. p \in Outputs /\ p \in mOutputs'
            BY <1>1 DEF RoutedInv, PatchInv, OutputsOK
        <5>2. sharesHwModuleWith(p, "primary")
            BY <1>2, <2>3 DEF sharesHwModuleWith
        <5>3. w \cap Supports[p] # {}
            BY <4>3, <5>2 DEF CallReached
        <5>4. route.devices[p] = w
            BY <3>3, <4>1, <5>3
        <5>5. p \notin Patched(outs, want, force)
            BY <1>0, <2>3
        <5>6. route'.devices[p] = route.devices[p]
            BY <1>0, <5>1, <5>5
        <5> QED
            BY <2>0, <5>1, <5>4, <5>6
      <4>5. CallLasting \subseteq Lasting(q)
          BY <1>2, <2>3 DEF CallLasting, Lasting, sharesHwModuleWith
      <4>6. EndsIn(route.patches, Lasting(q), CallReached)
          BY <4>2, <4>5, EndsWider
      <4> QED
          BY <1>1, <2>3, <4>4, <4>6, NotCalled DEF RoutedInv
    <3> QED
        BY <3>2, <3>3
  <2>4. CASE o \in Lasting(q) /\ calls = {} /\ ~(isInCall /\ Playing("ENFORCED_AUDIBLE")' = {})
    <3>0. ~(isInCall /\ Playing("ENFORCED_AUDIBLE") = {})'
        BY <2>4, StartWants
    <3>1. w \cap Supports[o] # {}
        BY <1>1, <1>2, <1>6, <2>0, <3>0, ReachAlike DEF sharesHwModuleWith
    <3>2. /\ o \in ToSet(route.patches) /\ route.devices[o] = w
          /\ \A p \in ToSet(route.patches) :
                sharesHwModuleWith(o, p) /\ w \cap Supports[p] # {}
                    => route.devices[p] = w
        BY <2>4, <3>1 DEF StartCalls
    <3>3. ToSet(route.patches) \subseteq Right(q)'
      <4> SUFFICES ASSUME NEW p \in ToSet(route.patches), sharesHwModuleWith(q, p)
                   PROVE  p \in Outputs /\ route'.devices[p] = getNewOutputDevices(q)'
          BY <1>1 DEF Right, RoutedInv, PatchInv, OutputsOK
      <4>1. p \in Outputs /\ p \in mOutputs'
          BY <1>1 DEF RoutedInv, PatchInv, OutputsOK
      <4>2. sharesHwModuleWith(o, p) /\ sharesHwModuleWith(p, o)
          BY <1>6 DEF sharesHwModuleWith
      <4>3. w \cap Supports[p] # {}
          BY <1>1, <3>0, <3>1, <4>1, <4>2, ReachAlike DEF sharesHwModuleWith
      <4>4. route.devices[p] = w
          BY <3>2, <4>2, <4>3
      <4>5. p \notin Patched(outs, want, force)
          BY <1>0, <2>4
      <4>6. route'.devices[p] = route.devices[p]
          BY <1>0, <4>1, <4>5
      <4> QED
          BY <2>0, <4>1, <4>4, <4>6
    <3>4. EndsIn(route.patches, Lasting(q), ToSet(route.patches))
        BY <2>4, <3>2, EndsWhole DEF RoutedInv, PatchInv
    <3> QED
        BY <1>1, <2>4, <3>3, <3>4, NotCalled DEF RoutedInv
  <2> QED
      BY <1>6, <2>1, <2>2, <2>3, <2>4 DEF StartCalls
<1> QED
    BY <1>5, <1>6

\* A track that starts.
LEMMA StartRouted ==
    ASSUME OneBackend, OutputsOK, OutputsOK', ReachInv, ReachInv', RoutedInv,
           NEW t \in Tracks, StartSource(t)
    PROVE  RoutedInv'
<1> DEFINE o == Output[t]
<1>1. /\ Started(t) /\ o \in mOutputs /\ o \in Outputs /\ mOutputs' = mOutputs
      /\ mOutputs \subseteq Outputs
  <2>1. Started(t) /\ o \in mOutputs
      BY DEF StartSource, Started, devVars, hdmiVars, openVars, engineVars
  <2> QED
      BY <2>1 DEF Started, OutputsOK
<1>2. CASE getActivityCount(o, Stream[t])' # 1
  <2>1. route' = route
      BY <1>2 DEF StartSource, routeVars
  <2>2. PICK u \in active : Output[u] = o /\ Stream[u] = Stream[t]
    <3> DEFINE same == {u \in active' : Output[u] = o /\ Stream[u] = Stream[t]}
    <3>1. getActivityCount(o, Stream[t])' = Cardinality(same)
      <4>1. {u \in On(o)' : Stream[u] = Stream[t]} = same
          BY DEF On
      <4> QED
          BY <4>1 DEF getActivityCount
    <3>2. same # {t}
        BY <1>2, <3>1, FS_Singleton
    <3>3. t \in same
        BY <1>1 DEF Started
    <3>4. PICK u \in same : u # t
        BY <3>2, <3>3
    <3> QED
        BY <1>1, <3>4 DEF Started
  <2>3. SameSounds
      BY <1>1, <2>2 DEF Started, SameSounds
  <2> QED
      BY <1>1, <2>1, <2>3, TwinRouted
<1>3. CASE getActivityCount(o, Stream[t])' = 1
  <2>1. PICK outs, want, force :
           /\ Routes(outs, want, force, FALSE)
           /\ ToSet(outs) = {o}
           /\ \A p \in ToSet(outs) : want[p] = getNewOutputDevices(p)'
           /\ StartCalls(t, outs, want, force)
      BY <1>3, StartRoutes DEF RoutedInv
  <2>2. HeardInv'
    <3> SUFFICES ASSUME NEW q \in mOutputs', Heard(q)'
                 PROVE  EndsIn(route'.patches, Lasting(q), Right(q)')
        BY DEF HeardInv, Lasting, sharesHwModuleWith
    <3> QED
        BY <1>1, <2>1, StartHeard
  <2>3. WantRule'
      BY WantsNext
  <2>4. CallInv'
    <3>1. Called(outs, want, force) \subseteq Patched(outs, want, force)
        BY <2>1 DEF StartCalls
    <3>2. CallReached \subseteq CallReached' /\ isInCall' = isInCall
        BY <1>1, StartWants DEF CallReached
    <3>3. Playing("ENFORCED_AUDIBLE")' = {} => Playing("ENFORCED_AUDIBLE") = {}
        BY <1>1, StartWants
    <3> QED
        BY <1>1, <2>1, <2>3, <3>1, <3>2, <3>3, CallStable DEF RoutedInv
  \* The track's output is patched, or has what the engine wants of it.
  <2>5. ASSUME getNewOutputDevices(o)' \cap Supports[o] # {}
        PROVE  \/ o \in Patched(outs, want, force)
               \/ route.devices[o] = getNewOutputDevices(o)'
      BY <2>1, <2>5 DEF StartCalls
  <2>6. SoundInv'
    <3>1. ASSUME NEW u \in active', Stream[u] # "MUSIC",
                 isInCall' => Stream[u] = "ENFORCED_AUDIBLE"
          PROVE  \/ route.devices[Output[u]] = {"speaker"}
                 \/ Output[u] \in Patched(outs, want, force)
      <4>1. CASE u = t
        <5>1. getNewOutputDevices(o)' = {"speaker"} /\ "speaker" \in Supports[o]
            BY <1>1, <2>3, <3>1, <4>1 DEF WantRule, sharesHwModuleWith
        <5> QED
            BY <2>5, <4>1, <5>1
      <4>2. CASE u # t
          BY <1>1, <3>1, <4>2, StartWants DEF RoutedInv, SoundInv, Started
      <4> QED
          BY <4>1, <4>2
    <3> QED
        BY <2>1, <2>3, <3>1, SoundKept
  <2>7. MusicInv'
    <3>1. ASSUME ~isInCall', NEW q \in mOutputs', isActive(q)', MediaDevices' \subseteq Supports[q]
          PROVE  route.devices[q] # {} \/ q \in Patched(outs, want, force)
      <4>1. CASE q = o
        <5>1. getNewOutputDevices(o)' \cap Supports[o] # {}
            BY <1>1, <2>3, <3>1, <4>1 DEF WantRule, Reaches
        <5> QED
            BY <2>5, <4>1, <5>1
      <4>2. CASE q # o
          BY <1>1, <3>1, <4>2, StartWants DEF RoutedInv, MusicInv
      <4> QED
          BY <4>1, <4>2
    <3> QED
        BY <2>1, <3>1, MusicKept
  <2>8. PatchInv'
      BY <2>1, RoutesLists DEF RoutedInv
  <2> QED
      BY <2>2, <2>4, <2>6, <2>7, <2>8 DEF RoutedInv
<1> QED
    BY <1>2, <1>3

\* What the engine wants once the track t is gone: of an output that it still
\* wants something of it wants another thing only if t was the last enforced
\* sound in a call, or the last sound but music of a module out of a call.
Stopped(t) ==
    /\ active' = active \ {t} /\ t \in active
    /\ UNCHANGED <<phone, forceUse, dpForVoice, mAvailableOutputDevices, mOutputs>>

LEMMA StopWants ==
    ASSUME OneBackend, OutputsOK, NEW t \in Tracks, Stopped(t)
    PROVE  /\ isInCall' = isInCall /\ PhoneDevices' = PhoneDevices
           /\ MediaDevices' = MediaDevices
           /\ Playing("ENFORCED_AUDIBLE")' \subseteq Playing("ENFORCED_AUDIBLE")
           /\ Playing("ENFORCED_AUDIBLE")' = {} /\ Playing("ENFORCED_AUDIBLE") # {}
                  => Stream[t] = "ENFORCED_AUDIBLE"
           /\ \A p \in Outputs : isActive(p)' => isActive(p)
           /\ \A p \in Outputs :
                 /\ isInCall => sharesHwModuleWith(p, "primary")
                 /\ getNewOutputDevices(p)' # {}
                 /\ getNewOutputDevices(p)' # getNewOutputDevices(p)
                 => \/ /\ isInCall /\ Playing("ENFORCED_AUDIBLE") # {}
                       /\ Playing("ENFORCED_AUDIBLE")' = {}
                    \/ /\ ~isInCall /\ Stream[t] # "MUSIC"
                       /\ sharesHwModuleWith(Output[t], p)
                       /\ getNewOutputDevices(p)' = MediaDevices
                       /\ getNewOutputDevices(p) = {"speaker"}
                       /\ \A u \in active' : Stream[u] # "MUSIC"
                             => ~sharesHwModuleWith(Output[u], p)
<1>1. /\ isInCall' = isInCall /\ PhoneDevices' = PhoneDevices
      /\ MediaDevices' = MediaDevices
    BY DEF Stopped, isInCall, PhoneDevices, MediaDevices
<1>2. /\ Playing("ENFORCED_AUDIBLE")' \subseteq Playing("ENFORCED_AUDIBLE")
      /\ Playing("ENFORCED_AUDIBLE")' = {} /\ Playing("ENFORCED_AUDIBLE") # {}
             => Stream[t] = "ENFORCED_AUDIBLE"
    BY DEF Stopped, Playing
<1>3. \A p \in Outputs : (isActive(p)' => isActive(p)) /\ On(p)' \subseteq On(p)
    BY DEF Stopped, isActive, On
<1>4. ASSUME NEW p \in Outputs, isInCall => sharesHwModuleWith(p, "primary"),
             getNewOutputDevices(p)' # {}, getNewOutputDevices(p)' # getNewOutputDevices(p),
             ~(/\ isInCall /\ Playing("ENFORCED_AUDIBLE") # {}
               /\ Playing("ENFORCED_AUDIBLE")' = {})
      PROVE  /\ ~isInCall /\ Stream[t] # "MUSIC"
             /\ sharesHwModuleWith(Output[t], p)
             /\ getNewOutputDevices(p)' = MediaDevices
             /\ getNewOutputDevices(p) = {"speaker"}
             /\ \A u \in active' : Stream[u] # "MUSIC"
                             => ~sharesHwModuleWith(Output[u], p)
  <2> DEFINE Loud  == \E u \in active : Stream[u] # "MUSIC" /\ sharesHwModuleWith(Output[u], p)
             LoudThen == \E u \in active' : /\ Stream[u] # "MUSIC"
                                            /\ sharesHwModuleWith(Output[u], p)
             Call == isInCall /\ Playing("ENFORCED_AUDIBLE") = {}
  <2>1. (isInCall /\ Playing("ENFORCED_AUDIBLE") = {})' <=> Call
      BY <1>1, <1>2, <1>4
  <2>2. getNewOutputDevices(p) =
           IF Call THEN PhoneDevices
           ELSE IF Loud THEN {"speaker"}
           ELSE IF \E u \in On(p) : Stream[u] = "MUSIC" THEN MediaDevices ELSE {}
      BY DEF getNewOutputDevices
  <2>3. getNewOutputDevices(p)' =
           IF Call THEN PhoneDevices
           ELSE IF LoudThen THEN {"speaker"}
           ELSE IF \E u \in On(p)' : Stream[u] = "MUSIC" THEN MediaDevices ELSE {}
    <3>1. getNewOutputDevices(p)' =
           IF (isInCall /\ Playing("ENFORCED_AUDIBLE") = {})' THEN PhoneDevices'
           ELSE IF LoudThen THEN {"speaker"}
           ELSE IF \E u \in On(p)' : Stream[u] = "MUSIC" THEN MediaDevices' ELSE {}
        BY DEF getNewOutputDevices, sharesHwModuleWith
    <3> QED
        BY <1>1, <2>1, <3>1
  <2>4. LoudThen => Loud
      BY DEF Stopped
  <2>5. ~Call /\ ~LoudThen /\ Loud
      BY <1>3, <1>4, <2>2, <2>3, <2>4
  <2>6. /\ getNewOutputDevices(p) = {"speaker"}
        /\ getNewOutputDevices(p)' = MediaDevices
      BY <1>4, <2>2, <2>3, <2>5
  <2>7. Stream[t] # "MUSIC" /\ sharesHwModuleWith(Output[t], p)
      BY <2>5 DEF Stopped
  <2>8. ~isInCall
    <3> SUFFICES ASSUME isInCall PROVE FALSE
        OBVIOUS
    <3>1. PICK u \in active' : Stream[u] = "ENFORCED_AUDIBLE"
        BY <1>4, <2>5 DEF Playing
    <3>2. u \in Tracks
        BY <3>1 DEF Stopped, OutputsOK
    <3>3. sharesHwModuleWith(Output[u], "primary")
        BY <3>1, <3>2 DEF OneBackend, OneCallModule
    <3>4. sharesHwModuleWith(Output[u], p)
        BY <1>4, <3>3 DEF sharesHwModuleWith
    <3> QED
        BY <2>5, <3>1, <3>4
  <2> QED
      BY <2>5, <2>6, <2>7, <2>8
<1> QED
    BY <1>1, <1>2, <1>3, <1>4

\* The track's output is routed, and the rest that is active; the HAL is told
\* of what is not there or has to be told.
StopCalls(t, outs, want, force) ==
    /\ ToSet(outs) = {Output[t]} \cup Rest(Output[t])
    /\ \A p \in ToSet(outs) : want[p] = getNewOutputDevices(p)'
    /\ Called(outs, want, force) \cap ToSet(route.patches) \subseteq Patched(outs, want, force)
    /\ LET o == Output[t]
       IN  getNewOutputDevices(o)' \cap Supports[o] \notin {{}, route.devices[o]}
               => o \in Patched(outs, want, force)
    /\ \A p \in Rest(Output[t]) :
          /\ getNewOutputDevices(p)' \cap Supports[p] # {}
          /\ getNewOutputDevices(p)' # route.devices[Output[t]]
          => p \in Patched(outs, want, force)

\* stopSource routes the output when the track was the last of its stream there.
LEMMA StopRoutes ==
    ASSUME OutputsOK, ReachInv, NEW t \in Tracks, StopSource(t),
           getActivityCount(Output[t], Stream[t])' = 0
    PROVE  \E outs, want, force, volumes :
              Routes(outs, want, force, volumes) /\ StopCalls(t, outs, want, force)
<1> DEFINE o == Output[t]
           before == route.devices[o]
           rest == Rest(o)
           outs == <<o>> \o InOrder(rest)
           want == Wanted'
           force == {p \in rest : getNewOutputDevices(p)' # before}
           volumes == rest # {}
<1>1. /\ setOutputDevices(outs, want, force, volumes)
      /\ o \in mOutputs /\ mOutputs' = mOutputs /\ mOutputs \subseteq Outputs
      /\ rest \subseteq mOutputs /\ o \notin rest
      /\ \A p \in rest : isActive(p)'
  <2>1. setOutputDevices(outs, want, force, volumes) /\ mOutputs' = mOutputs
      BY DEF StopSource, openVars
  <2>2. t \in active
      BY DEF StopSource
  <2> QED
      BY <2>1, <2>2 DEF OutputsOK, ReachInv, Rest
<1>2. outs \in Seq(Outputs) /\ ToSet(outs) = {o} \cup rest
  <2>0. <<o>> \in Seq(Outputs) /\ ToSet(<<o>>) = {o}
    <3>1. o \in Outputs
        BY <1>1
    <3> HIDE DEF o
    <3> QED
        BY <3>1 DEF ToSet
  <2>1. PICK a \in Seq(Outputs) : a = <<o>> /\ ToSet(a) = {o}
      BY <2>0
  <2>2. rest \in SUBSET Outputs
      BY <1>1
  <2> HIDE DEF rest
  <2>3. PICK b \in Seq(Outputs) : b = InOrder(rest) /\ ToSet(b) = rest
      BY <2>2, InOrderElements
  <2>4. a \o b \in Seq(Outputs) /\ ToSet(a \o b) = ToSet(a) \cup ToSet(b)
      BY JoinElements
  <2> QED
      BY <2>1, <2>3, <2>4
<1>3. \A p \in Outputs : want[p] = getNewOutputDevices(p)'
    BY DEF Wanted
<1>4. /\ \A p \in rest : getNewOutputDevices(p)' # {}
      /\ force \subseteq rest
    BY <1>1, EngineNextRule DEF EngineRule
<1>5. \A p \in rest : getNewOutputDevices(p)' # before => p \in force
    OBVIOUS
<1> HIDE DEF outs, want, force, volumes, rest, before
<1>6. Routes(outs, want, force, volumes)
    BY <1>1, <1>2 DEF Routes
<1>7. \A p \in ToSet(outs) : p \in Outputs /\ want[p] = getNewOutputDevices(p)'
    BY <1>1, <1>2, <1>3
<1>8. /\ Called(outs, want, force) \subseteq ToSet(outs)
      /\ \A p \in ToSet(outs) :
            /\ p \in Called(outs, want, force) <=>
                  /\ want[p] = {} \/ want[p] \cap Supports[p] # {}
                  /\ \/ want[p] \cap Supports[p] \notin {{}, route.devices[p]}
                     \/ p \in force \/ p \notin ToSet(route.patches)
            /\ p \in Patched(outs, want, force) <=>
                  p \in Called(outs, want, force) /\ want[p] \cap Supports[p] # {}
  <2>1. \A p \in Outputs :
            /\ p \in Called(outs, want, force) <=>
                  /\ p \in ToSet(outs)
                  /\ want[p] = {} \/ want[p] \cap Supports[p] # {}
                  /\ \/ want[p] \cap Supports[p] \notin {{}, route.devices[p]}
                     \/ p \in force \/ p \notin ToSet(route.patches)
            /\ p \in Patched(outs, want, force) <=>
                  p \in Called(outs, want, force) /\ want[p] \cap Supports[p] # {}
      BY <1>6, Routing
  <2>2. Called(outs, want, force) \subseteq ToSet(outs)
      BY <1>6, Routing
  <2> QED
      BY <1>7, <2>1, <2>2
<1>9. Called(outs, want, force) \cap ToSet(route.patches) \subseteq Patched(outs, want, force)
  <2> SUFFICES ASSUME NEW p \in Called(outs, want, force), p \in ToSet(route.patches),
                      want[p] \cap Supports[p] = {}
               PROVE  FALSE
      BY <1>8
  <2>1. p \in ToSet(outs) /\ want[p] = {} /\ p \in force
      BY <1>8
  <2> QED
      BY <1>4, <1>7, <2>1
<1>10. getNewOutputDevices(o)' \cap Supports[o] \notin {{}, route.devices[o]}
          => o \in Patched(outs, want, force)
  <2>1. o \in ToSet(outs)
      BY <1>2
  <2> HIDE DEF o
  <2> QED
      BY <1>7, <1>8, <2>1
<1>11. ASSUME NEW p \in rest, getNewOutputDevices(p)' \cap Supports[p] # {},
              getNewOutputDevices(p)' # before
       PROVE  p \in Patched(outs, want, force)
  <2>1. p \in ToSet(outs) /\ p \in force
      BY <1>2, <1>5, <1>11
  <2> QED
      BY <1>7, <1>8, <1>11, <2>1
<1>12. StopCalls(t, outs, want, force)
    BY <1>2, <1>7, <1>9, <1>10, <1>11 DEF StopCalls, rest, before
<1> QED
    BY <1>6, <1>12

\* When the last enforced sound of a call stops, its output is patched.
LEMMA StopInCall ==
    ASSUME OneBackend, OutputsOK, OutputsOK', RoutedInv,
           NEW t \in Tracks, Stopped(t), NEW outs, NEW want, NEW force, NEW volumes,
           Routes(outs, want, force, volumes), StopCalls(t, outs, want, force),
           isInCall, Playing("ENFORCED_AUDIBLE") # {}, Playing("ENFORCED_AUDIBLE")' = {}
    PROVE  /\ sharesHwModuleWith(Output[t], "primary")
           /\ Output[t] \notin Direct
           /\ Output[t] \in Patched(outs, want, force)
<1> DEFINE o == Output[t]
<1>1. Stream[t] = "ENFORCED_AUDIBLE" /\ isInCall' /\ o \in Outputs /\ t \in active
    BY StopWants, TracksAssumption DEF Stopped
<1>2. /\ o \notin Direct /\ sharesHwModuleWith(o, "primary")
      /\ Attached \cup {"aux"} \subseteq Supports[o]
    BY <1>1 DEF OneBackend, OneCallModule, MixedSounds
<1>3. route.devices[o] = {"speaker"}
    BY <1>1 DEF RoutedInv, SoundInv
<1>4. getNewOutputDevices(o)' = PhoneDevices'
  <2>1. WantRule'
      BY WantsNext
  <2> QED
      BY <1>1, <2>1 DEF WantRule
<1>5. PhoneDevices' \in {{"earpiece"}, {"sco"}, {"aux"}}
    BY EngineNextRule DEF EngineRule
<1>6. PhoneDevices' \cap Supports[o] \notin {{}, {"speaker"}}
    BY <1>2, <1>5 DEF Attached
<1>7. o \in Patched(outs, want, force)
    BY <1>3, <1>4, <1>6 DEF StopCalls
<1> QED
    BY <1>2, <1>7

\* Whatever is heard once a track has stopped is heard right: if the sound that
\* is gone decided for its module, the outputs left there are patched again.
LEMMA StopHeard ==
    ASSUME OneBackend, OutputsOK, OutputsOK', RoutedInv,
           NEW t \in Tracks, Stopped(t), NEW outs, NEW want, NEW force, NEW volumes,
           Routes(outs, want, force, volumes), StopCalls(t, outs, want, force),
           NEW q \in mOutputs', Heard(q)'
    PROVE  EndsIn(route'.patches, Lasting(q), Right(q)')
<1> DEFINE o == Output[t]
<1>1. /\ q \in mOutputs /\ q \in Outputs /\ o \in Outputs /\ mOutputs' = mOutputs
      /\ phone' = phone /\ t \in active
    BY TracksAssumption DEF OutputsOK, Stopped
<1>2. /\ getNewOutputDevices(q)' # {} /\ getNewOutputDevices(q)' \cap Supports[q] # {}
      /\ isActive(q)' \/ (phone = "IN_CALL" /\ q = "primary")
      /\ isInCall => sharesHwModuleWith(q, "primary")
    BY <1>1, StopWants DEF Heard, Reaches
<1>3. \A p \in ToSet(outs) : want[p] = getNewOutputDevices(p)'
    BY DEF StopCalls
\* An output that lasts is patched.
<1>4. ASSUME NEW p \in Lasting(q), p \in Patched(outs, want, force)
      PROVE  EndsIn(route'.patches, Lasting(q), Right(q)')
  <2>1. Patched(outs, want, force) \cap Lasting(q) # {}
      BY <1>4
  <2>2. \A r \in ToSet(outs) :
           sharesHwModuleWith(q, r) => want[r] = getNewOutputDevices(r)'
      BY <1>3
  <2> QED
      BY <1>1, <1>2, <2>1, <2>2, Renewed DEF RoutedInv
<1>5. CASE getNewOutputDevices(q)' = getNewOutputDevices(q)
  <2>1. Heard(q)
      BY <1>1, <1>2, <1>5, StopWants DEF Heard, Reaches
  <2>2. EndsIn(route.patches, Lasting(q), Right(q)) /\ getNewOutputDevices(q) # {}
      BY <1>1, <1>2, <1>5, <2>1 DEF RoutedInv, HeardInv
  <2>3. Called(outs, want, force) \cap ToSet(route.patches) \cap Lasting(q)
           \subseteq Patched(outs, want, force)
      BY DEF StopCalls
  <2>4. \A r \in ToSet(outs) :
           sharesHwModuleWith(q, r) => want[r] = getNewOutputDevices(r)'
      BY <1>3
  <2> QED
      BY <1>1, <1>5, <2>2, <2>3, <2>4, Stable DEF RoutedInv
<1>6. CASE /\ isInCall /\ Playing("ENFORCED_AUDIBLE") # {}
           /\ Playing("ENFORCED_AUDIBLE")' = {}
  <2>1. /\ sharesHwModuleWith(o, "primary") /\ o \notin Direct
        /\ o \in Patched(outs, want, force)
      BY <1>6, StopInCall
  <2>2. o \in Lasting(q)
      BY <1>1, <1>2, <1>6, <2>1 DEF Lasting, sharesHwModuleWith
  <2> QED
      BY <1>4, <2>1, <2>2
<1>7. CASE /\ ~isInCall /\ Stream[t] # "MUSIC"
           /\ sharesHwModuleWith(o, q)
           /\ getNewOutputDevices(q)' = MediaDevices
           /\ getNewOutputDevices(q) = {"speaker"}
           /\ \A u \in active' : Stream[u] # "MUSIC" => ~sharesHwModuleWith(Output[u], q)
           /\ MediaDevices # {"speaker"}
  <2>1. /\ o \notin Direct /\ o \in Lasting(q) /\ q \in Lasting(q)
        /\ route.devices[o] = {"speaker"}
      BY <1>1, <1>7 DEF OneBackend, MixedSounds, Lasting, sharesHwModuleWith, RoutedInv,
                        SoundInv
  <2>2. isActive(q)' /\ isActive(q)
      BY <1>1, <1>2, <1>7, StopWants DEF isInCall
  <2>3. MediaDevices \in {{"speaker"}, {"aux"}, {"usb"}} /\ MediaDevices' = MediaDevices
      BY Engine, StopWants DEF EngineRule
  <2>4. CASE isActive(o)'
    <3>1. getNewOutputDevices(o)' = MediaDevices
        BY <1>1, <1>2, <1>7, <2>4, EngineNextRule DEF EngineRule
    <3>2. ~isInCall'
        BY <1>7, StopWants
    <3>3. getNewOutputDevices(o)' \cap Supports[o] # {}
        BY <1>1, <1>2, <1>7, <3>1, <3>2, ReachAlike DEF sharesHwModuleWith
    <3>4. getNewOutputDevices(o)' \cap Supports[o] \notin {{}, {"speaker"}}
        BY <1>7, <2>3, <3>1, <3>3
    <3>5. o \in Patched(outs, want, force)
        BY <2>1, <3>4 DEF StopCalls
    <3> QED
        BY <1>4, <2>1, <3>5
  <2>5. CASE ~isActive(o)'
    <3>1. getNewOutputDevices(o)' = {}
      <4>1. ~isInCall'
          BY <1>7, StopWants
      <4>2. ~\E u \in active' : Stream[u] # "MUSIC" /\ sharesHwModuleWith(Output[u], o)
          BY <1>7 DEF sharesHwModuleWith
      <4>3. ~\E u \in On(o)' : Stream[u] = "MUSIC"
          BY <2>5 DEF isActive
      <4> QED
          BY <4>1, <4>2, <4>3 DEF getNewOutputDevices, sharesHwModuleWith
    <3>2. q # o
        BY <2>2, <2>5
    <3>3. route.devices[q] # {}
      <4>1. MediaDevices \subseteq Supports[q]
          BY <1>2, <1>7, <2>3
      <4> QED
          BY <1>1, <1>7, <2>2, <4>1 DEF RoutedInv, MusicInv
    <3>4. q \in Rest(o)
        BY <1>1, <1>7, <2>2, <3>1, <3>2, <3>3 DEF Rest
    <3>5. q \in Patched(outs, want, force)
        BY <1>2, <1>7, <2>1, <3>4 DEF StopCalls
    <3> QED
        BY <1>4, <2>1, <3>5
  <2> QED
      BY <2>4, <2>5
<1> QED
    BY <1>1, <1>2, <1>5, <1>6, <1>7, StopWants

\* A track that stops.
LEMMA StopRouted ==
    ASSUME OneBackend, OutputsOK, OutputsOK', ReachInv, ReachInv', RoutedInv,
           NEW t \in Tracks, StopSource(t)
    PROVE  RoutedInv'
<1> DEFINE o == Output[t]
<1>1. /\ Stopped(t) /\ mOutputs' = mOutputs /\ mOutputs \subseteq Outputs /\ o \in Outputs
  <2>1. Stopped(t)
      BY DEF StopSource, Stopped, devVars, hdmiVars, openVars, engineVars
  <2> QED
      BY <2>1, TracksAssumption DEF Stopped, OutputsOK
<1>2. CASE getActivityCount(o, Stream[t])' # 0
  <2>1. route' = route
      BY <1>2 DEF StopSource, routeVars
  <2>2. PICK u \in active' : Output[u] = o /\ Stream[u] = Stream[t]
    <3>1. {u \in On(o)' : Stream[u] = Stream[t]} # {}
        BY <1>2, FS_EmptySet DEF getActivityCount
    <3> QED
        BY <3>1 DEF On
  <2>3. SameSounds
      BY <1>1, <2>2 DEF Stopped, SameSounds
  <2> QED
      BY <1>1, <2>1, <2>3, TwinRouted
<1>3. CASE getActivityCount(o, Stream[t])' = 0
  <2>1. PICK outs, want, force, volumes :
           Routes(outs, want, force, volumes) /\ StopCalls(t, outs, want, force)
      BY <1>3, StopRoutes
  <2>2. HeardInv'
    <3> SUFFICES ASSUME NEW q \in mOutputs', Heard(q)'
                 PROVE  EndsIn(route'.patches, Lasting(q), Right(q)')
        BY DEF HeardInv, Lasting, sharesHwModuleWith
    <3> QED
        BY <1>1, <2>1, StopHeard
  <2>3. WantRule'
      BY WantsNext
  <2>4. /\ \A p \in ToSet(outs) : want[p] = getNewOutputDevices(p)'
        /\ Called(outs, want, force) \cap ToSet(route.patches)
              \subseteq Patched(outs, want, force)
      BY <2>1 DEF StopCalls
  <2>5. CallInv'
    <3>1. CASE /\ isInCall /\ Playing("ENFORCED_AUDIBLE") # {}
               /\ Playing("ENFORCED_AUDIBLE")' = {}
      <4>1. o \in CallLasting /\ o \in Patched(outs, want, force)
          BY <1>1, <2>1, <3>1, StopInCall DEF CallLasting
      <4> QED
          BY <2>1, <2>3, <2>4, <4>1, CallRenewed DEF RoutedInv
    <3>2. CASE ~(/\ isInCall /\ Playing("ENFORCED_AUDIBLE") # {}
                 /\ Playing("ENFORCED_AUDIBLE")' = {})
      <4>1. isInCall' = isInCall /\ CallReached \subseteq CallReached'
          BY <1>1, StopWants DEF CallReached
      <4>2. CASE ~isInCall
          BY <4>1, <4>2 DEF CallInv
      <4>3. CASE Playing("ENFORCED_AUDIBLE")' = {} => Playing("ENFORCED_AUDIBLE") = {}
          BY <1>1, <2>1, <2>3, <2>4, <4>1, <4>3, CallStable DEF RoutedInv
      <4> QED
          BY <3>2, <4>2, <4>3
    <3> QED
        BY <3>1, <3>2
  <2>6. SoundInv'
    <3>1. \A u \in active' :
             Stream[u] # "MUSIC" /\ (isInCall' => Stream[u] = "ENFORCED_AUDIBLE")
                => route.devices[Output[u]] = {"speaker"}
        BY <1>1, StopWants DEF Stopped, RoutedInv, SoundInv
    <3> QED
        BY <2>1, <2>3, <2>4, <3>1, SoundKept
  <2>7. MusicInv'
    <3>1. ~isInCall' => \A q \in mOutputs' :
             isActive(q)' /\ MediaDevices' \subseteq Supports[q] => route.devices[q] # {}
        BY <1>1, StopWants DEF RoutedInv, MusicInv
    <3> QED
        BY <2>1, <3>1, MusicKept
  <2>8. PatchInv'
      BY <2>1, RoutesLists DEF RoutedInv
  <2> QED
      BY <2>2, <2>5, <2>6, <2>7, <2>8 DEF RoutedInv
<1> QED
    BY <1>2, <1>3

\* The outputs that are opened at boot are patched, and nothing plays.
LEMMA RoutedFirst ==
    ASSUME Init
    PROVE  RoutedInv
<1>1. Boot \in SUBSET Outputs
    BY OutputsAssumption
<1>2. InOrder(Boot) \in Seq(Outputs) /\ ToSet(InOrder(Boot)) = Boot
    BY <1>1, InOrderElements
<1>3. route.patches = InOrder(Boot) /\ mOutputs = Boot
    BY DEF Init, InOrder
<1>4. PatchInv
    BY <1>2, <1>3 DEF PatchInv
<1>5. active = {} /\ ~isInCall /\ phone # "IN_CALL"
    BY DEF Init, isInCall
<1>6. \A o : ~isActive(o) /\ ~Heard(o)
    BY <1>5 DEF isActive, On, Heard
<1> QED
    BY <1>4, <1>5, <1>6 DEF RoutedInv, HeardInv, CallInv, SoundInv, MusicInv

\* Every call keeps the outputs of each module in an order in which the right one
\* is last.
LEMMA RoutedNext ==
    ASSUME OneBackend, PhoneOK, OutputsOK, OutputsOK', ReachInv, ReachInv', RoutedInv,
           [Next]_vars
    PROVE  RoutedInv'
<1>1. ASSUME EngineSame, route' = route, mOutputs \subseteq mOutputs'
      PROVE  RoutedInv'
    BY <1>1, Unrouted
<1>2. CASE DeviceNext
  <2>1. ASSUME NEW d \in Removable, NEW address \in Addresses(d),
               \/ ConnectRefused(d, address)
               \/ ConnectFails(d, address)
               \/ DisconnectRefused(d, address)
        PROVE  RoutedInv'
    <3>1. EngineSame /\ route' = route /\ mOutputs' = mOutputs
      <4>1. UNCHANGED <<dpForVoice, mAvailableOutputDevices, openVars, trackVars, engineVars,
                        routeVars>>
          BY <2>1 DEF ConnectRefused, ConnectFails, DisconnectRefused, devVars
      <4> QED
          BY <4>1 DEF EngineSame, openVars, trackVars, engineVars, routeVars
    <3> QED
        BY <1>1, <3>1
  <2>2. ASSUME NEW d \in Removable, NEW address \in Addresses(d),
               Connect(d, address) \/ Disconnect(d, address)
        PROVE  RoutedInv'
    <3>1. RerouteAll /\ UNCHANGED engineVars
        BY <2>2 DEF Connect, Disconnect
    <3> QED
        BY <3>1, DevicesRouted
  <2>3. ASSUME NEW d \in InDevices, ConnectInput(d) \/ DisconnectInput(d)
        PROVE  RoutedInv'
    <3>1. CallRouting /\ EngineSame /\ mOutputs' = mOutputs
      <4>1. /\ CallRouting
            /\ UNCHANGED <<mAvailableOutputDevices, hdmiVars, openVars, trackVars,
                           engineVars>>
          BY <2>3 DEF ConnectInput, DisconnectInput
      <4> QED
          BY <4>1 DEF EngineSame, hdmiVars, openVars, trackVars, engineVars
    <3> QED
        BY <3>1, InputsRouted
  <2>4. ASSUME NEW d \in InDevices, ConnectInputFails(d)
        PROVE  RoutedInv'
    <3>1. EngineSame /\ route' = route /\ mOutputs' = mOutputs
        BY <2>4 DEF ConnectInputFails, EngineSame, hdmiVars, openVars, trackVars,
                    engineVars, routeVars
    <3> QED
        BY <1>1, <3>1
  <2> QED
      BY <1>2, <2>1, <2>2, <2>3, <2>4 DEF DeviceNext
<1>3. CASE TrackNext
  <2>1. ASSUME NEW o \in Direct, NEW isDsd \in BOOLEAN, OpenDirect(o, isDsd)
        PROVE  RoutedInv'
    <3>1. EngineSame /\ route' = route /\ mOutputs \subseteq mOutputs'
        BY <2>1 DEF OpenDirect, EngineSame, devVars, hdmiVars, trackVars, engineVars,
                    routeVars
    <3> QED
        BY <1>1, <3>1
  <2> QED
      BY <1>3, <2>1, StartRouted, StopRouted, ReleaseRouted DEF TrackNext
<1>4. CASE EngineNext
  <2>1. ASSUME SetVoiceIndex PROVE RoutedInv'
    <3>1. EngineSame /\ route' = route /\ mOutputs' = mOutputs
        BY <2>1 DEF SetVoiceIndex, EngineSame, devVars, hdmiVars, openVars, trackVars,
                    engineVars
    <3> QED
        BY <1>1, <3>1
  <2> QED
      BY <1>4, <2>1, ForceUseRouted, PhoneStateRouted DEF EngineNext
<1>5. CASE UNCHANGED vars
  <2>1. EngineSame /\ route' = route /\ mOutputs' = mOutputs
      BY <1>5 DEF vars, EngineSame, devVars, hdmiVars, openVars, trackVars, engineVars,
                  routeVars
  <2> QED
      BY <1>1, <2>1
<1> QED
    BY <1>2, <1>3, <1>4, <1>5 DEF Next

\* The phone only enters modes that are entered.
LEMMA PhoneSteps == PhoneOK /\ [Next]_vars => PhoneOK'
<1> SUFFICES ASSUME PhoneOK, [Next]_vars PROVE PhoneOK'
    OBVIOUS
<1>1. ASSUME phone' = phone PROVE PhoneOK'
    BY <1>1 DEF PhoneOK
<1>2. CASE DeviceNext
  <2>1. UNCHANGED engineVars
      BY <1>2 DEF DeviceNext, ConnectRefused, ConnectFails, Connect, DisconnectRefused,
                  Disconnect, ConnectInput, ConnectInputFails, DisconnectInput
  <2> QED
      BY <1>1, <2>1 DEF engineVars
<1>3. CASE TrackNext
  <2>1. UNCHANGED engineVars
      BY <1>3 DEF TrackNext, StartSource, StopSource, ReleaseDirect, OpenDirect
  <2> QED
      BY <1>1, <2>1 DEF engineVars
<1>4. CASE EngineNext
  <2>1. ASSUME NEW usage, NEW config, setForceUse(usage, config) PROVE phone' = phone
      BY <2>1 DEF setForceUse
  <2>2. ASSUME NEW state, setPhoneState(state) PROVE PhoneOK'
      BY <2>2 DEF setPhoneState, PhoneOK
  <2>3. SetVoiceIndex => phone' = phone
      BY DEF SetVoiceIndex, engineVars
  <2> QED
      BY <1>1, <1>4, <2>1, <2>2, <2>3 DEF EngineNext
<1>5. CASE UNCHANGED vars
    BY <1>1, <1>5 DEF vars, engineVars
<1> QED
    BY <1>2, <1>3, <1>4, <1>5 DEF Next

\* After every call each output that plays, and in a call the primary one, is
\* heard where the engine wants it, whichever outputs were patched since its
\* own was: StartSource, StopSource and setPhoneState only renew some, and the
\* one that is patched last is heard.
THEOREM Routed ==
    ASSUME OneBackend
    PROVE  Spec => []RoutedAsWanted
<1>1. Init => RoutedInv /\ PhoneOK
    BY RoutedFirst DEF Init, PhoneOK
<1>2. /\ OutputsOK /\ OutputsOK' /\ ReachInv /\ ReachInv' /\ PhoneOK /\ RoutedInv
      /\ [Next]_vars
      => RoutedInv'
    BY RoutedNext
<1>3. OutputsOK /\ RoutedInv => RoutedAsWanted
    BY HeardRight DEF RoutedInv
<1> QED
    BY <1>1, <1>2, <1>3, PhoneSteps, OutputsTyped, OutputsReach, PTL DEF Spec
=============================================================================
