-------------------------- MODULE AudioConcurrency --------------------------
(***************************************************************************)
(* What AudioPolicyManagerCustom keeps apart: voice calls, playback and    *)
(* capture.  Every action is a whole call into the policy manager, which   *)
(* the audio policy service makes under its one lock.  Routing, volumes,   *)
(* muting and the devices of a track are left out; a client has an input   *)
(* of its own.  The mixed outputs are opened at boot and stay; mOutputs    *)
(* has the direct ones, which follow them in the list.                     *)
(***************************************************************************)
EXTENDS AudioOutputs, SequencesExt

CONSTANTS Tracks,        \* playback tracks
          Sessions,
          Session,       \* the audio session of each track
          Asked,         \* the requests that tracks make
          Handles,       \* handles for direct outputs
          MaxSuspends    \* bound on the suspend count

ASSUME SessionAssumption == Session \in [Tracks -> Sessions]
ASSUME HandlesAssumption ==
    /\ IsFiniteSet(Handles) /\ IsFiniteSet(Tracks)
    /\ Cardinality(Handles) >= Cardinality(Tracks)
    /\ Handles \cap {"none", "gone", "primary", "deep", "fast"} = {}

\* What is asked for comes from AudioTrack, which is not in this repository:
\* compressed data is for offload, a request for a direct output is not for a
\* fast one, and the flag of VoIP goes with its stream.
ASSUME AskedAssumption ==
    /\ Asked \subseteq Requests
    /\ \A r \in Asked :
         /\ r.format \notin LinearPcm => "COMPRESS_OFFLOAD" \in r.flags
         /\ "FAST" \in r.flags =>
               r.flags \cap {"DIRECT", "COMPRESS_OFFLOAD", "HW_AV_SYNC"} = {}
         /\ "VOIP_RX" \in r.flags => r.stream = "VOICE_CALL"
ASSUME BoundAssumption   == MaxSuspends \in Nat \ {0}

VARIABLES tracks,        \* what each track plays on
          suspended,     \* AudioFlinger's suspend count of the primary output
          recPlayConc,   \* rec_play_conc_on, as the HAL was last told
          capture,       \* the capture state of the sound trigger service
          offers         \* the format a player has been offered offload for

outVars == <<mOutputs, tracks, offers>>
inVars  == <<inputs, recPlayConc, capture, mIsInputRequestOnProgress>>
modeVars == <<phone, mPrevPhoneState, mvoice_call_state, mFallBackflag,
              suspended>>
vars == <<outVars, inVars, modeVars>>

Mixed    == {"primary", "deep", "fast"}
NoTrack  == [output |-> "none", stream |-> "MUSIC", stale |-> FALSE]
NoInput  == [state |-> "none", source |-> "MIC"]

TypeOK ==
    /\ phone \in Modes /\ mPrevPhoneState \in Modes
    /\ mvoice_call_state \in BOOLEAN
    /\ mFallBackflag \in {"NONE", "FAST", "DEEP_BUFFER"}
    /\ mIsInputRequestOnProgress \in BOOLEAN
    /\ mOutputs \in Seq([handle : Handles, format : Formats,
                         profile : {"direct", "offload", "voip"},
                         session : Sessions, opens : Nat \ {0}])
    /\ tracks \in [Tracks -> [output : Handles \cup Mixed \cup {"none", "gone"},
                              stream : Streams, stale : BOOLEAN]]
    /\ offers \in [Tracks -> Formats \cup {"none"}]
    /\ inputs \in [Clients -> [state : {"none", "idle", "active"},
                               source : Sources]]
    /\ suspended \in 0 .. MaxSuspends
    /\ recPlayConc \in BOOLEAN /\ capture \in BOOLEAN

\* The constructor leaves mvoice_call_state unset, and getFallBackPath reads
\* a string that is gone by then: it may hold what the property held or not.
Init ==
    /\ phone = "NORMAL" /\ mPrevPhoneState = "NORMAL"
    /\ mvoice_call_state \in BOOLEAN
    /\ mFallBackflag \in IF ~isVoiceConcEnabled THEN {"NONE"}
                         ELSE IF fallback_path = "deep-buffer"
                         THEN {"FAST", "DEEP_BUFFER"} ELSE {"FAST"}
    /\ mIsInputRequestOnProgress = FALSE
    /\ mOutputs = <<>>
    /\ tracks = [t \in Tracks |-> NoTrack]
    /\ offers = [t \in Tracks |-> "none"]
    /\ inputs = [c \in Clients |-> NoInput]
    /\ suspended = 0 /\ recPlayConc = FALSE /\ capture = FALSE
-----------------------------------------------------------------------------
(***************************************************************************)
(* Closing outputs and invalidating streams.                               *)
(***************************************************************************)
\* The members of a list at some of its places, in their order.
Rank(places, k) == Cardinality({j \in places : j <= k})

Pick(outs, places) ==
    [n \in 1 .. Cardinality(places) |->
        outs[CHOOSE k \in places : Rank(places, k) = n]]

\* The loops that call closeOutput go on with the next index, at which the
\* list has moved up by one: the output after a closed one is passed over, so
\* that of adjacent outputs to be closed every other one is.
ClosedAt(outs, closed, k) ==
    \E j \in 0 .. k - 1 : /\ j = 0 \/ outs[j] \notin closed
                          /\ \A n \in j + 1 .. k : outs[n] \in closed
                          /\ (k - j) % 2 = 1

CloseLoop(outs, closed) ==
    Pick(outs, {k \in DOMAIN outs : ~ClosedAt(outs, closed, k)})

IsOffload(o) == "COMPRESS_OFFLOAD" \in OutputFlags(o)

Offloads == {o \in ToSet(mOutputs) : IsOffload(o)}

HandlesOf(outs) == {outs[k].handle : k \in DOMAIN outs}

\* The tracks once the outputs other than outs are closed and the streams
\* are invalidated: a track that is stale goes through getOutput again.
Disturbed(ts, outs, streams) ==
    [t \in Tracks |->
        IF ts[t].output \in Handles /\ ts[t].output \notin HandlesOf(outs)
        THEN [ts[t] EXCEPT !.output = "gone", !.stale = TRUE]
        ELSE IF ts[t].output # "none" /\ ts[t].stream \in streams
        THEN [ts[t] EXCEPT !.stale = TRUE]
        ELSE ts[t]]

\* The loops over streams start at SYSTEM, so that VOICE_CALL is not in.
FromSystem == Streams \ {"VOICE_CALL"}
-----------------------------------------------------------------------------
(***************************************************************************)
(* getOutputForDevices                                                     *)
(***************************************************************************)
Served(r, session) ==
    /\ ~("COMPRESS_OFFLOAD" \in r.flags /\ r.stream # "MUSIC")
    /\ ~VoipRefused(FirstFlags(r, session))

\* The open output of the same profile that the request meets.
SameProfile(r, flags) == Open(DirectProfile(r, flags))

Reusable(r, flags, session) ==
    IF isAudioMultipleOffloadEnable THEN {}
    ELSE {k \in SameProfile(r, flags) : /\ mOutputs[k].format = r.format
                                        /\ mOutputs[k].session = session}

\* Direct PCM and offload are not taken from another session.
HeldByOther(r, flags, session) ==
    /\ ~isAudioMultipleOffloadEnable
    /\ \/ flags = {"DIRECT"} /\ Open("direct") # {}
       \/ "COMPRESS_OFFLOAD" \in flags /\ Open("offload") # {}
    /\ \E k \in SameProfile(r, flags) : mOutputs[k].session # session

\* What stays open when the request gets to open an output.
KeptFor(r, flags) ==
    IF isAudioMultipleOffloadEnable THEN mOutputs
    ELSE Pick(mOutputs, {k \in DOMAIN mOutputs :
                            mOutputs[k].profile # DirectProfile(r, flags)})

Plays(ts, t, r, output) ==
    [ts EXCEPT ![t] = [output |-> output, stream |-> r.stream, stale |-> FALSE]]

\* The end of the function: a mixed output for PCM, nothing for the rest.
FallBack(ts, t, r, flags) ==
    IF r.format \in LinearPcm /\ flags \cap {"HW_AV_SYNC", "MMAP_NOIRQ"} = {}
    THEN Plays(ts, t, r, MixedProfile(r, flags))
    ELSE ts

Reuse_NoCount(t, r) ==
    LET flags == FinalFlags(r, Session[t])
    IN  \E k \in Reusable(r, flags, Session[t]) :
            /\ tracks' = Plays(tracks, t, r, mOutputs[k].handle)
            /\ UNCHANGED mOutputs

Reuse(t, r) ==
    LET flags == FinalFlags(r, Session[t])
    IN  \E k \in Reusable(r, flags, Session[t]) :
            /\ mOutputs' = [mOutputs EXCEPT ![k].opens = @ + 1]
            /\ tracks' = Plays(tracks, t, r, mOutputs[k].handle)

\* An effect or master mono may keep any request off the direct outputs.
TakeMixed(t, r) ==
    LET flags == FinalFlags(r, Session[t])
    IN  /\ tracks' = FallBack(tracks, t, r, flags)
        /\ UNCHANGED mOutputs

OpenDirect(t, r) ==
    LET flags == FinalFlags(r, Session[t])
        kept  == KeptFor(r, flags)
        h     == CHOOSE h \in Handles : h \notin HandlesOf(mOutputs)
    IN  /\ mOutputs' = Append(kept, [handle |-> h, format |-> r.format,
                                     profile |-> DirectProfile(r, flags),
                                     session |-> Session[t], opens |-> 1])
        /\ tracks' = Plays(Disturbed(tracks, kept, {}), t, r, h)

\* The profile has no output left, or the HAL does not open one as asked;
\* what was open is closed all the same.
OpenFails(t, r) ==
    LET flags == FinalFlags(r, Session[t])
        kept  == KeptFor(r, flags)
    IN  /\ mOutputs' = kept
        /\ tracks' = FallBack(Disturbed(tracks, kept, {}), t, r, flags)

GetDirect(t, r) ==
    LET flags == FinalFlags(r, Session[t])
    IN  /\ ~SkipsDirect(r, flags)
        /\ IF Reusable(r, flags, Session[t]) # {} THEN Reuse(t, r)
           ELSE /\ ~HeldByOther(r, flags, Session[t])
                /\ OpenDirect(t, r) \/ OpenFails(t, r)

\* A player asks whether a format may be offloaded, and makes its track for
\* it later on.
AskOffload(t, r) ==
    /\ tracks[t].output = "none" /\ offers[t] = "none"
    /\ r.format \notin LinearPcm /\ isOffloadSupported(r)
    /\ offers' = [offers EXCEPT ![t] = r.format]
    /\ UNCHANGED <<mOutputs, tracks, inVars, modeVars>>

GetOutput(t, r) ==
    /\ tracks[t].output = "none"
    /\ offers[t] = IF r.format \in LinearPcm THEN "none" ELSE r.format
    /\ Served(r, Session[t])
    /\ offers' = [offers EXCEPT ![t] = "none"]
    /\ TakeMixed(t, r) \/ GetDirect(t, r)
    /\ UNCHANGED <<inVars, modeVars>>

\* releaseOutput: the last user of a direct output closes it.
ReleaseOutput(t) ==
    LET mine == tracks[t].output
        outs == [k \in DOMAIN mOutputs |->
                    IF mOutputs[k].handle = mine
                    THEN [mOutputs[k] EXCEPT !.opens = @ - 1]
                    ELSE mOutputs[k]]
    IN  /\ mine # "none"
        /\ mOutputs' = Pick(outs, {k \in DOMAIN outs : outs[k].opens > 0})
        /\ tracks' = [tracks EXCEPT ![t] = NoTrack]
        /\ UNCHANGED <<offers, inVars, modeVars>>
-----------------------------------------------------------------------------
(***************************************************************************)
(* getInputForAttr, startInput, stopInput, releaseInput                    *)
(***************************************************************************)
\* Which sources a voice call shuts out.
BlockedSource(source) ==
    /\ isVoiceConcEnabled
    /\ IF source = "VOICE_COMMUNICATION" THEN isVoiceVOIPConcDisabled
       ELSE isVoiceRecConcDisabled /\ source # "VOICE_CALL"

OpenInput(c, source) ==
    /\ inputs[c].state = "none"
    /\ ~(VoiceCallRuns /\ BlockedSource(source))
    /\ inputs' = [inputs EXCEPT ![c] = [state |-> "idle", source |-> source]]
    /\ UNCHANGED <<outVars, modeVars, recPlayConc, capture,
                   mIsInputRequestOnProgress>>

SetState(c, state) == [inputs EXCEPT ![c].state = state]

\* The clients whose capture runs on the primary module, less the hotword's.
Mics(ins) == {c \in Clients \ OtherModule : ins[c].state = "active"}
activeNonSoundTriggerInputs(ins) == {c \in Mics(ins) : ins[c].source # "HOTWORD"}

RecPlayBegins == isRecPlayConcEnabled /\ isRecPlayConcDisabled /\ ActiveOnPrimary = {}

\* What startInput does before it starts the input: the HAL is told, and
\* playback that does not go with capture is sent elsewhere.
AnnounceCapture ==
    IF RecPlayBegins
    THEN LET left == CloseLoop(mOutputs, Offloads)
         IN  /\ recPlayConc' = TRUE
             /\ mOutputs' = left
             /\ tracks' = Disturbed(tracks, left,
                                    FromSystem \ {"ENFORCED_AUDIBLE"})
    ELSE UNCHANGED <<recPlayConc, mOutputs, tracks>>

StartFails(c) ==
    /\ inputs[c].state = "idle"
    /\ AnnounceCapture /\ UNCHANGED offers
    /\ mIsInputRequestOnProgress' =
           (mIsInputRequestOnProgress \/ isRecPlayConcEnabled)
    /\ UNCHANGED <<inputs, capture, modeVars>>

StartInput_CountsBefore(c) ==
    /\ inputs[c].state = "idle"
    /\ AnnounceCapture /\ UNCHANGED offers
    /\ inputs' = SetState(c, "active")
    /\ capture' = (capture \/ (c \notin OtherModule
                                /\ Cardinality(Mics(inputs)) = 1))
    /\ mIsInputRequestOnProgress' = FALSE
    /\ UNCHANGED modeVars

\* The input counts as active before the first capture is looked for.
StartInput(c) ==
    /\ inputs[c].state = "idle"
    /\ AnnounceCapture /\ UNCHANGED offers
    /\ inputs' = SetState(c, "active")
    /\ capture' = (capture \/
           /\ c \notin OtherModule
           /\ LET counted == IF isVAConcEnabled
                             THEN activeNonSoundTriggerInputs(inputs')
                             ELSE Mics(inputs')
              IN  Cardinality(counted) = 1)
    /\ mIsInputRequestOnProgress' =
           (mIsInputRequestOnProgress /\ ~isRecPlayConcEnabled)
    /\ UNCHANGED modeVars

\* How the clients of a set stop, one after the other, and leave their inputs
\* ins.  The platform's own stopInput looks at those that were active, the rest
\* of the code at none: it goes on when the platform has refused.  A
\* parenthesis of the VA rule is where it does not belong: it holds for a
\* client that is not on the primary module, too.
CaptureStops(cs, ins) ==
    \/ Mics(inputs) \cap cs # {} /\ Mics(ins) = {}
    \/ /\ isVAConcEnabled
       /\ \/ cs \cap OtherModule # {}
          \/ cs # {} /\ activeNonSoundTriggerInputs(ins) = {}

RecPlayEnds_Any(cs, ins) == isRecPlayConcEnabled /\ isRecPlayConcDisabled /\ cs # {}

RecPlayEnds(cs, ins) ==
    /\ isRecPlayConcEnabled /\ isRecPlayConcDisabled
    /\ cs # {} /\ Mics(ins) = {}

FreedStreams(cs, ins) ==
    IF RecPlayEnds(cs, ins) THEN FromSystem \ {"ENFORCED_AUDIBLE"} ELSE {}

Stop(cs, ins) ==
    /\ inputs' = ins
    /\ capture' = (capture /\ ~CaptureStops(cs, ins))
    /\ recPlayConc' = (recPlayConc /\ ~RecPlayEnds(cs, ins))

\* AudioFlinger stops a client whose start has failed, too.
StopInput(c) ==
    /\ inputs[c].state # "none"
    /\ LET ins == SetState(c, "idle")
       IN  /\ Stop({c}, ins)
           /\ tracks' = Disturbed(tracks, mOutputs, FreedStreams({c}, ins))
    /\ UNCHANGED <<mOutputs, offers, mIsInputRequestOnProgress, modeVars>>

ReleaseInput(c) ==
    /\ inputs[c].state = "idle"
    /\ inputs' = [inputs EXCEPT ![c] = NoInput]
    /\ UNCHANGED <<outVars, modeVars, recPlayConc, capture,
                   mIsInputRequestOnProgress>>
-----------------------------------------------------------------------------
(***************************************************************************)
(* setPhoneState                                                           *)
(***************************************************************************)
CallBegins(new) == isVoiceConcEnabled /\ phone # "IN_CALL" /\ new = "IN_CALL"

CallEnds(new) ==
    /\ isVoiceConcEnabled /\ isVoicePlayConcDisabled
    /\ isInCall /\ new = "NORMAL"
    /\ mvoice_call_state

\* The captures that a call closes.
Cut(new) == {c \in Clients : /\ CallBegins(new)
                             /\ inputs[c].state = "active"
                             /\ BlockedSource(inputs[c].source)}

MovedStreams ==
    CASE mFallBackflag = "FAST"        -> FromSystem
      [] mFallBackflag = "DEEP_BUFFER" -> {"MUSIC"}
      [] OTHER                         -> {}

ClosedByCall(o) ==
    CASE mFallBackflag = "FAST" -> isVoicePlayConcDisabled /\ IsOffload(o)
      [] mFallBackflag = "DEEP_BUFFER" ->
             IF o.profile = "voip" THEN isVoiceVOIPConcDisabled
             ELSE isVoicePlayConcDisabled
      [] OTHER -> FALSE

\* A primary output that is a deep buffer as well is silenced for the call.
PrimarySuspends ==
    /\ mFallBackflag = "FAST" /\ isVoicePlayConcDisabled
    /\ "DEEP_BUFFER" \in OutputFlags([profile |-> "primary"])

\* The four loops over the outputs and the streams, in their order.
IsDsd(o) == isVoiceDSDConcDisabled /\ IsOffload(o) /\ o.format = "dsd"

RecPlayComm(new) ==
    isRecPlayConcEnabled /\ isRecPlayConcDisabled /\ new = "IN_COMMUNICATION"

AfterCallLoop(new) ==
    IF CallBegins(new)
    THEN CloseLoop(mOutputs, {o \in ToSet(mOutputs) : ClosedByCall(o)})
    ELSE mOutputs

AfterDsdLoop(new) ==
    CloseLoop(AfterCallLoop(new), {o \in ToSet(mOutputs) : IsDsd(o)})

AfterAllLoops(new) ==
    IF RecPlayComm(new) THEN CloseLoop(AfterDsdLoop(new), Offloads)
    ELSE AfterDsdLoop(new)

Invalidated(new, cut, ins) ==
    UNION { FreedStreams(cut, ins),
            IF (CallBegins(new) /\ isVoicePlayConcDisabled) \/ CallEnds(new)
            THEN MovedStreams ELSE {},
            IF AfterDsdLoop(new) # AfterCallLoop(new) THEN {"MUSIC"} ELSE {},
            IF RecPlayComm(new) THEN {"VOICE_CALL", "MUSIC"} ELSE {},
            IF isRecPlayConcEnabled /\ isRecPlayConcDisabled
                /\ phone = "IN_COMMUNICATION" /\ new = "NORMAL"
            THEN {"MUSIC"} ELSE {} }

Suspends(new) ==
    IF CallBegins(new) /\ PrimarySuspends
    THEN suspended + 1
    ELSE IF CallEnds(new) /\ mFallBackflag = "FAST" /\ suspended > 0
    THEN suspended - 1
    ELSE suspended

setPhoneState(new) ==
    LET cut == Cut(new)
        ins == [c \in Clients |-> IF c \in cut THEN NoInput ELSE inputs[c]]
    IN  /\ new # phone
        /\ Suspends(new) <= MaxSuspends
        /\ phone' = new
        /\ mPrevPhoneState' = phone
        /\ mvoice_call_state' =
               ((mvoice_call_state \/ CallBegins(new)) /\ ~CallEnds(new))
        /\ suspended' = Suspends(new)
        /\ Stop(cut, ins)
        /\ mOutputs' = AfterAllLoops(new)
        /\ tracks' = Disturbed(tracks, mOutputs', Invalidated(new, cut, ins))
        /\ UNCHANGED <<offers, mFallBackflag, mIsInputRequestOnProgress>>
-----------------------------------------------------------------------------
Next ==
    \/ \E t \in Tracks :
        \/ ReleaseOutput(t)
        \/ \E r \in Asked : AskOffload(t, r) \/ GetOutput(t, r)
    \/ \E c \in Clients :
           \/ \E source \in Sources : OpenInput(c, source)
           \/ StartInput(c) \/ StartFails(c)
           \/ StopInput(c) \/ ReleaseInput(c)
    \/ \E new \in Modes : setPhoneState(new)

Spec == Init /\ [][Next]_vars
-----------------------------------------------------------------------------
(***************************************************************************)
(* Properties                                                              *)
(***************************************************************************)
Fresh(t) == tracks[t].output # "none" /\ ~tracks[t].stale

\* While a voice call runs, even behind a VoIP call, no compressed playback
\* has an output: neither what played before nor what a player that was
\* offered offload before the call asks for (getOutputForDevices, "Close
\* compress all sessions" in setPhoneState).
NoOffloadInCall ==
    isVoiceConcEnabled /\ isVoicePlayConcDisabled /\ VoiceCallRuns =>
        Open("offload") = {}

\* With the fast fallback nothing but the voice plays on the deep buffer
\* during a voice call: tracks that did are sent away, and those that come are
\* not forced to it (getOutputForDevices, setPhoneState).
NoDeepInCall ==
    isVoiceConcEnabled /\ isVoicePlayConcDisabled /\ VoiceCallRuns
        /\ mFallBackflag = "FAST" =>
            \A t \in Tracks : Fresh(t) /\ tracks[t].stream # "VOICE_CALL" =>
                tracks[t].output # "deep"

\* From the start of a capture, or of the attempt, to its stop there is no
\* compressed playback, and music plays on no direct output (startInput, and
\* the rules of getOutputForDevices).
NoOffloadWhileRecording ==
    isRecPlayConcEnabled /\ isRecPlayConcDisabled /\ Recording =>
        /\ Open("offload") = {}
        /\ \A t \in Tracks : Fresh(t) /\ tracks[t].stream = "MUSIC" =>
               tracks[t].output \in Mixed

\* mDirectOpenCount is the number of tracks on a direct output: it is closed
\* with its last track and not before, whoever closes and reopens outputs in
\* between (getOutputForDevices, releaseOutput, every loop of closeOutput).
DirectCountsRight ==
    \A t \in Tracks : tracks[t].output \in Handles =>
        \E k \in DOMAIN mOutputs :
            /\ mOutputs[k].handle = tracks[t].output
            /\ mOutputs[k].opens =
                   Cardinality({u \in Tracks : tracks[u].output = mOutputs[k].handle})

\* When isOffloadSupported says that a format may be offloaded,
\* getOutputForDevices would not turn the request into another one: the two
\* functions state the rules for calls and captures each in its own way.
OfferIsHonoured ==
    \A r \in Asked, session \in Sessions :
        /\ r.format \notin LinearPcm /\ "COMPRESS_OFFLOAD" \in r.flags
        /\ isOffloadSupported(r)
        => Served(r, session) /\ "COMPRESS_OFFLOAD" \in FinalFlags(r, session)

\* The HAL knows of a capture from the microphones for as long as there is
\* one, and takes it for over when nothing captures and no start has failed
\* (startInput, stopInput and the captures that setPhoneState closes).
RecordingIsAnnounced ==
    isRecPlayConcEnabled /\ isRecPlayConcDisabled =>
        /\ ActiveOnPrimary # {} => recPlayConc
        /\ recPlayConc => \/ mIsInputRequestOnProgress
                          \/ \E c \in Clients : inputs[c].state = "active"

\* "indicate active capture to sound trigger service if starting capture from
\* a mic on primary HW module": the service knows of a capture as long as a
\* microphone is in use, and not when none is (startInput, stopInput).
CaptureTracksMic ==
    /\ activeNonSoundTriggerInputs(inputs) # {} => capture
    /\ capture => ActiveOnPrimary # {}
=============================================================================
