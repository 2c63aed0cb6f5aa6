---------------------------- MODULE AudioOutputs ----------------------------
(***************************************************************************)
(* policy_hal/APMConfigHelper.cpp and the part of AudioPolicyManager.cpp   *)
(* that turns a request for a playback track into the flags by which an    *)
(* output is chosen (getOutputForDevices, isOffloadSupported), as          *)
(* operators on the state that AudioConcurrency keeps.  Wireless display   *)
(* (the AFE proxy), text-to-speech, music played into a call and haptics   *)
(* are left out: no such request is made.  A definition X_Word is a        *)
(* plausible mistake in X that a property must catch; nothing uses it.     *)
(***************************************************************************)
EXTENDS Naturals, Sequences, FiniteSets

CONSTANTS mConfigs,          \* the flags of struct ApmValues that are true
          fallback_path,     \* vendor.voice.conc.fallbackpath
          vr_audio_mode_on,  \* what the HAL says of VR mode
          PrimaryFlags,      \* flags of the primary output beside PRIMARY
          Clients,           \* capture clients
          OtherModule        \* those whose device is not on the primary module

ConfigNames ==
    {"audio_offload_disable", "audio_deepbuffer_media",
     "audio_offload_track_enable", "audio_offload_multiple_enabled",
     "voice_dsd_playback_conc_disabled", "audio_va_concurrency_enabled",
     "audio_rec_playback_conc_disabled", "voice_path_for_pcm_voip",
     "voice_playback_conc_disabled", "voice_record_conc_disabled",
     "voice_voip_conc_disabled", "compress_voip_enabled",
     "voice_concurrency", "record_play_concurrency"}

Flags == {"PRIMARY", "FAST", "DEEP_BUFFER", "COMPRESS_OFFLOAD", "DIRECT",
          "DIRECT_PCM", "VOIP_RX", "RAW", "HW_AV_SYNC", "MMAP_NOIRQ"}

ASSUME ConfigAssumption   == mConfigs \subseteq ConfigNames
ASSUME FallbackAssumption == fallback_path \in {"", "fast", "deep-buffer"}
ASSUME VrAssumption       == vr_audio_mode_on \in BOOLEAN
ASSUME PrimaryAssumption  == PrimaryFlags \subseteq {"FAST", "DEEP_BUFFER"}
ASSUME ClientsAssumption  == OtherModule \subseteq Clients

isAudioOffloadDisabled        == "audio_offload_disable" \in mConfigs
isAudioDeepbufferMediaEnabled == "audio_deepbuffer_media" \in mConfigs
isAudioTrackOffloadEnabled    == "audio_offload_track_enable" \in mConfigs
isAudioMultipleOffloadEnable  == "audio_offload_multiple_enabled" \in mConfigs
isVoiceDSDConcDisabled        == "voice_dsd_playback_conc_disabled" \in mConfigs
isVAConcEnabled               == "audio_va_concurrency_enabled" \in mConfigs
isRecPlayConcDisabled         == "audio_rec_playback_conc_disabled" \in mConfigs
useVoicePathForPCMVOIP        == "voice_path_for_pcm_voip" \in mConfigs
isVoicePlayConcDisabled       == "voice_playback_conc_disabled" \in mConfigs
isVoiceRecConcDisabled        == "voice_record_conc_disabled" \in mConfigs
isVoiceVOIPConcDisabled       == "voice_voip_conc_disabled" \in mConfigs
isCompressVOIPEnabled         == "compress_voip_enabled" \in mConfigs
isVoiceConcEnabled            == "voice_concurrency" \in mConfigs
isRecPlayConcEnabled          == "record_play_concurrency" \in mConfigs

Modes == {"NORMAL", "RINGTONE", "IN_CALL", "IN_COMMUNICATION"}

\* The streams that the rules tell apart; VOICE_CALL is 0, below SYSTEM.
Streams == {"VOICE_CALL", "SYSTEM", "MUSIC", "ENFORCED_AUDIBLE"}

\* voice is PCM of one channel at a VoIP rate.
LinearPcm == {"pcm", "voice"}
Formats   == LinearPcm \cup {"mp3", "dsd"}

\* What an application asks for; media: its usage is MEDIA or GAME.
Requests == [stream : Streams, format : Formats, flags : SUBSET Flags,
             media : BOOLEAN]

Sources == {"MIC", "VOICE_COMMUNICATION", "VOICE_CALL", "HOTWORD"}

VARIABLES phone,                     \* mEngine->getPhoneState()
          mPrevPhoneState,
          mvoice_call_state,         \* whether it is not 0
          mFallBackflag,
          mIsInputRequestOnProgress,
          mOutputs,                  \* the open outputs, oldest first
          inputs                     \* what each capture client has

\* The flags of an output's profile, which its mFlags repeat.
ProfileFlags ==
    [primary |-> {"PRIMARY"} \cup PrimaryFlags,
     deep    |-> {"DEEP_BUFFER"},
     fast    |-> {"FAST"},
     direct  |-> {"DIRECT"},
     offload |-> {"DIRECT", "COMPRESS_OFFLOAD"},
     voip    |-> {"DIRECT", "VOIP_RX"}]

OutputFlags(o) == ProfileFlags[o.profile]

\* The open outputs of a profile.
Open(profile) == {k \in DOMAIN mOutputs : mOutputs[k].profile = profile}

\* activeInputsCountOnDevices(availablePrimaryModuleInputDevices()) > 0 says
\* that this is not empty.
ActiveOnPrimary == {c \in Clients \ OtherModule : inputs[c].state = "active"}

isInCall == phone \in {"IN_CALL", "IN_COMMUNICATION"}

\* A voice call is active, or runs in the background of a VoIP call.
VoiceCallRuns ==
    /\ mvoice_call_state
    /\ \/ phone = "IN_CALL"
       \/ mPrevPhoneState = "IN_CALL" /\ phone = "IN_COMMUNICATION"

\* A capture is under way, or about to begin.
Recording == mIsInputRequestOnProgress \/ ActiveOnPrimary # {}
-----------------------------------------------------------------------------
(***************************************************************************)
(* isOffloadSupported, as far as concurrency has a say in it.              *)
(***************************************************************************)
isOffloadSupported_NoCall(r) ==
    /\ ~(isVoiceDSDConcDisabled /\ isInCall /\ r.format = "dsd")
    /\ ~(isRecPlayConcEnabled /\ isRecPlayConcDisabled /\ Recording)
    /\ r.stream = "MUSIC"
    /\ ~isAudioOffloadDisabled

isOffloadSupported(r) ==
    /\ ~(isVoiceConcEnabled /\ isVoicePlayConcDisabled /\ isInCall)
    /\ ~(isVoiceDSDConcDisabled /\ isInCall /\ r.format = "dsd")
    /\ ~(isRecPlayConcEnabled /\ isRecPlayConcDisabled /\ Recording)
    /\ r.stream = "MUSIC"
    /\ ~isAudioOffloadDisabled

(***************************************************************************)
(* getOutputForDevices: one operator for each rule that changes the flags, *)
(* in the order in which the rules are applied.                            *)
(***************************************************************************)
\* A VoIP track gets the VoIP output if no other session has it open.
VoipFlags(r, session) ==
    LET free == IF isCompressVOIPEnabled
                THEN useVoicePathForPCMVOIP /\ Open("voip") = {}
                ELSE \A k \in Open("voip") : mOutputs[k].session = session
    IN  IF r.stream = "VOICE_CALL" /\ r.format = "voice" /\ free
        THEN {"VOIP_RX", "DIRECT"}
        ELSE IF isCompressVOIPEnabled
                 /\ r.stream = "VOICE_CALL" /\ r.format \in LinearPcm
        THEN {"FAST", "PRIMARY"}
        ELSE r.flags

VrFlags(flags) == IF vr_audio_mode_on THEN flags \ {"FAST", "RAW"} ELSE flags

\* VoIP is refused while a voice call runs.
VoipRefused(flags) ==
    /\ isVoiceConcEnabled /\ isVoiceVOIPConcDisabled
    /\ VoiceCallRuns
    /\ "VOIP_RX" \in flags

VoiceConcFlags_KeepsOffload(r, flags) ==
    IF ~(isVoiceConcEnabled /\ isVoicePlayConcDisabled /\ VoiceCallRuns)
        \/ "VOIP_RX" \in flags
    THEN flags
    ELSE IF mFallBackflag = "FAST" /\ "DEEP_BUFFER" \in flags
         THEN {"FAST"}
         ELSE flags

\* What is left of playback while a voice call runs.
VoiceConcFlags(r, flags) ==
    IF ~(isVoiceConcEnabled /\ isVoicePlayConcDisabled /\ VoiceCallRuns)
        \/ "VOIP_RX" \in flags
    THEN flags
    ELSE CASE /\ mFallBackflag = "FAST"
              /\ flags \cap {"DEEP_BUFFER", "COMPRESS_OFFLOAD", "DIRECT_PCM"} # {}
                  -> {"FAST"}
           [] /\ mFallBackflag = "DEEP_BUFFER"
              /\ flags \cap {"COMPRESS_OFFLOAD", "DIRECT_PCM"} # {}
                  -> IF r.stream = "MUSIC" THEN {"DEEP_BUFFER"} ELSE {"FAST"}
           [] OTHER -> flags

RecPlayFlags_OnceActive(r, flags) ==
    IF isRecPlayConcEnabled /\ isRecPlayConcDisabled
    THEN IF r.stream = "ENFORCED_AUDIBLE" THEN {"FAST"}
         ELSE IF mIsInputRequestOnProgress /\ "FAST" \notin flags
                  /\ ~(phone = "IN_COMMUNICATION" /\ "VOIP_RX" \in flags)
              THEN {"DEEP_BUFFER"}
              ELSE flags
    ELSE flags

\* What is left of playback during a capture.
RecPlayFlags(r, flags) ==
    IF isRecPlayConcEnabled /\ isRecPlayConcDisabled
    THEN IF r.stream = "ENFORCED_AUDIBLE" THEN {"FAST"}
         ELSE IF Recording /\ "FAST" \notin flags
                  /\ ~(phone = "IN_COMMUNICATION" /\ "VOIP_RX" \in flags)
              THEN {"DEEP_BUFFER"}
              ELSE flags
    ELSE flags

\* getOutputForAttr fills in the usage, which is what decides here.
PlaysDirect(r, flags) ==
    /\ flags = {}
    /\ r.stream = "MUSIC"
    /\ r.media /\ isAudioTrackOffloadEnabled
    /\ ~isAudioOffloadDisabled

DirectFlags(r, asked) ==
    LET flags == IF asked \cap {"COMPRESS_OFFLOAD", "HW_AV_SYNC"} # {}
                 THEN asked \cup {"DIRECT"} ELSE asked
    IN  CASE PlaysDirect(r, flags) -> {"DIRECT"}
          [] /\ flags = {"DIRECT"}
             /\ isAudioOffloadDisabled \/ r.stream # "MUSIC" -> {}
          [] OTHER -> flags

\* Direct PCM that is in use is not for anything but music, and only music
\* has a deep buffer.
StreamFlags(r, flags) ==
    LET left == IF /\ "DIRECT" \in flags
                   /\ Open("direct") # {} /\ r.stream # "MUSIC"
                THEN {} ELSE flags
    IN  IF r.stream # "MUSIC" THEN left \ {"DEEP_BUFFER"} ELSE left

ForcedDeep_EvenInCall(r, flags) ==
    /\ r.stream = "MUSIC"
    /\ flags \in {{}, {"DIRECT"}} \/ "COMPRESS_OFFLOAD" \in flags
    /\ isAudioDeepbufferMediaEnabled

ForcedDeep(r, flags) ==
    /\ r.stream = "MUSIC"
    /\ flags \in {{}, {"DIRECT"}} \/ "COMPRESS_OFFLOAD" \in flags
    /\ isAudioDeepbufferMediaEnabled /\ ~isInCall

\* The flags after the rules for VoIP and VR, by which VoIP is refused.
FirstFlags(r, session) == VrFlags(VoipFlags(r, session))

FinalFlags(r, session) ==
    StreamFlags(r, DirectFlags(r,
        RecPlayFlags(r, VoiceConcFlags(r, FirstFlags(r, session)))))

(***************************************************************************)
(* The direct profile that getProfileForOutput finds, and the one of the   *)
(* mixed outputs that selectOutput takes.                                  *)
(***************************************************************************)
DirectProfile(r, flags) ==
    IF "VOIP_RX" \in flags THEN "voip"
    ELSE IF r.format \notin LinearPcm THEN "offload" ELSE "direct"

SkipsDirect(r, flags) == "DIRECT" \notin flags

MixedProfile(r, flags) ==
    LET asked == IF ForcedDeep(r, flags) THEN {"DEEP_BUFFER"} ELSE flags
    IN  CASE "DEEP_BUFFER" \in asked -> "deep"
          [] "FAST" \in asked /\ "DEEP_BUFFER" \notin asked -> "fast"
          [] OTHER -> "primary"
=============================================================================
