------------------------- MODULE MCAudioConcurrency -------------------------
(* Instances of AudioConcurrency: what tracks ask for, and who asks. *)
EXTENDS AudioConcurrency

Asks(stream, format, flags) ==
    [stream |-> stream, format |-> format, flags |-> flags,
     media |-> stream = "MUSIC"]

McRequests == { Asks("MUSIC", "mp3", {"COMPRESS_OFFLOAD"}),
                Asks("MUSIC", "pcm", {}),
                Asks("MUSIC", "pcm", {"DEEP_BUFFER"}),
                Asks("VOICE_CALL", "voice", {}) }

McCompressed == { Asks("MUSIC", "mp3", {"COMPRESS_OFFLOAD"}),
                  Asks("MUSIC", "dsd", {"COMPRESS_OFFLOAD"}) }

McMusic == { Asks("MUSIC", "mp3", {"COMPRESS_OFFLOAD"}),
             Asks("MUSIC", "pcm", {}) }

McSystem == { Asks("SYSTEM", "pcm", {"FAST"}) }

McShared == McRequests \cup { Asks("MUSIC", "dsd", {"COMPRESS_OFFLOAD"}) }

\* Two tracks of one session, or each its own.
OneSession == [t \in Tracks |-> CHOOSE s \in Sessions : TRUE]
OwnSession == CHOOSE f \in [Tracks -> Sessions] :
                  \A t, u \in Tracks : f[t] = f[u] => t = u

\* Capture clients of the primary module are interchangeable, and so are the
\* tracks of one session.
Alike == Permutations(Clients \ OtherModule) \cup Permutations(Tracks)

VoiceConfigs == {"audio_deepbuffer_media", "audio_offload_track_enable",
                 "voice_dsd_playback_conc_disabled", "voice_path_for_pcm_voip",
                 "voice_playback_conc_disabled", "voice_record_conc_disabled",
                 "voice_voip_conc_disabled", "voice_concurrency"}

RecordConfigs == {"audio_deepbuffer_media", "audio_offload_track_enable",
                  "voice_dsd_playback_conc_disabled", "voice_path_for_pcm_voip",
                  "audio_rec_playback_conc_disabled", "record_play_concurrency"}

DefaultConfigs == {"audio_deepbuffer_media", "audio_offload_track_enable",
                   "voice_dsd_playback_conc_disabled", "voice_path_for_pcm_voip"}

BothConfigs == VoiceConfigs \cup RecordConfigs
MultiConfigs == VoiceConfigs \cup {"audio_offload_multiple_enabled"}
VaConfigs == RecordConfigs \cup {"audio_va_concurrency_enabled"}
\* CloseLoop is the loop that it stands for: the list that is left grows by
\* one output after the other, and the one after a closed one is passed over.
Loop(outs, closed) ==
    FoldLeft(LAMBDA acc, o : IF o \in closed /\ ~acc.pass
                             THEN [left |-> acc.left, pass |-> TRUE]
                             ELSE [left |-> Append(acc.left, o), pass |-> FALSE],
             [left |-> <<>>, pass |-> FALSE], outs).left

ASSUME CloseLoopIsLoop ==
    \A outs \in UNION {[1 .. n -> 1 .. 4] : n \in 0 .. 5} :
        CloseLoop(outs, {1, 2}) = Loop(outs, {1, 2})
-----------------------------------------------------------------------------
(* What comments of the code promise and calls in some order do not keep. *)
\* "Need to block input request": no capture that calls shut out is active
\* while a voice call runs (getInputForAttr, startInput).
CallBlocksCapture ==
    VoiceCallRuns => \A c \in Clients :
        inputs[c].state = "active" => ~BlockedSource(inputs[c].source)

\* "restore PCM (deep-buffer) output after call termination": back in normal
\* mode the primary output is not suspended (setPhoneState).
PrimaryRestored == phone = "NORMAL" => suspended = 0

\* "call invalidate tracks so that any open streams can fall back to deep
\* buffer/compress path": when stopInput tells the HAL that capture is over,
\* the tracks it sends back find compressed playback allowed again.
StopFreesCompress == [][recPlayConc /\ ~recPlayConc' => ~Recording']_vars
=============================================================================
