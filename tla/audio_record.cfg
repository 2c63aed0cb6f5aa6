SPECIFICATION Spec
CONSTANTS
  mConfigs <- BothConfigs
  fallback_path = "fast"
  vr_audio_mode_on = FALSE
  PrimaryFlags = {"FAST"}
  Clients = {mic, mic2, submix}
  OtherModule = {submix}
  Tracks = {t1, t2}
  Sessions = {s1}
  Session <- OneSession
  Asked <- McMusic
  Handles = {h1, h2}
  MaxSuspends = 1
INVARIANTS NoOffloadWhileRecording RecordingIsAnnounced CaptureTracksMic
SYMMETRY Alike
