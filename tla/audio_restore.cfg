SPECIFICATION Spec
CONSTANTS
  mConfigs <- VoiceConfigs
  fallback_path = "fast"
  vr_audio_mode_on = FALSE
  PrimaryFlags = {"DEEP_BUFFER"}
  Clients = {mic}
  OtherModule = {}
  Tracks = {t1, t2}
  Sessions = {s1, s2}
  Session <- OwnSession
  Asked <- McSystem
  Handles = {h1, h2}
  MaxSuspends = 2
INVARIANTS PrimaryRestored
