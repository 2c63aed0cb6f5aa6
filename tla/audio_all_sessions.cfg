SPECIFICATION Spec
CONSTANTS
  mConfigs <- MultiConfigs
  fallback_path = "fast"
  vr_audio_mode_on = FALSE
  PrimaryFlags = {"FAST"}
  Clients = {mic}
  OtherModule = {}
  Tracks = {t1, t2}
  Sessions = {s1, s2}
  Session <- OwnSession
  Asked <- McCompressed
  Handles = {h1, h2}
  MaxSuspends = 1
INVARIANTS NoOffloadInCall
