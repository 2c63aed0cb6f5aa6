SPECIFICATION Spec
CONSTANTS
  mConfigs <- RecordConfigs
  fallback_path = "fast"
  vr_audio_mode_on = FALSE
  PrimaryFlags = {"FAST"}
  Clients = {mic, mic2}
  OtherModule = {}
  Tracks = {t1, t2}
  Sessions = {s1, s2}
  Session <- OwnSession
  Asked <- McSystem
  Handles = {h1, h2}
  MaxSuspends = 1
PROPERTIES StopFreesCompress
