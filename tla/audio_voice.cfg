SPECIFICATION Spec
CONSTANTS
  mConfigs <- VoiceConfigs
  fallback_path = "fast"
  vr_audio_mode_on = FALSE
  PrimaryFlags = {"FAST"}
  Clients = {mic}
  OtherModule = {}
  Tracks = {t1, t2}
  Sessions = {s1}
  Session <- OneSession
  Asked <- McShared
  Handles = {h1, h2}
  MaxSuspends = 1
INVARIANTS NoOffloadInCall NoDeepInCall DirectCountsRight OfferIsHonoured
