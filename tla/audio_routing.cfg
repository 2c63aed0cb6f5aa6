SPECIFICATION Spec
CONSTANTS
  m1 = m1
  m2 = m2
  m3 = m3
  al = al
  e1 = e1
  e2 = e2
  Order <- McOrder
  Boot = {"primary", "deep"}
  Direct = {"direct"}
  Supports <- McSupports
  Module <- McModule
  Tracks = {m1, m3, e1}
  Output <- McOutput
  Stream <- McStream
  Modes = {"NORMAL", "IN_CALL"}
  isHDMISpkEnabled = TRUE
INVARIANTS HalKnowsDevices HdmiFollows RoutedAsWanted VoiceVolumeFollows DirectOnlyForClients
PROPERTIES PlaybackFollows
VIEW ButMutes
