SPECIFICATION Spec
CONSTANTS
  Keys = {"mute", "volumeUp", "volumeDown", "play", "nextTrack"}
  N = 2
  NoUsage = "none"
INVARIANTS NoPanic
CHECK_DEADLOCK FALSE
