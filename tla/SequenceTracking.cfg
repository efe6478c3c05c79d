CONSTANTS
  SeqnoMod = 8
  MaxAbs = 40
SPECIFICATION TrackSpec
INVARIANTS NeverLosesTrack UnwrapIsClosest
