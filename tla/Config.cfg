CONSTANTS
  Unrestricted = Unrestricted
  Malformed = Malformed
  NoFile = NoFile
  Absent = Absent
  Blank = ""
  Bases <- MCBases
  Overlays <- MCOverlays
  Words <- MCWords
  Trim <- MCTrim
SPECIFICATION Spec
INVARIANTS LoadedIsConfig CallerIsRegistered OverlayKeepsRest
