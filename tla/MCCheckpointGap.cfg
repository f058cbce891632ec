\* The gap between the flip of snapshot_head and the status of the slot.
SPECIFICATION Spec
CONSTANTS
  MaxClock = 1
  NoImage = NoImage
INVARIANT
  AlwaysResumes
