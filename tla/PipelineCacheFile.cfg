CONSTANTS
  w1 = w1
  w2 = w2
  old = old
  new = new
  Workers = {w1, w2}
  Drivers = {old, new}
  FramesPerSave = 2
  MaxData = 2
  MaxSaves = 3
SPECIFICATION Spec
INVARIANTS TypeOK PublishedWhole LoadedWhole
