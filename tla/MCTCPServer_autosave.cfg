SPECIFICATION Spec
CONSTANTS
  Threads = {t1, t2}
  Keys = {k1, k2}
  Absent = Absent
  Null = Null
  NoFile = NoFile
  Tokens <- TwoTokens
  Values <- OneWord
  TypeOf <- MCTypeOf
  Reloaded <- MCReloaded
  Files <- MCFiles
  FileOf <- MCFileOf
  Faults = {}
  Ops = {"SET", "DELETE", "AUTOSAVE", "SAVE"}
  IntMin <- MCIntMin
  IntMax <- MCIntMax
  One <- MCOne
  Grain <- MCGrain
SYMMETRY Symmetry
INVARIANT AutosaveCurrent
CONSTRAINT SavesOwnFile
