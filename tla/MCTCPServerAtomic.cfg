SPECIFICATION Spec
CONSTANTS
  Threads = {t1, t2}
  Keys = {k1, k2}
  Absent = Absent
  Null = Null
  NoFile = NoFile
  Tokens <- PlainToken
  Values <- TwoWords
  TypeOf <- MCTypeOf
  Reloaded <- MCReloaded
  Files <- MCFiles
  FileOf <- MCFileOf
  Faults = {"io"}
  Ops = {"GET", "SET", "DELETE", "KEYS", "AUTOSAVE", "LOAD", "OTHER"}
  IntMin <- MCIntMin
  IntMax <- MCIntMax
  One <- MCOne
  Grain <- MCGrain
SYMMETRY Symmetry
PROPERTY Atomic
