SPECIFICATION Spec
CONSTANTS
  Threads = {t1, t2}
  Keys = {k1, k2}
  Absent = Absent
  Null = Null
  NoFile = NoFile
  Tokens <- PlainToken
  Values <- MixedTypes
  TypeOf <- MCTypeOf
  Reloaded <- MCReloaded
  Files <- MCFiles
  FileOf <- MCFileOf
  Faults = {"kill", "io", "freed"}
  Ops = {"GET", "SET", "DELETE", "AUTOSAVE", "SAVE", "LOAD", "KEYS", "JSON", "OTHER", "QUIT"}
  IntMin <- MCIntMin
  IntMax <- MCIntMax
  One <- MCOne
  Grain <- MCGrain
SYMMETRY Symmetry
INVARIANTS TypeOK LockDiscipline SaveFindsStore TypesUniform
PROPERTY HolderProgresses
