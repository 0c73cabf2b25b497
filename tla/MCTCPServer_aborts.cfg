SPECIFICATION Spec
CONSTANTS
  Threads = {t1}
  Keys = {k1}
  Absent = Absent
  Null = Null
  NoFile = NoFile
  Tokens <- PlainToken
  Values <- MixedTypes
  TypeOf <- MCTypeOf
  Reloaded <- MCReloaded
  Files <- MCFiles
  FileOf <- MCFileOf
  Faults = {}
  Ops = {"SET"}
  IntMin <- MCIntMin
  IntMax <- MCIntMax
  One <- MCOne
  Grain <- MCGrain
INVARIANT StaysUp
