SPECIFICATION Spec
CONSTANTS
  Threads = {t1, t2}
  Keys = {k1}
  Absent = Absent
  Null = Null
  NoFile = NoFile
  Tokens <- PlainToken
  Values <- OneWord
  TypeOf <- MCTypeOf
  Reloaded <- MCReloaded
  Files <- MCFiles
  FileOf <- MCFileOf
  Faults = {}
  Ops = {"GET", "SET"}
  IntMin <- MCIntMin
  IntMax <- MCIntMax
  One <- MCOne
  Grain <- MCGrain
INVARIANT PointersLive
