SPECIFICATION FairSpec
CONSTANTS
  Threads = {t1, t2}
  Keys = {k1}
  Absent = Absent
  Null = Null
  NoFile = NoFile
  Tokens <- PlainToken
  Values <- MixedTypes
  TypeOf <- MCTypeOf
  Reloaded <- MCReloaded
  Files <- MCFiles
  FileOf <- MCFileOf
  Faults = {"io"}
  Ops = {"GET", "SET", "DELETE", "AUTOSAVE", "SAVE", "LOAD", "KEYS", "JSON", "OTHER", "QUIT"}
  IntMin <- MCIntMin
  IntMax <- MCIntMax
  One <- MCOne
  Grain <- MCGrain
PROPERTIES MutexReleased NoneStuck
