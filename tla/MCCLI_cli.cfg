SPECIFICATION HistorySpec
CONSTANTS
  Threads = {main}
  Absent = Absent
  Null = Null
  NoFile = NoFile
  Tokens <- MCTokens
  Keys <- MCKeys
  Values <- MCValues
  TypeOf <- MCTypeOf
  Reloaded <- MCReloaded
  KeyRead <- MCKeyRead
  Files <- MCFiles
  FileOf <- MCFileOf
  Faults = {"kill", "io"}
  IntMin <- MCIntMin
  IntMax <- MCIntMax
  One <- MCOne
  Grain <- MCGrain
INVARIANTS CLITypeOK OneType FileIsStore TextReads
PROPERTY NewStoreLoads
VIEW StateOnly
