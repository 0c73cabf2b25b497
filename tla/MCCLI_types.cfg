SPECIFICATION HistorySpec
CONSTANTS
  Threads = {main}
  Absent = Absent
  Null = Null
  NoFile = NoFile
  Tokens <- MCTokens
  Keys <- PlainKeys
  Values <- MCValues
  TypeOf <- MCTypeOf
  Reloaded <- MCReloaded
  KeyRead <- MCKeyRead
  Files <- OneFile
  FileOf <- MCFileOf
  Faults = {}
  IntMin <- MCIntMin
  IntMax <- MCIntMax
  One <- MCOne
  Grain <- MCGrain
PROPERTY TypesAcrossSessions
