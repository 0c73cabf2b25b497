SPECIFICATION HSpec
CONSTANTS
  Threads = {t1, t2}
  Keys = {k1, k2}
  Absent = Absent
  Null = Null
  NoFile = NoFile
  Tokens <- PlainToken
  Values <- InfAndReloaded
  TypeOf <- MCTypeOf
  Reloaded <- MCReloaded
  Files <- MCFiles
  FileOf <- MCFileOf
  Faults = {"kill"}
  Ops = {"SET", "DELETE", "AUTOSAVE", "LOAD", "JSON"}
  IntMin <- MCIntMin
  IntMax <- MCIntMax
  One <- MCOne
  Grain <- MCGrain
SYMMETRY Symmetry
INVARIANTS WalkIsRecent LoadInstallsFile PartialWasCut AcknowledgedKept LoadRestores
CONSTRAINT TurnOnOnly
