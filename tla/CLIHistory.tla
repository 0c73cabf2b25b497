----------------------------- MODULE CLIHistory -----------------------------
(***************************************************************************)
(* CLI with a history variable, which changes nothing: the stores whose    *)
(* last command of consequence has brought store and file into step.       *)
(***************************************************************************)
EXTENDS CLI

VARIABLE synced

\* The command just executed has saved store tok to its file, or loaded it
\* from there.
Joins(tok) ==
  /\ last'.tok = tok /\ last'.said = "ok"
  /\ \/ last'.op \in {"put", "delete"} /\ auto
     \/ last'.op = "save" /\ last'.arg = FileOf[tok]
     \/ last'.op = "load" /\ last'.arg = FileOf[tok] /\ disk[FileOf[tok]] # NoFile

\* It has changed the one without the other, or may have.
Parts(tok) ==
  \/ /\ last'.op \in {"put", "delete"} /\ last'.said # "error"
     /\ IF auto THEN FileOf[last'.tok] = FileOf[tok] ELSE last'.tok = tok
  \/ last'.op = "save" /\ last'.said # "error" /\ last'.arg = FileOf[tok]
  \/ /\ last'.op = "load" /\ last'.tok = tok
     /\ last'.said = "error" \/ last'.arg # FileOf[tok]

HistoryInit == CLIInit /\ synced = {}

HistoryNext ==
  /\ CLINext
  /\ synced' = IF up' THEN {tok \in Tokens : Joins(tok) \/ (tok \in synced /\ ~Parts(tok))}
               ELSE {}

HistorySpec == HistoryInit /\ [][HistoryNext]_<<cliVars, synced>>

\* A store that was last saved to its file or loaded from it, by a command
\* that went through, comes out of the file in the next process as it would
\* from a save of this moment: nothing that was put is missing there
\* and nothing that was deleted comes back, whatever has been typed since
\* and whichever files of the past were cut, loaded half or overwritten.
FileIsStore ==
  \A tok \in synced :
    /\ disk[FileOf[tok]] # NoFile
    /\ Readings(store[tok]) \subseteq Readings(disk[FileOf[tok]].map)

=============================================================================
