------------------------------ MODULE CLIText ------------------------------
(***************************************************************************)
(* The files of CLIHistory as the texts they are: what Readings says of an *)
(* image against what the scanner of PersistenceManager makes of its text. *)
(***************************************************************************)
EXTENDS CLIHistory, StoreText, SequencesExt

\* The keys and values are texts that the scanner takes apart as they were put
\* together, and KeyRead is what it makes of a text with one entry.
ASSUME TextAssumption ==
  /\ IsFiniteSet(Keys)
  /\ \A k \in Keys :
       /\ KeyFits(k) /\ KeyAsRead(k) \in Keys
       /\ KeyRead[k] = keyRead(k, Null)
       /\ IsFlag(k) => \A v \in Values : NoComma(valueText(v))
  /\ \A v \in Values : ValueFits(v)

\* The text of a file with its entries in the order of S.
TextOf(i, S) == storeText([n \in DOMAIN S |-> <<S[n], i.map[S[n]]>>], i.autosave)

\* The last entry the scan found under key k.
Found(got, k) ==
  LET hits == {n \in DOMAIN got.entries : got.entries[n][1] = k}
  IN  IF hits = {} THEN Absent
      ELSE got.entries[CHOOSE n \in hits : \A l \in hits : l <= n][2]

\* What was found is one of the readings of map m, and nothing else.
IsReading(got, m) ==
  /\ \A n \in DOMAIN got.entries : got.entries[n][1] \in Keys
  /\ \E r \in Readings(m) : \A j \in Keys :
       IF r[j] = Absent THEN Found(got, j) = Absent
       ELSE \E k \in Present(m) :
              KeyRead[k] = j /\ Found(got, j) = Json(m[k]) /\ r[j] = Reloaded[m[k]]

\* The scanner of PersistenceManager, run on the text that save() has written,
\* in whatever order keys() gave the entries, finds what Readings says and
\* nothing else, and the autosave flag.  Said of each file that a process has
\* left behind as the only one (what the others hold makes no difference).
TextReads ==
  \A f \in Files :
    /\ ~up
    /\ \A g \in Files : disk[g] # NoFile <=> g = f
    /\ disk[f].autosave # "missing"
    =>
    \A S \in SetToSeqs(Present(disk[f].map)) :
      LET got == loaded(TextOf(disk[f], S))
      IN  got.flag = disk[f].autosave /\ IsReading(got, disk[f].map)

=============================================================================
