----------------------------- MODULE FileNames -----------------------------
(***************************************************************************)
(* How saveStore and loadStore turn a file name into a path.  A name is    *)
(* <<dir, base, exts>>: a leading "store/" or "./store/" or none, the      *)
(* name proper, and how many times ".json" ends it.  A path is what the    *)
(* operating system opens: the entry of the store directory.               *)
(***************************************************************************)
EXTENDS Naturals

Dirs == {"", "store/", "./store/"}

\* ".json" is appended unless the name ends in it, and "store/" put in front
\* unless the name begins with it; the two spellings of the directory are
\* the same directory.
StorePath(name) ==
  <<name[2], IF name[3] = 0 THEN 1 ELSE name[3]>>

\* The file of the autosaves: handleCommand and the CLI pass token + ".json".
TokenFile(tok) == StorePath(<<tok[1], tok[2], tok[3] + 1>>)

=============================================================================
