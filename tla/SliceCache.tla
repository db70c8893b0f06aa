----------------------------- MODULE SliceCache -----------------------------
(***************************************************************************)
(* The result cache of s1engine/cache.py as the files it keeps: for every  *)
(* key a published file and a temporary one, both shared by all writers of *)
(* the key, in this run and in any other run of the server.                *)
(* A name points to a file (an inode), and a writer that has opened the    *)
(* temporary name keeps writing that file when another writer has renamed  *)
(* it in the meantime.  The writer of a document is the job it is about.   *)
(***************************************************************************)
CONSTANTS
  Writers,    \* jobs whose results are cached; each publishes at most once
  Keys,       \* digests of query text, window and scope
  KeyOf,      \* SliceCache.key: the key of a job's result
  Nothing     \* no file, no document

ASSUME CacheAssumption ==
  /\ KeyOf \in [Writers -> Keys]
  /\ Nothing \notin Writers

\* A file holds a writer's document, nothing, or bytes that do not parse.
Broken == {"empty", "torn"}
Contents == Writers \cup Broken

VARIABLES
  published,  \* per key: the file named <key>.json
  temporary,  \* per key: the file named <key>.tmp
  content,    \* per file (named by the writer that created it): what it holds
  handle      \* per writer: the file it has open

cacheVars == <<published, temporary, content, handle>>

CacheTypeOK ==
  /\ published \in [Keys -> Writers \cup {Nothing}]
  /\ temporary \in [Keys -> Writers \cup {Nothing}]
  /\ content \in [Writers -> Contents]
  /\ handle \in [Writers -> Writers \cup {Nothing}]

CacheInit ==
  /\ published = [k \in Keys |-> Nothing]
  /\ temporary = [k \in Keys |-> Nothing]
  /\ content = [f \in Writers |-> "empty"]
  /\ handle = [j \in Writers |-> Nothing]

\* Mutant: a file that does not parse is a hit.
LookupUnchecked(k) == IF published[k] = Nothing THEN Nothing ELSE content[published[k]]

\* get: no file is a miss, and so is one that does not parse.
Lookup(k) ==
  IF published[k] # Nothing /\ content[published[k]] \notin Broken
  THEN content[published[k]] ELSE Nothing

\* put opens the temporary name for writing: an existing file is truncated.
Open(j) ==
  LET k == KeyOf[j]
      f == IF temporary[k] = Nothing THEN j ELSE temporary[k] IN
  /\ temporary' = [temporary EXCEPT ![k] = f]
  /\ content' = [content EXCEPT ![f] = "empty"]
  /\ handle' = [handle EXCEPT ![j] = f]
  /\ UNCHANGED published

\* put writes its document from the start of the file.  When another writer
\* has written more there since it was opened, a tail is left that does not parse.
Write(j) ==
  /\ \E c \in {j} \cup (IF content[handle[j]] = "empty" THEN {} ELSE {"torn"}) :
       content' = [content EXCEPT ![handle[j]] = c]
  /\ UNCHANGED <<published, temporary, handle>>

\* The disk is full: a part is written, and the OSError ends the put.
WriteFails(j) ==
  /\ content' = [content EXCEPT ![handle[j]] = "torn"]
  /\ handle' = [handle EXCEPT ![j] = Nothing]
  /\ UNCHANGED <<published, temporary>>

\* put renames whatever file the temporary name is now; when another writer
\* has renamed it already, the error is swallowed.
Publish(j) ==
  LET k == KeyOf[j] IN
  /\ published' = [published EXCEPT ![k] = IF temporary[k] = Nothing THEN @
                                           ELSE temporary[k]]
  /\ temporary' = [temporary EXCEPT ![k] = Nothing]
  /\ handle' = [handle EXCEPT ![j] = Nothing]
  /\ UNCHANGED content
=============================================================================
