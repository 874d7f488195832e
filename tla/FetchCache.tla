----------------------------- MODULE FetchCache -----------------------------
(***************************************************************************)
(* The dependency cache of the deed tool: several invocations of `deed`    *)
(* (builds) share one content-addressed directory.  Each build wants one   *)
(* module, looks for it in the cache, fetches and verifies it on a miss,   *)
(* inserts it by write-then-rename, and later hands the bytes found under  *)
(* the returned path to the compiler.                                      *)
(*                                                                         *)
(* A payload is identified with its bytes.  A payload that hashes to h is  *)
(* named h (SHA-256 is taken to be injective); every other payload is a    *)
(* member of Payloads \ Hashes.  A file is written in Chunks pieces, and   *)
(* its content is the set of pieces written so far, so a truncated or      *)
(* half-written file is an incomplete set.                                 *)
(***************************************************************************)
EXTENDS Integers, FiniteSets

CONSTANTS
  Builds,     \* concurrent invocations of the tool
  Hashes,     \* the hashes manifests declare
  Payloads,   \* what a location can answer with
  Inodes,     \* files of the cache directory, named or not
  Nothing,    \* no file under a name, or nothing read yet
  Chunks      \* the pieces one file is written in (bound)

ASSUME CacheAssumption ==
  /\ Hashes \subseteq Payloads
  /\ Chunks \in Nat \ {0}
  /\ Nothing \notin Inodes
  /\ Nothing \notin Payloads

VARIABLES
  pc,         \* where each build is
  want,       \* the hash its manifest entry states
  fetched,    \* the bytes its location answered with
  fd,         \* the file its insert writes to
  offset,     \* how many pieces that write has put down
  dir,        \* the cache directory: name -> file
  content,    \* file -> the pieces it holds
  compiled,   \* what the build handed to the compiler
  torn        \* history: the files a build left before it had written all of them,
              \* because it was killed or because its write failed

vars == <<pc, want, fetched, fd, offset, dir, content, compiled, torn>>

-----------------------------------------------------------------------------
Pieces(payload) == {payload} \X (1..Chunks)
Piece == Payloads \X (1..Chunks)

\* {hash} and {hash}.tmp, the two names insert uses.
Final(h) == <<"final", h>>
Tmp(h)   == <<"tmp", h>>
Names    == {"final", "tmp"} \X Hashes

Steps == {"idle", "fetching", "verifying", "opening", "writing", "renaming",
          "cached", "compiled", "mismatch", "io_error", "unreachable", "crashed"}
Ended == {"compiled", "mismatch", "io_error", "unreachable", "crashed"}

Writing(b) == pc[b] \in {"writing", "renaming"}

Goto(b, from, to) ==
  /\ pc[b] = from
  /\ pc' = [pc EXCEPT ![b] = to]

\* A file no name refers to and no running write holds: the file system may
\* hand it out again.
Free(i) ==
  /\ \A n \in Names : dir[n] # i
  /\ \A b \in Builds : Writing(b) => fd[b] # i

TypeOK ==
  /\ pc \in [Builds -> Steps]
  /\ want \in [Builds -> Hashes]
  /\ fetched \in [Builds -> Payloads \cup {Nothing}]
  /\ fd \in [Builds -> Inodes \cup {Nothing}]
  /\ offset \in [Builds -> 0..Chunks]
  /\ dir \in [Names -> Inodes \cup {Nothing}]
  /\ content \in [Inodes -> SUBSET Piece]
  /\ compiled \in [Builds -> (SUBSET Piece) \cup {Nothing}]
  /\ torn \subseteq Inodes

Init ==
  /\ pc = [b \in Builds |-> "idle"]
  /\ want \in [Builds -> Hashes]
  /\ fetched = [b \in Builds |-> Nothing]
  /\ fd = [b \in Builds |-> Nothing]
  /\ offset = [b \in Builds |-> 0]
  /\ dir = [n \in Names |-> Nothing]
  /\ content = [i \in Inodes |-> {}]
  /\ compiled = [b \in Builds |-> Nothing]
  /\ torn = {}

-----------------------------------------------------------------------------
\* retrieve: a file under the hash is taken as it is, otherwise the location
\* is asked.
Contains(h) == dir[Final(h)] # Nothing

Lookup(b) ==
  /\ Goto(b, "idle", IF Contains(want[b]) THEN "cached" ELSE "fetching")
  /\ UNCHANGED <<want, fetched, fd, offset, dir, content, compiled, torn>>

\* read_location answers with some bytes, whatever the manifest hoped for...
Fetch(b) ==
  /\ Goto(b, "fetching", "verifying")
  /\ \E payload \in Payloads : fetched' = [fetched EXCEPT ![b] = payload]
  /\ UNCHANGED <<want, fd, offset, dir, content, compiled, torn>>

\* ...or with a refusal, a status that is not 2xx, or no answer.
FetchFails(b) ==
  /\ Goto(b, "fetching", "unreachable")
  /\ UNCHANGED <<want, fetched, fd, offset, dir, content, compiled, torn>>

\* As it would read if the bytes were taken on trust.
TrustedBytes(h, payload) == payload \in Payloads

Verified(h, payload) == payload = h

Verify(b) ==
  /\ Goto(b, "verifying",
          IF Verified(want[b], fetched[b]) THEN "opening" ELSE "mismatch")
  /\ UNCHANGED <<want, fetched, fd, offset, dir, content, compiled, torn>>

\* Cache::insert, first half: std::fs::write creates or truncates the
\* temporary name, which every insert of the same hash shares...
OpenTmp(b) ==
  /\ Goto(b, "opening", "writing")
  /\ \E i \in Inodes :
       /\ IF dir[Tmp(want[b])] # Nothing THEN i = dir[Tmp(want[b])] ELSE Free(i)
       /\ fd' = [fd EXCEPT ![b] = i]
       /\ dir' = [dir EXCEPT ![Tmp(want[b])] = i]
       /\ content' = [content EXCEPT ![i] = {}]
       /\ torn' = torn \ {i}
  /\ offset' = [offset EXCEPT ![b] = 0]
  /\ UNCHANGED <<want, fetched, compiled>>

\* As it would read if one short write were taken for the whole.
WriteOnce(b) ==
  /\ Goto(b, "writing", "renaming")
  /\ offset' = [offset EXCEPT ![b] = @ + 1]
  /\ content' = [content EXCEPT ![fd[b]] = @ \cup {<<fetched[b], offset[b] + 1>>}]
  /\ UNCHANGED <<want, fetched, fd, dir, compiled, torn>>

\* ...and puts the bytes down one write at a time, at its own offset.
WritePiece(b) ==
  /\ pc[b] = "writing"
  /\ offset' = [offset EXCEPT ![b] = @ + 1]
  /\ content' = [content EXCEPT ![fd[b]] = @ \cup {<<fetched[b], offset[b] + 1>>}]
  /\ pc' = [pc EXCEPT ![b] = IF offset[b] + 1 = Chunks THEN "renaming" ELSE "writing"]
  /\ UNCHANGED <<want, fetched, fd, dir, compiled, torn>>

\* Cache::insert, second half: rename moves whatever file the temporary name
\* refers to now.
Rename(b) ==
  /\ Goto(b, "renaming", "cached")
  /\ dir[Tmp(want[b])] # Nothing
  /\ dir' = [dir EXCEPT ![Final(want[b])] = dir[Tmp(want[b])],
                        ![Tmp(want[b])] = Nothing]
  /\ UNCHANGED <<want, fetched, fd, offset, content, compiled, torn>>

\* Each call of insert may be refused: the file cannot be opened, the disk is
\* full when some of the bytes are down, or the rename fails, as it must when
\* another insert has moved the file.  The error goes to the caller and nothing
\* is taken back: the temporary file stays as it is, short if the write failed.
InsertFails(b) ==
  /\ pc[b] \in {"opening", "writing", "renaming"}
  /\ Goto(b, pc[b], "io_error")
  /\ torn' = IF pc[b] = "writing" THEN torn \cup {fd[b]} ELSE torn
  /\ UNCHANGED <<want, fetched, fd, offset, dir, content, compiled>>

\* check_module_set reads the path retrieve returned.
Compile(b) ==
  /\ Goto(b, "cached", "compiled")
  /\ compiled' = [compiled EXCEPT ![b] = content[dir[Final(want[b])]]]
  /\ UNCHANGED <<want, fetched, fd, offset, dir, content, torn>>

\* The invocation is killed, at any point of the above.
Crash(b) ==
  /\ pc[b] \notin Ended \cup {"idle"}
  /\ pc' = [pc EXCEPT ![b] = "crashed"]
  /\ torn' = IF pc[b] = "writing" THEN torn \cup {fd[b]} ELSE torn
  /\ UNCHANGED <<want, fetched, fd, offset, dir, content, compiled>>

\* The tool is run again, perhaps for another dependency.
Again(b) ==
  /\ Goto(b, pc[b], "idle")
  /\ pc[b] \in Ended
  /\ \E h \in Hashes : want' = [want EXCEPT ![b] = h]
  /\ fetched' = [fetched EXCEPT ![b] = Nothing]
  /\ fd' = [fd EXCEPT ![b] = Nothing]
  /\ offset' = [offset EXCEPT ![b] = 0]
  /\ compiled' = [compiled EXCEPT ![b] = Nothing]
  /\ UNCHANGED <<dir, content, torn>>

Run(b) ==
  \/ Lookup(b) \/ Fetch(b) \/ FetchFails(b) \/ Verify(b)
  \/ OpenTmp(b) \/ WritePiece(b) \/ Rename(b) \/ InsertFails(b) \/ Compile(b)

Next == \E b \in Builds : Run(b) \/ Crash(b) \/ Again(b)

Spec == Init /\ [][Next]_vars

\* One invocation at a time: what the tool promises when builds are not run
\* in parallel.  An invocation that has ended or not begun is not running.
Alone(b) == \A c \in Builds \ {b} : pc[c] \in Ended \cup {"idle"}
NextAlone == \E b \in Builds : Alone(b) /\ (Run(b) \/ Crash(b) \/ Again(b))
SpecAlone == Init /\ [][NextAlone]_vars

-----------------------------------------------------------------------------
\* Bytes that do not hash to the name they are stored under never reach the
\* cache, not even a temporary file of it, in any interleaving and after any
\* crash: verify is a hard failure and comes before insert.
OnlyVerifiedBytes ==
  \A h \in Hashes :
    /\ dir[Final(h)] # Nothing => content[dir[Final(h)]] \subseteq Pieces(h)
    /\ dir[Tmp(h)] # Nothing => content[dir[Tmp(h)]] \subseteq Pieces(h)

\* A file that has its final name holds all of its bytes.
EntryWhole(h) ==
  dir[Final(h)] # Nothing => content[dir[Final(h)]] = Pieces(h)

\* What survives of that promise when inserts overlap: a piece missing from an
\* entry is always owed by an invocation that is still writing that very file,
\* unless a write of that file was cut short, by a kill or by an error.  So a cache
\* nobody is writing to and in which every write went through is whole, whatever
\* the interleaving of the inserts.
Owed(i, k) == \E b \in Builds : pc[b] = "writing" /\ fd[b] = i /\ offset[b] < k

ShortEntriesAreOwed ==
  \A h \in Hashes, k \in 1..Chunks :
    LET i == dir[Final(h)] IN
    (i # Nothing /\ <<h, k>> \notin content[i]) => i \in torn \/ Owed(i, k)

-----------------------------------------------------------------------------
\* The store the cache implements: a hash is held once a file with all of its
\* bytes has its final name, and a build that compiled an entry was served it.
Store == INSTANCE ContentStore WITH
  held <- {h \in Hashes : Contains(h) /\ EntryWhole(h)},
  served <- [b \in Builds |-> IF pc[b] = "compiled" THEN want[b] ELSE Nothing],
  Unserved <- Nothing

\* Run one at a time, failing, killed and restarted at will, builds see a store whose
\* entries appear in one step and whole.
ImplementsStore == Store!Spec
=============================================================================
