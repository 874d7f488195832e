-------------------------- MODULE FetchCacheProofs --------------------------
(* What holds of the cache for any number of builds, hashes and pieces.    *)
EXTENDS FetchCache, TLAPS

\* A build that is about to insert holds the bytes its manifest pinned.
HoldsPinned(b) ==
  pc[b] \in {"opening", "writing", "renaming"} => fetched[b] = want[b]

\* A running write has a file, and has not yet written everything it will.
WriteIsOpen(b) ==
  /\ Writing(b) => fd[b] \in Inodes
  /\ pc[b] = "writing" => offset[b] < Chunks

\* The path retrieve returned exists.
PathExists(b) == pc[b] = "cached" => Contains(want[b])

\* A file has one name at a time, and only writes for that name's hash.
OneName == \A n, m \in Names : dir[n] = dir[m] /\ dir[n] # Nothing => n = m

\* Every write through a file is for the hash of the name it has.
WritersAgree ==
  \A b \in Builds, n \in Names :
    Writing(b) /\ dir[n] = fd[b] => n[2] = want[b]

NamedBytes ==
  \A n \in Names : dir[n] # Nothing => content[dir[n]] \subseteq Pieces(n[2])

Short(n, k) == dir[n] # Nothing /\ <<n[2], k>> \notin content[dir[n]]

ShortNamesAreOwed ==
  \A n \in Names, k \in 1..Chunks :
    Short(n, k) => dir[n] \in torn \/ Owed(dir[n], k)

Inv ==
  /\ TypeOK
  /\ \A b \in Builds : HoldsPinned(b) /\ WriteIsOpen(b) /\ PathExists(b)
  /\ OneName
  /\ WritersAgree
  /\ NamedBytes
  /\ ShortNamesAreOwed

-----------------------------------------------------------------------------
USE DEF Steps, Ended, Names, Tmp, Final, Contains, Writing, Goto, Piece, Pieces

\* The cache starts empty and nobody is writing.
LEMMA InitInv == Init => Inv
  BY CacheAssumption DEF Init, Inv, TypeOK, HoldsPinned, WriteIsOpen, PathExists,
     OneName, WritersAgree, NamedBytes, ShortNamesAreOwed, Short

\* Every step keeps every variable in its range: the type invariant alone is
\* not enough, because a write needs an open file and an unfinished one.
LEMMA NextType ==
  ASSUME Inv, [Next]_vars
  PROVE  TypeOK'
<1>. USE CacheAssumption DEF Inv, TypeOK
<1>1. ASSUME NEW b \in Builds, Lookup(b) PROVE TypeOK'
  BY <1>1 DEF Lookup
<1>2. ASSUME NEW b \in Builds, Fetch(b) PROVE TypeOK'
  BY <1>2 DEF Fetch
<1>3. ASSUME NEW b \in Builds, FetchFails(b) PROVE TypeOK'
  BY <1>3 DEF FetchFails
<1>4. ASSUME NEW b \in Builds, Verify(b) PROVE TypeOK'
  BY <1>4 DEF Verify
<1>5. ASSUME NEW b \in Builds, OpenTmp(b) PROVE TypeOK'
  BY <1>5 DEF OpenTmp
<1>6. ASSUME NEW b \in Builds, WritePiece(b) PROVE TypeOK'
  <2>. USE <1>6 DEF WritePiece
  <2>1. fd[b] \in Inodes /\ offset[b] \in 0..Chunks /\ offset[b] < Chunks
    BY DEF WriteIsOpen
  <2>2. offset' \in [Builds -> 0..Chunks]
    BY <2>1
  <2>3. fetched[b] \in Payloads
    BY DEF HoldsPinned
  <2>4. content' \in [Inodes -> SUBSET Piece]
    BY <2>1, <2>3
  <2>5. QED BY <2>2, <2>4
<1>7. ASSUME NEW b \in Builds, Rename(b) PROVE TypeOK'
  BY <1>7 DEF Rename
<1>8. ASSUME NEW b \in Builds, Compile(b) PROVE TypeOK'
  BY <1>8 DEF Compile, PathExists
<1>9. ASSUME NEW b \in Builds, Crash(b) PROVE TypeOK'
  BY <1>9 DEF Crash, WriteIsOpen
<1>10. ASSUME NEW b \in Builds, Again(b) PROVE TypeOK'
  BY <1>10 DEF Again
<1>11. ASSUME NEW b \in Builds, InsertFails(b) PROVE TypeOK'
  BY <1>11 DEF InsertFails, WriteIsOpen
<1>12. CASE UNCHANGED vars
  BY <1>12 DEF vars
<1>13. QED
  BY <1>1, <1>2, <1>3, <1>4, <1>5, <1>6, <1>7, <1>8, <1>9, <1>10, <1>11, <1>12
  DEF Next, Run

-----------------------------------------------------------------------------
\* Opening the temporary name truncates the file it finds there, or takes a
\* fresh one; either way the opener owes every piece of it.
LEMMA OpenTmpInv ==
  ASSUME Inv, NEW b \in Builds, OpenTmp(b)
  PROVE  Inv'
<1>. DEFINE t == Tmp(want[b])
<1>1. PICK i \in Inodes :
        /\ IF dir[t] # Nothing THEN i = dir[t] ELSE Free(i)
        /\ fd' = [fd EXCEPT ![b] = i]
        /\ dir' = [dir EXCEPT ![t] = i]
        /\ content' = [content EXCEPT ![i] = {}]
        /\ torn' = torn \ {i}
  BY DEF OpenTmp
<1>2. /\ pc' = [pc EXCEPT ![b] = "writing"] /\ pc[b] = "opening"
      /\ offset' = [offset EXCEPT ![b] = 0]
      /\ UNCHANGED <<want, fetched, compiled>>
  BY DEF OpenTmp
<1>. USE CacheAssumption
<1>3. TypeOK'
  BY NextType DEF Next, Run
<1>. t \in Names
  BY DEF Inv, TypeOK
<1>4. \A n \in Names : dir[n] = i => n = t
  BY <1>1 DEF Inv, OneName, Free, TypeOK
<1>5. \A c \in Builds : Writing(c) /\ fd[c] = i => want[c] = want[b]
  BY <1>1 DEF Inv, WritersAgree, Free, TypeOK
<1>6. \A c \in Builds : HoldsPinned(c)' /\ WriteIsOpen(c)' /\ PathExists(c)'
  BY <1>1, <1>2 DEF Inv, TypeOK, HoldsPinned, WriteIsOpen, PathExists
<1>d. \A n \in Names : dir'[n] = IF n = t THEN i ELSE dir[n]
  BY <1>1 DEF Inv, TypeOK
<1>7. OneName'
  <2>1. \A n, m \in Names : dir'[n] = dir'[m] /\ dir'[n] # Nothing => n = m
    BY <1>d, <1>4 DEF Inv, OneName
  <2>2. QED BY <2>1 DEF OneName
<1>8. WritersAgree'
  <2>. SUFFICES ASSUME NEW c \in Builds, NEW n \in Names,
                       Writing(c)', dir'[n] = fd'[c]
                PROVE  n[2] = want[c]
    BY <1>2 DEF WritersAgree
  <2>1. CASE c = b
    <3>1. dir'[n] = i
      BY <2>1, <1>1 DEF Inv, TypeOK
    <3>2. n = t
      BY <3>1, <1>d, <1>4
    <3>3. QED BY <3>2, <2>1
  <2>2. CASE c # b
    <3>1. Writing(c) /\ fd'[c] = fd[c]
      BY <2>2, <1>1, <1>2 DEF Inv, TypeOK
    <3>2. CASE n = t
      <4>1. fd[c] = i
        BY <3>1, <3>2, <1>d
      <4>2. QED BY <4>1, <3>1, <3>2, <1>5
    <3>3. CASE n # t
      BY <3>1, <3>3, <1>d DEF Inv, WritersAgree
    <3>4. QED BY <3>2, <3>3
  <2>3. QED BY <2>1, <2>2
<1>9. NamedBytes'
  BY <1>1, <1>4, <1>2 DEF Inv, TypeOK, NamedBytes
<1>10. ShortNamesAreOwed'
  <2>. SUFFICES ASSUME NEW n \in Names, NEW k \in 1..Chunks, Short(n, k)'
                PROVE  (dir[n] \in torn \/ Owed(dir[n], k))'
    BY <1>1 DEF ShortNamesAreOwed
  <2>1. CASE n = t
    <3>1. pc'[b] = "writing" /\ fd'[b] = dir'[n] /\ offset'[b] < k
      BY <2>1, <1>1, <1>2, <1>d DEF Inv, TypeOK
    <3>2. QED BY <3>1 DEF Owed
  <2>2. CASE n # t
    <3>1. dir'[n] = dir[n] /\ dir[n] # i /\ Short(n, k)
      BY <2>2, <1>1, <1>4 DEF Short, Inv, TypeOK
    <3>2. dir[n] \in torn \/ Owed(dir[n], k)
      BY <3>1 DEF Inv, ShortNamesAreOwed
    <3>3. ASSUME Owed(dir[n], k) PROVE Owed(dir[n], k)'
      <4>1. PICK c \in Builds : pc[c] = "writing" /\ fd[c] = dir[n] /\ offset[c] < k
        BY <3>3 DEF Owed
      <4>2. c # b
        BY <4>1, <1>2
      <4>3. pc'[c] = "writing" /\ fd'[c] = dir'[n] /\ offset'[c] < k
        BY <4>1, <4>2, <3>1, <1>1, <1>2 DEF Inv, TypeOK
      <4>4. QED BY <4>3 DEF Owed
    <3>4. QED BY <3>1, <3>2, <3>3, <1>1
  <2>3. QED BY <2>1, <2>2
<1>11. QED BY <1>3, <1>6, <1>7, <1>8, <1>9, <1>10 DEF Inv

\* A write puts a piece of the pinned bytes into a file of that hash, and
\* stops owing exactly that piece.
LEMMA WritePieceInv ==
  ASSUME Inv, NEW b \in Builds, WritePiece(b)
  PROVE  Inv'
<1>. USE CacheAssumption
<1>. DEFINE i == fd[b]
<1>1. TypeOK'
  BY NextType DEF Next, Run
<1>2. /\ pc[b] = "writing" /\ i \in Inodes /\ offset[b] \in 0..Chunks
      /\ offset[b] < Chunks /\ fetched[b] = want[b]
      /\ offset' = [offset EXCEPT ![b] = offset[b] + 1]
      /\ content' = [content EXCEPT ![i] = @ \cup {<<want[b], offset[b] + 1>>}]
      /\ pc' = [pc EXCEPT ![b] = IF offset[b] + 1 = Chunks THEN "renaming" ELSE "writing"]
      /\ UNCHANGED <<want, fetched, fd, dir, compiled, torn>>
  BY DEF WritePiece, Inv, TypeOK, WriteIsOpen, HoldsPinned
<1>3. \A c \in Builds : HoldsPinned(c)' /\ WriteIsOpen(c)' /\ PathExists(c)'
  BY <1>2 DEF Inv, TypeOK, HoldsPinned, WriteIsOpen, PathExists
<1>4. OneName'
  BY <1>2 DEF Inv, OneName
<1>5. WritersAgree'
  BY <1>2 DEF Inv, TypeOK, WritersAgree
<1>6. NamedBytes'
  <2>. SUFFICES ASSUME NEW n \in Names, dir[n] # Nothing
                PROVE  content'[dir[n]] \subseteq Pieces(n[2])
    BY <1>2 DEF NamedBytes
  <2>1. content[dir[n]] \subseteq Pieces(n[2])
    BY DEF Inv, NamedBytes
  <2>2. CASE dir[n] = i
    <3>1. n[2] = want[b]
      BY <2>2, <1>2 DEF Inv, WritersAgree
    <3>2. QED BY <2>1, <2>2, <3>1, <1>2 DEF Inv, TypeOK
  <2>3. CASE dir[n] # i
    BY <2>1, <2>3, <1>2 DEF Inv, TypeOK
  <2>4. QED BY <2>2, <2>3
<1>7. ShortNamesAreOwed'
  <2>. SUFFICES ASSUME NEW n \in Names, NEW k \in 1..Chunks, Short(n, k)'
                PROVE  dir[n] \in torn \/ Owed(dir[n], k)'
    BY <1>2 DEF ShortNamesAreOwed
  <2>1. Short(n, k)
    BY <1>2 DEF Short, Inv, TypeOK
  <2>2. dir[n] \in torn \/ Owed(dir[n], k)
    BY <2>1 DEF Inv, ShortNamesAreOwed
  <2>3. ASSUME Owed(dir[n], k) PROVE Owed(dir[n], k)'
    <3>1. PICK c \in Builds : pc[c] = "writing" /\ fd[c] = dir[n] /\ offset[c] < k
      BY <2>3 DEF Owed
    <3>2. CASE c # b
      BY <3>1, <3>2, <1>2 DEF Owed, Inv, TypeOK
    <3>3. CASE c = b
      <4>1. n[2] = want[b]
        BY <3>1, <3>3 DEF Inv, WritersAgree
      <4>2. k # offset[b] + 1
        BY <4>1, <3>1, <3>3, <1>2 DEF Short, Inv, TypeOK
      <4>3. offset[b] + 1 < k /\ offset[b] + 1 # Chunks
        BY <4>2, <3>1, <3>3, <1>2
      <4>4. pc'[b] = "writing" /\ fd'[b] = dir[n] /\ offset'[b] < k
        BY <4>3, <3>1, <3>3, <1>2 DEF Inv, TypeOK
      <4>5. QED BY <4>4, <1>2 DEF Owed
    <3>4. QED BY <3>2, <3>3
  <2>4. QED BY <2>2, <2>3
<1>8. QED BY <1>1, <1>3, <1>4, <1>5, <1>6, <1>7 DEF Inv

\* A rename gives a file of this hash another name of this hash.
LEMMA RenameInv ==
  ASSUME Inv, NEW b \in Builds, Rename(b)
  PROVE  Inv'
<1>. USE CacheAssumption
<1>. DEFINE t == Tmp(want[b])
            f == Final(want[b])
<1>. t \in Names /\ f \in Names /\ t # f
  BY DEF Inv, TypeOK
<1>1. TypeOK'
  BY NextType DEF Next, Run
<1>2. /\ pc[b] = "renaming"
      /\ UNCHANGED <<want, fetched, fd, offset, content, compiled, torn>>
  BY DEF Rename
<1>3. dir[t] # Nothing
  BY DEF Rename
<1>4. /\ pc' = [pc EXCEPT ![b] = "cached"]
      /\ \A n \in Names : dir'[n] = IF n = f THEN dir[t]
                                   ELSE IF n = t THEN Nothing ELSE dir[n]
  BY <1>3 DEF Rename, Inv, TypeOK
<1>5. \A c \in Builds : HoldsPinned(c)' /\ WriteIsOpen(c)' /\ PathExists(c)'
  <2>. TAKE c \in Builds
  <2>1. HoldsPinned(c)' /\ WriteIsOpen(c)'
    BY <1>4, <1>2 DEF Inv, TypeOK, HoldsPinned, WriteIsOpen
  <2>2. \A h \in Hashes : Contains(h) => Contains(h)'
    BY <1>4, <1>3
  <2>3. PathExists(c)'
    BY <1>4, <1>2, <1>3, <2>2 DEF Inv, TypeOK, PathExists
  <2>4. QED BY <2>1, <2>3
<1>6. OneName'
  <2>1. \A n, m \in Names : dir'[n] = dir'[m] /\ dir'[n] # Nothing => n = m
    BY <1>4, <1>3 DEF Inv, OneName
  <2>2. QED BY <2>1 DEF OneName
<1>7. WritersAgree'
  <2>. SUFFICES ASSUME NEW c \in Builds, NEW n \in Names,
                       Writing(c)', dir'[n] = fd[c]
                PROVE  n[2] = want[c]
    BY <1>2 DEF WritersAgree
  <2>1. Writing(c) /\ fd[c] \in Inodes
    BY <1>4 DEF Inv, TypeOK, WriteIsOpen
  <2>2. CASE n = f
    BY <2>1, <2>2, <1>4 DEF Inv, WritersAgree
  <2>3. CASE n # f
    BY <2>1, <2>3, <1>4 DEF Inv, WritersAgree
  <2>4. QED BY <2>2, <2>3
<1>8. NamedBytes'
  <2>1. \A n \in Names : dir'[n] # Nothing => content[dir'[n]] \subseteq Pieces(n[2])
    BY <1>4, <1>3 DEF Inv, NamedBytes
  <2>2. QED BY <2>1, <1>2 DEF NamedBytes
<1>9. ShortNamesAreOwed'
  <2>. SUFFICES ASSUME NEW n \in Names, NEW k \in 1..Chunks, Short(n, k)'
                PROVE  (dir[n] \in torn \/ Owed(dir[n], k))'
    BY DEF ShortNamesAreOwed
  <2>. DEFINE m == IF n = f THEN t ELSE n
  <2>1. m \in Names /\ dir'[n] = dir[m] /\ m[2] = n[2]
    BY <1>4 DEF Short
  <2>2. Short(m, k)
    BY <2>1, <1>2 DEF Short
  <2>3. dir[m] \in torn \/ Owed(dir[m], k)
    BY <2>1, <2>2 DEF Inv, ShortNamesAreOwed
  <2>4. ASSUME Owed(dir[m], k) PROVE Owed(dir[n], k)'
    <3>1. PICK c \in Builds : pc[c] = "writing" /\ fd[c] = dir[m] /\ offset[c] < k
      BY <2>4 DEF Owed
    <3>2. pc'[c] = "writing" /\ fd'[c] = dir'[n] /\ offset'[c] < k
      BY <3>1, <2>1, <1>4, <1>2 DEF Inv, TypeOK
    <3>3. QED BY <3>2 DEF Owed
  <2>5. QED BY <2>1, <2>3, <2>4, <1>2
<1>10. QED BY <1>1, <1>5, <1>6, <1>7, <1>8, <1>9 DEF Inv

\* The other steps touch neither the directory nor a file.
LEMMA QuietInv ==
  ASSUME Inv, NEW b \in Builds,
         \/ Lookup(b) \/ Fetch(b) \/ FetchFails(b) \/ Verify(b)
         \/ InsertFails(b) \/ Compile(b) \/ Crash(b) \/ Again(b)
  PROVE  Inv'
<1>. USE CacheAssumption
<1>1. TypeOK'
  BY NextType DEF Next, Run
<1>2. UNCHANGED <<dir, content>>
  BY DEF Lookup, Fetch, FetchFails, Verify, InsertFails, Compile, Crash, Again
<1>3. \A c \in Builds : HoldsPinned(c)' /\ WriteIsOpen(c)' /\ PathExists(c)'
  BY DEF Lookup, Fetch, FetchFails, Verify, Verified, InsertFails, Compile, Crash, Again,
     Inv, TypeOK, HoldsPinned, WriteIsOpen, PathExists
<1>4. \A c \in Builds : Writing(c)' => Writing(c) /\ fd'[c] = fd[c] /\ want'[c] = want[c]
  BY DEF Lookup, Fetch, FetchFails, Verify, InsertFails, Compile, Crash, Again, Inv, TypeOK
<1>5. OneName' /\ NamedBytes'
  BY <1>2 DEF Inv, OneName, NamedBytes
<1>6. WritersAgree'
  BY <1>2, <1>4 DEF Inv, WritersAgree
<1>7. ShortNamesAreOwed'
  <2>. SUFFICES ASSUME NEW n \in Names, NEW k \in 1..Chunks, Short(n, k)
                PROVE  dir[n] \in torn' \/ Owed(dir[n], k)'
    BY <1>2 DEF ShortNamesAreOwed, Short
  <2>1. dir[n] \in torn \/ Owed(dir[n], k)
    BY DEF Inv, ShortNamesAreOwed
  <2>2. torn \subseteq torn'
    BY DEF Lookup, Fetch, FetchFails, Verify, InsertFails, Compile, Crash, Again
  <2>3. ASSUME Owed(dir[n], k) PROVE dir[n] \in torn' \/ Owed(dir[n], k)'
    <3>1. PICK c \in Builds : pc[c] = "writing" /\ fd[c] = dir[n] /\ offset[c] < k
      BY <2>3 DEF Owed
    <3>2. CASE c = b
      <4>1. Crash(b) \/ InsertFails(b)
        BY <3>1, <3>2 DEF Lookup, Fetch, FetchFails, Verify, Compile, Again
      <4>2. QED BY <4>1, <3>1, <3>2 DEF Crash, InsertFails
    <3>3. CASE c # b
      <4>1. pc'[c] = "writing" /\ fd'[c] = dir'[n] /\ offset'[c] < k
        BY <3>1, <3>3, <1>2 DEF Lookup, Fetch, FetchFails, Verify, InsertFails, Compile,
           Crash, Again, Inv, TypeOK
      <4>2. QED BY <4>1, <1>2 DEF Owed
    <3>4. QED BY <3>2, <3>3
  <2>4. QED BY <2>1, <2>2, <2>3
<1>8. QED BY <1>1, <1>3, <1>5, <1>6, <1>7 DEF Inv

\* The invariant is inductive, whatever the builds do and in any order.
LEMMA NextInv == Inv /\ [Next]_vars => Inv'
<1>. SUFFICES ASSUME Inv, [Next]_vars PROVE Inv'
  OBVIOUS
<1>1. ASSUME NEW b \in Builds, Run(b) \/ Crash(b) \/ Again(b) PROVE Inv'
  BY <1>1, OpenTmpInv, WritePieceInv, RenameInv, QuietInv DEF Run
<1>2. CASE UNCHANGED vars
  <2>1. TypeOK'
    BY NextType
  <2>2. \A i, k : Owed(i, k) => Owed(i, k)'
    BY <1>2 DEF vars, Owed
  <2>3. QED
    BY <2>1, <2>2, <1>2 DEF vars, Inv, HoldsPinned, WriteIsOpen, PathExists, OneName,
       WritersAgree, NamedBytes, ShortNamesAreOwed, Short
<1>3. QED BY <1>1, <1>2 DEF Next

LEMMA AlwaysInv == Spec => []Inv
  BY InitInv, NextInv, PTL DEF Spec

-----------------------------------------------------------------------------
\* Every variable of the cache and of its builds stays in its range.
THEOREM TypeCorrect == Spec => []TypeOK
<1>1. Inv => TypeOK
  BY DEF Inv
<1>2. QED BY <1>1, AlwaysInv, PTL

\* No interleaving of lookups, fetches, inserts, failures and kills puts a byte into the
\* cache under a hash it does not have (verify_and_cache verifies first).
THEOREM VerifiedOnly == Spec => []OnlyVerifiedBytes
<1>1. Inv => OnlyVerifiedBytes
  BY DEF Inv, NamedBytes, OnlyVerifiedBytes
<1>2. QED BY <1>1, AlwaysInv, PTL

\* A cache entry is whole once nobody is writing to it and no write of it was cut
\* short, by a kill or by an error of std::fs::write (cache.rs:76): overlapping
\* inserts alone leave nothing short behind.
THEOREM ShortMeansOwed == Spec => []ShortEntriesAreOwed
<1>1. Inv => ShortEntriesAreOwed
  BY DEF Inv, ShortNamesAreOwed, Short, ShortEntriesAreOwed
<1>2. QED BY <1>1, AlwaysInv, PTL

-----------------------------------------------------------------------------
(***************************************************************************)
(* One invocation at a time the cache is a store: entries appear whole.    *)
(***************************************************************************)

\* A write in progress has the temporary name to itself and has put down
\* exactly the pieces before its offset; a rename is due when that is all.
WriteInPlace(b) ==
  Writing(b) => /\ dir[Tmp(want[b])] = fd[b]
                /\ content[fd[b]] = {want[b]} \X (1..offset[b])
                /\ pc[b] = "renaming" => offset[b] = Chunks

InvAlone ==
  /\ Inv
  /\ \A b \in Builds : WriteInPlace(b)
  /\ \A h \in Hashes : EntryWhole(h)

Still(c) == pc[c] \in Ended \cup {"idle"}

LEMMA InitAlone == Init => InvAlone
  BY InitInv DEF Init, InvAlone, WriteInPlace, EntryWhole

\* The other builds are between invocations, and stay there.
LEMMA OthersStill ==
  ASSUME InvAlone, NEW b \in Builds, Alone(b), Run(b) \/ Crash(b) \/ Again(b)
  PROVE  \A c \in Builds \ {b} : WriteInPlace(c)'
<1>1. \A c \in Builds \ {b} : pc'[c] = pc[c]
  BY DEF InvAlone, Inv, TypeOK, Run, Lookup, Fetch, FetchFails, Verify, OpenTmp,
     WritePiece, Rename, InsertFails, Compile, Crash, Again
<1>2. QED BY <1>1 DEF WriteInPlace, Alone

\* A file with a final name is not the file of a write in progress.
LEMMA EntryApart ==
  ASSUME InvAlone, NEW b \in Builds, Writing(b), NEW h \in Hashes, dir[Final(h)] # Nothing
  PROVE  dir[Final(h)] # fd[b]
<1>1. want[b] \in Hashes /\ dir[Tmp(want[b])] = fd[b]
  BY DEF InvAlone, Inv, TypeOK, WriteInPlace
<1>2. Final(h) \in Names /\ Tmp(want[b]) \in Names /\ Final(h) # Tmp(want[b])
  BY <1>1 DEF Names, Final, Tmp
<1>3. OneName
  BY DEF InvAlone, Inv
<1>4. QED BY <1>1, <1>2, <1>3 DEF OneName

LEMMA OpenAlone ==
  ASSUME InvAlone, NEW b \in Builds, OpenTmp(b)
  PROVE  /\ WriteInPlace(b)' /\ \A h \in Hashes : EntryWhole(h)'
         /\ \A h \in Hashes : Contains(h)' <=> Contains(h)
<1>. DEFINE t == Tmp(want[b])
<1>1. PICK i \in Inodes :
        /\ IF dir[t] # Nothing THEN i = dir[t] ELSE Free(i)
        /\ fd' = [fd EXCEPT ![b] = i]
        /\ dir' = [dir EXCEPT ![t] = i]
        /\ content' = [content EXCEPT ![i] = {}]
  BY DEF OpenTmp
<1>2. /\ pc' = [pc EXCEPT ![b] = "writing"]
      /\ offset' = [offset EXCEPT ![b] = 0] /\ want' = want
  BY DEF OpenTmp
<1>. USE CacheAssumption
<1>3. t \in Names /\ \A h \in Hashes : Final(h) \in Names /\ Final(h) # t
  BY DEF InvAlone, Inv, TypeOK
<1>4. \A n \in Names : dir[n] = i => n = t
  BY <1>1, <1>3 DEF InvAlone, Inv, OneName, Free, TypeOK
<1>5. \A h \in Hashes : dir'[Final(h)] = dir[Final(h)] /\ dir[Final(h)] # i
  BY <1>1, <1>3, <1>4 DEF InvAlone, Inv, TypeOK
<1>6. \A h \in Hashes : EntryWhole(h)'
  <2>. SUFFICES ASSUME NEW h \in Hashes, dir'[Final(h)] # Nothing
                PROVE  content'[dir'[Final(h)]] = Pieces(h)
    BY DEF EntryWhole
  <2>1. dir'[Final(h)] = dir[Final(h)] /\ dir[Final(h)] # i /\ dir[Final(h)] # Nothing
    BY <1>5
  <2>2. dir[Final(h)] \in Inodes
    BY <1>3, <2>1 DEF InvAlone, Inv, TypeOK
  <2>3. content'[dir[Final(h)]] = content[dir[Final(h)]]
    BY <1>1, <2>1, <2>2 DEF InvAlone, Inv, TypeOK
  <2>4. QED BY <2>1, <2>3 DEF InvAlone, EntryWhole
<1>7. WriteInPlace(b)'
  <2>1. dir'[t] = i /\ fd'[b] = i /\ content'[i] = {} /\ offset'[b] = 0 /\ pc'[b] = "writing"
    BY <1>1, <1>2, <1>3 DEF InvAlone, Inv, TypeOK
  <2>2. 1..0 = {}
    OBVIOUS
  <2>3. QED BY <1>2, <2>1, <2>2 DEF WriteInPlace
<1>8. QED BY <1>5, <1>6, <1>7

LEMMA WriteAlone ==
  ASSUME InvAlone, NEW b \in Builds, WritePiece(b)
  PROVE  /\ WriteInPlace(b)' /\ \A h \in Hashes : EntryWhole(h)'
         /\ \A h \in Hashes : Contains(h)' <=> Contains(h)
<1>. USE CacheAssumption
<1>. DEFINE i == fd[b]
            k == offset[b]
<1>1. /\ pc[b] = "writing" /\ i \in Inodes /\ k \in 0..Chunks /\ k < Chunks
      /\ fetched[b] = want[b]
      /\ offset' = [offset EXCEPT ![b] = k + 1]
      /\ content' = [content EXCEPT ![i] = @ \cup {<<want[b], k + 1>>}]
      /\ pc' = [pc EXCEPT ![b] = IF k + 1 = Chunks THEN "renaming" ELSE "writing"]
      /\ UNCHANGED <<want, fd, dir>>
  BY DEF WritePiece, InvAlone, Inv, TypeOK, WriteIsOpen, HoldsPinned
<1>2. dir[Tmp(want[b])] = i /\ content[i] = {want[b]} \X (1..k)
  BY <1>1 DEF InvAlone, WriteInPlace
<1>3. content'[i] = {want[b]} \X (1..(k + 1))
  <2>1. content'[i] = content[i] \cup {<<want[b], k + 1>>}
    BY <1>1 DEF InvAlone, Inv, TypeOK
  <2>2. 1..(k + 1) = (1..k) \cup {k + 1}
    BY <1>1
  <2>3. QED BY <1>2, <2>1, <2>2
<1>4. offset'[b] = k + 1 /\ (pc'[b] = "renaming" => k + 1 = Chunks)
  BY <1>1 DEF InvAlone, Inv, TypeOK
<1>5. WriteInPlace(b)'
  BY <1>1, <1>2, <1>3, <1>4 DEF WriteInPlace
<1>6. \A h \in Hashes : EntryWhole(h)'
  <2>. SUFFICES ASSUME NEW h \in Hashes, dir[Final(h)] # Nothing
                PROVE  content'[dir[Final(h)]] = Pieces(h)
    BY <1>1 DEF EntryWhole
  <2>1. dir[Final(h)] # i /\ dir[Final(h)] \in Inodes
    BY <1>1, EntryApart DEF InvAlone, Inv, TypeOK
  <2>2. content'[dir[Final(h)]] = content[dir[Final(h)]]
    BY <1>1, <2>1 DEF InvAlone, Inv, TypeOK
  <2>3. QED BY <2>2 DEF InvAlone, EntryWhole
<1>7. QED BY <1>1, <1>5, <1>6

LEMMA RenameAlone ==
  ASSUME InvAlone, NEW b \in Builds, Rename(b)
  PROVE  /\ pc' = [pc EXCEPT ![b] = "cached"]
         /\ WriteInPlace(b)' /\ \A h \in Hashes : EntryWhole(h)'
         /\ \A h \in Hashes : Contains(h)' <=> Contains(h) \/ h = want[b]
<1>. USE CacheAssumption
<1>. DEFINE t == Tmp(want[b])
            f == Final(want[b])
<1>1. t \in Names /\ f \in Names /\ t # f
  BY DEF InvAlone, Inv, TypeOK
<1>2. pc[b] = "renaming" /\ UNCHANGED <<want, content>>
  BY DEF Rename
<1>3. /\ dir[t] = fd[b] /\ fd[b] \in Inodes /\ offset[b] = Chunks
      /\ content[fd[b]] = Pieces(want[b])
  BY <1>2 DEF InvAlone, Inv, WriteInPlace, WriteIsOpen
<1>4. /\ pc' = [pc EXCEPT ![b] = "cached"]
      /\ \A n \in Names : dir'[n] = IF n = f THEN dir[t]
                                   ELSE IF n = t THEN Nothing ELSE dir[n]
  BY <1>1, <1>3 DEF Rename, InvAlone, Inv, TypeOK
<1>5. WriteInPlace(b)'
  BY <1>4 DEF WriteInPlace, InvAlone, Inv, TypeOK
<1>6. \A h \in Hashes : Final(h) \in Names /\ Final(h) # t /\ (Final(h) = f => h = want[b])
  OBVIOUS
<1>7. \A h \in Hashes : EntryWhole(h)'
  BY <1>2, <1>3, <1>4, <1>6 DEF InvAlone, EntryWhole
<1>8. \A h \in Hashes : Contains(h)' <=> Contains(h) \/ h = want[b]
  BY <1>3, <1>4, <1>6
<1>9. QED BY <1>4, <1>5, <1>7, <1>8

\* The other steps touch neither the directory nor a file.
LEMMA QuietAlone ==
  ASSUME InvAlone, NEW b \in Builds,
         \/ Lookup(b) \/ Fetch(b) \/ FetchFails(b) \/ Verify(b)
         \/ InsertFails(b) \/ Compile(b) \/ Crash(b) \/ Again(b)
  PROVE  /\ WriteInPlace(b)' /\ \A h \in Hashes : EntryWhole(h)'
         /\ \A h \in Hashes : Contains(h)' <=> Contains(h)
<1>1. UNCHANGED <<dir, content>> /\ ~Writing(b)'
  BY DEF Lookup, Fetch, FetchFails, Verify, InsertFails, Compile, Crash, Again, InvAlone,
     Inv, TypeOK
<1>2. QED BY <1>1 DEF WriteInPlace, InvAlone, EntryWhole

LEMMA KeptAlone ==
  ASSUME InvAlone, NEW b \in Builds, Alone(b), Run(b) \/ Crash(b) \/ Again(b)
  PROVE  InvAlone'
<1>1. Inv'
  BY NextInv DEF InvAlone, Next
<1>2. WriteInPlace(b)' /\ \A h \in Hashes : EntryWhole(h)'
  BY OpenAlone, WriteAlone, RenameAlone, QuietAlone DEF Run
<1>3. QED BY <1>1, <1>2, OthersStill DEF InvAlone

LEMMA NextInvAlone == InvAlone /\ [NextAlone]_vars => InvAlone'
<1>1. ASSUME InvAlone, NextAlone PROVE InvAlone'
  BY <1>1, KeptAlone DEF NextAlone
<1>2. ASSUME InvAlone, UNCHANGED vars PROVE InvAlone'
  <2>1. Inv'
    BY <1>2, NextInv DEF InvAlone
  <2>2. QED BY <1>2, <2>1 DEF vars, InvAlone, WriteInPlace, EntryWhole
<1>3. QED BY <1>1, <1>2

-----------------------------------------------------------------------------
\* What the store holds and has served, as the cache stands.
Held == {h \in Hashes : Contains(h) /\ EntryWhole(h)}
Served == [b \in Builds |-> IF pc[b] = "compiled" THEN want[b] ELSE Nothing]

LEMMA StoreSteps ==
  ASSUME InvAlone, NEW b \in Builds, Alone(b), Run(b) \/ Crash(b) \/ Again(b)
  PROVE  \/ \E h \in Hashes : Held' = Held \cup {h} /\ Served' = Served
         \/ \E c \in Builds : Served' = [Served EXCEPT ![c] = Nothing] /\ Held' = Held
         \/ \E c \in Builds, h \in Hashes :
               /\ h \in Held /\ Served[c] = Nothing
               /\ Served' = [Served EXCEPT ![c] = h] /\ Held' = Held
         \/ Held' = Held /\ Served' = Served
<1>. USE CacheAssumption
<1>1. InvAlone'
  BY KeptAlone
<1>2. /\ Held = {h \in Hashes : Contains(h)}
      /\ Held' = {h \in Hashes : Contains(h)'}
  BY <1>1 DEF Held, InvAlone
<1>3. CASE Rename(b)
  <2>1. want[b] \in Hashes /\ Held' = Held \cup {want[b]}
    BY <1>2, <1>3, RenameAlone DEF InvAlone, Inv, TypeOK
  <2>2. Served' = Served
    <3>1. \A c \in Builds : /\ want'[c] = want[c]
                            /\ pc'[c] = "compiled" <=> pc[c] = "compiled"
      BY <1>3, RenameAlone DEF Rename, InvAlone, Inv, TypeOK
    <3>2. QED BY <3>1 DEF Served
  <2>3. QED BY <2>1, <2>2
<1>4. ASSUME ~Rename(b) PROVE Held' = Held
  BY <1>2, <1>4, OpenAlone, WriteAlone, QuietAlone DEF Run
<1>5. CASE Compile(b)
  <2>1. ~Rename(b)
    BY <1>5 DEF Compile, Rename
  <2>2. want[b] \in Held /\ want[b] \in Hashes
    BY <1>2, <1>5 DEF Compile, InvAlone, Inv, TypeOK, PathExists
  <2>3. Served[b] = Nothing
    BY <1>5 DEF Compile, Served
  <2>4. \A c \in Builds : /\ want'[c] = want[c]
                          /\ pc'[c] = IF c = b THEN "compiled" ELSE pc[c]
    BY <1>5 DEF Compile, InvAlone, Inv, TypeOK
  <2>5. Served' = [Served EXCEPT ![b] = want[b]]
    BY <2>4 DEF Served
  <2>6. QED BY <1>4, <2>1, <2>2, <2>3, <2>5
<1>6. CASE Again(b)
  <2>1. ~Rename(b)
    BY <1>6 DEF Again, Rename
  <2>2. \A c \in Builds : /\ c # b => want'[c] = want[c]
                          /\ pc'[c] = IF c = b THEN "idle" ELSE pc[c]
    BY <1>6 DEF Again, InvAlone, Inv, TypeOK
  <2>3. Served' = [Served EXCEPT ![b] = Nothing]
    BY <2>2 DEF Served
  <2>4. QED BY <1>4, <2>1, <2>3
<1>7. CASE ~Rename(b) /\ ~Compile(b) /\ ~Again(b)
  <2>1. \A c \in Builds : /\ want'[c] = want[c]
                          /\ pc'[c] = "compiled" <=> pc[c] = "compiled"
    BY <1>7 DEF Run, Lookup, Fetch, FetchFails, Verify, OpenTmp, WritePiece, InsertFails,
       Crash, InvAlone, Inv, TypeOK
  <2>2. Served' = Served
    BY <2>1 DEF Served
  <2>3. QED BY <1>4, <1>7, <2>2
<1>8. QED BY <1>3, <1>5, <1>6, <1>7

\* Builds that do not overlap, whose inserts may fail at any call and which are
\* killed and run again at will, see a store whose
\* entries appear whole and in one step (cache.rs insert and lookup, main.rs
\* retrieve), for any number of builds, hashes and pieces.
THEOREM AloneIsAStore == SpecAlone => ImplementsStore
<1>1. Init => Store!Init
  <2>. SUFFICES ASSUME Init PROVE Held = {} /\ Served = [b \in Builds |-> Nothing]
    BY DEF Store!Init, Held, Served
  <2>1. QED BY DEF Init, Held, Served
<1>2. InvAlone /\ [NextAlone]_vars => [Store!Next]_<<Held, Served>>
  <2>. SUFFICES ASSUME InvAlone, [NextAlone]_vars
                PROVE  Store!Next \/ (Held' = Held /\ Served' = Served)
    OBVIOUS
  <2>1. CASE UNCHANGED vars
    BY <2>1 DEF vars, Held, Served, EntryWhole
  <2>2. ASSUME NEW b \in Builds, Alone(b), Run(b) \/ Crash(b) \/ Again(b)
        PROVE  Store!Next \/ (Held' = Held /\ Served' = Served)
    <3>1. CASE \E h \in Hashes : Held' = Held \cup {h} /\ Served' = Served
      BY <3>1 DEF Store!Next, Store!Store, Held, Served
    <3>2. CASE \E c \in Builds : Served' = [Served EXCEPT ![c] = Nothing] /\ Held' = Held
      BY <3>2 DEF Store!Next, Store!Forget, Held, Served
    <3>3. CASE \E c \in Builds, h \in Hashes :
                  /\ h \in Held /\ Served[c] = Nothing
                  /\ Served' = [Served EXCEPT ![c] = h] /\ Held' = Held
      BY <3>3 DEF Store!Next, Store!Serve, Held, Served
    <3>4. QED BY <2>2, <3>1, <3>2, <3>3, StoreSteps
  <2>3. QED BY <2>1, <2>2 DEF NextAlone
<1>3. SpecAlone => []InvAlone
  BY InitAlone, NextInvAlone, PTL DEF SpecAlone
<1>4. QED BY <1>1, <1>2, <1>3, PTL DEF SpecAlone, ImplementsStore, Store!Spec, Held, Served
=============================================================================
