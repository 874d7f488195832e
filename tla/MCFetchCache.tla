---------------------------- MODULE MCFetchCache ----------------------------
(* Small instances of FetchCache.  Builds and files are interchangeable.    *)
EXTENDS FetchCache, TLC

CONSTANTS b1, b2, i1, i2, i3, i4, h1, h2, tampered

TwoBuilds == {b1, b2}
FourFiles == {i1, i2, i3, i4}
TwoHashes == {h1, h2}
TwoHashPayloads == {h1, h2, tampered}

Interchangeable == Permutations(TwoBuilds) \cup Permutations(FourFiles)
=============================================================================
