\* Two builds that overlap freely, with kills and restarts, two dependencies.
SPECIFICATION Spec
CONSTANTS
  b1 = b1 b2 = b2 i1 = i1 i2 = i2 i3 = i3 i4 = i4 h1 = h1 h2 = h2
  tampered = tampered
  Nothing = Nothing
  Builds <- TwoBuilds
  Hashes <- TwoHashes
  Payloads <- TwoHashPayloads
  Inodes <- FourFiles
  Chunks = 2
SYMMETRY Interchangeable
INVARIANTS OnlyVerifiedBytes ShortEntriesAreOwed
