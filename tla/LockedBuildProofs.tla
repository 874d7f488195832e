------------------------- MODULE LockedBuildProofs -------------------------
(***************************************************************************)
(* What holds of a command and its lock file for any tree, any manifests   *)
(* and any number of commands and of writes by others: the copy on disk    *)
(* wins over the one that ships, a lock lists what was compiled, and a     *)
(* build that is held to it compiles the same texts.                       *)
(***************************************************************************)
EXTENDS LockedBuild, FiniteSetTheorems, SequenceTheorems, WellFoundedInduction, TLAPS

(***************************************************************************)
(* Sequences and sets.                                                     *)
(***************************************************************************)
LEMMA Smallest ==
    ASSUME NEW S, S \subseteq Nat, S # {}
    PROVE  \E x \in S : \A y \in S : x <= y
<1> DEFINE R == {ss \in Nat \X Nat : ss[1] < ss[2]}
<1>1. IsWellFoundedOn(R, Nat)
  BY NatLessThanWellFounded DEF OpToRel
<1>2. \A x, y \in S : y < x => <<y, x>> \in R
  OBVIOUS
<1> HIDE DEF R
<1>3. PICK x \in S : \A y \in S : ~(<<y, x>> \in R)
  BY <1>1, WFMin
<1>4. ASSUME NEW y \in S PROVE x <= y
  <2>1. x \in Nat /\ y \in Nat /\ ~(y < x)
    BY <1>2, <1>3
  <2> QED BY <2>1
<1> QED BY <1>4

\* A set of numbers with a bound has a greatest.
LEMMA Greatest ==
    ASSUME NEW n \in Nat, NEW S, S \subseteq 1..n, S # {}
    PROVE  \E x \in S : \A y \in S : y <= x
<1> DEFINE Bounds == {m \in Nat : \A k \in S : k <= m}
<1>1. Bounds \subseteq Nat /\ n \in Bounds
  OBVIOUS
<1>2. PICK m \in Bounds : \A b \in Bounds : m <= b
  BY <1>1, Smallest
<1>3. m \in S
  <2> SUFFICES ASSUME m \notin S PROVE FALSE
    OBVIOUS
  <2>1. \A k \in S : k \in Nat /\ k >= 1 /\ k <= m /\ k # m
    BY <1>2
  <2>2. PICK k \in S : TRUE
    OBVIOUS
  <2>3. m \in Nat /\ m - 1 \in Nat
    BY <2>1, <2>2
  <2>4. \A j \in S : j <= m - 1
    BY <2>1, <2>3
  <2>5. m - 1 \in Bounds
    BY <2>3, <2>4
  <2>6. m <= m - 1
    BY <1>2, <2>5
  <2> QED BY <2>3, <2>6
<1>4. \A y \in S : y <= m
  BY <1>2
<1> QED BY <1>3, <1>4

LEMMA ElementsTyped ==
    ASSUME NEW T, NEW s \in Seq(T) PROVE Elements(s) \subseteq T
BY LenProperties, ElementOfSeq DEF Elements

LEMMA ElementsAppend ==
    ASSUME NEW T, NEW s \in Seq(T), NEW x \in T
    PROVE  Append(s, x) \in Seq(T) /\ Elements(Append(s, x)) = Elements(s) \cup {x}
<1>1. /\ Append(s, x) \in Seq(T) /\ Len(s) \in Nat /\ Len(Append(s, x)) = Len(s) + 1
      /\ \A i \in 1..Len(s) : Append(s, x)[i] = s[i]
      /\ Append(s, x)[Len(s) + 1] = x
  OBVIOUS
<1>2. DOMAIN s = 1..Len(s) /\ DOMAIN Append(s, x) = 1..Len(s) + 1
  BY <1>1, LenProperties
<1>3. 1..Len(s) + 1 = 1..Len(s) \cup {Len(s) + 1}
  BY <1>1
<1> QED BY <1>1, <1>2, <1>3 DEF Elements

LEMMA ElementsConcat ==
    ASSUME NEW T, NEW s \in Seq(T), NEW t \in Seq(T)
    PROVE  s \o t \in Seq(T) /\ Elements(s \o t) = Elements(s) \cup Elements(t)
<1>1. /\ s \o t \in Seq(T) /\ Len(s) \in Nat /\ Len(t) \in Nat
      /\ Len(s \o t) = Len(s) + Len(t)
      /\ \A i \in 1..Len(s) + Len(t) :
            (s \o t)[i] = IF i <= Len(s) THEN s[i] ELSE t[i - Len(s)]
  BY ConcatProperties, LenProperties
<1>2. /\ DOMAIN s = 1..Len(s) /\ DOMAIN t = 1..Len(t)
      /\ DOMAIN (s \o t) = 1..Len(s) + Len(t)
  BY <1>1, LenProperties
<1>3. ASSUME NEW i \in 1..Len(s) + Len(t)
      PROVE  (s \o t)[i] \in Elements(s) \cup Elements(t)
  <2>1. CASE i <= Len(s)
    BY <1>1, <1>2, <2>1 DEF Elements
  <2>2. CASE ~(i <= Len(s))
    <3>1. i - Len(s) \in 1..Len(t) /\ (s \o t)[i] = t[i - Len(s)]
      BY <1>1, <2>2
    <3> QED BY <1>2, <3>1 DEF Elements
  <2> QED BY <2>1, <2>2
<1>4. ASSUME NEW i \in 1..Len(s) PROVE s[i] \in Elements(s \o t)
  <2>1. i \in 1..Len(s) + Len(t) /\ (s \o t)[i] = s[i]
    BY <1>1
  <2> QED BY <1>2, <2>1 DEF Elements
<1>5. ASSUME NEW i \in 1..Len(t) PROVE t[i] \in Elements(s \o t)
  <2>1. Len(s) + i \in 1..Len(s) + Len(t) /\ (s \o t)[Len(s) + i] = t[i]
    BY <1>1
  <2> QED BY <1>2, <2>1 DEF Elements
<1> QED BY <1>1, <1>2, <1>3, <1>4, <1>5 DEF Elements

LEMMA ElementsTail ==
    ASSUME NEW T, NEW s \in Seq(T), s # <<>>
    PROVE  /\ Head(s) \in T /\ Tail(s) \in Seq(T)
           /\ Elements(s) = {Head(s)} \cup Elements(Tail(s))
<1>1. /\ Head(s) \in T /\ Tail(s) \in Seq(T) /\ Len(s) \in Nat \ {0} /\ s[1] = Head(s)
      /\ Len(Tail(s)) = Len(s) - 1 /\ \A i \in 1..Len(s) - 1 : Tail(s)[i] = s[i + 1]
  OBVIOUS
<1>2. DOMAIN s = 1..Len(s) /\ DOMAIN Tail(s) = 1..Len(s) - 1
  BY <1>1, LenProperties
<1>3. ASSUME NEW i \in 1..Len(s) PROVE s[i] \in {Head(s)} \cup Elements(Tail(s))
  <2>1. CASE i = 1
    BY <1>1, <2>1
  <2>2. CASE i # 1
    <3>1. i - 1 \in 1..Len(s) - 1 /\ Tail(s)[i - 1] = s[i]
      BY <1>1, <2>2
    <3> QED BY <1>2, <3>1 DEF Elements
  <2> QED BY <2>1, <2>2
<1>4. ASSUME NEW i \in 1..Len(s) - 1 PROVE Tail(s)[i] \in Elements(s)
  <2>1. i + 1 \in 1..Len(s) /\ Tail(s)[i] = s[i + 1]
    BY <1>1
  <2> QED BY <1>2, <2>1 DEF Elements
<1>5. Head(s) \in Elements(s)
  BY <1>1, <1>2 DEF Elements
<1> QED BY <1>1, <1>2, <1>3, <1>4, <1>5 DEF Elements

\* A listing of a finite set is a sequence of it that leaves nothing out.
LEMMA ListingIsSeq ==
    ASSUME NEW S, IsFiniteSet(S), NEW order \in Listings(S)
    PROVE  order \in Seq(S) /\ Elements(order) = S /\ DOMAIN order = 1..Len(order)
<1> DEFINE n == Cardinality(S)
<1>1. n \in Nat
  BY FS_CardinalityType
<1>2. order \in [1..n -> S] /\ \A x \in S : \E i \in DOMAIN order : order[i] = x
  BY DEF Listings
<1> HIDE DEF n
<1>3. order \in Seq(S)
  BY <1>1, <1>2, SeqDef
<1>4. Elements(order) = S
  BY <1>2 DEF Elements
<1> QED BY <1>3, <1>4, LenProperties

LEMMA FiniteIsListed ==
    ASSUME NEW S, IsFiniteSet(S) PROVE Listings(S) # {}
<1>1. Cardinality(S) \in Nat /\ ExistsBijection(1..Cardinality(S), S)
  BY FS_CardinalityType
<1>2. PICK f : f \in Bijection(1..Cardinality(S), S)
  BY <1>1 DEF ExistsBijection
<1>3. f \in [1..Cardinality(S) -> S] /\ \A x \in S : \E i \in 1..Cardinality(S) : f[i] = x
  BY <1>2 DEF Bijection, Surjection, Injection
<1> QED BY <1>3 DEF Listings

\* What is outside is numbered from one, without a gap.
LEMMA Numbered ==
    ASSUME NEW n \in Nat, NEW kept, kept \subseteq 1..n, NEW k \in 1..Cardinality(kept)
    PROVE  \E i \in kept : Cardinality({j \in kept : j <= i}) = k
<1> DEFINE UpTo(i) == {j \in kept : j <= i}
           Big == {i \in kept : Cardinality(UpTo(i)) >= k}
<1>1. IsFiniteSet(kept) /\ Cardinality(kept) \in Nat
  <2>1. IsFiniteSet(1..n)
    BY FS_Interval
  <2> QED BY <2>1, FS_Subset, FS_CardinalityType
<1>2. \A S \in SUBSET kept : IsFiniteSet(S) /\ Cardinality(S) \in Nat
  BY <1>1, FS_Subset, FS_CardinalityType
<1>3. kept # {} /\ kept \subseteq Nat /\ k \in Nat /\ k >= 1
  <2>1. kept # {}
    BY <1>1, FS_EmptySet
  <2> QED BY <1>1, <2>1
<1>4. Big # {}
  <2>1. PICK g \in kept : \A y \in kept : y <= g
    BY <1>3, Greatest
  <2>2. UpTo(g) = kept
    BY <2>1
  <2>3. Cardinality(kept) >= k
    BY <1>1
  <2> QED BY <2>1, <2>2, <2>3
<1>5. PICK i \in Big : \A y \in Big : i <= y
  <2>1. Big \subseteq Nat
    BY <1>3
  <2> HIDE DEF Big
  <2> QED BY <1>4, <2>1, Smallest
<1>6. i \in kept /\ Cardinality(UpTo(i)) >= k /\ i \in UpTo(i)
  BY <1>3, <1>5
<1>7. Cardinality(UpTo(i)) \in Nat /\ IsFiniteSet(UpTo(i))
  BY <1>2
<1>8. ~(Cardinality(UpTo(i)) > k)
  <2> SUFFICES ASSUME Cardinality(UpTo(i)) > k PROVE FALSE
    OBVIOUS
  <2> DEFINE W == UpTo(i) \ {i}
  <2>1. Cardinality(W) = Cardinality(UpTo(i)) - 1
    BY <1>6, <1>7, FS_RemoveElement
  <2>2. Cardinality(W) >= k /\ W \subseteq kept
    BY <1>3, <1>7, <2>1
  <2>3. W # {}
    BY <1>3, <2>2, FS_EmptySet
  <2>4. W \subseteq 1..n
    OBVIOUS
  <2>5. PICK g \in W : \A y \in W : y <= g
    <3> HIDE DEF W
    <3> QED BY <2>3, <2>4, Greatest
  <2>6. g \in kept /\ g \in Nat /\ i \in Nat /\ g < i
    BY <1>3, <1>6, <2>5
  <2>7. UpTo(g) = W
    <3>1. \A j \in kept : j \in Nat
      BY <1>3
    <3>2. \A j \in kept : j <= g => j \in W
      BY <2>6, <3>1
    <3>3. \A j \in W : j \in kept /\ j <= g
      BY <2>5
    <3> QED BY <3>2, <3>3
  <2>8. g \in Big
    BY <2>2, <2>6, <2>7
  <2> QED BY <1>5, <2>6, <2>8
<1>9. Cardinality(UpTo(i)) = k
  <2> HIDE DEF UpTo, Big
  <2> QED BY <1>3, <1>6, <1>7, <1>8
<1> QED BY <1>6, <1>9

LEMMA OutsideTyped ==
    ASSUME NEW T, NEW s \in Seq(T), NEW S
    PROVE  Outside(s, S) \in Seq(T) /\ Elements(Outside(s, S)) \subseteq Elements(s)
<1> DEFINE kept == {i \in DOMAIN s : s[i] \notin S}
           nth(k) == CHOOSE i \in kept : Cardinality({j \in kept : j <= i}) = k
<1>1. Len(s) \in Nat /\ DOMAIN s = 1..Len(s) /\ \A i \in DOMAIN s : s[i] \in T
  BY LenProperties, ElementOfSeq
<1>2. kept \subseteq 1..Len(s)
  BY <1>1
<1>3. Cardinality(kept) \in Nat
  <2> HIDE DEF kept
  <2>1. IsFiniteSet(1..Len(s))
    BY <1>1, FS_Interval
  <2> QED BY <1>2, <2>1, FS_Subset, FS_CardinalityType
<1>4. Outside(s, S) = [k \in 1..Cardinality(kept) |-> s[nth(k)]]
  BY DEF Outside
<1>5. ASSUME NEW k \in 1..Cardinality(kept) PROVE nth(k) \in kept
  <2> HIDE DEF kept
  <2>1. \E i \in kept : Cardinality({j \in kept : j <= i}) = k
    BY <1>1, <1>2, Numbered
  <2> QED BY <2>1
<1>6. \A k \in 1..Cardinality(kept) : s[nth(k)] \in T /\ s[nth(k)] \in Elements(s)
  <2>1. \A i \in kept : s[i] \in T /\ s[i] \in Elements(s)
    BY <1>1 DEF Elements
  <2> HIDE DEF kept, nth
  <2> QED BY <1>5, <2>1
<1> HIDE DEF kept, nth
<1>7. Outside(s, S) \in [1..Cardinality(kept) -> T]
  BY <1>4, <1>6
<1>8. Outside(s, S) \in Seq(T)
  BY <1>3, <1>7, SeqDef
<1>9. Elements(Outside(s, S)) \subseteq Elements(s)
  <2>1. \A k \in DOMAIN Outside(s, S) : Outside(s, S)[k] \in Elements(s)
    BY <1>4, <1>6
  <2>2. Elements(Outside(s, S)) = {Outside(s, S)[k] : k \in DOMAIN Outside(s, S)}
    BY DEF Elements
  <2> QED BY <2>1, <2>2
<1> QED BY <1>8, <1>9

\* The stages of a command, as what was touched in between remembers them.
LEMMA StageOrder ==
    /\ Stage("seeds") = 1 /\ Stage("pinned") = 2 /\ Stage("search") = 3
    /\ Stage("lock") = 4 /\ Stage("verify") = 5 /\ Stage("read") = 6
    /\ Stage("record") = 7 /\ Stage("write") = 8 /\ Stage("done") = 9
<1>1. DOMAIN Stages = 1..9
  BY DEF Stages
<1>2. /\ Stages[1] = "seeds" /\ Stages[2] = "pinned" /\ Stages[3] = "search"
      /\ Stages[4] = "lock" /\ Stages[5] = "verify" /\ Stages[6] = "read"
      /\ Stages[7] = "record" /\ Stages[8] = "write" /\ Stages[9] = "done"
  BY DEF Stages
<1>3. \A i \in 1..9 : i \in {1, 2, 3, 4, 5, 6, 7, 8, 9}
  OBVIOUS
<1>4. \A i, j \in 1..9 : Stages[i] = Stages[j] => i = j
  BY <1>2, <1>3
<1>5. \A i \in 1..9 : Stage(Stages[i]) = i
  BY <1>1, <1>4 DEF Stage
<1> QED BY <1>2, <1>5

(***************************************************************************)
(* The invariant.                                                          *)
(***************************************************************************)
AllTexts == UNION {Texts[p] : p \in Places}
LockEntries == {ShippedEntry(m) : m \in DOMAIN Shipped}
               \cup {Entry(p, t) : p \in Places, t \in AllTexts}
Gathering == {"seeds", "pinned", "search", "lock", "verify"}
Ready == {"lock", "verify", "read", "record", "write", "done"}

Typed ==
    /\ pc \in Over \cup Gathering \cup {"read", "record", "write"}
    /\ disk \in [Places -> {Absent} \cup AllTexts]
    /\ \A p \in Places : disk[p] = Absent \/ disk[p] \in Texts[p]
    /\ manifest \in [Roots -> ManifestRecords \cup {NoManifest}]
    /\ lockFile # Absent => lockFile.entries \in Seq(LockEntries)
    /\ at \in Nat /\ at >= 1
    /\ files \in Seq(Places) /\ known \in SUBSET Places
    /\ roots \in Seq(Roots) /\ components \in Seq(Roots) /\ began \in Seq(Roots)
    /\ fetched \in Seq(Places)
    /\ have \in SUBSET Modules /\ wanted \in Seq(Modules) /\ read \in SUBSET AllTexts
    /\ shipped \in SUBSET DOMAIN Shipped
    /\ locked \in Seq(LockEntries) /\ recorded \in Seq(LockEntries)
    /\ DOMAIN compiled \subseteq Elements(files)
    /\ edited \in 0..9 /\ edits \in 0..MaxEdits /\ runs \in 0..MaxRuns

\* What a lock file should list of a build.
Build == [compiled |-> compiled, shipped |-> shipped]
Listed(build, entries) ==
    Elements(entries) = {Entry(p, build.compiled[p]) : p \in DOMAIN build.compiled}
                        \cup {ShippedEntry(m) : m \in build.shipped}

\* The lock file that is being written, and the one that is there.
Locks ==
    /\ pc = "write" => built = NoBuild \/ (built = Build /\ Listed(built, Lines(recorded)))
    /\ pc # "write" /\ built # NoBuild => Listed(built, lockFile.entries)

\* Everything is read in order, to compile it and then to record it; as long
\* as nothing was written in between, what was read is what there is.
Compiles ==
    /\ pc \in Gathering => compiled = <<>> /\ recorded = <<>>
    /\ pc = "lock" => at = 1
    /\ pc \in {"read", "record"} => at <= Len(files) + 1
    /\ pc = "read" => /\ DOMAIN compiled = {files[i] : i \in 1..at - 1}
                      /\ recorded = <<>>
    /\ pc = "record" => DOMAIN compiled = Elements(files)
    /\ edited < Stage("read") =>
          /\ pc = "record" =>
                Elements(recorded) = {Entry(files[i], disk[files[i]]) : i \in 1..at - 1}
          /\ pc \in {"read", "record"} =>
                \A p \in DOMAIN compiled : compiled[p] = disk[p] /\ disk[p] # Absent

\* What was verified is the lock file there is, and it stays true of the disk.
Agrees == \A p \in DOMAIN built.compiled : disk[p] = built.compiled[p]
Verifies ==
    /\ pc = "verify" => /\ lockFile # Absent /\ locked = lockFile.entries
                        /\ at <= Len(locked) + 1
    /\ edited < Stage("verify") =>
          /\ pc = "verify" => \A i \in 1..at - 1 : Holds(locked[i])
          /\ pc \in {"read", "record"} /\ options.locked /\ built # NoBuild => Agrees
          /\ pc \in {"write", "done"} /\ options.locked /\ built # NoBuild =>
                \A p \in DOMAIN compiled \cap DOMAIN built.compiled :
                    compiled[p] = built.compiled[p]

\* A module that is not found, or found in a file that is another module.
There(r, m) == disk[PlaceOf[r][m]] # Absent
Hopeless(m) ==
    \/ \A r \in Elements(began) : ~There(r, m)
    \/ \E r \in Elements(Asked) : There(r, m) /\ disk[PlaceOf[r][m]].module # m

\* Nothing a text asks for is forgotten, and what was found is in a text that
\* was read and in a file that will be compiled.
Answered(m) == m \in have \/ m \in Elements(wanted) \/ Hopeless(m)
Searches ==
    /\ pc \in Gathering \cup Ready => known \subseteq Elements(files)
    /\ pc = "seeds" => files = Named
    /\ pc \in {"search"} \cup Ready => Elements(began) \subseteq Elements(Asked)
    /\ pc \in Ready => wanted = <<>> /\ shipped = ShippedFor([t \in read |-> t])
    /\ edited < Stage("seeds") =>
          /\ pc \in Gathering \cup Ready =>
                \A m \in have : /\ \E t \in read : t.module = m
                                /\ \E p \in Elements(files) : Module(disk[p]) = m
          /\ pc \in {"seeds", "pinned"} =>
                \A t \in read : Imports(t) \subseteq Elements(wanted)
          /\ pc \in {"search"} \cup Ready => \A t \in read : \A m \in Imports(t) : Answered(m)

Inv == Typed /\ Locks /\ Compiles /\ Verifies /\ Searches
-----------------------------------------------------------------------------
(* Texts, and the roots they bring *)

LEMMA TextFacts ==
    ASSUME NEW t \in {Absent} \cup AllTexts
    PROVE  /\ Module(t) \in Modules \cup {NoModule}
           /\ IsFiniteSet(Imports(t)) /\ Imports(t) \subseteq Modules
<1>1. CASE t = Absent
  BY <1>1, FS_EmptySet DEF Module, Imports
<1>2. CASE t # Absent
  <2>1. PICK p \in Places : t \in Texts[p]
    BY <1>2 DEF AllTexts
  <2>2. /\ t.module \in Modules \cup {NoModule}
        /\ IsFiniteSet(t.uses) /\ \A use \in t.uses : use[1] \in Modules
    BY <2>1, TextsAssumption
  <2>3. IsFiniteSet({use[1] : use \in t.uses})
    <3> DEFINE f == [use \in t.uses |-> use[1]]
               T == {use[1] : use \in t.uses}
    <3>1. f \in [t.uses -> T] /\ \A x \in T : \E use \in t.uses : f[use] = x
      OBVIOUS
    <3>2. f \in Surjection(t.uses, T)
      BY <3>1 DEF Surjection
    <3> HIDE DEF f, T
    <3>3. IsFiniteSet(T)
      BY <2>2, <3>2, FS_Surjection
    <3> QED BY <3>3 DEF T
  <2>4. Imports(t) = {} \/ Imports(t) = {use[1] : use \in t.uses}
    BY <1>2 DEF Imports, ImportsOf
  <2> QED BY <1>2, <2>2, <2>3, <2>4, FS_EmptySet DEF Module
<1> QED BY <1>1, <1>2

LEMMA MeetTyped ==
    ASSUME Typed, NEW p \in Places, NEW t \in {Absent} \cup AllTexts, Meet(p, t)
    PROVE  /\ roots' \in Seq(Roots) /\ components' \in Seq(Roots) /\ fetched' \in Seq(Places)
           /\ Elements(roots) \subseteq Elements(roots')
           /\ Elements(components) \subseteq Elements(components')
<1> DEFINE r == IF Module(t) = NoModule THEN NoRoot ELSE RootOf[p][Module(t)]
<1>1. r \in Roots \cup {NoRoot}
  BY TextFacts, PlacesAssumption
<1>2. /\ roots \in Seq(Roots) /\ components \in Seq(Roots) /\ fetched \in Seq(Places)
      /\ manifest \in [Roots -> ManifestRecords \cup {NoManifest}]
  BY DEF Typed
<1>3. CASE r = NoRoot \/ r \in Elements(roots)
  BY <1>2, <1>3 DEF Meet
<1>4. CASE ~(r = NoRoot \/ r \in Elements(roots))
  <2>1. r \in Roots /\ roots' = Append(roots, r)
        /\ IF manifest[r] = NoManifest
             THEN UNCHANGED <<components, fetched>>
             ELSE /\ components' = components \o Additions(components, manifest[r].components)
                  /\ fetched' = fetched \o Additions(fetched, manifest[r].pinned)
    BY <1>1, <1>4 DEF Meet
  <2> HIDE DEF r
  <2>2. roots' \in Seq(Roots) /\ Elements(roots') = Elements(roots) \cup {r}
    BY <1>2, <2>1, ElementsAppend
  <2>3. CASE manifest[r] = NoManifest
    BY <1>2, <2>1, <2>2, <2>3
  <2>4. CASE manifest[r] # NoManifest
    <3>1. manifest[r] \in ManifestRecords
      BY <1>2, <2>1, <2>4
    <3>2. manifest[r].components \in Seq(Roots) /\ manifest[r].pinned \in Seq(Places)
      BY <3>1 DEF ManifestRecords
    <3>3. /\ Additions(components, manifest[r].components) \in Seq(Roots)
          /\ Additions(fetched, manifest[r].pinned) \in Seq(Places)
      BY <3>2, OutsideTyped DEF Additions
    <3>4. PICK x \in Seq(Roots), y \in Seq(Places) :
              components' = components \o x /\ fetched' = fetched \o y
      BY <2>1, <2>4, <3>3
    <3>5. components \o x \in Seq(Roots)
          /\ Elements(components \o x) = Elements(components) \cup Elements(x)
      BY <1>2, ElementsConcat
    <3>6. fetched \o y \in Seq(Places)
      BY <1>2, ElementsConcat
    <3> QED BY <2>2, <3>4, <3>5, <3>6
  <2> QED BY <2>3, <2>4
<1> QED BY <1>3, <1>4

LEMMA JoinTyped ==
    ASSUME Typed, NEW t \in {Absent} \cup AllTexts, NEW rest \in Seq(Modules), Join(t, rest)
    PROVE  /\ have' \in SUBSET Modules /\ have' = have \cup ({Module(t)} \ {NoModule})
           /\ wanted' \in Seq(Modules) /\ Elements(wanted') = Elements(rest) \cup Imports(t)
           /\ read' \in SUBSET AllTexts /\ read' = read \cup ({t} \ {Absent})
<1>1. /\ have \in SUBSET Modules /\ read \in SUBSET AllTexts
      /\ have' = have \cup ({Module(t)} \ {NoModule}) /\ read' = read \cup ({t} \ {Absent})
  BY DEF Typed, Join
<1>2. PICK order \in Listings(Imports(t)) : wanted' = rest \o order
  BY DEF Join
<1>3. order \in Seq(Imports(t)) /\ Elements(order) = Imports(t)
  BY TextFacts, ListingIsSeq
<1>4. order \in Seq(Modules)
  BY <1>3, TextFacts, SeqMonotonic
<1>5. wanted' \in Seq(Modules) /\ Elements(wanted') = Elements(rest) \cup Imports(t)
  BY <1>2, <1>3, <1>4, ElementsConcat
<1> QED BY <1>1, <1>5, TextFacts

LEMMA DiskTyped ==
    ASSUME Typed, NEW p \in Places
    PROVE  /\ disk[p] \in {Absent} \cup AllTexts
           /\ disk[p] # Absent => disk[p] \in AllTexts
BY DEF Typed

LEMMA AskedTyped ==
    ASSUME Typed PROVE Asked \in Seq(Roots) /\ Elements(Asked) = Elements(roots) \cup Elements(components)
BY ElementsConcat DEF Typed, Asked

\* What answers is the file of the first root that has one.
LEMMA FirstOfFound ==
    ASSUME Typed, NEW m \in Modules, Candidates(Asked, m) # {}
    PROVE  \E r \in Elements(Asked) : There(r, m) /\ FirstOf(Asked, m) = PlaceOf[r][m]
<1> DEFINE C == Candidates(Asked, m)
<1>1. Asked \in Seq(Roots) /\ DOMAIN Asked = 1..Len(Asked) /\ Len(Asked) \in Nat
  BY AskedTyped, LenProperties
<1>2. C \subseteq Nat /\ C # {} /\ C \subseteq DOMAIN Asked
  BY <1>1 DEF Candidates
<1>3. \E i \in C : \A j \in C : i <= j
  <2> HIDE DEF C
  <2> QED BY <1>2, Smallest
<1>4. PICK i \in C : FirstOf(Asked, m) = PlaceOf[Asked[i]][m]
  BY <1>3 DEF FirstOf
<1>5. Asked[i] \in Elements(Asked) /\ There(Asked[i], m)
  BY <1>2, <1>4 DEF Elements, Candidates, There
<1> QED BY <1>4, <1>5

LEMMA NowhereFound ==
    ASSUME Typed, NEW m, Candidates(Asked, m) = {}
    PROVE  \A r \in Elements(Asked) : ~There(r, m)
BY DEF Candidates, Elements, There

-----------------------------------------------------------------------------
(* Types *)

LEMMA InitTyped == Init => Typed
<1> SUFFICES ASSUME Init PROVE Typed
  OBVIOUS
<1>1. /\ disk \in [Places -> {Absent} \cup AllTexts]
      /\ \A p \in Places : disk[p] = Absent \/ disk[p] \in Texts[p]
  BY TextsAssumption DEF Init, AllTexts
<1>2. manifest \in [Roots -> ManifestRecords \cup {NoManifest}]
  BY ManifestsAssumption DEF Init
<1>3. edits \in 0..MaxEdits /\ runs \in 0..MaxRuns /\ edited \in 0..9
  BY LimitsAssumption DEF Init
<1>4. DOMAIN compiled = {}
  BY DEF Init
<1>5. pc = "idle" /\ at = 1 /\ lockFile = Absent
  BY DEF Init
<1>6. /\ files \in Seq(Places) /\ known \in SUBSET Places
      /\ roots \in Seq(Roots) /\ components \in Seq(Roots) /\ began \in Seq(Roots)
      /\ fetched \in Seq(Places)
  BY DEF Init
<1>7. /\ have \in SUBSET Modules /\ wanted \in Seq(Modules) /\ read \in SUBSET AllTexts
      /\ shipped \in SUBSET DOMAIN Shipped
      /\ locked \in Seq(LockEntries) /\ recorded \in Seq(LockEntries)
  BY DEF Init
<1> QED BY <1>1, <1>2, <1>3, <1>4, <1>5, <1>6, <1>7 DEF Typed, Over

\* What a process has in its memory when it begins.
LEMMA BlankTyped ==
    ASSUME Blank
    PROVE  /\ roots' \in Seq(Roots) /\ components' \in Seq(Roots) /\ began' \in Seq(Roots)
           /\ fetched' \in Seq(Places) /\ have' \in SUBSET Modules /\ wanted' \in Seq(Modules)
           /\ read' \in SUBSET AllTexts /\ shipped' \in SUBSET DOMAIN Shipped
           /\ locked' \in Seq(LockEntries) /\ recorded' \in Seq(LockEntries)
           /\ DOMAIN compiled' = {} /\ edited' = 0 /\ at' = 1
<1>1. DOMAIN compiled' = {}
  BY DEF Blank
<1> QED BY <1>1 DEF Blank

LEMMA LinesTyped ==
    ASSUME Typed
    PROVE  /\ Lines(recorded) \in Seq(LockEntries)
           /\ Elements(Lines(recorded)) = Elements(recorded) \cup {ShippedEntry(m) : m \in shipped}
<1>1. IsFiniteSet(shipped) /\ shipped \subseteq DOMAIN Shipped
  BY TextsAssumption, FS_Subset DEF Typed
<1>2. PICK order \in Listings(shipped) :
          Lines(recorded) = recorded \o [i \in DOMAIN order |-> ShippedEntry(order[i])]
  BY <1>1, FiniteIsListed DEF Lines
<1>3. order \in Seq(shipped) /\ Elements(order) = shipped /\ DOMAIN order = 1..Len(order)
      /\ Len(order) \in Nat
  BY <1>1, ListingIsSeq, LenProperties
<1>4. PICK lines : lines = [i \in DOMAIN order |-> ShippedEntry(order[i])]
  OBVIOUS
<1>5. \A i \in DOMAIN order : order[i] \in shipped
  BY <1>3 DEF Elements
<1>6. lines \in [1..Len(order) -> LockEntries]
  BY <1>1, <1>3, <1>4, <1>5 DEF LockEntries
<1>7. lines \in Seq(LockEntries)
  BY <1>3, <1>6, SeqDef
<1>8. Elements(lines) = {ShippedEntry(m) : m \in shipped}
  <2>1. DOMAIN lines = DOMAIN order /\ \A i \in DOMAIN order : lines[i] = ShippedEntry(order[i])
    BY <1>4
  <2>2. \A m \in shipped : \E i \in DOMAIN order : order[i] = m
    BY <1>3 DEF Elements
  <2> QED BY <1>5, <2>1, <2>2 DEF Elements
<1>9. recorded \in Seq(LockEntries) /\ Lines(recorded) = recorded \o lines
  BY <1>2, <1>4 DEF Typed
<1>10. /\ recorded \o lines \in Seq(LockEntries)
       /\ Elements(recorded \o lines) = Elements(recorded) \cup Elements(lines)
  BY <1>7, <1>9, ElementsConcat
<1> QED BY <1>8, <1>9, <1>10

LEMMA StartTyped ==
    ASSUME Typed, NEW asked, Start(asked) PROVE Typed'
<1>1. files' = Named /\ known' = Elements(Named) /\ Blank /\ pc' = "seeds" /\ runs' = runs + 1
      /\ runs < MaxRuns /\ UNCHANGED <<disk, manifest, lockFile, edits>>
  BY DEF Start
<1>2. files' \in Seq(Places) /\ known' \in SUBSET Places
  BY <1>1, PlacesAssumption, ElementsTyped
<1>3. runs' \in 0..MaxRuns
  BY <1>1, LimitsAssumption DEF Typed
<1>4. edited' \in 0..9 /\ at' \in Nat /\ at' >= 1 /\ DOMAIN compiled' \subseteq Elements(files')
  BY <1>1, BlankTyped
<1> QED BY <1>1, <1>2, <1>3, <1>4, BlankTyped DEF Typed, Gathering

LEMMA DieTyped ==
    ASSUME Typed, Die PROVE Typed'
<1>1. files' = <<>> /\ known' = {} /\ Blank /\ pc' = "idle"
      /\ UNCHANGED <<disk, manifest, edits, runs>>
  BY DEF Die
<1>2. files' \in Seq(Places) /\ known' \in SUBSET Places
  BY <1>1
<1>3. lockFile' # Absent => lockFile'.entries \in Seq(LockEntries)
  <2>1. CASE pc = "write"
    <3>1. PICK n \in 0..Len(Lines(recorded)), whole \in BOOLEAN :
              lockFile' = [whole |-> whole, entries |-> SubSeq(Lines(recorded), 1, n)]
      BY <2>1 DEF Die
    <3>2. PICK lines \in Seq(LockEntries) : lines = Lines(recorded)
      BY LinesTyped
    <3>3. n \in Int /\ 1 \in Int /\ \A i \in 1..n : lines[i] \in LockEntries
      <4>1. Len(lines) \in Nat
        BY LenProperties
      <4>2. n \in 0..Len(lines)
        BY <3>1, <3>2
      <4>3. \A i \in 1..n : i \in 1..Len(lines)
        BY <4>1, <4>2
      <4> QED BY <4>1, <4>2, <4>3, ElementOfSeq
    <3>4. SubSeq(lines, 1, n) \in Seq(LockEntries)
      BY <3>3, SubSeqProperties
    <3>5. lockFile'.entries = SubSeq(lines, 1, n)
      BY <3>1, <3>2
    <3> QED BY <3>4, <3>5
  <2>2. CASE pc # "write"
    BY <2>2 DEF Die, Typed
  <2> QED BY <2>1, <2>2
<1>4. edited' \in 0..9 /\ at' \in Nat /\ at' >= 1 /\ DOMAIN compiled' \subseteq Elements(files')
  BY <1>1, BlankTyped
<1> QED BY <1>1, <1>2, <1>3, <1>4, BlankTyped DEF Typed, Over

LEMMA TouchedTyped ==
    ASSUME Typed, Touched PROVE edited' \in 0..9 /\ edits' \in 0..MaxEdits
<1>1. edits' \in 0..MaxEdits
  BY LimitsAssumption DEF Touched, Typed
<1>2. edited' \in 0..9
  BY StageOrder DEF Touched, Typed, Over, Gathering
<1> QED BY <1>1, <1>2

LEMMA WritesTyped ==
    ASSUME Typed,
           \/ \E p \in Places \ Pinned : WriteFile(p)
           \/ \E r \in Roots : WriteManifest(r)
    PROVE  Typed'
<1>1. Touched /\ UNCHANGED <<lockFile, pc, at, searchVars, compiled, lockVars, runs>>
  BY DEF WriteFile, WriteManifest, Touched
<1>2. /\ disk' \in [Places -> {Absent} \cup AllTexts]
      /\ \A p \in Places : disk'[p] = Absent \/ disk'[p] \in Texts[p]
      /\ manifest' \in [Roots -> ManifestRecords \cup {NoManifest}]
  <2>1. ASSUME NEW p \in Places, WriteFile(p)
        PROVE  /\ disk' \in [Places -> {Absent} \cup AllTexts]
               /\ \A q \in Places : disk'[q] = Absent \/ disk'[q] \in Texts[q]
    <3>1. PICK t \in Texts[p] \cup {Absent} : disk' = [disk EXCEPT ![p] = t]
      BY <2>1 DEF WriteFile
    <3>2. t \in {Absent} \cup AllTexts
      BY <3>1 DEF AllTexts
    <3> QED BY <3>1, <3>2 DEF Typed
  <2>2. ASSUME NEW r \in Roots, WriteManifest(r)
        PROVE  manifest' \in [Roots -> ManifestRecords \cup {NoManifest}]
    <3>1. PICK m \in Manifests[r] : manifest' = [manifest EXCEPT ![r] = m]
      BY <2>2 DEF WriteManifest
    <3>2. m \in ManifestRecords \cup {NoManifest}
      BY <3>1, ManifestsAssumption
    <3> QED BY <3>1, <3>2 DEF Typed
  <2> QED BY <2>1, <2>2 DEF Typed, WriteFile, WriteManifest
<1> QED BY <1>1, <1>2, TouchedTyped DEF Typed, searchVars, lockVars

\* A step that only goes on to the next thing.
LEMMA MovesTyped ==
    ASSUME Typed, SeedsRead \/ PinnedRead \/ Verify \/ Verified \/ Check
    PROVE  Typed'
<1>1. /\ UNCHANGED <<disk, manifest, lockFile, files, known, roots, components, fetched,
                     have, wanted, read, shipped, compiled, locked, recorded,
                     edited, edits, runs>>
  BY DEF SeedsRead, PinnedRead, Verify, Verified, Check, searchVars, lockVars
<1>2. /\ pc' \in Over \cup Gathering \cup {"read", "record", "write"}
      /\ at' \in Nat /\ at' >= 1
  BY DEF SeedsRead, PinnedRead, Verify, Verified, Check, Fail, Typed, Over, Gathering
<1>3. began' \in Seq(Roots)
  <2>1. CASE PinnedRead
    BY <2>1, AskedTyped DEF PinnedRead
  <2>2. CASE SeedsRead \/ Verify \/ Verified \/ Check
    BY <2>2 DEF SeedsRead, Verify, Verified, Check, searchVars, Typed
  <2> QED BY <2>1, <2>2
<1> QED BY <1>1, <1>2, <1>3 DEF Typed

LEMMA NamedTyped ==
    ASSUME NEW i \in Nat, i >= 1, i <= Len(Named)
    PROVE  Named[i] \in Places
BY PlacesAssumption, LenProperties, ElementOfSeq

LEMMA ReadSeedTyped ==
    ASSUME Typed, ReadSeed PROVE Typed'
<1>1. PICK p, t : p = Named[at] /\ t = disk[p]
  OBVIOUS
<1>2. /\ Meet(p, t) /\ Join(t, wanted) /\ at' = at + 1 /\ pc' = pc
      /\ UNCHANGED <<disk, manifest, lockFile, files, known, shipped, began,
                     compiled, locked, recorded, edited, edits, runs>>
  BY <1>1 DEF ReadSeed, lockVars
<1>3. p \in Places /\ t \in {Absent} \cup AllTexts /\ wanted \in Seq(Modules)
      /\ at \in Nat /\ at >= 1
  BY <1>1, NamedTyped, DiskTyped DEF Typed, ReadSeed
<1> QED BY <1>2, <1>3, MeetTyped, JoinTyped DEF Typed

LEMMA ReadPinnedTyped ==
    ASSUME Typed, ReadPinned PROVE Typed'
<1>1. /\ fetched # <<>> /\ fetched' = Tail(fetched) /\ fetched \in Seq(Places)
      /\ UNCHANGED <<disk, manifest, lockFile, pc, at, roots, components, shipped,
                     began, compiled, locked, recorded, edited, edits, runs>>
  BY DEF ReadPinned, lockVars, Typed
<1>2. PICK p : p = Head(fetched)
  OBVIOUS
<1>3. p \in Places /\ fetched' \in Seq(Places)
  BY <1>1, <1>2, ElementsTail
<1>4. CASE p \in known
  <2>1. UNCHANGED <<files, known, have, wanted, read>>
    BY <1>2, <1>4 DEF ReadPinned
  <2> QED BY <1>1, <1>3, <2>1 DEF Typed
<1>5. CASE p \notin known
  <2>1. known' = known \cup {p} /\ files' = Append(files, p) /\ Join(disk[p], wanted)
    BY <1>2, <1>5 DEF ReadPinned
  <2>2. files' \in Seq(Places) /\ Elements(files') = Elements(files) \cup {p}
    BY <1>3, <2>1, ElementsAppend DEF Typed
  <2>3. disk[p] \in {Absent} \cup AllTexts /\ wanted \in Seq(Modules)
    BY <1>3, DiskTyped DEF Typed
  <2> QED BY <1>1, <1>3, <2>1, <2>2, <2>3, JoinTyped DEF Typed
<1> QED BY <1>4, <1>5

\* What Ask does when the module is neither found already nor nowhere.
LEMMA AskFinds ==
    ASSUME Typed, Ask, NEW m, m = Head(wanted), ~Settled(m)
    PROVE  \E p \in Places : \E r \in Elements(Asked) :
              /\ There(r, m) /\ p = PlaceOf[r][m]
              /\ Join(disk[p], Tail(wanted))
              /\ IF p \in known
                 THEN UNCHANGED <<files, known, roots, components, fetched, unobtained>>
                 ELSE /\ Meet(p, disk[p])
                      /\ known' = known \cup {p} /\ files' = Append(files, p)
<1>1. m \in Modules
  BY ElementsTail DEF Ask, Typed
<1>2. Candidates(Asked, m) # {}
  BY DEF Settled
<1>3. PICK r \in Elements(Asked) : There(r, m) /\ FirstOf(Asked, m) = PlaceOf[r][m]
  BY <1>1, <1>2, FirstOfFound
<1>4. r \in Roots /\ PlaceOf[r][m] \in Places
  BY <1>1, AskedTyped, ElementsTyped, PlacesAssumption
<1> QED BY <1>3, <1>4 DEF Ask

LEMMA AskTyped ==
    ASSUME Typed, Ask PROVE Typed'
<1>1. /\ wanted # <<>> /\ wanted \in Seq(Modules)
      /\ UNCHANGED <<disk, manifest, lockFile, pc, at, shipped, began, compiled,
                     locked, recorded, edited, edits, runs>>
  BY DEF Ask, lockVars, Typed
<1>2. PICK m : m = Head(wanted)
  OBVIOUS
<1>3. m \in Modules /\ Tail(wanted) \in Seq(Modules)
  BY <1>1, <1>2, ElementsTail
<1>4. CASE Settled(m)
  <2>1. /\ wanted' = Tail(wanted)
        /\ UNCHANGED <<files, known, have, read, roots, components, fetched>>
    BY <1>2, <1>4 DEF Ask
  <2> QED BY <1>1, <1>3, <2>1 DEF Typed
<1>5. CASE ~Settled(m)
  <2>1. PICK p \in Places :
              /\ Join(disk[p], Tail(wanted))
              /\ IF p \in known
                 THEN UNCHANGED <<files, known, roots, components, fetched, unobtained>>
                 ELSE /\ Meet(p, disk[p])
                      /\ known' = known \cup {p} /\ files' = Append(files, p)
    BY <1>2, <1>5, AskFinds
  <2>2. disk[p] \in {Absent} \cup AllTexts
    BY DiskTyped
  <2>3. have' \in SUBSET Modules /\ wanted' \in Seq(Modules) /\ read' \in SUBSET AllTexts
    BY <1>3, <2>1, <2>2, JoinTyped
  <2>4. CASE p \in known
    BY <1>1, <2>1, <2>3, <2>4 DEF Typed
  <2>5. CASE p \notin known
    <3>1. files' = Append(files, p) /\ files \in Seq(Places)
      BY <2>1, <2>5 DEF Typed
    <3>2. files' \in Seq(Places) /\ Elements(files') = Elements(files) \cup {p}
      BY <3>1, ElementsAppend
    <3> QED BY <1>1, <2>1, <2>2, <2>3, <2>5, <3>2, MeetTyped DEF Typed
  <2> QED BY <2>4, <2>5
<1> QED BY <1>4, <1>5

LEMMA ShippedForTyped ==
    \A texts : ShippedFor(texts) \subseteq DOMAIN Shipped \ Known(texts)
BY DEF ShippedFor

LEMMA SearchedTyped ==
    ASSUME Typed, Searched
    PROVE  Typed' /\ Elements(files) \subseteq Elements(files')
<1>1. /\ fetched' = <<>> /\ at' = 1 /\ pc' \in {"lock", "read"}
      /\ UNCHANGED <<disk, manifest, lockFile, known, roots, components, have, wanted, read,
                     began, compiled, locked, recorded, edited, edits, runs>>
  BY DEF Searched, lockVars
<1>2. shipped' \in SUBSET DOMAIN Shipped
  BY ShippedForTyped DEF Searched
<1>3. files \in Seq(Places) /\ fetched \in Seq(Places) /\ fetched' \in Seq(Places)
  BY <1>1 DEF Typed
<1>4. PICK rest \in Seq(Places) : files' = files \o rest
  BY <1>3, OutsideTyped DEF Searched
<1>5. files \o rest \in Seq(Places)
      /\ Elements(files \o rest) = Elements(files) \cup Elements(rest)
  BY <1>3, ElementsConcat
<1> QED BY <1>1, <1>2, <1>3, <1>4, <1>5 DEF Typed, Gathering

LEMMA FilesFacts ==
    ASSUME Typed
    PROVE  /\ Len(files) \in Nat /\ DOMAIN files = 1..Len(files)
           /\ \A i \in 1..Len(files) : files[i] \in Places /\ files[i] \in Elements(files)
<1>1. files \in Seq(Places)
  BY DEF Typed
<1> QED BY <1>1, LenProperties, ElementOfSeq DEF Elements

LEMMA ReadLockTyped ==
    ASSUME Typed, ReadLock PROVE Typed'
<1>1. /\ at' = at /\ pc' \in {"failed", "verify"} /\ recorded' = recorded
      /\ UNCHANGED <<disk, manifest, lockFile, files, known, roots, components, fetched,
                     have, wanted, read, shipped, began, compiled, edited, edits, runs>>
  BY DEF ReadLock, Fail, searchVars
<1>2. locked' \in Seq(LockEntries)
  BY DEF ReadLock, Typed
<1> QED BY <1>1, <1>2 DEF Typed, Over, Gathering

LEMMA ReadTyped ==
    ASSUME Typed, Read PROVE Typed'
<1>1. /\ at <= Len(files) /\ pc' \in {pc, "failed"} /\ at' \in {at, at + 1}
      /\ DOMAIN compiled' \subseteq DOMAIN compiled \cup {files[at]}
      /\ UNCHANGED <<disk, manifest, lockFile, files, known, roots, components, fetched,
                     have, wanted, read, shipped, began, locked, recorded, edited, edits, runs>>
  BY DEF Read, Fail, searchVars, lockVars
<1>2. files[at] \in Elements(files) /\ at \in Nat /\ at >= 1
  BY <1>1, FilesFacts DEF Typed
<1> QED BY <1>1, <1>2 DEF Typed, Over

LEMMA RecordTyped ==
    ASSUME Typed, Record PROVE Typed'
<1>1. /\ at <= Len(files) /\ pc' = pc /\ at' = at + 1
      /\ UNCHANGED <<disk, manifest, lockFile, files, known, roots, components, fetched,
                     have, wanted, read, shipped, began, compiled, locked, edited, edits, runs>>
  BY DEF Record, searchVars
<1>2. files[at] \in Places /\ at \in Nat /\ at >= 1
  BY <1>1, FilesFacts DEF Typed
<1>3. recorded' \in Seq(LockEntries)
  <2>1. CASE disk[files[at]] = Absent
    BY <2>1 DEF Record, Typed
  <2>2. CASE disk[files[at]] # Absent
    <3>1. disk[files[at]] \in AllTexts
      BY <1>2, <2>2, DiskTyped
    <3>2. Entry(files[at], disk[files[at]]) \in LockEntries
      BY <1>2, <3>1 DEF LockEntries
    <3>3. recorded' = Append(recorded, Entry(files[at], disk[files[at]]))
      BY <2>2 DEF Record
    <3>4. recorded \in Seq(LockEntries)
      BY DEF Typed
    <3> QED BY <3>2, <3>3, <3>4, ElementsAppend
  <2> QED BY <2>1, <2>2
<1> QED BY <1>1, <1>2, <1>3 DEF Typed

LEMMA LockWrittenTyped ==
    ASSUME Typed, OpenLock \/ WriteLock PROVE Typed'
<1>1. /\ pc' \in {"write", "done"}
      /\ UNCHANGED <<disk, manifest, at, files, known, roots, components, fetched,
                     have, wanted, read, shipped, began, compiled, locked, recorded,
                     edited, edits, runs>>
  BY DEF OpenLock, WriteLock, searchVars, lockVars
<1>2. lockFile'.entries \in Seq(LockEntries)
  <2>1. CASE OpenLock
    <3>1. lockFile'.entries = <<>>
      BY <2>1 DEF OpenLock
    <3> QED BY <3>1
  <2>2. CASE WriteLock
    <3>1. lockFile'.entries = Lines(recorded)
      BY <2>2 DEF WriteLock
    <3> QED BY <3>1, LinesTyped
  <2> QED BY <2>1, <2>2
<1> QED BY <1>1, <1>2 DEF Typed, Over

LEMMA NextTyped ==
    ASSUME Typed, [Next]_vars PROVE Typed'
<1>1. ASSUME NEW asked, Start(asked) PROVE Typed'
  BY <1>1, StartTyped
<1>2. CASE Command
  BY <1>2, MovesTyped, ReadSeedTyped, ReadPinnedTyped, AskTyped, SearchedTyped,
     ReadLockTyped, ReadTyped, RecordTyped, LockWrittenTyped DEF Command
<1>3. CASE Die
  BY <1>3, DieTyped
<1>4. CASE UNCHANGED vars
  BY <1>4 DEF vars, searchVars, lockVars, Typed
<1> QED BY <1>1, <1>2, <1>3, <1>4, WritesTyped DEF Next

-----------------------------------------------------------------------------
(* The lock file lists what was compiled *)

\* Where a command is, by the steps that can be taken there.
LEMMA WhereItGoes ==
    /\ ReadSeed \/ SeedsRead \/ ReadPinned \/ PinnedRead \/ Ask =>
          pc \in {"seeds", "pinned", "search"} /\ pc' \in {"seeds", "pinned", "search"}
    /\ Searched => pc = "search" /\ pc' \in {"lock", "read"}
    /\ ReadLock => pc = "lock" /\ pc' \in {"verify", "failed"}
    /\ Verify => pc = "verify" /\ pc' \in {"verify", "failed"}
    /\ Verified => pc = "verify" /\ pc' = "read"
    /\ Read => pc = "read" /\ pc' \in {"read", "failed"}
    /\ Check => pc = "read" /\ pc' \in {"record", "done", "failed"}
    /\ Record => pc = "record" /\ pc' = "record"
    /\ OpenLock => pc = "record" /\ pc' = "write"
    /\ WriteLock => pc = "write" /\ pc' = "done"
    /\ Die => pc \notin Over /\ pc' = "idle"
    /\ \A asked : Start(asked) => pc \in Over /\ pc' = "seeds"
<1>1. ReadSeed \/ SeedsRead \/ ReadPinned \/ PinnedRead \/ Ask =>
          pc \in {"seeds", "pinned", "search"} /\ pc' \in {"seeds", "pinned", "search"}
  BY DEF ReadSeed, SeedsRead, ReadPinned, PinnedRead, Ask
<1>2. /\ Searched => pc = "search" /\ pc' \in {"lock", "read"}
      /\ ReadLock => pc = "lock" /\ pc' \in {"verify", "failed"}
      /\ Verify => pc = "verify" /\ pc' \in {"verify", "failed"}
      /\ Verified => pc = "verify" /\ pc' = "read"
      /\ Read => pc = "read" /\ pc' \in {"read", "failed"}
  BY DEF Searched, ReadLock, Verify, Verified, Read, Fail
<1>3. /\ Check => pc = "read" /\ pc' \in {"record", "done", "failed"}
      /\ Record => pc = "record" /\ pc' = "record"
      /\ OpenLock => pc = "record" /\ pc' = "write"
      /\ WriteLock => pc = "write" /\ pc' = "done"
  BY DEF Check, Record, OpenLock, WriteLock
<1>4. /\ Die => pc \notin Over /\ pc' = "idle"
      /\ \A asked : Start(asked) => pc \in Over /\ pc' = "seeds"
  BY DEF Die, Start
<1> QED BY <1>1, <1>2, <1>3, <1>4

\* Everything was recorded as it was compiled.
LEMMA AllRecorded ==
    ASSUME Inv, pc = "record", at > Len(files), edited < Stage("read")
    PROVE  Listed(Build, Lines(recorded))
<1>1. /\ Len(files) \in Nat /\ DOMAIN files = 1..Len(files) /\ at \in Nat
      /\ at <= Len(files) + 1
  BY FilesFacts DEF Inv, Typed, Compiles
<1>2. at - 1 = Len(files)
  BY <1>1
<1>3. /\ DOMAIN compiled = Elements(files)
      /\ Elements(recorded) = {Entry(files[i], disk[files[i]]) : i \in 1..Len(files)}
      /\ \A p \in DOMAIN compiled : compiled[p] = disk[p]
  BY <1>2 DEF Inv, Compiles
<1>4. Elements(recorded) = {Entry(p, compiled[p]) : p \in DOMAIN compiled}
  <2>1. \A i \in 1..Len(files) : files[i] \in DOMAIN compiled
    BY <1>1, <1>3 DEF Elements
  <2>2. \A p \in DOMAIN compiled : \E i \in 1..Len(files) : files[i] = p
    BY <1>1, <1>3 DEF Elements
  <2> QED BY <1>3, <2>1, <2>2
<1>5. Elements(Lines(recorded)) = Elements(recorded) \cup {ShippedEntry(m) : m \in shipped}
  BY LinesTyped DEF Inv
<1> QED BY <1>4, <1>5 DEF Listed, Build

LEMMA LocksStep ==
    ASSUME Inv, [Next]_vars PROVE Locks'
<1>1. ASSUME NEW asked, Start(asked) PROVE Locks'
  BY <1>1, WhereItGoes DEF Start, Over, Inv, Locks, Listed
<1>2. CASE Command /\ ~(OpenLock \/ WriteLock)
  <2>1. pc # "write" /\ pc' # "write"
    BY <1>2, WhereItGoes DEF Command
  <2>2. built' = built /\ lockFile' = lockFile
    BY <1>2 DEF Command, ReadSeed, SeedsRead, ReadPinned, PinnedRead, Ask, Searched, ReadLock,
       Verify, Verified, Read, Check, Record, searchVars, lockVars
  <2> QED BY <2>1, <2>2 DEF Inv, Locks, Listed
<1>3. CASE OpenLock
  <2>1. /\ pc' = "write" /\ compiled' = compiled /\ shipped' = shipped /\ recorded' = recorded
        /\ pc = "record" /\ at > Len(files)
        /\ built' = IF edited < Stage("read") THEN Build ELSE NoBuild
    BY <1>3 DEF OpenLock, searchVars, Build
  <2>2. Build' = Build /\ Lines(recorded)' = Lines(recorded)
    BY <2>1 DEF Build, Lines
  <2>3. edited < Stage("read") => Listed(built', Lines(recorded))
    BY <2>1, AllRecorded
  <2> QED BY <2>1, <2>2, <2>3 DEF Locks, Listed
<1>4. CASE WriteLock
  <2>1. /\ pc = "write" /\ pc' = "done" /\ built' = built
        /\ lockFile'.entries = Lines(recorded)
    BY <1>4 DEF WriteLock, lockVars
  <2> QED BY <2>1 DEF Inv, Locks, Listed
<1>5. CASE Die
  <2>1. pc' = "idle"
    BY <1>5 DEF Die
  <2>2. CASE pc = "write"
    <3>1. PICK n, whole : lockFile' = [whole |-> whole, entries |-> SubSeq(Lines(recorded), 1, n)]
      BY <1>5, <2>2 DEF Die
    <3>2. built' = IF lockFile' = [whole |-> TRUE, entries |-> Lines(recorded)]
                   THEN built ELSE NoBuild
      BY <1>5, <2>2 DEF Die
    <3>3. built' # NoBuild => built' = built /\ built # NoBuild
                              /\ lockFile'.entries = Lines(recorded)
      BY <3>2
    <3> QED BY <2>1, <2>2, <3>3 DEF Inv, Locks, Listed
  <2>3. CASE pc # "write"
    BY <1>5, <2>1, <2>3 DEF Die, Inv, Locks, Listed
  <2> QED BY <2>2, <2>3
<1>6. CASE \/ \E p \in Places \ Pinned : WriteFile(p)
           \/ \E r \in Roots : WriteManifest(r)
           \/ UNCHANGED vars
  <2>1. UNCHANGED <<pc, built, compiled, shipped, recorded, lockFile>>
    BY <1>6 DEF WriteFile, WriteManifest, Touched, vars, searchVars, lockVars
  <2>2. Build' = Build /\ Lines(recorded)' = Lines(recorded)
    BY <2>1 DEF Build, Lines
  <2> QED BY <2>1, <2>2 DEF Inv, Locks, Listed
<1> QED BY <1>1, <1>2, <1>3, <1>4, <1>5, <1>6 DEF Next

-----------------------------------------------------------------------------
(* Reading to compile, and reading again to record *)

\* Somebody else wrote: from then on nothing is said of what was read since.
LEMMA WritesOnly ==
    ASSUME Typed,
           \/ \E p \in Places \ Pinned : WriteFile(p)
           \/ \E r \in Roots : WriteManifest(r)
    PROVE  /\ UNCHANGED <<lockFile, pc, options, at, searchVars, compiled, lockVars, runs>>
           /\ pc \in Gathering \cup Ready => edited' >= 1
           /\ pc \in {"verify"} \cup (Ready \ {"lock"}) => edited' >= 5
           /\ pc \in {"read", "record"} => edited' >= 6
<1>1. Touched
  BY DEF WriteFile, WriteManifest
<1>2. edited' = IF pc \in {"idle", "failed"} THEN 0 ELSE Stage(pc)
  BY <1>1 DEF Touched
<1>3. /\ pc \in Gathering \cup Ready => edited' >= 1
      /\ pc \in {"verify"} \cup (Ready \ {"lock"}) => edited' >= 5
      /\ pc \in {"read", "record"} => edited' >= 6
  BY <1>2, StageOrder DEF Gathering, Ready
<1> QED BY <1>1, <1>3 DEF Touched

LEMMA ReadCompiles ==
    ASSUME Inv, Read PROVE Compiles'
<1>1. CASE pc' # "read"
  BY <1>1, WhereItGoes DEF Compiles, Gathering
<1>2. CASE pc' = "read"
  <2>1. PICK p : p = files[at]
    OBVIOUS
  <2>2. /\ pc = "read" /\ at <= Len(files) /\ at' = at + 1 /\ disk[p] # Absent
        /\ compiled' = [q \in DOMAIN compiled \cup {p} |-> IF q = p THEN disk[p] ELSE compiled[q]]
        /\ UNCHANGED <<disk, files, recorded, edited>>
    BY <1>2, <2>1 DEF Read, Fail, searchVars, lockVars
  <2>3. at \in Nat /\ at >= 1 /\ Len(files) \in Nat
    BY FilesFacts DEF Inv, Typed
  <2>4. /\ DOMAIN compiled = {files[i] : i \in 1..at - 1} /\ recorded = <<>>
        /\ edited < Stage("read") =>
              \A q \in DOMAIN compiled : compiled[q] = disk[q] /\ disk[q] # Absent
    BY <2>2 DEF Inv, Compiles
  <2>5. DOMAIN compiled' = {files[i] : i \in 1..at}
    <3>1. 1..at = 1..at - 1 \cup {at}
      BY <2>3
    <3> QED BY <2>1, <2>2, <2>4, <3>1
  <2>6. at' - 1 = at /\ at' <= Len(files) + 1
    BY <2>2, <2>3
  <2>7. edited < Stage("read") =>
            \A q \in DOMAIN compiled' : compiled'[q] = disk[q] /\ disk[q] # Absent
    BY <2>2, <2>4
  <2> QED BY <1>2, <2>2, <2>4, <2>5, <2>6, <2>7 DEF Compiles, Gathering
<1> QED BY <1>1, <1>2

LEMMA RecordCompiles ==
    ASSUME Inv, Record PROVE Compiles'
<1>1. PICK p : p = files[at]
  OBVIOUS
<1>2. /\ pc = "record" /\ pc' = "record" /\ at <= Len(files) /\ at' = at + 1
      /\ recorded' = IF disk[p] = Absent THEN recorded ELSE Append(recorded, Entry(p, disk[p]))
      /\ UNCHANGED <<disk, files, compiled, edited>>
  BY <1>1 DEF Record, searchVars
<1>3. at \in Nat /\ at >= 1 /\ Len(files) \in Nat /\ p \in Elements(files) /\ p \in Places
  BY <1>1, <1>2, FilesFacts DEF Inv, Typed
<1>4. at' - 1 = at /\ at' <= Len(files) + 1
  BY <1>2, <1>3
<1>5. DOMAIN compiled = Elements(files)
  BY <1>2 DEF Inv, Compiles
<1>6. ASSUME edited < Stage("read")
      PROVE  Elements(recorded') = {Entry(files[i], disk[files[i]]) : i \in 1..at}
  <2>1. /\ Elements(recorded) = {Entry(files[i], disk[files[i]]) : i \in 1..at - 1}
        /\ disk[p] # Absent
    BY <1>2, <1>3, <1>5, <1>6 DEF Inv, Compiles
  <2>2. Entry(p, disk[p]) \in LockEntries /\ recorded \in Seq(LockEntries)
    BY <1>3, <2>1, DiskTyped DEF Inv, Typed, LockEntries
  <2>3. recorded' = Append(recorded, Entry(p, disk[p]))
    BY <1>2, <2>1
  <2>4. Elements(recorded') = Elements(recorded) \cup {Entry(p, disk[p])}
    BY <2>2, <2>3, ElementsAppend
  <2>5. 1..at = 1..at - 1 \cup {at}
    BY <1>3
  <2> QED BY <1>1, <2>1, <2>4, <2>5
<1>7. edited < Stage("read") => \A q \in DOMAIN compiled : compiled[q] = disk[q] /\ disk[q] # Absent
  BY <1>2 DEF Inv, Compiles
<1> QED BY <1>2, <1>4, <1>5, <1>6, <1>7 DEF Compiles, Gathering

LEMMA CompilesStep ==
    ASSUME Inv, [Next]_vars PROVE Compiles'
<1>1. ASSUME NEW asked, Start(asked) PROVE Compiles'
  <2>1. pc' = "seeds" /\ compiled' = <<>> /\ recorded' = <<>>
    BY <1>1 DEF Start, Blank
  <2> QED BY <2>1 DEF Compiles
<1>2. CASE ReadSeed \/ SeedsRead \/ ReadPinned \/ PinnedRead \/ Ask
  <2>1. compiled' = compiled /\ recorded' = recorded
    BY <1>2 DEF ReadSeed, SeedsRead, ReadPinned, PinnedRead, Ask, lockVars
  <2>2. pc \in Gathering /\ pc' \in {"seeds", "pinned", "search"}
    BY <1>2, WhereItGoes DEF Gathering
  <2> QED BY <2>1, <2>2 DEF Inv, Compiles
<1>3. CASE Searched \/ Verified
  <2>1. /\ at' = 1 /\ compiled' = compiled /\ recorded' = recorded
    BY <1>3 DEF Searched, Verified, lockVars
  <2>2. compiled = <<>> /\ recorded = <<>> /\ pc' \in {"lock", "read"}
    BY <1>3, WhereItGoes DEF Inv, Compiles, Gathering
  <2>3. {files'[i] : i \in 1..at' - 1} = {} /\ DOMAIN compiled' = {}
    BY <2>1, <2>2
  <2>4. at' <= Len(files') + 1
    <3>1. Typed'
      BY NextTyped DEF Inv
    <3>2. files' \in Seq(Places)
      BY <3>1 DEF Typed
    <3>3. Len(files') \in Nat
      BY <3>2, LenProperties
    <3> QED BY <2>1, <3>3
  <2> QED BY <2>1, <2>2, <2>3, <2>4 DEF Compiles
<1>4. CASE ReadLock \/ Verify
  <2>1. compiled' = compiled /\ recorded' = recorded
    BY <1>4 DEF ReadLock, Verify, lockVars
  <2>2. pc \in Gathering /\ pc' \in {"verify", "failed"}
    BY <1>4, WhereItGoes DEF Gathering
  <2> QED BY <2>1, <2>2 DEF Inv, Compiles
<1>5. CASE Check
  <2>1. /\ pc = "read" /\ pc' \in {"record", "done", "failed"} /\ at' = 1 /\ at > Len(files)
        /\ UNCHANGED <<disk, files, compiled, recorded, edited>>
    BY <1>5, WhereItGoes DEF Check, searchVars, lockVars
  <2>2. Len(files) \in Nat /\ DOMAIN files = 1..Len(files) /\ at \in Nat /\ at <= Len(files) + 1
    BY <2>1, FilesFacts DEF Inv, Typed, Compiles
  <2>3. at - 1 = Len(files)
    BY <2>1, <2>2
  <2>4. DOMAIN compiled = Elements(files) /\ recorded = <<>>
    BY <2>1, <2>2, <2>3 DEF Inv, Compiles, Elements
  <2>5. Elements(recorded) = {} /\ {Entry(files[i], disk[files[i]]) : i \in 1..at' - 1} = {}
    BY <2>1, <2>4 DEF Elements
  <2>6. edited < Stage("read") =>
            \A p \in DOMAIN compiled : compiled[p] = disk[p] /\ disk[p] # Absent
    BY <2>1 DEF Inv, Compiles
  <2>7. at' <= Len(files) + 1
    BY <2>1, <2>2
  <2> QED BY <2>1, <2>4, <2>5, <2>6, <2>7 DEF Compiles, Gathering
<1>6. CASE OpenLock \/ WriteLock \/ Die
  <2>1. pc' \in {"write", "done", "idle"}
    BY <1>6, WhereItGoes
  <2> QED BY <2>1 DEF Compiles, Gathering
<1>7. CASE \/ \E p \in Places \ Pinned : WriteFile(p)
           \/ \E r \in Roots : WriteManifest(r)
  <2>1. /\ UNCHANGED <<pc, at, files, compiled, recorded>>
        /\ pc \in {"read", "record"} => edited' >= 6
    BY <1>7, WritesOnly DEF Inv, searchVars, lockVars
  <2>2. Typed'
    BY NextTyped DEF Inv
  <2>3. edited' < Stage("read") => pc \notin {"read", "record"}
    BY <2>1, <2>2, StageOrder DEF Typed
  <2> QED BY <2>1, <2>3 DEF Inv, Compiles
<1>8. CASE UNCHANGED vars
  BY <1>8 DEF vars, searchVars, lockVars, Inv, Compiles
<1> QED BY <1>1, <1>2, <1>3, <1>4, <1>5, <1>6, <1>7, <1>8, ReadCompiles, RecordCompiles
        DEF Next, Command

-----------------------------------------------------------------------------
(* A build that is held to a lock file *)

\* A lock file that lists a build and holds means that the disk is that build.
LEMMA HoldingAgrees ==
    ASSUME Inv, pc = "verify", built # NoBuild, \A i \in 1..Len(locked) : Holds(locked[i])
    PROVE  Agrees
<1>1. Listed(built, locked)
  BY DEF Inv, Locks, Verifies
<1>2. DOMAIN locked = 1..Len(locked)
  BY LenProperties DEF Inv, Typed
<1>3. ASSUME NEW p \in DOMAIN built.compiled PROVE disk[p] = built.compiled[p]
  <2>1. Entry(p, built.compiled[p]) \in Elements(locked)
    BY <1>1 DEF Listed
  <2>2. PICK i \in 1..Len(locked) : locked[i] = Entry(p, built.compiled[p])
    BY <1>2, <2>1 DEF Elements
  <2>3. Holds(locked[i]) /\ ~locked[i].shipped /\ locked[i].of = p
        /\ locked[i].text = built.compiled[p]
    BY <2>2 DEF Entry
  <2> QED BY <2>3 DEF Holds
<1> QED BY <1>3 DEF Agrees

LEMMA VerifiesStep ==
    ASSUME Inv, [Next]_vars PROVE Verifies'
<1>1. ASSUME NEW asked, Start(asked) PROVE Verifies'
  BY <1>1, WhereItGoes DEF Verifies
<1>2. CASE ReadSeed \/ SeedsRead \/ ReadPinned \/ PinnedRead \/ Ask
  <2>1. pc' \in {"seeds", "pinned", "search"}
    BY <1>2, WhereItGoes
  <2> QED BY <2>1 DEF Verifies
<1>3. CASE Searched
  <2>1. pc' = "lock" \/ (pc' = "read" /\ ~options'.locked)
    BY <1>3 DEF Searched
  <2> QED BY <2>1 DEF Verifies
<1>4. CASE ReadLock
  <2>1. /\ at = 1 /\ at' = at
        /\ pc' = "failed" \/ (pc' = "verify" /\ lockFile' # Absent /\ locked' = lockFile'.entries)
    BY <1>4 DEF ReadLock, Fail, Inv, Compiles
  <2>2. Typed'
    BY NextTyped DEF Inv
  <2>3. Len(locked') \in Nat
    BY <2>2, LenProperties DEF Typed
  <2>4. at' <= Len(locked') + 1 /\ 1..at' - 1 = {}
    BY <2>1, <2>3
  <2> QED BY <2>1, <2>4 DEF Verifies
<1>5. CASE Verify
  <2>1. CASE pc' # "verify"
    BY <1>5, <2>1, WhereItGoes DEF Verifies
  <2>2. CASE pc' = "verify"
    <3>1. /\ pc = "verify" /\ at <= Len(locked) /\ Holds(locked[at]) /\ at' = at + 1
          /\ UNCHANGED <<disk, lockFile, locked, edited>>
      BY <1>5, <2>2 DEF Verify, Fail, lockVars
    <3>2. at \in Nat /\ at >= 1 /\ Len(locked) \in Nat
      BY LenProperties DEF Inv, Typed
    <3>3. 1..at' - 1 = 1..at - 1 \cup {at} /\ at' <= Len(locked) + 1
      BY <3>1, <3>2
    <3>4. edited < Stage("verify") => \A i \in 1..at - 1 \cup {at} : Holds(locked[i])
      BY <3>1 DEF Inv, Verifies
    <3>6. lockFile # Absent /\ locked = lockFile.entries
      BY <3>1 DEF Inv, Verifies
    <3> QED BY <2>2, <3>1, <3>3, <3>4, <3>6 DEF Verifies, Holds
  <2> QED BY <2>1, <2>2
<1>6. CASE Verified
  <2>1. /\ pc = "verify" /\ pc' = "read" /\ at > Len(locked)
        /\ UNCHANGED <<disk, built, edited>>
    BY <1>6 DEF Verified, lockVars
  <2>2. at \in Nat /\ Len(locked) \in Nat /\ at <= Len(locked) + 1
    BY <2>1, LenProperties DEF Inv, Typed, Verifies
  <2>3. at - 1 = Len(locked)
    BY <2>1, <2>2
  <2>4. edited < Stage("verify") => \A i \in 1..Len(locked) : Holds(locked[i])
    BY <2>1, <2>3 DEF Inv, Verifies
  <2>5. edited < Stage("verify") /\ built # NoBuild => Agrees
    BY <2>1, <2>4, HoldingAgrees
  <2> QED BY <2>1, <2>5 DEF Verifies, Agrees
<1>7. CASE Read \/ Record
  <2>1. pc \in {"read", "record"} /\ pc' \in {pc, "failed"}
    BY <1>7, WhereItGoes DEF Read, Fail
  <2>2. UNCHANGED <<disk, options, built, edited>>
    BY <1>7 DEF Read, Record, lockVars
  <2> QED BY <2>1, <2>2 DEF Inv, Verifies, Agrees
<1>8. CASE Check
  <2>1. /\ pc = "read" /\ pc' \in {"record", "done", "failed"}
        /\ UNCHANGED <<disk, options, built, compiled, edited>>
    BY <1>8, WhereItGoes DEF Check, lockVars
  <2>2. edited \in 0..9
    BY DEF Inv, Typed
  <2>3. edited < Stage("verify") => \A p \in DOMAIN compiled : compiled[p] = disk[p]
    BY <2>1, <2>2, StageOrder DEF Inv, Compiles
  <2>4. edited < Stage("verify") /\ options.locked /\ built # NoBuild => Agrees
    BY <2>1 DEF Inv, Verifies
  <2> QED BY <2>1, <2>3, <2>4 DEF Verifies, Agrees
<1>9. CASE OpenLock
  <2>1. /\ pc = "record" /\ pc' = "write" /\ UNCHANGED <<disk, options, compiled, edited>>
        /\ built' = NoBuild \/ built'.compiled = compiled
    BY <1>9 DEF OpenLock
  <2> QED BY <2>1 DEF Verifies
<1>10. CASE WriteLock
  <2>1. /\ pc = "write" /\ pc' = "done" /\ UNCHANGED <<disk, options, compiled, built, edited>>
    BY <1>10 DEF WriteLock, lockVars
  <2> QED BY <2>1 DEF Inv, Verifies
<1>11. CASE Die
  BY <1>11, WhereItGoes DEF Verifies
<1>12. CASE \/ \E p \in Places \ Pinned : WriteFile(p)
            \/ \E r \in Roots : WriteManifest(r)
  <2>1. /\ UNCHANGED <<pc, at, options, lockFile, compiled, locked, built>>
        /\ pc \in {"verify"} \cup (Ready \ {"lock"}) => edited' >= 5
    BY <1>12, WritesOnly DEF Inv, lockVars
  <2>2. edited' \in 0..9
    BY NextTyped DEF Inv, Typed
  <2>3. edited' < Stage("verify") => pc \notin {"verify", "read", "record", "write", "done"}
    BY <2>1, <2>2, StageOrder DEF Ready
  <2> QED BY <2>1, <2>3 DEF Inv, Verifies
<1>13. CASE UNCHANGED vars
  BY <1>13 DEF vars, lockVars, Inv, Verifies, Agrees, Holds
<1> QED BY <1>1, <1>2, <1>3, <1>4, <1>5, <1>6, <1>7, <1>8, <1>9, <1>10, <1>11, <1>12, <1>13
        DEF Next, Command

-----------------------------------------------------------------------------
(* The search forgets nothing *)

\* What is found is in a text that was read and in a file that is compiled.
LEMMA FoundStays ==
    ASSUME Inv, pc \in Gathering, edited < Stage("seeds"), NEW p \in Places, NEW rest,
           Join(disk[p], rest), disk' = disk,
           Elements(files) \subseteq Elements(files'), p \in Elements(files')
    PROVE  \A m \in have' : /\ \E t \in read' : t.module = m
                            /\ \E q \in Elements(files') : Module(disk'[q]) = m
<1>1. /\ have' = have \cup ({Module(disk[p])} \ {NoModule})
      /\ read' = read \cup ({disk[p]} \ {Absent})
  BY DEF Join
<1>2. ASSUME NEW m \in have
      PROVE  /\ \E t \in read' : t.module = m
             /\ \E q \in Elements(files') : Module(disk'[q]) = m
  BY <1>1 DEF Inv, Searches
<1>3. ASSUME Module(disk[p]) # NoModule
      PROVE  /\ \E t \in read' : t.module = Module(disk[p])
             /\ \E q \in Elements(files') : Module(disk'[q]) = Module(disk[p])
  <2>1. disk[p] # Absent /\ Module(disk[p]) = disk[p].module
    BY <1>3 DEF Module
  <2> QED BY <1>1, <2>1
<1> QED BY <1>1, <1>2, <1>3

\* Once there is nothing left to look for, the rest of the command goes by it.
LEMMA SearchKept ==
    ASSUME Inv, UNCHANGED <<disk, searchVars, edited>>,
           pc' \notin Gathering \cup Ready \/ (pc \in Ready /\ pc' \in Ready)
    PROVE  Searches'
<1>1. UNCHANGED <<disk, files, known, roots, components, have, wanted, read, shipped, began, edited>>
  BY DEF searchVars
<1>2. CASE pc' \notin Gathering \cup Ready
  BY <1>2 DEF Searches, Gathering
<1>3. CASE pc \in Ready /\ pc' \in Ready
  <2>1. pc' \notin {"seeds", "pinned"}
    BY <1>3 DEF Ready
  <2> QED BY <1>1, <1>3, <2>1 DEF Inv, Searches, Answered, Hopeless, There, Asked
<1> QED BY <1>2, <1>3

LEMMA ReadSeedSearches ==
    ASSUME Inv, ReadSeed PROVE Searches'
<1>1. PICK p, t : p = Named[at] /\ t = disk[p]
  OBVIOUS
<1>2. /\ Meet(p, t) /\ Join(t, wanted) /\ pc = "seeds" /\ pc' = pc /\ at <= Len(Named)
      /\ UNCHANGED <<disk, files, known, shipped, began, edited>>
  BY <1>1 DEF ReadSeed
<1>3. /\ p \in Places /\ t \in {Absent} \cup AllTexts /\ wanted \in Seq(Modules)
      /\ at \in Nat /\ at >= 1
  BY <1>1, <1>2, NamedTyped, DiskTyped DEF Inv, Typed
<1>4. files = Named /\ p \in Elements(files)
  <2>1. DOMAIN Named = 1..Len(Named) /\ Len(Named) \in Nat
    BY PlacesAssumption, LenProperties
  <2> QED BY <1>1, <1>2, <1>3, <2>1 DEF Inv, Searches, Elements
<1>5. edited < Stage("seeds") =>
          \A m \in have' : /\ \E u \in read' : u.module = m
                           /\ \E q \in Elements(files') : Module(disk'[q]) = m
  BY <1>1, <1>2, <1>3, <1>4, FoundStays DEF Gathering
<1>6. /\ Elements(wanted') = Elements(wanted) \cup Imports(t)
      /\ read' = read \cup ({t} \ {Absent})
  BY <1>2, <1>3, JoinTyped DEF Inv
<1>7. edited < Stage("seeds") => \A u \in read' : Imports(u) \subseteq Elements(wanted')
  BY <1>2, <1>6 DEF Inv, Searches
<1>8. known' \subseteq Elements(files')
  BY <1>2 DEF Inv, Searches, Gathering
<1> QED BY <1>2, <1>4, <1>5, <1>7, <1>8 DEF Searches, Gathering, Ready

LEMMA ReadPinnedSearches ==
    ASSUME Inv, ReadPinned PROVE Searches'
<1>1. /\ fetched # <<>> /\ fetched \in Seq(Places) /\ pc = "pinned" /\ pc' = pc
      /\ UNCHANGED <<disk, edited>>
  BY DEF ReadPinned, Inv, Typed
<1>2. PICK p : p = Head(fetched)
  OBVIOUS
<1>3. p \in Places
  BY <1>1, <1>2, ElementsTail
<1>4. CASE p \in known
  <2>1. UNCHANGED <<files, known, have, wanted, read>>
    BY <1>2, <1>4 DEF ReadPinned
  <2> QED BY <1>1, <2>1 DEF Inv, Searches, Gathering, Ready
<1>5. CASE p \notin known
  <2>1. known' = known \cup {p} /\ files' = Append(files, p) /\ Join(disk[p], wanted)
    BY <1>2, <1>5 DEF ReadPinned
  <2>2. Elements(files') = Elements(files) \cup {p}
    BY <1>3, <2>1, ElementsAppend DEF Inv, Typed
  <2>3. disk[p] \in {Absent} \cup AllTexts /\ wanted \in Seq(Modules)
    BY <1>3, DiskTyped DEF Inv, Typed
  <2>4. /\ Elements(wanted') = Elements(wanted) \cup Imports(disk[p])
        /\ read' = read \cup ({disk[p]} \ {Absent})
    BY <2>1, <2>3, JoinTyped DEF Inv
  <2>5. edited < Stage("seeds") =>
            \A m \in have' : /\ \E u \in read' : u.module = m
                             /\ \E q \in Elements(files') : Module(disk'[q]) = m
    BY <1>1, <1>3, <2>1, <2>2, FoundStays DEF Gathering
  <2>6. edited < Stage("seeds") => \A u \in read' : Imports(u) \subseteq Elements(wanted')
    BY <1>1, <2>4 DEF Inv, Searches
  <2>7. known' \subseteq Elements(files')
    BY <1>1, <2>1, <2>2 DEF Inv, Searches, Gathering
  <2> QED BY <1>1, <2>5, <2>6, <2>7 DEF Searches, Gathering, Ready
<1> QED BY <1>4, <1>5

LEMMA PinnedReadSearches ==
    ASSUME Inv, PinnedRead PROVE Searches'
<1>1. /\ pc = "pinned" /\ pc' = "search" /\ began' = Asked
      /\ UNCHANGED <<disk, files, known, roots, components, have, wanted, read, edited>>
  BY DEF PinnedRead
<1>2. Elements(began') = Elements(Asked)'
  BY <1>1 DEF Asked
<1>3. edited < Stage("seeds") =>
          /\ \A m \in have : /\ \E u \in read : u.module = m
                             /\ \E q \in Elements(files) : Module(disk[q]) = m
          /\ \A t \in read : Imports(t) \subseteq Elements(wanted)
  BY <1>1 DEF Inv, Searches, Gathering
<1>4. known \subseteq Elements(files)
  BY <1>1 DEF Inv, Searches, Gathering
<1>5. edited < Stage("seeds") => \A t \in read : \A m \in Imports(t) : m \in Elements(wanted')
  BY <1>1, <1>3
<1> QED BY <1>1, <1>2, <1>3, <1>4, <1>5 DEF Searches, Gathering, Ready, Answered

\* What there is no hope for stays so while the roots only grow.
LEMMA HopelessStays ==
    ASSUME NEW m, Hopeless(m), disk' = disk, began' = began,
           Elements(Asked) \subseteq Elements(Asked)'
    PROVE  Hopeless(m)'
BY DEF Hopeless, There

LEMMA AskSearches ==
    ASSUME Inv, Ask PROVE Searches'
<1>1. /\ pc = "search" /\ pc' = pc /\ wanted # <<>> /\ wanted \in Seq(Modules)
      /\ UNCHANGED <<disk, began, edited>>
  BY DEF Ask, Inv, Typed
<1>2. PICK m : m = Head(wanted)
  OBVIOUS
<1>3. /\ m \in Modules /\ Tail(wanted) \in Seq(Modules)
      /\ Elements(wanted) = {m} \cup Elements(Tail(wanted))
  BY <1>1, <1>2, ElementsTail
<1>4. /\ known \subseteq Elements(files) /\ Elements(began) \subseteq Elements(Asked)
      /\ edited < Stage("seeds") =>
            /\ \A n \in have : /\ \E u \in read : u.module = n
                               /\ \E q \in Elements(files) : Module(disk[q]) = n
            /\ \A t \in read : \A n \in Imports(t) : Answered(n)
  BY <1>1 DEF Inv, Searches, Gathering
<1>5. CASE Settled(m)
  <2>1. /\ wanted' = Tail(wanted)
        /\ UNCHANGED <<files, known, have, read, roots, components>>
    BY <1>2, <1>5 DEF Ask
  <2>2. Elements(Asked)' = Elements(Asked)
    BY <2>1 DEF Asked
  <2>3. m \in have \/ Hopeless(m)
    BY <1>4, <1>5, NowhereFound DEF Settled, Hopeless, Inv
  <2>4. ASSUME NEW n, Answered(n) PROVE Answered(n)'
    <3>1. CASE n \in have \/ n \in Elements(Tail(wanted))
      BY <2>1, <3>1 DEF Answered
    <3>2. CASE Hopeless(n)
      BY <1>1, <2>2, <3>2, HopelessStays DEF Answered
    <3> QED BY <1>3, <2>3, <2>4, <3>1, <3>2 DEF Answered
  <2>5. edited < Stage("seeds") => \A t \in read' : \A n \in Imports(t) : Answered(n)'
    BY <1>4, <2>1, <2>4
  <2> QED BY <1>1, <1>4, <2>1, <2>2, <2>5 DEF Searches, Gathering, Ready
<1>6. CASE ~Settled(m)
  <2>1. PICK p \in Places : \E r \in Elements(Asked) :
              /\ There(r, m) /\ p = PlaceOf[r][m]
              /\ Join(disk[p], Tail(wanted))
              /\ IF p \in known
                 THEN UNCHANGED <<files, known, roots, components, fetched, unobtained>>
                 ELSE /\ Meet(p, disk[p])
                      /\ known' = known \cup {p} /\ files' = Append(files, p)
    BY <1>2, <1>6, AskFinds DEF Inv
  <2>2. PICK r \in Elements(Asked) : There(r, m) /\ p = PlaceOf[r][m]
    BY <2>1
  <2>3. disk[p] \in {Absent} \cup AllTexts /\ disk[p] # Absent
    BY <2>2, DiskTyped DEF There, Inv
  <2>4. /\ have' = have \cup ({Module(disk[p])} \ {NoModule})
        /\ Elements(wanted') = Elements(Tail(wanted)) \cup Imports(disk[p])
        /\ read' = read \cup {disk[p]}
    BY <1>3, <2>1, <2>3, JoinTyped DEF Inv
  <2>5. /\ Elements(files) \subseteq Elements(files') /\ p \in Elements(files')
        /\ known' \subseteq Elements(files')
        /\ Elements(Asked) \subseteq Elements(Asked)'
    <3>1. CASE p \in known
      <4>1. UNCHANGED <<files, known, roots, components>>
        BY <2>1, <3>1
      <4> QED BY <1>4, <3>1, <4>1 DEF Asked
    <3>2. CASE p \notin known
      <4>1. Meet(p, disk[p]) /\ known' = known \cup {p} /\ files' = Append(files, p)
        BY <2>1, <3>2
      <4>2. Elements(files') = Elements(files) \cup {p}
        BY <4>1, ElementsAppend DEF Inv, Typed
      <4>3. /\ roots' \in Seq(Roots) /\ components' \in Seq(Roots)
            /\ Elements(roots) \subseteq Elements(roots')
            /\ Elements(components) \subseteq Elements(components')
        BY <2>3, <4>1, MeetTyped DEF Inv
      <4>4. Elements(Asked)' = Elements(roots') \cup Elements(components')
        BY <4>3, ElementsConcat DEF Asked
      <4> QED BY <1>4, <4>1, <4>2, <4>3, <4>4, AskedTyped DEF Inv
    <3> QED BY <3>1, <3>2
  <2>6. edited < Stage("seeds") =>
            \A n \in have' : /\ \E u \in read' : u.module = n
                             /\ \E q \in Elements(files') : Module(disk'[q]) = n
    BY <1>1, <2>1, <2>5, FoundStays DEF Gathering
  <2>7. Answered(m)'
    <3>1. CASE disk[p].module = m
      <4>1. m \in have'
        BY <1>3, <2>3, <2>4, <3>1, TextsAssumption DEF Module
      <4> QED BY <4>1 DEF Answered
    <3>2. CASE disk[p].module # m
      <4>1. Hopeless(m)
        BY <2>2, <3>2 DEF Hopeless
      <4> QED BY <1>1, <2>5, <4>1, HopelessStays DEF Answered
    <3> QED BY <3>1, <3>2
  <2>8. ASSUME NEW n, Answered(n) PROVE Answered(n)'
    <3>1. CASE n \in have \/ n \in Elements(Tail(wanted))
      BY <2>4, <3>1 DEF Answered
    <3>2. CASE Hopeless(n)
      BY <1>1, <2>5, <3>2, HopelessStays DEF Answered
    <3>3. CASE n = m
      BY <2>7, <3>3
    <3> QED BY <1>3, <2>8, <3>1, <3>2, <3>3 DEF Answered
  <2>9. \A n \in Imports(disk[p]) : Answered(n)'
    BY <2>4 DEF Answered
  <2>10. edited < Stage("seeds") => \A t \in read' : \A n \in Imports(t) : Answered(n)'
    BY <1>4, <2>4, <2>8, <2>9
  <2>11. Elements(began') \subseteq Elements(Asked)'
    BY <1>1, <1>4, <2>5
  <2> QED BY <1>1, <2>5, <2>6, <2>10, <2>11 DEF Searches, Gathering, Ready
<1> QED BY <1>5, <1>6

LEMMA SearchesStep ==
    ASSUME Inv, [Next]_vars PROVE Searches'
<1>1. ASSUME NEW asked, Start(asked) PROVE Searches'
  <2>1. /\ pc' = "seeds" /\ files' = Named /\ known' = Elements(Named)
        /\ have' = {} /\ read' = {}
    BY <1>1 DEF Start, Blank
  <2> QED BY <2>1 DEF Searches, Gathering, Ready
<1>2. CASE SeedsRead
  <2>1. /\ pc = "seeds" /\ pc' = "pinned"
        /\ UNCHANGED <<disk, files, known, have, wanted, read, edited>>
    BY <1>2 DEF SeedsRead, searchVars
  <2> QED BY <2>1 DEF Inv, Searches, Gathering, Ready
<1>3. CASE Searched
  <2>1. /\ pc = "search" /\ pc' \in {"lock", "read"} /\ wanted = <<>>
        /\ shipped' = ShippedFor([t \in read |-> t])
        /\ UNCHANGED <<disk, known, roots, components, have, wanted, read, began, edited>>
    BY <1>3, WhereItGoes DEF Searched
  <2>2. Elements(files) \subseteq Elements(files')
    BY <1>3, SearchedTyped DEF Inv
  <2>3. /\ known \subseteq Elements(files) /\ Elements(began) \subseteq Elements(Asked)
        /\ edited < Stage("seeds") =>
              /\ \A n \in have : /\ \E u \in read : u.module = n
                                 /\ \E q \in Elements(files) : Module(disk[q]) = n
              /\ \A t \in read : \A n \in Imports(t) : Answered(n)
    BY <2>1 DEF Inv, Searches, Gathering
  <2>4. \A n : Answered(n)' = Answered(n)
    BY <2>1 DEF Answered, Hopeless, There, Asked
  <2>5. Elements(Asked)' = Elements(Asked)
    BY <2>1 DEF Asked
  <2> QED BY <2>1, <2>2, <2>3, <2>4, <2>5 DEF Searches, Gathering, Ready
<1>4. CASE \/ ReadLock \/ Verify \/ Verified \/ Read \/ Check \/ Record
           \/ OpenLock \/ WriteLock
  <2>1. UNCHANGED <<disk, searchVars, edited>>
    BY <1>4 DEF ReadLock, Verify, Verified, Read, Check, Record, OpenLock, WriteLock
  <2>2. pc \in Ready /\ pc' \in Ready \cup {"failed"}
    BY <1>4, WhereItGoes DEF Ready
  <2>3. pc' = "failed" => pc' \notin Gathering \cup Ready
    BY DEF Gathering, Ready
  <2> QED BY <2>1, <2>2, <2>3, SearchKept
<1>5. CASE Die
  BY <1>5, WhereItGoes DEF Searches, Gathering, Ready
<1>6. CASE \/ \E p \in Places \ Pinned : WriteFile(p)
           \/ \E r \in Roots : WriteManifest(r)
  <2>1. /\ UNCHANGED <<pc, files, known, roots, components, have, wanted, read, shipped, began>>
        /\ pc \in Gathering \cup Ready => edited' >= 1
    BY <1>6, WritesOnly DEF Inv, searchVars
  <2>2. edited' \in 0..9
    BY NextTyped DEF Inv, Typed
  <2>3. edited' < Stage("seeds") => pc \notin Gathering \cup Ready
    BY <2>1, <2>2, StageOrder
  <2>4. pc \notin Gathering \cup Ready => pc \notin {"seeds", "pinned", "search"}
    BY DEF Gathering
  <2> QED BY <2>1, <2>3, <2>4 DEF Inv, Searches, Asked
<1>7. CASE UNCHANGED vars
  <2>1. UNCHANGED <<pc, disk, files, known, roots, components, have, wanted, read, shipped,
                    began, edited>>
    BY <1>7 DEF vars, searchVars
  <2> QED BY <2>1 DEF Inv, Searches, Asked, Answered, Hopeless, There
<1> QED BY <1>1, <1>2, <1>3, <1>4, <1>5, <1>6, <1>7, ReadSeedSearches, ReadPinnedSearches,
        PinnedReadSearches, AskSearches DEF Next, Command

-----------------------------------------------------------------------------
(* The theorems *)

LEMMA InitInv == Init => Inv
<1> SUFFICES ASSUME Init PROVE Inv
  OBVIOUS
<1>1. pc = "idle" /\ built = NoBuild
  BY DEF Init
<1>2. Locks /\ Compiles /\ Verifies /\ Searches
  BY <1>1 DEF Locks, Compiles, Verifies, Searches, Gathering, Ready
<1> QED BY <1>2, InitTyped DEF Inv

\* Every part of the invariant holds whatever the tree holds, however often
\* commands are run, die and are run again, and whatever others write meanwhile.
THEOREM InvHolds == Spec => []Inv
<1>1. ASSUME Inv, [Next]_vars PROVE Inv'
  <2>1. Typed'
    BY <1>1, NextTyped DEF Inv
  <2> QED BY <1>1, <2>1, LocksStep, CompilesStep, VerifiesStep, SearchesStep DEF Inv
<1> QED BY <1>1, InitInv, PTL DEF Spec

\* What the variables of the search and of the lock file range over: files are
\* places, roots are roots, and what is wanted or found is a module path.
THEOREM TypeCorrect == Spec => []TypeOK
<1>1. ASSUME Inv PROVE TypeOK
  <2>1. Elements(Stages) = {"seeds", "pinned", "search", "lock", "verify", "read",
                            "record", "write", "done"} /\ Len(Stages) = 9
    <3>1. DOMAIN Stages = {1, 2, 3, 4, 5, 6, 7, 8, 9}
      BY DEF Stages
    <3> QED BY <3>1 DEF Elements, Stages
  <2>2. Typed
    BY <1>1 DEF Inv
  <2>3. pc \in Over \cup Elements(Stages)
    BY <2>1, <2>2 DEF Typed, Over, Gathering
  <2>4. Elements(files) \subseteq Places /\ Elements(wanted) \subseteq Modules
    BY <2>2, ElementsTyped DEF Typed
  <2>5. Elements(Asked) \subseteq Roots
    BY <2>2, AskedTyped, ElementsTyped
  <2> QED BY <2>1, <2>2, <2>3, <2>4, <2>5 DEF Typed, TypeOK
<1> QED BY <1>1, InvHolds, PTL

\* Somebody's own copy of a module is compiled and the one that ships with the
\* compiler is not, for every module a searched file imports and a root known
\* before the search holds (resolve_imports, resolve_inputs).
THEOREM OwnCopyStands == Spec => []OwnCopyWins
<1>1. ASSUME Inv PROVE OwnCopyWins
  <2> SUFFICES ASSUME pc \in {"lock", "verify", "read", "record", "write", "done"},
                      edited < Stage("seeds"), NEW t \in read, NEW m \in Imports(t),
                      \E r \in Elements(began) : disk[PlaceOf[r][m]] # Absent,
                      \A r \in Elements(Asked) :
                          disk[PlaceOf[r][m]] # Absent => disk[PlaceOf[r][m]].module = m
               PROVE  m \notin shipped /\ \E p \in Elements(files) : Module(disk[p]) = m
    BY DEF OwnCopyWins
  <2>1. /\ wanted = <<>> /\ shipped = ShippedFor([u \in read |-> u])
        /\ Answered(m)
        /\ \A n \in have : /\ \E u \in read : u.module = n
                           /\ \E p \in Elements(files) : Module(disk[p]) = n
    BY <1>1 DEF Inv, Searches, Ready
  <2>2. ~Hopeless(m) /\ m \notin Elements(wanted)
    BY <2>1 DEF Hopeless, There, Elements
  <2>3. m \in have /\ m # NoModule
    BY <1>1, <2>1, <2>2, TextsAssumption DEF Answered, Inv, Typed
  <2>4. PICK u \in read : u.module = m
    BY <2>1, <2>3
  <2>5. m \in Known([v \in read |-> v])
    BY <2>3, <2>4 DEF Known
  <2>6. m \notin shipped
    BY <2>1, <2>5, ShippedForTyped
  <2> QED BY <2>1, <2>3, <2>6
<1> QED BY <1>1, InvHolds, PTL

\* A lock file one whole run wrote, with nothing written meanwhile, lists each
\* file that run compiled with the text it was checked with, each shipped
\* module, and nothing else (build_lock_entries, lock::write), until another
\* command opens the lock file to write it.
THEOREM LockLists == Spec => []LockListsTheBuild
<1>1. ASSUME Inv PROVE LockListsTheBuild
  BY <1>1 DEF Inv, Locks, Listed, LockListsTheBuild
<1> QED BY <1>1, InvHolds, PTL

\* A locked run that succeeds, with nothing written while it verified and
\* compiled, checks the very texts the run that wrote the lock file checked
\* (lock::verify, check_module_set).
THEOREM LockedRepeats == Spec => []LockedBuildRepeats
<1>1. ASSUME Inv PROVE LockedBuildRepeats
  <2> SUFFICES ASSUME pc \in {"record", "write", "done"}, options.locked,
                      edited < Stage("verify"), built # NoBuild,
                      NEW p \in DOMAIN compiled \cap DOMAIN built.compiled
               PROVE  compiled[p] = built.compiled[p]
    BY DEF LockedBuildRepeats
  <2>1. CASE pc = "record"
    <3>1. edited \in 0..9
      BY <1>1 DEF Inv, Typed
    <3>2. compiled[p] = disk[p]
      BY <1>1, <2>1, <3>1, StageOrder DEF Inv, Compiles
    <3> QED BY <1>1, <2>1, <3>2 DEF Inv, Verifies, Agrees
  <2>2. CASE pc \in {"write", "done"}
    BY <1>1, <2>2 DEF Inv, Verifies
  <2> QED BY <2>1, <2>2
<1> QED BY <1>1, InvHolds, PTL

=============================================================================
