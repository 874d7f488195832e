---------------------------- MODULE LockedBuild ----------------------------
(***************************************************************************)
(* One command over a tree of files (deed-cli run_check): find what the    *)
(* named files import (resolve_imports, resolve_inputs), verify a lock     *)
(* file, read every file again and check it, and write a lock file.        *)
(*                                                                         *)
(* Nothing holds the tree still. Each file is read when it is searched,    *)
(* verified, compiled and recorded, and a person or another program writes *)
(* in between; the process may die anywhere, and a lock file is written by *)
(* truncating it first.                                                    *)
(***************************************************************************)
EXTENDS SourceSet

CONSTANTS
    Roots,       \* directories a module path may be looked up under
    NoRoot,
    Places,      \* paths of files
    PlaceOf,     \* [Roots -> [Modules -> Places]], a module path under a root
    RootOf,      \* [Places -> [Modules -> Roots \cup {NoRoot}]] (root_of)
    Named,       \* the files the command names, in order
    Pinned,      \* the places of dependencies obtained by their digest
    Texts,       \* [Places -> the texts a file may be given]
    Manifests,   \* [Roots -> the manifests it may hold]
    NoManifest,
    FirstDisk, FirstManifests,
    Absent,      \* in place of the text of a file that is not there
    NoBuild,
    MaxEdits,    \* bound on the writes by others
    MaxRuns,     \* bound on the commands
    MaxQueue     \* bound on the modules waiting to be searched for

ASSUME PlacesAssumption ==
    /\ \A r \in Roots, m \in Modules : RootOf[PlaceOf[r][m]][m] = r
    /\ \A p \in Places, m \in Modules :
           RootOf[p][m] # NoRoot => PlaceOf[RootOf[p][m]][m] = p
    /\ PlaceOf \in [Roots -> [Modules -> Places]]
    /\ RootOf \in [Places -> [Modules -> Roots \cup {NoRoot}]]
    /\ Pinned \subseteq Places
    /\ Named \in Seq(Places)

\* A text imports finitely many modules, and is no text if it is absent.
ASSUME TextsAssumption ==
    /\ FirstDisk \in [Places -> {Absent} \cup UNION {Texts[p] : p \in Places}]
    /\ \A p \in Places : FirstDisk[p] \in Texts[p] \cup {Absent}
    /\ \A p \in Places : \A t \in Texts[p] :
           /\ t.module \in Modules \cup {NoModule}
           /\ IsFiniteSet(t.uses) /\ \A use \in t.uses : use[1] \in Modules
    /\ NoModule \notin Modules
    /\ IsFiniteSet(DOMAIN Shipped)

ManifestRecords == [components: Seq(Roots), pinned: Seq(Places), unobtained: BOOLEAN]
ASSUME ManifestsAssumption ==
    /\ FirstManifests \in [Roots -> ManifestRecords \cup {NoManifest}]
    /\ \A r \in Roots : Manifests[r] \subseteq ManifestRecords \cup {NoManifest}

ASSUME LimitsAssumption == MaxEdits \in Nat /\ MaxRuns \in Nat /\ MaxQueue \in Nat

VARIABLES
    disk,        \* [Places -> text or Absent]
    manifest,    \* [Roots -> [components, pinned, unobtained] or NoManifest]
    lockFile,    \* [whole, entries] or Absent
    pc,          \* where the command is
    options,     \* [locked, lock], what the command was asked to do
    at,          \* the next file or entry of the list being worked through
    files,       \* what will be compiled, in order
    known,       \* known_files
    roots, components, fetched,
    have, wanted,
    read,        \* the texts the search went by, seeds and extras
    shipped,     \* the shipped modules the search asks for
    unobtained,  \* whether a manifest names a dependency that was not obtained
    locked,      \* the entries of the lock file that is verified
    compiled,    \* [places -> the text that is checked]
    recorded,    \* the entries of the lock file that is written
    edited,      \* the latest stage of this command in which something changed
    began,       \* the roots known before the search, in order
    built,       \* what the command that last opened the lock file compiled
    edits, runs

searchVars == <<files, known, roots, components, fetched, have, wanted, read,
                shipped, unobtained, began>>
lockVars   == <<locked, recorded, built>>
vars == <<disk, manifest, lockFile, pc, options, at, searchVars, compiled, lockVars,
          edited, edits, runs>>

Elements(s) == {s[i] : i \in DOMAIN s}

\* The stages of a command, in order, for what an edit may have come between.
Stages == <<"seeds", "pinned", "search", "lock", "verify",
           "read", "record", "write", "done">>
Stage(name) == CHOOSE i \in DOMAIN Stages : Stages[i] = name
Over == {"idle", "failed", "done"}

(***************************************************************************)
(* Looking for a module.                                                   *)
(***************************************************************************)
Module(t) == IF t = Absent THEN NoModule ELSE t.module
Imports(t) == IF t = Absent THEN {} ELSE ImportsOf(t)

\* The roots in the order they are asked: those of files already met, then
\* those their manifests name.
Asked == roots \o components

\* The places a module is at under a sequence of roots, the first one first.
Candidates(where, m) ==
    {i \in DOMAIN where : disk[PlaceOf[where[i]][m]] # Absent}

FirstOf(where, m) ==
    PlaceOf[where[CHOOSE i \in Candidates(where, m) :
                      \A j \in Candidates(where, m) : i <= j]][m]

\* The elements of a sequence that are outside a set, in order.
Outside(s, known_) ==
    LET kept == {i \in DOMAIN s : s[i] \notin known_}
        nth(k) == CHOOSE i \in kept : Cardinality({j \in kept : j <= i}) = k
    IN [k \in 1..Cardinality(kept) |-> s[nth(k)]]

Additions(old, new) == Outside(new, Elements(old))

\* A file that sits where its module line says it does makes its root one to
\* search, and brings the manifest of that root (read_manifest).
Meet(p, t) ==
    LET r == IF Module(t) = NoModule THEN NoRoot ELSE RootOf[p][Module(t)]
    IN IF r = NoRoot \/ r \in Elements(roots)
       THEN UNCHANGED <<roots, components, fetched, unobtained>>
       ELSE /\ roots' = Append(roots, r)
            /\ IF manifest[r] = NoManifest
               THEN UNCHANGED <<components, fetched, unobtained>>
               ELSE /\ components' = components
                          \o Additions(components, manifest[r].components)
                    /\ fetched' = fetched \o Additions(fetched, manifest[r].pinned)
                    /\ unobtained' = (unobtained \/ manifest[r].unobtained)

\* A text joins the search: what it declares is found, whatever it was asked
\* for by, and what it imports is wanted, in the order it is written in.
Join(t, rest) ==
    /\ have' = have \cup ({Module(t)} \ {NoModule})
    /\ \E order \in Listings(Imports(t)) : wanted' = rest \o order
    /\ read' = read \cup ({t} \ {Absent})

(***************************************************************************)
(* The command.                                                            *)
(***************************************************************************)
Init ==
    /\ disk = FirstDisk /\ manifest = FirstManifests /\ lockFile = Absent
    /\ pc = "idle" /\ options = [locked |-> FALSE, lock |-> FALSE] /\ at = 1
    /\ files = <<>> /\ known = {} /\ roots = <<>> /\ components = <<>> /\ fetched = <<>>
    /\ have = {} /\ wanted = <<>> /\ read = {} /\ shipped = {} /\ unobtained = FALSE
    /\ locked = <<>> /\ compiled = <<>> /\ recorded = <<>>
    /\ edited = 0 /\ began = <<>> /\ built = NoBuild /\ edits = 0 /\ runs = 0

\* A process begins with nothing in its memory, and leaves nothing of it.
Blank ==
    /\ roots' = <<>> /\ components' = <<>> /\ fetched' = <<>> /\ began' = <<>>
    /\ have' = {} /\ wanted' = <<>> /\ read' = {} /\ shipped' = {} /\ unobtained' = FALSE
    /\ compiled' = <<>> /\ locked' = <<>> /\ recorded' = <<>> /\ edited' = 0 /\ at' = 1

Start(asked) ==
    /\ pc \in Over /\ runs < MaxRuns
    /\ runs' = runs + 1 /\ options' = asked /\ pc' = "seeds"
    /\ files' = Named /\ known' = Elements(Named)
    /\ Blank
    /\ UNCHANGED <<disk, manifest, lockFile, built, edits>>

\* Each named file is read; one that cannot be read imports nothing here.
ReadSeed ==
    /\ pc = "seeds" /\ at <= Len(Named)
    /\ Meet(Named[at], disk[Named[at]])
    /\ Join(disk[Named[at]], wanted)
    /\ at' = at + 1
    /\ UNCHANGED <<disk, manifest, lockFile, pc, options, files, known, shipped, began,
                   compiled, lockVars, edited, edits, runs>>

SeedsRead ==
    /\ pc = "seeds" /\ at > Len(Named)
    /\ pc' = "pinned" /\ at' = 1
    /\ UNCHANGED <<disk, manifest, lockFile, options, searchVars, compiled, lockVars,
                   edited, edits, runs>>

\* What the manifests pin joins the seeds, and is no root to search.
ReadPinned ==
    /\ pc = "pinned" /\ fetched # <<>>
    /\ fetched' = Tail(fetched)
    /\ IF Head(fetched) \in known
       THEN UNCHANGED <<files, known, have, wanted, read>>
       ELSE /\ known' = known \cup {Head(fetched)}
            /\ files' = Append(files, Head(fetched))
            /\ Join(disk[Head(fetched)], wanted)
    /\ UNCHANGED <<disk, manifest, lockFile, pc, options, at, roots, components, shipped,
                   unobtained, began, compiled, lockVars, edited, edits, runs>>

PinnedRead ==
    /\ pc = "pinned" /\ fetched = <<>>
    /\ pc' = "search" /\ began' = Asked
    /\ UNCHANGED <<disk, manifest, lockFile, options, at, files, known, roots, components,
                   fetched, have, wanted, read, shipped, unobtained, compiled, lockVars,
                   edited, edits, runs>>

\* As it would read if a module that was found were not remembered by name.
SettledIfNowhere(m) == Candidates(Asked, m) = {}

\* As it would read if what ships were not looked for on disk.
SettledIfShipped(m) == m \in have \cup DOMAIN Shipped \/ Candidates(Asked, m) = {}

\* Found already, or nowhere to be found: nothing more is done about it.
Settled(m) == m \in have \/ Candidates(Asked, m) = {}

\* One module that is wanted. A file that was met before answers again, and
\* is not added twice.
Ask ==
    /\ pc = "search" /\ wanted # <<>> /\ Len(wanted) <= MaxQueue
    /\ IF Settled(Head(wanted))
       THEN wanted' = Tail(wanted) /\ UNCHANGED <<files, known, have, read, roots,
                                                 components, fetched, unobtained>>
       ELSE \E p \in {FirstOf(Asked, Head(wanted))} :
              /\ Join(disk[p], Tail(wanted))
              /\ IF p \in known
                 THEN UNCHANGED <<files, known, roots, components, fetched, unobtained>>
                 ELSE /\ Meet(p, disk[p])
                      /\ known' = known \cup {p} /\ files' = Append(files, p)
    /\ UNCHANGED <<disk, manifest, lockFile, pc, options, at, shipped, began, compiled,
                   lockVars, edited, edits, runs>>

\* The search is over: what a manifest met on the way pinned is compiled too,
\* and what no text in hand claims is looked for among the shipped modules.
Searched ==
    /\ pc = "search" /\ wanted = <<>>
    /\ files' = files \o Outside(fetched, known)
    /\ fetched' = <<>>
    /\ shipped' = ShippedFor([t \in read |-> t])
    /\ pc' = IF options.locked THEN "lock" ELSE "read"
    /\ at' = 1
    /\ UNCHANGED <<disk, manifest, lockFile, options, known, roots, components, have,
                   wanted, read, unobtained, began, compiled, lockVars, edited, edits,
                   runs>>

(***************************************************************************)
(* The lock file: entries name a place and the text it held, which stands  *)
(* for the digest of it (FetchCache: equal digests, equal bytes).          *)
(***************************************************************************)
ShippedEntry(m) == [shipped |-> TRUE, of |-> m, text |-> Shipped[m]]
Entry(p, t) == [shipped |-> FALSE, of |-> p, text |-> t]

\* As it would read if only that the file is still there were verified.
HoldsIfThere(e) == e.shipped \/ disk[e.of] # Absent

\* One line of lock::verify: a file is read from disk, a shipped module is
\* the one in this compiler.
Holds(e) == IF e.shipped THEN e.text = Shipped[e.of] ELSE disk[e.of] = e.text

Fail == pc' = "failed" /\ UNCHANGED at

ReadLock ==
    /\ pc = "lock"
    /\ IF lockFile = Absent \/ (lockFile # Absent /\ ~lockFile.whole)
       THEN Fail /\ UNCHANGED locked
       ELSE locked' = lockFile.entries /\ pc' = "verify" /\ UNCHANGED at
    /\ UNCHANGED <<disk, manifest, lockFile, options, searchVars, compiled, recorded,
                   built, edited, edits, runs>>

Verify ==
    /\ pc = "verify" /\ at <= Len(locked)
    /\ IF Holds(locked[at]) THEN at' = at + 1 /\ UNCHANGED pc ELSE Fail
    /\ UNCHANGED <<disk, manifest, lockFile, options, searchVars, compiled, lockVars,
                   edited, edits, runs>>

Verified ==
    /\ pc = "verify" /\ at > Len(locked)
    /\ pc' = "read" /\ at' = 1
    /\ UNCHANGED <<disk, manifest, lockFile, options, searchVars, compiled, lockVars,
                   edited, edits, runs>>

(***************************************************************************)
(* Compiling (check_module_set): every file is read again.                 *)
(***************************************************************************)
Read ==
    /\ pc = "read" /\ at <= Len(files)
    /\ LET p == files[at]
       IN IF disk[p] = Absent THEN Fail /\ UNCHANGED compiled
          ELSE /\ compiled' = [q \in DOMAIN compiled \cup {p} |->
                                  IF q = p THEN disk[p] ELSE compiled[q]]
               /\ at' = at + 1 /\ UNCHANGED pc
    /\ UNCHANGED <<disk, manifest, lockFile, options, searchVars, lockVars, edited,
                   edits, runs>>

\* What is wrong with the set: check_all over the files and then the shipped
\* modules the search asked for, and the dependencies that were not obtained.
Position(p) == CHOOSE i \in DOMAIN files : files[i] = p
Refused ==
    \/ unobtained
    \/ shipped \cap Known(compiled) # {}
    \/ \E universe \in {Offered(compiled, [p \in DOMAIN compiled |-> Position(p)], shipped)} :
          \/ \E p \in DOMAIN compiled :
                \E problem \in Diagnoses(compiled, universe, p) : IsError(problem)
          \/ \E m \in shipped :
                \E problem \in Unresolved(Shipped[m], universe) : IsError(problem)

Check ==
    /\ pc = "read" /\ at > Len(files)
    /\ pc' = IF Refused THEN "failed" ELSE IF options.lock THEN "record" ELSE "done"
    /\ at' = 1
    /\ UNCHANGED <<disk, manifest, lockFile, options, searchVars, compiled, lockVars,
                   edited, edits, runs>>

(***************************************************************************)
(* Recording (build_lock_entries, lock::write): every file is read once    *)
(* more, and one that is gone is passed over.                              *)
(***************************************************************************)
\* As it would read if what the compiler carries were not recorded.
EntriesOfFiles(entries) == entries

\* The lines of a lock file: the files, then the shipped modules.
Lines(entries) ==
    LET order == CHOOSE l \in Listings(shipped) : TRUE
    IN entries \o [i \in DOMAIN order |-> ShippedEntry(order[i])]

Record ==
    /\ pc = "record" /\ at <= Len(files)
    /\ recorded' = IF disk[files[at]] = Absent THEN recorded
                   ELSE Append(recorded, Entry(files[at], disk[files[at]]))
    /\ at' = at + 1
    /\ UNCHANGED <<disk, manifest, lockFile, pc, options, searchVars, compiled, locked,
                   built, edited, edits, runs>>

\* The file is emptied before anything is written into it.
OpenLock ==
    /\ pc = "record" /\ at > Len(files)
    /\ lockFile' = [whole |-> FALSE, entries |-> <<>>]
    /\ pc' = "write"
    /\ built' = IF edited < Stage("read")
                THEN [compiled |-> compiled, shipped |-> shipped] ELSE NoBuild
    /\ UNCHANGED <<disk, manifest, options, at, searchVars, compiled, locked, recorded,
                   edited, edits, runs>>

WriteLock ==
    /\ pc = "write"
    /\ lockFile' = [whole |-> TRUE, entries |-> Lines(recorded)]
    /\ pc' = "done"
    /\ UNCHANGED <<disk, manifest, options, at, searchVars, compiled, lockVars, edited,
                   edits, runs>>

\* The process dies. What it was writing is cut anywhere: after a whole line,
\* which reads as a shorter lock file, or within one, which does not read.
Die ==
    /\ pc \notin Over
    /\ pc' = "idle"
    /\ IF pc = "write"
       THEN /\ \E n \in 0..Len(Lines(recorded)), whole \in BOOLEAN :
                 lockFile' = [whole |-> whole, entries |-> SubSeq(Lines(recorded), 1, n)]
            /\ built' = IF lockFile' = [whole |-> TRUE, entries |-> Lines(recorded)]
                        THEN built ELSE NoBuild
       ELSE UNCHANGED <<lockFile, built>>
    /\ files' = <<>> /\ known' = {}
    /\ Blank
    /\ UNCHANGED <<disk, manifest, options, edits, runs>>

(***************************************************************************)
(* Others write.                                                           *)
(***************************************************************************)
Touched ==
    /\ edits < MaxEdits /\ edits' = edits + 1
    /\ edited' = IF pc \in {"idle", "failed"} THEN 0 ELSE Stage(pc)
    /\ UNCHANGED <<lockFile, pc, options, at, searchVars, compiled, lockVars, runs>>

WriteFile(p) ==
    /\ \E t \in (Texts[p] \cup {Absent}) \ {disk[p]} : disk' = [disk EXCEPT ![p] = t]
    /\ Touched /\ UNCHANGED manifest

WriteManifest(r) ==
    /\ \E m \in Manifests[r] \ {manifest[r]} : manifest' = [manifest EXCEPT ![r] = m]
    /\ Touched /\ UNCHANGED disk

Command ==
    \/ ReadSeed \/ SeedsRead \/ ReadPinned \/ PinnedRead \/ Ask \/ Searched
    \/ ReadLock \/ Verify \/ Verified \/ Read \/ Check \/ Record \/ OpenLock \/ WriteLock

Next ==
    \/ \E l, w \in BOOLEAN : Start([locked |-> l, lock |-> w])
    \/ Command \/ Die
    \/ \E p \in Places \ Pinned : WriteFile(p)
    \/ \E r \in Roots : WriteManifest(r)

Spec == Init /\ [][Next]_vars

\* A command that has started is scheduled until it ends or dies.
FairSpec == Spec /\ WF_vars(Command)

(***************************************************************************)
(* Properties.                                                             *)
(***************************************************************************)
TypeOK ==
    /\ pc \in Over \cup Elements(Stages)
    /\ \A p \in Places : disk[p] = Absent \/ disk[p] \in Texts[p]
    /\ Elements(files) \subseteq Places /\ known \subseteq Places
    /\ Elements(Asked) \subseteq Roots
    /\ have \cup Elements(wanted) \subseteq Modules
    /\ shipped \subseteq DOMAIN Shipped
    /\ DOMAIN compiled \subseteq Elements(files)
    /\ edited \in 0..Len(Stages) /\ edits \in 0..MaxEdits /\ runs \in 0..MaxRuns

\* Somebody's own copy wins over the one that ships: a module that a file
\* which was searched imports, and that sits under a root the search began
\* with, is not taken from the compiler, whatever other roots are met on the
\* way. Only a file that sits at the module's path and says it is another one
\* can stand in its way.
OwnCopyWins ==
    (pc \in {"lock", "verify", "read", "record", "write", "done"} /\ edited < Stage("seeds")) =>
        \A m \in UNION {Imports(t) : t \in read} :
            /\ \E r \in Elements(began) : disk[PlaceOf[r][m]] # Absent
            /\ \A r \in Elements(Asked) :
                  disk[PlaceOf[r][m]] # Absent => disk[PlaceOf[r][m]].module = m
            => /\ m \notin shipped
               /\ \E p \in Elements(files) : Module(disk[p]) = m

\* A lock file that one whole run wrote lists what that run compiled, each
\* file with the text it was checked with, if nothing changed in between.
LockListsTheBuild ==
    (built # NoBuild /\ pc # "write") =>
        Elements(lockFile.entries) =
            {Entry(p, built.compiled[p]) : p \in DOMAIN built.compiled}
            \cup {ShippedEntry(m) : m \in built.shipped}

\* A locked run that succeeds, with nothing written while it verified and
\* compiled, checks the texts the run that wrote the lock file checked,
\* wherever the two look at the same file.
LockedBuildRepeats ==
    (pc \in {"record", "write", "done"} /\ options.locked /\ edited < Stage("verify")
     /\ built # NoBuild) =>
        \A p \in DOMAIN compiled \cap DOMAIN built.compiled :
            compiled[p] = built.compiled[p]

\* Looking for inputs ends, once every file that is there is the module its
\* place says, or says nothing of what it is.
Honest ==
    \A r \in Roots, m \in Modules :
        disk[PlaceOf[r][m]] # Absent => disk[PlaceOf[r][m]].module \in {m, NoModule}
SearchEnds == <>[]Honest => (pc = "search" ~> pc # "search")

=============================================================================
