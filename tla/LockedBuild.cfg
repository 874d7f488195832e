SPECIFICATION FairSpec
CONSTANTS
    Modules <- MCModules
    NoModule = "nomodule"
    Shipped <- MCShipped
    Provided <- MCProvided
    Roots <- MCRoots
    NoRoot = "none"
    Places <- MCPlaces
    PlaceOf <- MCPlaceOf
    RootOf <- MCRootOf
    Named <- MCNamed
    Pinned <- MCPinned
    Texts <- MCTexts
    Manifests <- MCManifests
    NoManifest = NoManifest
    FirstDisk <- MCDisk
    FirstManifests <- MCFirstManifests
    Absent = Absent
    NoBuild = NoBuild
    MaxEdits = 2
    MaxRuns = 2
    MaxQueue = 6
INVARIANTS OwnCopyWins LockListsTheBuild LockedBuildRepeats
PROPERTY SearchEnds
CHECK_DEADLOCK FALSE
