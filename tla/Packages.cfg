SPECIFICATION Spec
CONSTANTS
    Files = {"f"}
    Projects <- MCProjects
    NameOrder <- MCNameOrder
    Shelf <- MCShelf
    MaxEditions = 2
    MaxFaults = 2
INVARIANT TypeOK
INVARIANT ManifestLast
INVARIANT ResolvesHighest
PROPERTY LeavesItsSource
PROPERTY ManifestMeansWhole
PROPERTY GitComesThrough
