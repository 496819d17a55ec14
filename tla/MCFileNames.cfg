SPECIFICATION Spec
CONSTANTS
 Dirs <- MCDirs
 Files <- MCFiles
 Regions = {"eu"}
 MaxLength = 2
 MaxCached = 2
 SourceThere = TRUE
INVARIANTS FoundWhenThere
