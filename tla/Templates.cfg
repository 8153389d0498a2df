SPECIFICATION Spec
CONSTANTS
    Dockerfile = dockerfile
    ignore = ignore
    Files = {dockerfile, readme, ignore}
    KeepFiles = {readme}
    AppendFiles = {ignore}
    ImmutableFiles = {ignore}
    Revisions <- ThreeVersions
    ExistingFiles = {dockerfile, readme, ignore}
    MaxRenku = 2
    MaxEdits = 2
INVARIANTS UntouchedFilesAreCurrent
PROPERTIES UserChangesAreKept RenkuVersionIsPreserved
CHECK_DEADLOCK FALSE
