SPECIFICATION FairSpec
CONSTANTS
    u1 = u1
    u2 = u2
    u3 = u3
    Uploads = {u1, u2}
    Count = 2
    ChunkOf <- EachChunkOnce
    Deleter = deleter
    Cleaner = cleaner
    Free = free
    NoFile = nofile
    Deleting = TRUE
    TTL = 1
    MaxTime = 1
    MaxCrashes = 1
INVARIANTS TypeOK OneRequestAssembles
PROPERTIES AnsweredFilesAreWhole UndisturbedUploadsEnd
