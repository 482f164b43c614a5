SPECIFICATION MCSpec
CONSTANTS
    Sessions = {s1}
    NoSession = NoSession
    Files = {f1, f2}
    Resources = {r1, r2}
    NoResource = NoResource
    Procs = {p1, p2, p3}
    Faults = {"cos", "db", "redis", "crash"}
    MaxReloads = 2
    Uploaders = {q1, q2}
    Batches <- SmallBatches
    CallLimit = 1
    ByteLimit = 2
    FileLimit = 2
    MaxCounter = 2
SYMMETRY Symmetry
INVARIANTS UploadSound FinalizedPerLoad FilesLostOnlyByReuse DeletedPerReader
