SPECIFICATION ServerSpec
CONSTANT MaxJobs = 1
CONSTANT NumArchives = 1
CONSTANT Wacz = {}
CONSTANT Workers = {server, cli}
CONSTANT Server = server
CONSTANT Uploads = {}
CONSTANT Stages = {"full"}
CONSTANT Limits = {0}
CONSTANT Filters = {{1}}
CONSTANT InsertBatch = 1
CONSTANT ResetRanges = {{1}}
CONSTANT MaxVersion = 1
INVARIANTS
    PipelineIsClaimed
    WorkIsOnRecord
PROPERTIES
    JobManagerSpec
    EveryJobEnds
    NoSilentRestart
