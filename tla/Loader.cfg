SPECIFICATION CommandLineSpec
CONSTANT NumArchives = 2
CONSTANT Wacz = {1}
CONSTANT Workers = {cli}
CONSTANT Server = server
CONSTANT Stages = {"register", "parse", "extract", "rerun", "clear_errors"}
CONSTANT Limits = {0, 1}
CONSTANT Filters = {{1, 2}}
CONSTANT InsertBatch = 2
CONSTANT ResetRanges = {{2}}
CONSTANT Uploads = {2}
CONSTANT MaxVersion = 2
INVARIANT StatusIsTrue
PROPERTIES
    QueuesAreExact
    RunsEnd
    LifecycleSpec
