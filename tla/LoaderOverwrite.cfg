SPECIFICATION Spec
CONSTANT NumArchives = 2
CONSTANT Wacz = {}
CONSTANT Workers = {server}
CONSTANT Server = server
CONSTANT Stages = {"full"}
CONSTANT Limits = {0}
CONSTANT Filters = {{1, 2}}
CONSTANT InsertBatch = 2
CONSTANT ResetRanges = {}
CONSTANT Uploads = {2}
CONSTANT MaxVersion = 1
PROPERTY OverwriteIsReset
