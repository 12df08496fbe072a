SPECIFICATION PassesSpec
CONSTANT Media = {image, video}
CONSTANT Videos = {video}
CONSTANT Audios = {}
CONSTANT Workers = {p1, p2}
CONSTANT Limits = {0, 1}
CONSTANT BatchSize = 2
CONSTANT MaxConcurrent = 2
CONSTANT Slots = 1
CONSTANT MaxVersion = 1
CONSTANT MaxFaults = 1
CONSTANT MaxHangs = 1
CONSTANT MaxLoad = 3
INVARIANTS
    ThumbnailIsThere
    HashesAreWhole
PROPERTY PassesDrain
