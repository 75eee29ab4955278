CONSTANTS
    Posts = {m1, m2}
    Gifs = {m1}
    Calls = {c1, c2}
    Pool = {w1, w2}
    MaxSize = 1
    Attempts = 2
    MaxText = 2
    Calm = TRUE
    NoRequest = NoRequest
SPECIFICATION IntakeFairSpec
INVARIANTS OneGifRequest NothingMissed
PROPERTIES QueueDrains
CHECK_DEADLOCK FALSE
