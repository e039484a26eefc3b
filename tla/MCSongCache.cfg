SPECIFICATION Spec
CONSTANTS
    Users = {u1}
    Songs = {a, b}
    Workers = {w1, w2, w3}
    Nobody = Nobody
    NoSong = NoSong
INVARIANT CacheIsStore
INVARIANT AnswersHold
SYMMETRY MCSymmetry
