SPECIFICATION RecyclarrSpec
CONSTANT MaxSaves = 2
INVARIANT NoRequestIsDropped
