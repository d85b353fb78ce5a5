SPECIFICATION RecyclarrSpec
CONSTANT MaxSaves = 1
PROPERTY CleanVerdictIsEarned
