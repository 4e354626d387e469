\* Four writes of the file, at any moment of startup, of a check and of shutdown.
SPECIFICATION WatcherFairSpec
CONSTANT MaxWrites = 4
INVARIANTS InSync
PROPERTIES PicksUpChanges StopEnds
