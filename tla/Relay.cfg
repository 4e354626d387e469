\* Every way to relay an answer, with slow and leaving clients and upstreams that stop anywhere.
SPECIFICATION FairSpec
CONSTANTS
    Timeout = 2
    DefaultMaxTokens = 4
    Calls <- MCCalls
INVARIANTS Released RelayFaithful TranslationFaithful
PROPERTIES TimeoutsAreEarned RelayEnds
