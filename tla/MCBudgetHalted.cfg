SPECIFICATION SpecWithHistory
CONSTANTS
    N = 2
    ConfiguredCapacity = 1
    Amounts = {1}
PROPERTY HaltedFirstGetsEmptyLease
