SPECIFICATION PollingSpec
CONSTANTS
    N = 3
    ConfiguredCapacity = 3
    Amounts = {0, 2, 4}
INVARIANTS TypeOK Balanced LineIsTheWaiters
PROPERTIES NoOvertaking EveryWaiterServed HaltedWaiterLeaves
