SPECIFICATION StorageSpec

CONSTANTS
    Extra0 = 1
    Virtual0 = 3
    VirtualMax = 2
    PeripheralMax = 2
    PoolSize = 7
    PortsOf <- MCPortsOf
    Values = {"v1", "v2"}
    NewPorts <- MCNewPorts
    PortChanges <- MCPortChanges
    PortConfigs <- MCPortConfigs
    PeripheralLists <- MCPeripheralLists
    Provisionings <- MCProvisionings
    SystemChanges <- MCSystemChanges
    DeviceChanges <- MCDeviceChanges
    CustomNames = {"custom/c"}
    NoPart = NoPart
    Budget = 3
    SaveInterval = 2
    Erased = erased
    MaxChanges = 4

INVARIANTS
    SlotsConsistent
    RestoredAsSaved
    ChangesKept
    NeverErased

PROPERTIES
    PortsRecreated
    ProvisioningEnds
    EventuallySaved

CHECK_DEADLOCK FALSE
