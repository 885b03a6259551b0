SPECIFICATION StorageSpec

CONSTANTS
    Extra0 = 1
    Virtual0 = 3
    VirtualMax = 2
    PeripheralMax = 2
    PoolSize = 7
    PortsOf <- MCPortsOf
    Values = {"v1", "v2"}
    NewPorts <- MCNewPorts
    PortChanges <- MCPortChanges
    PortConfigs <- MCPortConfigs
    PeripheralLists <- MCPeripheralLists
    Provisionings <- MCProvisionings
    SystemChanges <- MCSystemChanges
    DeviceChanges <- MCDeviceChanges
    CustomNames = {"custom/c"}
    NoPart = NoPart
    Budget = 2
    SaveInterval = 1
    Erased = erased
    MaxChanges = 1

PROPERTY SavedOnlyIfWell

CHECK_DEADLOCK FALSE
