SPECIFICATION SavingSpec
CONSTANTS
    SaveInterval = 1
    Erased = erased
    MaxChanges = 1
PROPERTIES FactoryResetSticks
