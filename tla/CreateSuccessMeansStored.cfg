CONSTANTS
    a0 = a0
    a1 = a1
    a2 = a2
    Accounts <- MCAccounts
    Origin = a0
    Target = a1
    Programs <- MCPrograms
    InitCode <- MCInitCode
    Deployed <- MCDeployed
    Balance0 <- MCBalance0
    Values = {0, 1}
    CallTargets <- MCCallTargets
    CallGas = {0, 4}
    RetSizes = {0, 1, 2}
    GasLimit = 12
    CallCreateDepth = 1
    MaxCodeSize = 1
    CreateDataGas = 1
    CallStipend = 1
    GasStep = 1
    GasSstore = 1
    GasCall = 1
    GasCallValue = 2
    GasCreate = 1
    NoRecursion = FALSE
    MaxNonce = 3
SPECIFICATION Spec
PROPERTY CreateSuccessMeansStored
