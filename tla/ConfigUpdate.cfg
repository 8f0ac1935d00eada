CONSTANTS
    PerPage = 2
    Updaters = {1, 2, 3}
    Nobody = nobody
    Scenarios <- MCScenarios
SPECIFICATION Spec
INVARIANTS TypeOK ReadsExact
PROPERTIES NewestStays LastChangeAdopted
CHECK_DEADLOCK FALSE
