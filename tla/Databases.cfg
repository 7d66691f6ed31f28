SPECIFICATION EverySpec
CONSTANTS
    Tasks = {t1, t2, t3, t4}
    MaxReaders = 2
    BatchSize = 2
    Nesting = {"read_in_write", "write_in_read"}
    None = None
    Callers = {t1, t2, t3, t4}
    RowCount = 2
    NoOne = NoOne
SYMMETRY TaskSymmetry
INVARIANTS
    HeedInv
    
    SqliteInv
PROPERTIES
    ImplementsTransactionService
    
    SqliteImplementsTransactionService
