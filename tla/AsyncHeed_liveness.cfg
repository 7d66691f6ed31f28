SPECIFICATION FairSpec
CONSTANTS
    Tasks = {t1, t2, t3}
    MaxReaders = 2
    BatchSize = 1
    Nesting = {"read_in_write"}
    None = None
PROPERTIES
    ReadersAreServed
    WritersAreServed
    ResizesAreServed
