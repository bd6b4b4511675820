SPECIFICATION VfsSpec
CONSTANTS
    HeapSize = 148
    HDR = 12
    Base = 16
    Word = 256
    Requests = {}
    Foreign = {}
    w = w
    long = long
    cut = cut
    d1 = d1
    bd = bd
    Names <- MCNames
    Stored <- MCStored
    Welcome = w
    Data = {d1}
    BootData = bd
    Sizes <- MCSizes
    BootSize = 8
    NodeSize = 16
    KernelBlock = 8
INVARIANTS Ownership SizesFit
PROPERTIES ImplementsFileStore
