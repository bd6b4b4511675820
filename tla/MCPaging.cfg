SPECIFICATION PagingSpec
CONSTANTS
    TotalFrames = 5
    StartFrame = 2
    Word = 16
    Dirs = {kernel, user}
    KernelDir = kernel
    kernel = kernel
    user = user
    PdIndices <- MCPdIndices
    PtIndices <- MCPtIndices
    KernelPages = 1
INVARIANTS FramesExclusive BitmapExact FreeCountOff
