SPECIFICATION DSpec
CONSTANTS
    Pages = {p1, p2, p3}
    Values = {v1, v2}
    Zero = Zero
    Unspecified = Unspecified
    DEFAULT_DB_IO_SIZE = 1
    IntPages = 100
    Faults = {"write", "resize"}
    Callers = {c1, c2}
    Words = {w0, w1}
    ZeroWord = w0
    NoPage = NoPage
    Buffers = {c1, c2}
    Bytes = {v1, v2}
    Null = Zero
    MaxLog = 3
    NoBuffer = NoBuffer
INVARIANTS SlotsConsistent
 
