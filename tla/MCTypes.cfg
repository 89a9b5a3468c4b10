SPECIFICATION Spec
CONSTANTS
    Bits <- MCBits
    CompareKeys <- MCCompareKeys
    DecimalBound = 64
    YearRadix = 500
    SecondRadix = 10
    MicroRadix = 3
    Hours = 2
    Minutes = 2
    Seconds = 2
    Word = 64
CHECK_DEADLOCK FALSE
INVARIANTS
    ArithmeticSound
    
    
    TupleRoundTrip
