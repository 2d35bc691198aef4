\* Constants of a design: literals of every base and integers.
SPECIFICATION Spec
CONSTANTS
    IntBits <- MCIntBits
    LongBits <- MCLongBits
    Literals <- MCLiterals
    Numbers <- MCNumbers
INVARIANTS
    HalvingKeepsNumber
    BitsAsWritten
    NumberKept
