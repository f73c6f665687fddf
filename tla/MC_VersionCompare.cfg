CONSTANTS
    Chars <- MC_Chars
    MaxLen <- MC_MaxLen
    IntMax <- MC_IntMax
SPECIFICATION Spec
INVARIANT TypeOK
INVARIANT CompareMatchesSpec
