CONSTANT Offset <- MCOffset
SPECIFICATION ContextSpec
INVARIANTS
    StricterNeverLoosens
    UnaskedWritesAreHarmless
    OnlyEarlyReturnsMask
