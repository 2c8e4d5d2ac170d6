CONSTANTS
    Inputs <- MCInputs
    MaxFailed = 2
SPECIFICATION Spec
INVARIANTS
    TypeOK
    TaintFades
    TaintedInputIsStopped
    DisguiseNeverHelps
