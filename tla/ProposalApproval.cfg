SPECIFICATION Spec
CONSTANTS
    Proposals = {p1}
    MetaKeys = {snapshot, leverage}
    Clients = {c1, c2, c3}
    Legs <- MCLegs
CHECK_DEADLOCK FALSE
INVARIANTS
    OneExecution
    
    ExecutedIsRecorded
PROPERTIES
    TerminalFinal
    LedgerSpec
