\* Two tasks share three instances: every split, order and position.
SPECIFICATION SelectorSpec
CONSTANTS
    Task <- MCTask
    Inst <- MCInst
INVARIANTS
    SelectorTypeOK
    ListsAgree
    SharedByTurns
    RefusedOnlyWhenNoneLeft
    MulticastMissesFirstOnly
