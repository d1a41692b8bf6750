\* Three instances of two tasks, two messages, no commands.
SPECIFICATION Spec
CONSTANTS
    Task <- MCTask
    Inst <- MCInst
    TaskOf <- MCTaskOf
    Addresses <- MCAllAddresses
    Commands <- MCCommands
    InstMod = 16
    MaxMsgs = 2
    MaxCmds = 0
INVARIANTS
    TypeOK
    MessageOwnedOnce
    DeliveredAsAddressed
    CommonOrder
