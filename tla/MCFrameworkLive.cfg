\* Two instances of two tasks, one message, one command at a time.
SPECIFICATION FairSpec
CONSTANTS
    Task <- MCTask
    Inst <- MCFewInst
    TaskOf <- MCFewTaskOf
    Addresses <- MCAddresses
    Commands <- MCCommands
    InstMod = 16
    MaxMsgs = 1
    MaxCmds = 1
INVARIANTS
    TransactionOnce
    CommandsAfterStart
PROPERTIES
    TransactionsComplete
    MessagesHandled
