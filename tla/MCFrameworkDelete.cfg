\* The comment at abstracttask.h 92, for a multicast to an unknown task.
SPECIFICATION Spec
CONSTANTS
    Task <- MCTask
    Inst <- MCFewInst
    TaskOf <- MCFewTaskOf
    Addresses <- MCAllAddresses
    Commands <- MCCommands
    InstMod = 16
    MaxMsgs = 2
    MaxCmds = 1
INVARIANT
    DeletedOnce
