\* A call that either side may open, two tasks that name their dialogs, a
\* living time that is changed while the adapter runs.
SPECIFICATION FairSpec
CONSTANTS
    a = a
    b = b
    Id = {a, b}
    Rev <- MCRev
    Task = {t1, t2}
    NoTask = noTask
    Empty = empty
    Unnamed <- MCUnnamed
    MaxAge = 2
    Livings <- MCLivings
INVARIANTS
    TypeOK
    OldestFirst
    TablesAgree
    LastTaskOwns
PROPERTIES
    CleanedExactly
    ExpiredLeave
