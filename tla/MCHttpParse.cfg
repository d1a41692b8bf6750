\* Every cutting into pieces of one or two out of three requests, and of one
\* out of three responses.
SPECIFICATION Spec
CONSTANTS
    Requests <- MCRequests
    Responses <- MCResponses
    Version <- MCVersion
    Letters <- MCLetters
INVARIANTS
    RequestExact
    FirstPosted
    ResponseWhole
CHECK_DEADLOCK FALSE
