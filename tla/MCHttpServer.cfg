\* Two clients: one with two requests and answers of up to two parts, one
\* with one request; a send buffer for at most two parts.
SPECIFICATION FairSpec
CONSTANTS
    Link <- MCLink
    MaxParts <- MCMaxParts
    MaxRequests <- MCMaxRequests
    Kept = 2
INVARIANTS
    AnswersWhole
PROPERTIES
    AnswerLeaves
CHECK_DEADLOCK FALSE
