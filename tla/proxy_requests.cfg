CONSTANTS
    c1 = c1
    c2 = c2
    Client = {c1, c2}
    NoClient = NoClient
    BACKLOG = 2
    MaxForkFailures = 1
    plain = plain
    listed = listed
    other = other
    WARNING = WARNING
    NoHost = NoHost
    Host = {plain, listed, other, WARNING}
    Resolvable = {plain, listed, other, WARNING}
    Listed = {listed}
    Request <- Requests
    Garbage = {plain}
    ResponseLen <- Responses
    Hasty = {c1}
SPECIFICATION FairSpec
CHECK_DEADLOCK FALSE
INVARIANTS
    ContactedRightly
    AnswerWhole
    NoZombieForgotten
PROPERTY
    ClientReleased
