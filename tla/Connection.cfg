\* Two connections, one message each, a channel that holds one message;
\* one of the peers may stop reading, read again or leave.
SPECIFICATION FairSpec
CONSTANTS
    alpha = alpha  beta = beta
    Client = {alpha, beta}
    Room = 1
    Budget = 1
    RequireAuth = TRUE
    Fickle = {beta}
INVARIANTS TypeOK NobodyStranded
PROPERTIES CloseIsComplete Responsive ClosedIsGone
\* a relay whose peers are silent has nothing to do
CHECK_DEADLOCK FALSE
