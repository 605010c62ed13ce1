\* Peers that race, a sender whose sockets break, a lossy client, a lossless
\* client whose server restarts.
CONSTANTS
    Slots = {1, 2, 3}
    Socks = {1, 2, 3}
    Scenarios <- RaceReconnectLossySettle
SPECIFICATION FairSpec
INVARIANTS TypeOK NoSilentLoss RepliesFit SameSession NoOldMessage
PROPERTIES EveryMessageSettled ImplementsDelivery NeverOlder
\* When every message is dispatched there is nothing left to do.
CHECK_DEADLOCK FALSE
