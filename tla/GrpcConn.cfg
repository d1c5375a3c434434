\* The two connections of boltz, one Update of each.
SPECIFICATION FairSpec
CONSTANTS
    btc = btc
    ltc = ltc
    Conns = {btc, ltc}
    CloseOrder <- BoltzAlone
    Updates = {u1}
    Start = Start
    NoConn = NoConn
INVARIANTS IInv ClientIsUp NoLeak CloseCloses
PROPERTIES ConnectedUnlessWithdrawn
CHECK_DEADLOCK FALSE
