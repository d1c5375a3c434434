\* Two requests to xud or boltz, while the proxy connects and closes.
SPECIFICATION Spec
CONSTANTS
    xud = xud
    btc = btc
    Requests = {r1, r2}
    Boltz = {btc}
    Conns = {xud, btc}
    CloseOrder <- XudAndBoltz
    Updates = {}
    Start = Start
    NoConn = NoConn
SYMMETRY Interchangeable
INVARIANTS TypeOK OutcomeTold DefaultFileIsTrue
CHECK_DEADLOCK FALSE
