CONSTANTS
    Token = {t1, t2, t3}
    Device = {phoneA}
    Request = {r1, r2}
    NoToken = NoToken
    NoDevice = NoDevice
    MaxPassword = 1
SPECIFICATION OverlapSpec
SYMMETRY Symmetry
INVARIANTS
    ExchangeKeepsSession
    ReplayMeansExchanged
    OneHandsetUncrossed
    PasswordEndsSessionsUncrossed
    SingleUseUncrossed
PROPERTIES
    NoEvictionUncrossed
