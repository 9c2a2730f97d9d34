CONSTANTS
    Token = {t1, t2, t3}
    Device = {phoneA, phoneB}
    Request = {rRenew, rUser, rElsewhere}
    NoToken = NoToken
    NoDevice = NoDevice
    MaxPassword = 1
    phone = phoneA
    renewReq = rRenew
    userReq = rUser
    elsewhereReq = rElsewhere
    Unread = Unread
    Nothing = Nothing
SPECIFICATION HandsetSpec
SYMMETRY Symmetry
INVARIANT SignedOutStays
