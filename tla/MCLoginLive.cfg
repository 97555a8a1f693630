CONSTANTS
    p1 = p1
    home = home
    s1 = s1  s2 = s2  s3 = s3
    ch1 = ch1  ch2 = ch2
    Player = {p1}
    Address = {home}
    AddressOf <- OneAddress
    Session = {s1, s2}
    Channel = {ch1, ch2}
    LoginServer = LoginServer
    CashShop = CashShop
    Nowhere = Nowhere
    NoSession = NoSession
    NoPlayer = NoPlayer
    MaxBreaks = 2
SPECIFICATION FairSpec
PROPERTIES Comeback
