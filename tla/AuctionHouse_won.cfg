SPECIFICATION Spec
CONSTANTS
    p1 = p1
    p2 = p2
    p3 = p3
    sword = sword
    House = House
    None = None
    Players = {p1, p2, p3}
    Visitors = {p1, p2}
    Items = {sword}
    Amounts = {1, 4}
    Postage = 1
    HalfWord = 2
    MaxMoney = 5
    Buyouts = {2}
    Prices = {2, 4}
    MaxMails = 3
    MaxLetters = 1
    MaxLag = 2
    Gold = 5
    Deposit = 1
    CutPercent = 50
    LogTrade = FALSE
    MaxAuctions = 2
    MaxCrashes = 1
INVARIANT ItemInOnePlace
SYMMETRY Symmetry
CHECK_DEADLOCK FALSE
