CONSTANTS
    Users = {u1}
    NoUser = NoUser
    MaxTokens = 2
    Requests = {1, 2}
    Tabs = {b1, b2}
    NoTab = NoTab
    NoRequest = NoRequest
SPECIFICATION FairSpec
INVARIANTS
    TypeOK
    OneLiveToken
    FlightIsUnderWay
PROPERTIES
    ReplayHasACause
    SessionsEndForGood
    WaitingCallsEnd
