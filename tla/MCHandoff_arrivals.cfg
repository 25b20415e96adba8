\* One player alone at an address and two behind another one.
CONSTANTS
    alice = alice  bob = bob  carol = carol  home = home  cafe = cafe
    Player = {alice, bob, carol}
    Address = {home, cafe}
    Home <- Homes
    Patient = {alice}
    Character <- Characters
    Bannable = {home}
    Nobody = Nobody
    MaxConn = 2
    MaxToken = 2
    MaxFailures = 1
SPECIFICATION FairSpec
INVARIANTS TypeOK OneUse AccountOfAddress Recognized
PROPERTY Answered
CHECK_DEADLOCK FALSE
