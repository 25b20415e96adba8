\* One connection of a redirected player.
CONSTANTS
    alice = alice  bob = bob  carol = carol  home = home  cafe = cafe
    Player = {alice, bob, carol}
    Address = {home, cafe}
    Home <- Homes
    Patient = {alice}
    Character <- Characters
    Bannable = {home}
    Nobody = Nobody
    MaxConn = 1
    MaxToken = 1
    MaxFailures = 0
SPECIFICATION Spec
INVARIANT TutorialFirst
CHECK_DEADLOCK FALSE
