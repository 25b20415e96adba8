\* Three logins; the game is not at its default path.
CONSTANTS
    Path = {here, there}
    DefaultPath = here
    InstalledAt = there
    MaxAttempts = 3
    MaxLogins = 3
SPECIFICATION FairSpec
INVARIANTS TypeOK OneLoginAtATime OwnCredentials
PROPERTY Answered
CHECK_DEADLOCK FALSE
