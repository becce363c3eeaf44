SPECIFICATION Spec
CONSTANTS
    auth = auth  blankAuth = blankAuth  media = media  medias = medias  cdn = cdn  billing = billing
    account = account  file = file
    Names <- MCNames
    Strip <- MCStrip
    Similar <- MCSimilar
    Account = account
    Deployments <- MCDeployments
    Services = {media}
    Period = 2
    MaxAge = 4
    MaxDelay = 1
    MaxTurns = 2
    MaxNow = 7
INVARIANTS EveryStoreIsAsked QuietOwnerIsNamed
CHECK_DEADLOCK FALSE
