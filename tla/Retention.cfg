SPECIFICATION Spec
CHECK_DEADLOCK FALSE
CONSTANTS
    router = router
    ping = ping
    always = always
    nights = nights
    Objects <- MCObjects
    HostOf <- MCHostOf
    Periods = {always, nights}
    Configurations <- MCConfigurations
    Downtimes = {1}
    LargeInstallationTweaks = FALSE
    MaxId = 3
    MaxSteps = 4
INVARIANTS
    CommentsAgree
    ChangesAreKept
