SPECIFICATION Spec
CONSTANTS
    PRs = {1, 2}
    Author <- MCAuthor
    Major = {2}
    Refused = {}
    Crons = {"cron"}
    Watchers = {"watch"}
    HasCI = TRUE
    CountMayFail = FALSE
    NoMatchHead = TRUE
    startup_wait = 1
    quiet_age = 1
    pending_wait = 0
    MaxHeads = 2
    MaxEvents = 3
    MaxAborts = 1
INVARIANT
    MergedWasClear
PROPERTIES
    JobsEnd
    EligibleMerged
CHECK_DEADLOCK FALSE
