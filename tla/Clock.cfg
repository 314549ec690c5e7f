SPECIFICATION ClockSpec
CONSTANTS
    Interval = 2
    Slack = 1
    Threshold = 12
    Lifetime = 30
    Skews <- DaylightSkews
    Klist = {"fullYear", "shortYear"}
    MaxFails = 3
INVARIANTS ExpiredBriefly ClockInv
