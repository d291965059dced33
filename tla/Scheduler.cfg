SPECIFICATION MCSpec
CONSTANTS
    s1 = s1
    s2 = s2
    j1 = j1
    j2 = j2
    hourly = hourly
    daily = daily
    u1 = u1
    u2 = u2
    NoDef = NoDef
    CronTimes <- TimesOf
    Schedules = {s1, s2}
    Jobs = {j1, j2}
    Crons = {hourly, daily}
    Operators = {u1, u2}
    MaxTime = 2
    MaxAttempts = 2
INVARIANTS OccurrenceSafety NoDateSkipped
PROPERTIES NeverDeliveredAgain DueIsSettled
