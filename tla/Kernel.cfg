SPECIFICATION MCSpec
CONSTANTS
    ALT_NIRQ = 3
    Handlers = {"isr1", "isr2"}
    NULL = "NULL"
    CallsNested = FALSE
    Withdraws = TRUE
    Alarm = {a1, a2, a3}
    alt_alarm_list = alt_alarm_list
    Null = Null
    Width = 6
    Delays = {0, 2, 4}
    Periods = {1, 5}
    StopNext = FALSE
    TimeWidth = 32
    ALT_US = 10
    Rates = {1, 2, 3, 5}
    Seconds = {0, 2}
SYMMETRY AlarmSymmetry
INVARIANTS UpdatesAtomic OnlyHigherNests WalksTheList Elapsed
PROPERTY OnTime
