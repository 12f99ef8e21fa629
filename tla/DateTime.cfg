SPECIFICATION Calendar
CONSTANT TimesOfDay = {0, 59, 35999, 43210, 86399}
INVARIANTS
    TimesAgree
    WeekdayRight
