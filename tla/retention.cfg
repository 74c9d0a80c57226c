CONSTANTS
  MINUTES_PER_HOUR = 1
  HOURS_PER_DAY = 2
  DAYS_PER_WEEK = 2
  MonthDays <- ShortYear
  HourOfDay = 0
  DayOfWeek = 0
  Formats = {TRUE, FALSE}
  Mins <- UsedMins
  Schedules <- UsedSchedules
  MaxNow = 10
  MaxTaken = 3
  MaxFails = 1

SPECIFICATION Spec

INVARIANTS
  TypeOK
  ScheduleIsReference
  NothingKeepableIsLost

PROPERTIES
  StaysBounded

CHECK_DEADLOCK FALSE
