SPECIFICATION Spec
CONSTANTS
  Days = 2
  DayLen = 3
  Schedules <- OneDaySchedules
  CritHold = 2
INVARIANTS BootsWholeImage
PROPERTIES BatteryGuard SleepMinuteIsKept ResumesInWindow
