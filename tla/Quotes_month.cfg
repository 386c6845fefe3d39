CONSTANTS
  DaysInWeek = 3
  MinutesPerDay = 3
  TicksPerMinute = 2
  DayMinutes = 1440
  UtcOffset = 330
  MaxMonths = 60
  Horizon = 78
  WeekRules <- McWeekRules
  Windows <- McWindows
  Listings <- McListings
  Starts <- McStarts
  HourStarts <- McHourStarts
  Quantities <- McQuantities
  Zones = {0, 330}
  SlotMinutes = 30
  WindowDays = 1830
  Amounts = {1, 99, 5005, 20001}
  Hundredths = {50, 100, 250}
  Terms <- McTerms
  Days = {1, 2, 3}
  Configs <- McConfigs
  HoursLeft = {0, 1, 2, 5, 6, 12, 23, 24, 100}
  Bookings <- McBookings
  MaxOver = 70
  Deals = {1, 2}
  Earning <- McEarning
  Parties = {b1}
  Requests = {q1, q2}
  Clerks = {q1}
  Reports = {1, 2}
  PayoutIds = {1, 2}
  NoRow = NoRow
SPECIFICATION McSpec
INVARIANT MonthEndsOnSameLocalDay
