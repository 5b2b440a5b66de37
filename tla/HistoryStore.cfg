\* a monitor and a reader, over files that are empty or one record longer than the cap
CONSTANTS
  report = report
  Reader = {report}
  MaxRecords <- MCMaxRecords
  Limit = 2
  Earlier = 4
  Found <- MCFound
  MaxEvents = 8
  MaxMishaps = 1
SPECIFICATION Spec
INVARIANTS TypeOK SavedBetweenEvents AlertsHaveTheirEvent ReportIsCoherent
PROPERTIES HistoriesAreLogs
