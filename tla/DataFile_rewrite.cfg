\* Two workers, and three conversions of any CSVs of at most two lines.
CONSTANTS
  e1 = e1
  e2 = e2
  Engines <- MCEngines
  MaxLines = 2
  Csvs <- MCCsvs
  MaxVersion = 3
SPECIFICATION Spec
INVARIANTS FileIsPrefix SuccessIsComplete NoOldTrades
PROPERTY OnlyExposedThrow
