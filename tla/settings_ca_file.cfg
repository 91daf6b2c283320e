SPECIFICATION FairSettingsSpec
CONSTANTS
  OptionFields <- MCFields
  MaxGiven = 4
PROPERTY TLSConfigReturns
CHECK_DEADLOCK FALSE
