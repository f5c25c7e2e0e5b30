SPECIFICATION LoaderSpec
CONSTANTS
  Categories <- MCCategories
  Updaters = {"enricher"}
  ChannelSize = 1
  MaxLifeCalls = 6
  MaxRecords = 2
PROPERTIES
  LoadReturns
CHECK_DEADLOCK FALSE
