SPECIFICATION SessionSpec
CONSTANTS
  Tabs = {t1}
  RefreshLife = 7
  MaxDays = 3
  MaxActs = 3
  MaxOutages = 0
  MaxLogouts = 0
\* The user may do nothing more.
CHECK_DEADLOCK FALSE
PROPERTIES SessionLastsAsRefreshToken
