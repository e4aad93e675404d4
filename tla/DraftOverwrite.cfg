SPECIFICATION Spec
CONSTANTS
  t1 = t1
  t2 = t2
  broken = broken
  partial = partial
  full = full
  full2 = full2
  Tabs <- TwoTabs
  Contents <- TwoFullDrafts
  Runnable <- TwoFullDrafts
  Complete <- TwoFullDrafts
  ReviewOf <- ReviewPerTab
  Patient <- TwoTabs
  RequestsWait = TRUE
  Slow <- TwoTabs
  MaxRepairs = 2
  Absent = Absent
PROPERTIES
  OverwriteIsConfirmed
CHECK_DEADLOCK FALSE
