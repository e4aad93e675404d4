SPECIFICATION Spec
CONSTANTS
  t1 = t1
  t2 = t2
  broken = broken
  partial = partial
  full = full
  full2 = full2
  Tabs <- TwoTabs
  Contents <- FourDrafts
  Runnable <- ThoseRun
  Complete <- TwoFullDrafts
  ReviewOf <- ReviewPerTab
  Patient <- OneTab
  RequestsWait = TRUE
  Slow <- TheOther
  MaxRepairs = 2
  Absent = Absent
INVARIANTS
  TypeOK
  OfficialPassedPreflight
  EnabledMeansChecked
CHECK_DEADLOCK FALSE
