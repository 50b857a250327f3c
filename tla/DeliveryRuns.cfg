\* Two replicas run a delivery job; one process, statement or reply may fail.
CONSTANTS
  Pods = {p1, p2}
  Nil = Nil
  Jobs <- RunJobs
  MaxFaults = 1
  Admins = {admin1}
  MaxRows = 2
  Quota <- OneImmediateTwoDaily
  Addresses = {a1}
  MaxRetries = 2
SPECIFICATION FairSpec
INVARIANTS
  TypeOK
  OneRunPerWindow
  SentOnce
  SentWasMailed
  RetriesBounded
PROPERTIES
  SentStays
  EveryDeliveryTried
