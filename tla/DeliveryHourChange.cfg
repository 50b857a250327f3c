\* Two replicas run the per-minute job while the hour changes.
CONSTANTS
  Pods = {p1, p2}
  Nil = Nil
  Jobs <- HourChangeJobs
  MaxFaults = 0
  Admins = {admin1}
  MaxRows = 2
  Quota <- OneImmediateTwoDaily
  Addresses = {a1}
  MaxRetries = 2
SPECIFICATION Spec
INVARIANTS
  SentOnce
