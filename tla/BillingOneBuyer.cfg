\* Two payments of one referred tenant, two concurrent requests, one death.
CONSTANTS
  t1 = t1
  Tenants = {t1}
  Attempts = {a1, a2}
  Owner <- OneBuyer
  Referred = {t1}
  Requests = {r1, r2}
  Provider = "zarinpal"
  Outcomes = {"paid", "failed"}
  LastMonth = 2
  MaxFailures = 1
  NoAttempt = NoAttempt
SPECIFICATION Spec
SYMMETRY RequestSymmetry
INVARIANTS TypeOK EventPaysOnce NoTornSettlement SettledAsReported ProcessedMeansSettled
  ReceivedIsInHand SettlementEarnsCommission
PROPERTIES LedgerSpec LaterSettlementsRenew
