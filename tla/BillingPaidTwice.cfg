\* One payment reported by /verify in one month and by the webhook in the next.
CONSTANTS
  t1 = t1
  Tenants = {t1}
  Attempts = {a1}
  Owner <- OneBuyer
  Referred = {t1}
  Requests = {r1, r2}
  Provider = "zarinpal"
  Outcomes = {"paid"}
  LastMonth = 2
  MaxFailures = 0
  NoAttempt = NoAttempt
SPECIFICATION Spec
INVARIANTS PaymentPaysOnce
