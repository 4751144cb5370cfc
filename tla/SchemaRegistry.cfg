SPECIFICATION FairSpec
CONSTANTS
  p1 = p1
  Publishers = {p1, p2}
  Publisher <- OfFirst
  Event <- ToFirst
  Events = {1, 2}
  Earlier <- SomePublished
  MaxVersion = 2
  Publications = {q1, q2}
  Nonces = {n1, n2}
  Verifications = {r1, r2}
  MaxFailures = 1
  None = None
INVARIANTS OneVerified VersionsAreSound ChallengeServesOnce
PROPERTIES VerifiedStays AllOrNothing RequestsEnd
CHECK_DEADLOCK FALSE
