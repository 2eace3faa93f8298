SPECIFICATION Spec
CONSTANTS
  Jobs = {1, 2, 3}
  Runs = {r1}
  Keys = {k1, k2, k3}
  Digests = {d1}
  Works <- MCWorks
  TTLs = {1}
  Outcomes = {"succeeded"}
  TicksPerSecond = 2
  MaxLag = 1
  MaxTime = 3
  MaxAttempts = 3
  None = None
SYMMETRY KeySymmetry
CONSTRAINT Bounded
INVARIANTS LeasesAgree LinksAreEvidence 
PROPERTIES LeasesEndOnTime ImplementsLeaseService EvidenceStable
