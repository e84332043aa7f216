CONSTANT Requests = {r1, r2, r3}
SPECIFICATION FairSpec
INVARIANTS
  NoncesUnbroken
PROPERTIES
  OnlyRacesCollide
  AbiFaultsForgiven
  ImplementsCall
  CallsEnd
