CONSTANTS
  Entries = {e1, e2}
  MaxEntries = 3
  Default = 2
  Limits <- MCLimits
  NoLimit = NoLimit
  Readers = {r1}
  Subscribers = {s1}
  MaxEmitted = 5
SPECIFICATION Spec
INVARIANTS
  AnswersFull
  SubscribeThenReadGapless
PROPERTIES
  PollsGapless
  ImplementsPromise
