\* Three handlers, a key that is replaced, and time for a key to become stale.
SPECIFICATION LiveSpec
CONSTANTS
  k1 = k1
  k2 = k2
  NoOne = NoOne
  NoToken = NoToken
  Requests = {r1, r2, r3}
  KeyIds = {k1, k2}
  KeySets <- Rotation
  Tokens <- OldAndNew
  TTL = 1
  RpcMax = 1
  MaxNow = 3
INVARIANTS TypeOK VerdictsCurrent
PROPERTIES KeysAdvance RequestsEnd
CHECK_DEADLOCK FALSE
