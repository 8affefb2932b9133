SPECIFICATION Spec
CONSTANTS
  Handlers = {h1, h2, h3}
  Requests <- SomeRequests
  Agents = {"a"}
  Cards = {c1, c2}
  MaxChanges = 1
  NoCard = NoCard
  NoRequest = NoRequest
SYMMETRY HandlersAlike
INVARIANTS TypeOK ChangeNoticed ForwardedRecorded
CHECK_DEADLOCK FALSE
