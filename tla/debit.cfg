SPECIFICATION Spec
CONSTANTS
  Limit = 4
  IDs = 2
  Initial = 3
  Amounts = {1, 2}
  Retries = 1
  MaxTorn = 2
VIEW MCView
INVARIANT Atomic
PROPERTY TellsTruth CommitsAtHeader
