SPECIFICATION Spec
CONSTANTS
  Clients = {c1}
  Handler = sigint
  Nobody = nobody
  Tokens = {"a", "b", "v", "w", ",", " ", "__TOMBSTONE__"}
  Verbs = {"SET", "DEL", "GET", "COMPACT", "PING", "EXIT", ""}
  Args <- OneValue
  Faults = {"torn"}
  MaxLine = 8
  MaxDamage = 1
INVARIANT RecoversCommitted
