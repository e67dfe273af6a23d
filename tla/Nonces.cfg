SPECIFICATION MCFairSpec
CONSTANTS
  a = a
  b = b
  l = l
  u = u
  v = v
  NoNonce = NoNonce
  Intents = {a}
  Bridges = {b}
  Legacy = {l}
  Observers = {u, v}
  MaxTrouble = 1
INVARIANTS
  NonceTypeOK
  NonceExclusive
  VerdictsAreTrue
  HandlerKeepsItsWindow
PROPERTIES
  KeepsNoncePromise
  IntentsEnd
CHECK_DEADLOCK FALSE
