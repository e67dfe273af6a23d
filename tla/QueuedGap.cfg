SPECIFICATION Spec
CONSTANTS
  a = a
  b = b
  l = l
  u = u
  v = v
  NoNonce = NoNonce
  Intents = {a}
  Bridges = {b}
  Legacy = {l}
  Observers = {u, v}
  MaxTrouble = 0
PROPERTY
  NoQueuedGap
CHECK_DEADLOCK FALSE
