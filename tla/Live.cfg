SPECIFICATION FairSpec
CONSTANTS
  Parts = {"gate", "bindings", "embedding", "chat"}
  Nil = Nil
  g1 = g1
  g2 = g2
  g3 = g3
  s1 = s1
  s2 = s2
  w1 = w1
  w2 = w2
  w3 = w3
  w4 = w4
PROPERTIES
  GateLives
  SearchSettles
  ChatLives
CHECK_DEADLOCK FALSE
