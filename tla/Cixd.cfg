CONSTANTS
  c1 = c1
  c2 = c2
  c3 = c3
  Conns <- ThreeConns
  Parent = Parent
  NoConn = NoConn
SPECIFICATION FairSpec
CHECK_DEADLOCK FALSE
INVARIANTS
  TypeOK
  ConnOwnership
  NoStrayAcceptor
  NoForgottenZombie
  DaemonSurvives
PROPERTIES
  ZombiesReaped
  BacklogDrains
  ConnReleased
  ImplementsService
