\* Two invites, three sign-ins over two threads, one file, two disturbances.
SPECIFICATION Spec
CONSTANTS
  Invites = {i1, i2}
  States = {s1, s2, s3}
  NoState = NoState
  Threads = {t1, t2}
  Troubles = {"restart", "expire", "answer", "refused", "unlink"}
  MaxTroubles = 2
SYMMETRY Symmetry
INVARIANTS Inv SingleUseInvite CredentialKept
PROPERTIES FileUntilConnected
CHECK_DEADLOCK FALSE
