SPECIFICATION FairSpec
CONSTANTS
  Calls = {c1, c2}
  Transports = {t1, t2, t3}
  NoTransport = NoTransport
  MaxSignIns = 2
INVARIANTS
  TypeOK
  NeverStranded
  SilenceIsNoticed
PROPERTY StreamComesBack
