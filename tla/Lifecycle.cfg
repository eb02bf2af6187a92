\* A directory and a file that older releases leave up to three times, a stream,
\* two changes of a setting with three values, a configuration from any of four places. Bounds:
\* three starts. The system may stop: the last process has ended.
SPECIFICATION Spec
CONSTANTS
  h = h  f = f  conf1 = conf1  k1 = k1  k2 = k2  a1 = a1  a2 = a2  all = all  dns1 = dns1
  c1 = c1  c2 = c2  v0 = v0  v1 = v1  v2 = v2
  Header = Header
  Bad = Bad
  NoPeer = NoPeer
  Unset = Unset
  Everything <- MCEverything
  DefaultDNS <- MCDefaultDNS
  Name = {h, f}
  IsDir <- MCIsDir
  Conf = conf1
  Texts <- MCTexts
  Stream = {s1}
  None = None
  Change = {c1, c2}
  Value = {v0, v1, v2}
  Env = v0
  MaxCopies = 3
  MaxStarts = 3
SYMMETRY Symmetry
CHECK_DEADLOCK FALSE
INVARIANTS
  StartWholeOrNothing
  TunnelAsWritten
  FirstAndLatestKept
  SettingsAgree
PROPERTIES
  CountedUnlessLate
