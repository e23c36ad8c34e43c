SPECIFICATION Spec
CONSTANTS
  Cpus = {c1, c2}
  Macs = {m1, m2}
  eth_d_addr = m1
  Short = Short
  User = User
  None = None
  MaxPackets = 3
PROPERTY CtrlCExits
