SPECIFICATION Spec
CONSTANTS
  Word <- MCWord
  Addrs = {"::ffff:10.0.0.1", "::1"}
  Uids = {"1", "2"}
  Ports = {"80", "81"}
  IcmpIds = {"7"}
  Ages = {"60"}
  Keys = {"", "ab"}
  Comments <- MCComments
  Hashed = {"#1"}
  Unclosed = {"it's"}
  UidFiles <- MCUidFiles
  MaxPeers = 2
CHECK_DEADLOCK FALSE
INVARIANTS
  RestoreFaithful
  RestoreHarmless
