SPECIFICATION Spec
CONSTANTS
  Word <- MCWord
  Addrs = {"::ffff:10.0.0.1"}
  Uids = {"1"}
  Ports = {"80"}
  IcmpIds = {"7"}
  Ages = {"60"}
  Keys = {""}
  Comments <- TwoWords
  Hashed = {"#1"}
  Unclosed = {"it's"}
  UidFiles <- NoFile
  MaxPeers = 1
CHECK_DEADLOCK FALSE
INVARIANT
  CommentsRestored
