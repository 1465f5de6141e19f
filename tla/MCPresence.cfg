CONSTANTS
  Daemon <- MCDaemon
  Peer <- MCPeer
  PeerOf <- MCPeerOf
  Slot = {1, 2}
  NoSlot = 0
  MaxChurn = 3
SPECIFICATION FairSpec
INVARIANTS TypeOK SessionCount Converges
PROPERTIES DeltasAreNews Truthful ViewsRefine
CHECK_DEADLOCK FALSE
