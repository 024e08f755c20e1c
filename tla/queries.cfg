SPECIFICATION Spec
CONSTANTS
  EthRequests <- MCEthRequests
  BtcRequests <- MCBtcRequests
  LogRequests <- MCLogRequests
  GapRequests <- MCGapRequests
  Commands <- MCCommands
  Plugins <- MCPlugins
  RankBits = 3
  MaxHeight = 4
  Hashes = {"canon", "fork"}
INVARIANTS HistoryIsStream
  BtcHistoryIsStream LogsExact GapsComplete GapsDisjoint PartsComplete ComposeOrdered
