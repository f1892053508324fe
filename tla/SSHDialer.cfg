CONSTANTS
  Clients = {c1, c2}
  NoClient = NoClient
  Keys = {k1, k2}
  NoKey = NoKey
  BlankFile = BlankFile
  Keepalive = TRUE
  BaseDelay = 4
  MaxDelay = 240
  Jitter = 2
  WordBits = 10
  MaxAttempt = 7
SPECIFICATION FairSpec
INVARIANTS NoAbandonedTransport TrustSurvivesRestart ConnectedIsProbed StatusTellsConnected
PROPERTIES LiveTunnelKept BackoffHolds ImplementsTunnel StuckTunnelClosed TunnelReturns
