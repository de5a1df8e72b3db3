CONSTANTS
    Builds = {1, 2}
    Topics <- MCTopics
    Payloads <- MCPayloads
    Junk <- MCJunkInert
    MboxSize = 2
    MaxPresses = 3
    MaxDrops = 1
    MaxDeliveries = 2
    ConnectResults <- MCConnectOk
SPECIFICATION Spec
INVARIANT TypeOK
INVARIANT RetryChainIntact
INVARIANT PublishRefusedOnlyAfterDrop
 
INVARIANT SmokeAlternatesUnlessLost
\* The firmware really stops: mqtt_client_new may fail (while (1)), and
\* after a failed resolve or post app_thread spins with nothing to do.
CHECK_DEADLOCK FALSE
