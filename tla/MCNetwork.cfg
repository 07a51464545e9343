SPECIFICATION NetworkSpec
CONSTANTS
    AttemptTimeout = 3
    Overall = 13
    RetryDelay = 1
    Oversleep = 2
    Replies = {"Ack", "AckOtherNonce", "Reject", "Other", "Garbage"}
    Period = 1
    PeerDownAfter = 5
    Delay = 1
    Tolerated = 2
    MaxLosses = 3
    MaxDups = 1
    MaxTime = 9
    Ids = {0, 1}
    Payloads <- MCPayloads
    MaxPacket = 7
    MaxLen = 3
    MaxGroups = 2
    MaxBytes = 14
    Lifetime = 1
    Mtu = 3
    Block = 2
    Lengths = {3, 6, 7}
    MaxSends = 3
    NetLife = 1
    Bytes = {1, 2, 3, 15, 32}
    MaxBody = 5
    Texts <- MCTexts
    Values <- MCValues
    MaxAttributes = 3
    WordLen = 1
    Widths = {1, 2}
    MtuRange = {2, 3}
    RequestedMtu = 4
    Nonce <- MCNonce
INVARIANTS
    AttemptsSound
    MonitorSound
    TransferSound
    AnswerRead
PROPERTIES
    Returns
