SPECIFICATION SessionFairSpec
CONSTANTS
    s1 = s1
    s2 = s2
    Senders = {s1, s2}
    Payloads = {0, 2, 3}
    HeaderSize = 2
    MaxMessageSize = 4
    MaxBufferSize = 5
    ChunkSize = 3
    MaxSends = 3
INVARIANTS SessionTypeOK
PROPERTIES HonestStreamNotRefused IsMessageStream
CHECK_DEADLOCK FALSE
