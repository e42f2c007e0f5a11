SPECIFICATION Spec
CONSTANTS
    REMOTE_BUF_LEN = 3
    REMOTE_READ_TIMEOUT = 2
    REMOTE_DISCONNECT_TIMEOUT = 9
    FramePeriod = 8
    MaxStall = 2
    RemoteUartSize = 4
    HEADER_SIZE = 3
    TYPE_SIZE = 1
    CRC_SIZE = 1
    SERIAL_RX_BUFF_SIZE = 3
    DataLengths = {1, 3}
    MaxFrames = 4
    MaxLost = 2
    UartSize = 2
    Driven <- MCDriven
    MaxParsed = 2
    Sticks = {364, 1365, 1685}
INVARIANTS
    BytesUnderstood
    ReceivesFramesInOrder
    InStepAgain
