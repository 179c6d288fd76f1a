SPECIFICATION FairSpec
CONSTANTS
    GetDesc = GetDesc
    GetBlock = GetBlock
    SetOffset = SetOffset
    SetAddr = SetAddr
    SetInterface = SetInterface
    OutData = OutData
    Empty = Empty
    m1 = m1
    m2 = m2
    Request = {GetDesc, GetBlock, SetOffset}
    Payload = {OutData, Empty}
    PayloadSize <- MCPayloadSize
    ReplyLen <- MCReplyLen
    WLength <- MCWLength
    Effect <- MCEffect
    NewAddress <- MCNewAddress
    Address = {0, 5}
    OutEp = {1}
    InEp = {1}
    Message = {m1}
    MessageSize <- MCMessageSize
INVARIANTS
    NoTornPacket
    MessageStable
    ReplyInOrder
    ToggleInStep
PROPERTIES
    MessageProcessed
