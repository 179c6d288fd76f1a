SPECIFICATION Spec
CONSTANTS
    GetDesc = GetDesc
    GetBlock = GetBlock
    SetOffset = SetOffset
    SetAddr = SetAddr
    SetInterface = SetInterface
    OutData = OutData
    Empty = Empty
    m1 = m1
    m2 = m2
    Request = {SetInterface, SetOffset}
    Payload = {OutData, Empty}
    PayloadSize <- MCPayloadSize
    ReplyLen <- MCReplyLen
    WLength <- MCWLength
    Effect <- MCEffect
    NewAddress <- MCNewAddress
    Address = {0, 5}
    OutEp = {1}
    InEp = {1, 2}
    Message = {m1}
    MessageSize <- MCMessageSize
INVARIANT ToggleInStep
