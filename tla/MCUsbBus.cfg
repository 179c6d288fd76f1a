SPECIFICATION FairBusSpec
CONSTANTS
    GetBlock = GetBlock
    SetOffset = SetOffset
    SetAddr = SetAddr
    A = A
    B = B
    Empty = Empty
    m1 = m1
    Request = {GetBlock, SetOffset, SetAddr}
    Payload = {A, B, Empty}
    Tags = {A, B}
    FirstTag = A
    Disturb = {{}, {"abort"}, {"reset", "flash", "out"}}
    PayloadSize <- MCPayloadSize
    ReplyLen <- MCReplyLen
    WLength <- MCWLength
    Effect <- MCEffect
    NewAddress <- MCNewAddress
    Address = {0, 5}
    OutEp = {1}
    InEp = {1}
    Message = {m1}
    MessageSize <- MCMessageSize
INVARIANTS
    ReadsAreExact
    StatusIsForThisTransfer
    AddressAgreement
    OutExactlyOnce
PROPERTY
    TransferCompletes
