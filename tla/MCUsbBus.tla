------------------------------ MODULE MCUsbBus ------------------------------
(* A control read that ends in an empty packet (8 bytes where 64 are asked     *)
(* for), SET_ADDRESS, one request that loads the interrupt endpoint, two OUT  *)
(* messages sent in turn.                                                     *)
EXTENDS UsbBus

CONSTANTS GetBlock, SetOffset, SetAddr, A, B, m1

MCReplyLen == [r \in Request |-> IF r = GetBlock THEN 8 ELSE 0]
MCWLength == [r \in Request |-> IF r = GetBlock THEN 64 ELSE 0]
MCEffect == [r \in Request |-> CASE r = SetOffset -> "load"
                                 [] r = SetAddr -> "address"
                                 [] OTHER -> "none"]
MCNewAddress == [r \in Request |-> IF r = SetAddr THEN 5 ELSE 0]
MCPayloadSize == [d \in Payload |-> IF d = Empty THEN 0 ELSE 3]
MCMessageSize == [m \in Message |-> 8]
=============================================================================
