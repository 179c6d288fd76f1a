---------------------------- MODULE MCUsbDriver ----------------------------
(* A small bus: requests for a reply that ends in a short packet, for one     *)
(* that fills its packet, and for none; an OUT message and the empty packet;  *)
(* one message on each endpoint.                                              *)
EXTENDS UsbDriver

CONSTANTS GetDesc, GetBlock, SetOffset, SetAddr, SetInterface, OutData, Empty, m1, m2

MCReplyLen == [r \in Request |-> CASE r = GetDesc -> 10 [] r = GetBlock -> 8 [] OTHER -> 0]
MCWLength == [r \in Request |-> IF r \in {GetDesc, GetBlock} THEN 64 ELSE 0]
MCEffect == [r \in Request |-> CASE r = SetOffset -> "load"
                                 [] r = SetAddr -> "address"
                                 [] r = SetInterface -> "toggles"
                                 [] OTHER -> "none"]
MCNewAddress == [r \in Request |-> IF r = SetAddr THEN 5 ELSE 0]
MCPayloadSize == [d \in Payload |-> IF d = Empty THEN 0 ELSE 3]
MCMessageSize == [m \in Message |-> 8]
=============================================================================
