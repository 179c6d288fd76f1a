--------------------------- MODULE MCSerialBridge ---------------------------
(* A buffer and a receiver of one byte, a banner of two characters.          *)
EXTENDS SerialBridge

MCBanner == <<68, 10>>
MCTexts == {<<65, 66, 67>>, <<65, 0, 66>>}
Reg(rq, reg, dir, value) == [bRequest |-> rq, reg |-> reg, dir |-> dir, value |-> value]
MCRequests ==
    {Reg("SET_REGISTER", "D", TRUE, {1, 2, 5}), Reg("SET_REGISTER", "D", TRUE, {}),
     Reg("SET_REGISTER", "B", TRUE, {0, 2}), Reg("SET_REGISTER", "B", FALSE, {0}),
     Reg("GET_REGISTER", "B", FALSE, {2}), [bRequest |-> "SET_LED_STATUS", value |-> FALSE]}
=============================================================================
