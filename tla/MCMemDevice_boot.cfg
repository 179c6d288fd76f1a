SPECIFICATION Spec
CONSTANTS
    Packet = 3
    PageSize = 4
    EepromSize = 2
    FlashStart = 4
    FlashSize = 12
    BlAddr = 12
    FlashEnd = 15
    Byte = {"old", "a", "b", "ff"}
    Erased = "ff"
    Offset = {3, 200}
    Payload <- MCPayload
    Eeprom0 <- MCEeprom0
    Flash0 <- MCFlash0
CONSTRAINT SmallFill
INVARIANT FirstReadFromStart
