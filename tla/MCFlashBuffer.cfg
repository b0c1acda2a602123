CONSTANTS
  FLASH_PAGE_SIZE = 2
  FLASH_MAX_ADDR = 3
  FLASH_USER_PAGE_SIZE = 2
  b0 = b0
  Bits <- OneBit
  Bytes <- AllBytes
  MaxCalls = 1
  MaxReceived = 3
SPECIFICATION Spec
INVARIANTS
  TypeOK
  CallLands
  
  
