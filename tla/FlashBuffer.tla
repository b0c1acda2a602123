------------------------------ MODULE FlashBuffer ------------------------------
(***************************************************************************)
(* mcu_sal_flash.c: writing to flash, and the buffer between the interrupt *)
(* handler of the I2C slave, which stores bytes (flash_recv_byte), and the *)
(* main loop, which writes them (flash_write_run), used as the comment in  *)
(* front of flash_init says.  The board's image calls flash_init alone.    *)
(*                                                                         *)
(* A byte is the set of its bits that are 1: programming a cell clears     *)
(* bits, erasing sets those of a whole page.  A hardware function keeps    *)
(* interrupts disabled while it runs (Efm8lb12_flash.c), so each is a step *)
(* that the handler does not divide.  Power may fail between any two.      *)
(***************************************************************************)
EXTENDS Naturals, Sequences, FiniteSets

CONSTANTS
  FLASH_PAGE_SIZE, FLASH_MAX_ADDR, FLASH_USER_PAGE_SIZE,
  Bits, Bytes,             \* bits of a byte; the bytes that are written
  MaxCalls, MaxReceived    \* bounds: calls of the main loop, bytes received

Addrs == 0 .. FLASH_MAX_ADDR
Slots == 0 .. FLASH_USER_PAGE_SIZE - 1
Erased == Bits
GET_FLASH_PAGE_START_ADDR(a) == a - (a % FLASH_PAGE_SIZE)
Page(a) == GET_FLASH_PAGE_START_ADDR(a) .. GET_FLASH_PAGE_START_ADDR(a) + FLASH_PAGE_SIZE - 1

\* The flash consists of whole pages.
ASSUME FlashAssumption ==
  /\ FLASH_PAGE_SIZE \in Nat \ {0} /\ FLASH_MAX_ADDR \in Nat
  /\ FLASH_USER_PAGE_SIZE \in Nat \ {0}
  /\ Bytes \subseteq SUBSET Bits
  /\ \A a \in Addrs : Page(a) \subseteq Addrs

Empty == [full |-> FALSE, addr |-> 0, value |-> {}]
NoCall == [of |-> "none", addr |-> 0, bytes |-> <<>>]

VARIABLES
  cell,            \* the flash
  pc, call, i,     \* where the main loop is; the function and its arguments; its index
  save,            \* save_buf
  buff, num,       \* _flash_buff; a slot is full or empty (bit 7 of its offset)
  n, seen,         \* flash_write_run: its index; num as num -- has read it
  was,             \* cell when call began
  came,            \* what flash_write_run is to write: what it found, and what came meanwhile
  behind,          \* a byte came into a slot that it had passed
  lost,            \* by how many num is less than the number of full slots
  calls, received

flash == <<cell, save, was, call, i>>
buffer == <<buff, num, seen, came, behind, lost>>
vars == <<pc, flash, buffer, n, calls, received>>

\* Addresses of a call's bytes.
Span == call.addr .. call.addr + Len(call.bytes) - 1
ByteFor(a) == call.bytes[a - call.addr + 1]

Init ==
  /\ cell \in [Addrs -> Bytes]
  /\ pc = "idle" /\ call = NoCall /\ i = 0 /\ save = <<>>
  /\ buff = [s \in Slots |-> Empty] /\ num = 0 /\ n = 0 /\ seen = 0    \* flash_init
  /\ was = cell /\ came = {} /\ behind = FALSE /\ lost = 0
  /\ calls = 0 /\ received = 0

----------------------------------------------------------------------------
(* The hardware.                                                           *)

flash_hw_write_byte(a, value) == cell' = [cell EXCEPT ![a] = @ \cap value]
flash_hw_erase_page(a) ==
  cell' = [b \in Addrs |-> IF b \in Page(a) THEN Erased ELSE cell[b]]

----------------------------------------------------------------------------
(* flash_write with flash_erase_range, and flash_write_byte.               *)

Begin(of, addr, bytes) == call' = [of |-> of, addr |-> addr, bytes |-> bytes] /\ was' = cell

\* The check at the beginning of flash_erase_range.
Accepted(addr, len) == len <= FLASH_PAGE_SIZE /\ addr + len <= FLASH_MAX_ADDR

flash_write ==
  /\ pc = "idle" /\ calls < MaxCalls /\ calls' = calls + 1
  /\ \E a \in Addrs, len \in 0 .. FLASH_PAGE_SIZE + 1 : \E bytes \in [1 .. len -> Bytes] :
       IF Accepted(a, len) THEN pc' = "save" /\ Begin("flash_write", a, bytes)
       ELSE UNCHANGED <<pc, call, was>>
  /\ UNCHANGED <<cell, save, i, buffer, n, received>>

flash_write_byte ==
  /\ pc = "idle" /\ calls < MaxCalls /\ calls' = calls + 1
  /\ \E a \in Addrs, value \in Bytes : pc' = "byte" /\ Begin("flash_write_byte", a, <<value>>)
  /\ UNCHANGED <<cell, save, i, buffer, n, received>>

\* A byte that is there already is not written, and an erased cell is written directly.
Byte ==
  /\ pc = "byte"
  /\ LET cur == cell[call.addr]   value == call.bytes[1] IN
     \/ cur = value /\ pc' = "wrote" /\ UNCHANGED cell
     \/ cur # value /\ cur # Erased /\ pc' = "save" /\ UNCHANGED cell
     \/ cur # value /\ cur = Erased /\ pc' = "wrote" /\ flash_hw_write_byte(call.addr, value)
  /\ UNCHANGED <<save, was, call, i, buffer, n, calls, received>>

\* flash_read of the page.
Save ==
  /\ pc = "save" /\ pc' = "erase"
  /\ save' = [a \in Page(call.addr) |-> cell[a]]
  /\ UNCHANGED <<cell, was, call, i, buffer, n, calls, received>>

\* Mutant of Erase: the new byte is not put into save_buf.
EraseOldByte ==
  /\ pc = "erase" /\ pc' = "rewrite"
  /\ flash_hw_erase_page(call.addr)
  /\ i' = GET_FLASH_PAGE_START_ADDR(call.addr)
  /\ UNCHANGED <<save, was, call, buffer, n, calls, received>>

Erase ==
  /\ pc = "erase" /\ pc' = "rewrite"
  /\ flash_hw_erase_page(call.addr)
  /\ save' = IF call.of = "flash_write" THEN save ELSE [save EXCEPT ![call.addr] = ByteFor(call.addr)]
  /\ i' = GET_FLASH_PAGE_START_ADDR(call.addr)
  /\ UNCHANGED <<was, call, buffer, n, calls, received>>

\* The rest of the page; flash_write_byte's own byte is in save_buf by now.
Rewrite ==
  /\ pc = "rewrite" /\ i \in Page(call.addr)
  /\ IF call.of = "flash_write" /\ i \in Span THEN UNCHANGED cell
     ELSE flash_hw_write_byte(i, save[i])
  /\ i' = i + 1
  /\ UNCHANGED <<pc, save, was, call, buffer, n, calls, received>>

Rewritten ==
  /\ pc = "rewrite" /\ i \notin Page(call.addr)
  /\ IF call.of = "flash_write" THEN pc' = "program" /\ i' = call.addr
     ELSE pc' = "wrote" /\ UNCHANGED i
  /\ UNCHANGED <<cell, save, was, call, buffer, n, calls, received>>

\* The bytes themselves: also those behind the page, which nobody has erased.
Program ==
  /\ pc = "program"
  /\ IF i \in Span THEN flash_hw_write_byte(i, ByteFor(i)) /\ i' = i + 1 /\ UNCHANGED pc
     ELSE pc' = "wrote" /\ UNCHANGED <<cell, i>>
  /\ UNCHANGED <<save, was, call, buffer, n, calls, received>>

Return ==
  /\ pc = "wrote"
  /\ pc' = IF call.of = "flash_write_run" THEN "count" ELSE "idle"
  /\ call' = NoCall /\ i' = 0 /\ save' = <<>> /\ was' = cell
  /\ UNCHANGED <<cell, buffer, n, calls, received>>

----------------------------------------------------------------------------
(* The buffer.                                                             *)

\* flash_write_run is under way.
Running == call.of = "flash_write_run" \/ pc \in {"loop", "count", "uncount", "clear", "ran"}

Item(a, value) == [addr |-> a, value |-> value]

\* The first free slot.
Free == {s \in Slots : ~ buff[s].full}
First == CHOOSE s \in Free : \A t \in Free : s <= t

\* Mutant of flash_recv_byte: num ++ behind the loop, also when no slot is free.
flash_recv_byteCountsAll ==
  /\ received < MaxReceived /\ received' = received + 1
  /\ num' = num + 1
  /\ IF Free = {} THEN UNCHANGED <<buff, came, behind, lost>>
     ELSE \E a \in Addrs, value \in Bytes :
       /\ buff' = [buff EXCEPT ![First] = [full |-> TRUE, addr |-> a, value |-> value]]
       /\ came' = IF Running THEN came \cup {Item(a, value)} ELSE came
       /\ behind' = (behind \/ First < n)
       /\ lost' = IF pc = "uncount" THEN lost + 1 ELSE lost
  /\ UNCHANGED <<pc, flash, seen, n, calls>>

\* In the handler: the first free slot; without one the byte is lost.
flash_recv_byte ==
  /\ received < MaxReceived /\ received' = received + 1
  /\ IF Free = {} THEN UNCHANGED <<buff, num, came, behind, lost>>
     ELSE \E a \in Addrs, value \in Bytes :
       /\ num' = num + 1
       /\ buff' = [buff EXCEPT ![First] = [full |-> TRUE, addr |-> a, value |-> value]]
       /\ came' = IF Running THEN came \cup {Item(a, value)} ELSE came
       /\ behind' = (behind \/ First < n)
       /\ lost' = IF pc = "uncount" THEN lost + 1 ELSE lost
  /\ UNCHANGED <<pc, flash, seen, n, calls>>

flash_write_run ==
  /\ pc = "idle" /\ num # 0
  /\ pc' = "loop" /\ n' = 0
  /\ came' = {Item(buff[s].addr, buff[s].value) : s \in Slots \ Free}
  /\ UNCHANGED <<flash, buff, num, seen, behind, lost, calls, received>>

\* The comma operator: the end of the buffer does not end the loop, num = 0 does.
LoopEnds ==
  /\ pc = "loop" /\ num = 0
  /\ pc' = "ran"
  /\ UNCHANGED <<flash, buffer, n, calls, received>>

NextSlot ==
  /\ pc = "loop" /\ num # 0 /\ n \in Slots /\ ~ buff[n].full
  /\ n' = n + 1
  /\ UNCHANGED <<pc, flash, buffer, calls, received>>

WriteSlot ==
  /\ pc = "loop" /\ num # 0 /\ n \in Slots /\ buff[n].full
  /\ pc' = "byte" /\ Begin("flash_write_run", buff[n].addr, <<buff[n].value>>)
  /\ UNCHANGED <<cell, save, i, buffer, n, calls, received>>

\* num -- is a read and a write; the handler may come between.
Count ==
  /\ pc = "count" /\ pc' = "uncount"
  /\ seen' = num
  /\ UNCHANGED <<flash, buff, num, came, behind, lost, n, calls, received>>

\* Mutant of Uncount: num -- is forgotten.
UncountForgets ==
  /\ pc = "uncount" /\ pc' = "clear"
  /\ num' = seen /\ seen' = 0
  /\ UNCHANGED <<flash, buff, came, behind, lost, n, calls, received>>

Uncount ==
  /\ pc = "uncount" /\ pc' = "clear"
  /\ num' = seen - 1 /\ seen' = 0
  /\ UNCHANGED <<flash, buff, came, behind, lost, n, calls, received>>

\* Mutant of Clear: the slot stays full.
ClearKeeps ==
  /\ pc = "clear" /\ pc' = "loop"
  /\ n' = n + 1
  /\ UNCHANGED <<flash, buffer, calls, received>>

Clear ==
  /\ pc = "clear" /\ pc' = "loop"
  /\ buff' = [buff EXCEPT ![n] = Empty]
  /\ n' = n + 1
  /\ UNCHANGED <<flash, num, seen, came, behind, lost, calls, received>>

\* Behind the buffer, up to 255, other variables are taken for slots.  One whose bit 7 is
\* set has a byte written somewhere.
Beyond ==
  /\ pc = "loop" /\ num # 0 /\ n \notin Slots
  /\ \/ n' = 0 /\ UNCHANGED <<cell, num, came, lost>>
     \/ /\ \E a \in Addrs, value \in Bytes :
             cell' = [cell EXCEPT ![a] = value] /\ came' = came \cup {Item(a, value)}
        /\ num' = num - 1 /\ lost' = lost + 1 /\ UNCHANGED n
  /\ UNCHANGED <<pc, save, was, call, i, buff, seen, behind, calls, received>>

RunReturns ==
  /\ pc = "ran" /\ pc' = "idle"
  /\ n' = 0 /\ came' = {} /\ behind' = FALSE
  /\ UNCHANGED <<flash, buff, num, seen, lost, calls, received>>

----------------------------------------------------------------------------
\* Power fails and returns: the flash is as it was left, the memory as flash_init sets it.
PowerFails ==
  /\ pc' = "idle" /\ call' = NoCall /\ i' = 0 /\ save' = <<>> /\ was' = cell
  /\ buff' = [s \in Slots |-> Empty] /\ num' = 0 /\ n' = 0 /\ seen' = 0
  /\ came' = {} /\ behind' = FALSE /\ lost' = 0
  /\ UNCHANGED <<cell, calls, received>>

Write == flash_write \/ flash_write_byte \/ Byte \/ Save \/ Erase \/ Rewrite \/ Rewritten
         \/ Program \/ Return
Run == flash_write_run \/ LoopEnds \/ NextSlot \/ WriteSlot \/ Count \/ Uncount \/ Clear
       \/ Beyond \/ RunReturns

Next == Write \/ Run \/ flash_recv_byte \/ PowerFails
Spec == Init /\ [][Next]_vars

----------------------------------------------------------------------------
TypeOK ==
  /\ cell \in [Addrs -> SUBSET Bits] /\ was \in [Addrs -> SUBSET Bits]
  /\ pc \in {"idle", "byte", "save", "erase", "rewrite", "program", "wrote", "loop", "count",
             "uncount", "clear", "ran"}
  /\ DOMAIN buff = Slots /\ came \subseteq [addr : Addrs, value : SUBSET Bits]
  /\ num \in 0 .. FLASH_USER_PAGE_SIZE /\ n \in 0 .. FLASH_USER_PAGE_SIZE
  /\ i \in 0 .. FLASH_MAX_ADDR + 1

\* What a write has made of a byte behind its page when it is programmed there: bits are
\* cleared, but none is set, since nobody has erased it.
Programmed(a) == was[a] \cap ByteFor(a)

\* flash_write and flash_write_byte.  When they return, the bytes of the call that lie in
\* the page of the first are there, the rest of that page is as it was, although all of it
\* was erased meanwhile, and those of the call that lie behind it are programmed without
\* being erased; everything else is as it was.  At any moment (power may fail there) a byte
\* of the page is the old one, the new one or erased, and any other is the old one, or is
\* programmed already if the call names it.
CallLands ==
  /\ pc = "wrote" =>
       \A a \in Addrs :
         cell[a] = IF a \notin Span THEN was[a]
                   ELSE IF a \in Page(call.addr) THEN ByteFor(a) ELSE Programmed(a)
  /\ pc \in {"byte", "save", "erase", "rewrite", "program", "wrote"} =>
       \A a \in Addrs :
         \/ cell[a] = was[a]
         \/ a \in Page(call.addr) /\ cell[a] = Erased
         \/ a \in Span /\ cell[a] = IF a \in Page(call.addr) THEN ByteFor(a) ELSE Programmed(a)

\* Between two bytes num is the number of full slots, less those whose num ++ fell between
\* the two halves of num --.  And flash_write_run reads behind its buffer only if a byte
\* came into a slot that it had passed: nothing but num = 0 ends its loop, and otherwise
\* num is 0 when the last full slot is written.
InBuffer ==
  /\ pc \in {"idle", "loop", "ran"} => num + lost = Cardinality(Slots \ Free)
  /\ pc = "loop" /\ num # 0 /\ n \notin Slots => behind

\* Nothing else was to be written to the address of c.
Alone(c) == \A d \in came : d.addr = c.addr => d = c

\* No byte gets lost between the buffer and the flash, whatever comes while flash_write_run
\* runs and wherever its loop goes: one that it found or that came meanwhile is in the
\* flash or still in its slot.  When the loop ends, as many slots are full as num ++ were
\* lost: all bytes are in the flash if none was.  Of several bytes for one address nothing
\* is said: the slots are not in the order of arrival.
Drained ==
  /\ pc = "loop" /\ num = 0 => Cardinality(Slots \ Free) = lost
  /\ pc \in {"loop", "ran"} =>
       \A c \in came : Alone(c) =>
         cell[c.addr] = c.value \/ \E s \in Slots : buff[s].full /\ Item(buff[s].addr, buff[s].value) = c
=============================================================================
