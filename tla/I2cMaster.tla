------------------------------ MODULE I2cMaster ------------------------------
(***************************************************************************)
(* The bit-banged I2C master of mcu_sal_i2c_master.c against one device,   *)
(* from the levels of the two lines up to the calls read and write.        *)
(*                                                                         *)
(* Both lines are open drain: low when anybody pulls them low.  An action  *)
(* of the master is one condition or one bit; the device follows the edges *)
(* at once, except that it may hold SCL low (stretch the clock), and then  *)
(* the master waits in its loop while(!SCL).                               *)
(***************************************************************************)
EXTENDS Naturals, Sequences, SequencesExt

CONSTANTS
  BITS,      \* bits of a byte
  WIDTH,     \* values of the loop counter i, uint8_t
  Dev,       \* the device's address, BITS - 1 bits
  Wide,      \* addresses with an offset of two bytes
  Addrs,     \* addresses the callers use
  Offsets,   \* offsets they use, <<high byte, low byte>>
  Sent,      \* bytes the callers write
  Held,      \* bytes the device has
  Reads, Writes,   \* numbers of bytes they read and write
  Refuses,   \* TRUE: the device may refuse (not acknowledge) the offset
  Stretches, \* where it may stretch the clock: "byte", after a byte and after its
             \* acknowledgement, and "bit", within a byte
  MaxRestarts      \* bound: restarts of the board

Byte == [1..BITS -> {0, 1}]
Address == [1..BITS - 1 -> {0, 1}]

ASSUME MasterAssumption ==
  /\ BITS \in Nat /\ BITS > 1 /\ WIDTH \in Nat \ {0}
  /\ Dev \in Address /\ Addrs \subseteq Address /\ Wide \subseteq Address
  /\ Offsets \subseteq Byte \X Byte /\ Sent \subseteq Byte /\ Held \subseteq Byte
  /\ Reads \subseteq 1..WIDTH /\ Writes \subseteq 0..WIDTH - 1
  /\ Refuses \in BOOLEAN /\ Stretches \subseteq {"byte", "bit"}
  /\ MaxRestarts \in Nat

VARIABLES
  wire,      \* the lines and the device
  call,      \* the call: [op, addr, off, data]; data: the bytes to write, or as many
             \* places as bytes to read
  pc, k, i,  \* where the master is, bits done of this byte, loop counter of read and write
  value,     \* recv_byte's *value, as far as received
  buff,      \* the caller's buffer
  ret,
  refused,   \* history: the device has refused the offset in this call
  restarts

vars == <<wire, call, pc, k, i, value, buff, ret, refused, restarts>>

----------------------------------------------------------------------------
(* The lines and the device.  wire has the levels the master drives (scl,  *)
(* sda), what the device pulls low (hold: SCL, low: SDA) and its state:    *)
(* st, whether it is in the clock of its acknowledgement (ack), the bits   *)
(* shifted in or still to send (shift), the offset bytes received in this  *)
(* transfer (part), its pointer (off, and n bytes further), what it wrote  *)
(* in this call, and what it has served since it was addressed.            *)

SCL(w) == IF w.hold THEN 0 ELSE w.scl
SDA(w) == IF w.low THEN 0 ELSE w.sda

OffsetBytes == IF Dev \in Wide THEN 2 ELSE 1
AtMost(s) == IF Len(s) > WIDTH THEN SubSeq(s, 1, WIDTH + 1) ELSE s
Further(n) == IF n > WIDTH THEN n ELSE n + 1

Started(w) == [w EXCEPT !.st = "address", !.shift = <<>>, !.ack = FALSE]
Stopped(w) == [w EXCEPT !.st = "off", !.shift = <<>>, !.ack = FALSE]

\* The device sends a byte, its first bit now.
Load(w, byte) ==
  [w EXCEPT !.st = "send", !.ack = FALSE, !.low = (byte[1] = 0), !.shift = Tail(byte),
            !.served = AtMost(Append(@, <<w.off, w.n, byte>>)), !.n = Further(@)]

\* It acknowledges the byte it has shifted in, and takes it.
Taken(w) ==
  LET a == [w EXCEPT !.ack = TRUE, !.low = TRUE, !.shift = <<>>]
      part == Append(w.part, w.shift)
  IN CASE w.st = "address" ->
            [a EXCEPT !.st = IF Last(w.shift) = 1 THEN "send" ELSE "offset", !.part = <<>>,
                      !.served = <<>>]
       [] w.st = "offset" ->
            IF Len(part) = OffsetBytes
            THEN [a EXCEPT !.st = "data", !.off = part, !.n = 0, !.part = <<>>]
            ELSE [a EXCEPT !.part = part]
       [] w.st = "data" ->
            [a EXCEPT !.wrote = AtMost(Append(@, <<w.off, w.n, w.shift>>)), !.n = Further(@)]

Risen(w) ==
  CASE w.st \in {"address", "offset", "data"} /\ ~ w.ack ->
         [w EXCEPT !.shift = Append(@, SDA(w))]
    [] w.st = "asked" -> [w EXCEPT !.st = IF SDA(w) = 0 THEN "next" ELSE "off"]
    [] OTHER -> w

\* c: the device's choices, whether it acknowledges, the byte it sends, whether it
\* stretches.
Fallen(w, c) ==
  LET full == w.st \in {"address", "offset", "data"} /\ Len(w.shift) = BITS
      accepts == c.ack /\ (w.st = "address" => Front(w.shift) = Dev)
      r == CASE w.ack -> IF w.st = "send" THEN Load(w, c.byte)
                         ELSE [w EXCEPT !.ack = FALSE, !.low = FALSE]
             [] ~ w.ack /\ full -> IF accepts THEN Taken(w) ELSE Stopped(w)
             [] ~ w.ack /\ w.st = "send" ->
                  IF w.shift = <<>> THEN [w EXCEPT !.st = "asked", !.low = FALSE]
                  ELSE [w EXCEPT !.low = (Head(w.shift) = 0), !.shift = Tail(@)]
             [] w.st = "next" -> Load(w, c.byte)
             [] OTHER -> w
      place == IF full \/ w.ack THEN "byte" ELSE "bit"
  IN [r EXCEPT !.hold = c.hold /\ r.st # "off" /\ place \in Stretches]

\* The master sets a line; the device notices when the line changes.
SetSda(w, v) ==
  LET n == [w EXCEPT !.sda = v]
  IN IF w.sda = v \/ w.low \/ SCL(w) = 0 THEN n ELSE IF v = 0 THEN Started(n) ELSE Stopped(n)

SetScl(w, v, c) ==
  LET n == [w EXCEPT !.scl = v]
  IN IF w.scl = v \/ w.hold THEN n ELSE IF v = 1 THEN Risen(n) ELSE Fallen(n, c)

\* What the device may choose at this point, where it makes a difference.  Only an
\* offset is refused on purpose.
Answers ==
  {c \in [ack : BOOLEAN, byte : Held, hold : BOOLEAN] :
     /\ c.hold => Stretches # {}
     /\ ~ c.ack => Len(wire.shift) >= BITS - 1 /\ (wire.st = "offset" => Refuses)
     /\ c.byte # (CHOOSE b \in Held : TRUE) =>
          wire.st \in {"asked", "next"} \/ (wire.st = "send" /\ wire.ack)}

\* The device lets go of SCL.
Release ==
  /\ wire.hold
  /\ LET n == [wire EXCEPT !.hold = FALSE] IN wire' = IF n.scl = 1 THEN Risen(n) ELSE n
  /\ UNCHANGED <<call, pc, k, i, value, buff, ret, refused, restarts>>

----------------------------------------------------------------------------
(* Conditions and bits.                                                    *)

\* WRITE_BIT and READ_BIT.  They wait for SCL, so they begin when nobody holds it.
Up(w, v, c) == SetScl(SetSda(w, v), 1, c)
WRITE_BIT(w, v, c) == SetScl(Up(w, v, c), 0, c)
READ_BIT(w, c) == WRITE_BIT(w, 1, c)
readBit(w, c) == SDA(Up(w, 1, c))

\* Mutant of Prepared: a line SDA that is held low is not clocked.
PreparedUnclocked(w, c) == IF SCL(w) = 1 THEN w ELSE SetScl(SetSda(w, 1), 1, c)

\* _i2c_master_imitate_start, as far as both lines should be high.
Prepared(w, c) ==
  IF SCL(w) = 1
  THEN IF SDA(w) = 0 THEN SetScl(SetSda(SetScl(w, 0, c), 1), 1, c) ELSE w
  ELSE SetScl(SetSda(w, 1), 1, c)

High(w) == SCL(w) = 1 /\ SDA(w) = 1

StartDone(w, c) == LET p == Prepared(w, c) IN IF High(p) THEN SetScl(SetSda(p, 0), 0, c) ELSE p

\* _i2c_master_imitate_stop, as far as only SCL should be high.  SDA is set when it
\* is seen high, not when it is seen low because the device pulls it.
Lowered(w, c) ==
  IF SCL(w) = 0
  THEN SetScl(IF SDA(w) = 0 THEN w ELSE SetSda(w, 0), 1, c)
  ELSE IF SDA(w) = 1 THEN SetScl(SetSda(SetScl(w, 0, c), 0), 1, c) ELSE w

StopDone(w, c) ==
  LET p == Lowered(w, c) IN IF SCL(p) = 1 /\ SDA(p) = 0 THEN SetSda(p, 1) ELSE p

\* Mutant of StopOk: the lines are not looked at again.
StopOkUnseen(w, c) == TRUE

\* It reports success when it got as far as that and both lines are high.
StopOk(w, c) == SDA(Lowered(w, c)) = 0 /\ High(StopDone(w, c))

----------------------------------------------------------------------------
Silent == [scl |-> 1, sda |-> 1, hold |-> FALSE, low |-> FALSE, st |-> "off", ack |-> FALSE,
           shift |-> <<>>, part |-> <<>>, off |-> <<>>, n |-> 0, wrote |-> <<>>, served |-> <<>>]

NoCall == [op |-> "none", addr |-> Dev, off |-> <<>>, data |-> <<>>]
NoByte == <<>>
Empty == [j \in 0..WIDTH - 1 |-> NoByte]

Init ==
  /\ wire = Silent /\ call = NoCall
  /\ pc = "reset" /\ k = 0 /\ i = 0 /\ value = <<>> /\ buff = Empty
  /\ ret = "FAILED" /\ refused = FALSE /\ restarts = 0

LEN == Len(call.data)

\* A call begins; the histories of the one before are forgotten.
Begin(op, addr, off, data) ==
  /\ pc = "idle"
  /\ call' = [op |-> op, addr |-> addr, off |-> off, data |-> data]
  /\ wire' = [wire EXCEPT !.wrote = <<>>]
  /\ pc' = "start" /\ k' = 0 /\ i' = 0 /\ value' = <<>> /\ buff' = Empty
  /\ ret' = "FAILED" /\ refused' = FALSE
  /\ UNCHANGED restarts

Calls ==
  \E addr \in Addrs, off \in Offsets :
    \/ \E n \in Reads : Begin("read", addr, off, [j \in 1..n |-> NoByte])
    \/ \E n \in Writes : \E data \in [1..n -> Sent] : Begin("write", addr, off, data)

Go(p) == pc' = p /\ k' = 0

Return(r) == Go("idle") /\ ret' = r

\* The START of a transfer and the one before a read's second half.
Start ==
  /\ pc \in {"start", "restart"}
  /\ \E c \in Answers :
       /\ wire' = StartDone(wire, c)
       /\ Go(IF ~ High(Prepared(wire, c)) THEN "abort"
             ELSE IF pc = "start" THEN "address" ELSE "again")
  /\ UNCHANGED <<call, i, value, buff, ret, refused, restarts>>

\* A STOP after something failed; its own outcome is ignored.
Abort ==
  /\ pc = "abort"
  /\ \E c \in Answers : wire' = StopDone(wire, c)
  /\ Return("FAILED")
  /\ UNCHANGED <<call, i, value, buff, refused, restarts>>

Stop ==
  /\ pc = "stop"
  /\ \E c \in Answers :
       /\ wire' = StopDone(wire, c)
       /\ Return(IF StopOk(wire, c) THEN "OK" ELSE "FAILED")
  /\ UNCHANGED <<call, i, value, buff, refused, restarts>>

\* The byte that is sent.
Outgoing ==
  CASE pc = "address" -> Append(call.addr, 0)
    [] pc = "again" -> Append(call.addr, 1)
    [] pc = "high" -> call.off[1]
    [] pc = "low" -> call.off[2]
    [] pc = "data" -> call.data[i + 1]

Sending == pc \in {"address", "again", "high", "low", "data"} /\ ~ wire.hold

\* Mutant of SendBit: one bit too many.
SendBitTooMany ==
  /\ Sending /\ k <= BITS
  /\ \E c \in Answers : wire' = WRITE_BIT(wire, IF k < BITS THEN Outgoing[k + 1] ELSE 1, c)
  /\ k' = k + 1
  /\ UNCHANGED <<call, pc, i, value, buff, ret, refused, restarts>>

SendBit ==
  /\ Sending /\ k < BITS
  /\ \E c \in Answers : wire' = WRITE_BIT(wire, Outgoing[k + 1], c)
  /\ k' = k + 1
  /\ UNCHANGED <<call, pc, i, value, buff, ret, refused, restarts>>

\* The first half is over: read goes on with a second START, write with the data.
AfterOffset == IF call.op = "read" THEN "restart" ELSE IF LEN = 0 THEN "stop" ELSE "data"

\* Mutant of Acknowledged: one byte of the data fewer.
AcknowledgedEarly ==
  CASE pc = "address" -> Go(IF call.addr \in Wide THEN "high" ELSE "low") /\ UNCHANGED i
    [] pc = "high" -> Go("low") /\ UNCHANGED i
    [] pc = "low" -> Go(AfterOffset) /\ UNCHANGED i
    [] pc = "again" -> Go("receive") /\ UNCHANGED i
    [] pc = "data" -> i' = (i + 1) % WIDTH /\ Go(IF i' + 1 < LEN THEN "data" ELSE "stop")

\* Mutant of Acknowledged: the offset's bytes in the other order.
AcknowledgedSwapped ==
  CASE pc = "address" -> Go("low") /\ UNCHANGED i
    [] pc = "low" -> Go(IF call.addr \in Wide THEN "high" ELSE AfterOffset) /\ UNCHANGED i
    [] pc = "high" -> Go(AfterOffset) /\ UNCHANGED i
    [] pc = "again" -> Go("receive") /\ UNCHANGED i
    [] pc = "data" -> i' = (i + 1) % WIDTH /\ Go(IF i' < LEN THEN "data" ELSE "stop")

Acknowledged ==
  CASE pc = "address" -> Go(IF call.addr \in Wide THEN "high" ELSE "low") /\ UNCHANGED i
    [] pc = "high" -> Go("low") /\ UNCHANGED i
    [] pc = "low" -> Go(AfterOffset) /\ UNCHANGED i
    [] pc = "again" -> Go("receive") /\ UNCHANGED i
    [] pc = "data" -> i' = (i + 1) % WIDTH /\ Go(IF i' < LEN THEN "data" ELSE "stop")

\* The device's answer.  A refused offset ends with a STOP in send_offset_addr, and
\* the callers go on as if nothing had happened.
SendAck ==
  /\ Sending /\ k = BITS
  /\ \E c \in Answers :
       /\ wire' = READ_BIT(wire, c)
       /\ IF readBit(wire, c) = 0
          THEN Acknowledged /\ UNCHANGED refused
          ELSE /\ Go(IF pc \in {"high", "low"} THEN "refused" ELSE "abort")
               /\ refused' = (refused \/ pc \in {"high", "low"})
               /\ UNCHANGED i
  /\ UNCHANGED <<call, value, buff, ret, restarts>>

OffsetStop ==
  /\ pc = "refused"
  /\ \E c \in Answers : wire' = StopDone(wire, c)
  /\ Go(AfterOffset)
  /\ UNCHANGED <<call, i, value, buff, ret, refused, restarts>>

RecvBit ==
  /\ pc = "receive" /\ ~ wire.hold /\ k < BITS
  /\ \E c \in Answers :
       /\ wire' = READ_BIT(wire, c)
       /\ value' = Append(value, readBit(wire, c))
  /\ k' = k + 1
  /\ UNCHANGED <<call, pc, i, buff, ret, refused, restarts>>

\* Mutant of AnotherByte: the last byte is not left to the code after the loop.
AnotherByteToo == i < LEN

\* The loop of read goes on with a byte it will acknowledge.
AnotherByte == i < LEN - 1

RecvAck ==
  /\ pc = "receive" /\ ~ wire.hold /\ k = BITS
  /\ \E c \in Answers : wire' = WRITE_BIT(wire, IF AnotherByte THEN 0 ELSE 1, c)
  /\ buff' = [buff EXCEPT ![IF AnotherByte THEN i ELSE LEN - 1] = value]
  /\ value' = <<>>
  /\ IF AnotherByte THEN i' = (i + 1) % WIDTH /\ Go("receive")
                    ELSE Go("stop") /\ UNCHANGED i
  /\ UNCHANGED <<call, ret, refused, restarts>>

----------------------------------------------------------------------------
(* Start-up, the only place from which this build resets the bus.           *)

\* Clock until SDA is seen high once.
ResetClock ==
  /\ pc = "reset" /\ SDA(wire) = 0
  /\ \E c \in Answers : wire' = SetScl(SetScl(wire, 1, c), 0, c)
  /\ UNCHANGED <<call, pc, k, i, value, buff, ret, refused, restarts>>

ResetStop ==
  /\ pc = "reset" /\ SDA(wire) = 1
  /\ \E c \in Answers : wire' = StopDone(wire, c)
  /\ Go("init")
  /\ UNCHANGED <<call, i, value, buff, ret, refused, restarts>>

\* The rest of _i2c_master_imitate_init, whose result nobody looks at.
InitLines ==
  /\ pc = "init"
  /\ \E c \in Answers :
       wire' = SetSda(SetScl(SetSda(SetScl(wire, 0, c), 0), 1, c), 1)
  /\ Go("idle")
  /\ UNCHANGED <<call, i, value, buff, ret, refused, restarts>>

\* The board restarts, wherever it is: the port lets go of both lines, and start-up
\* initialises the bus.  The device notices only the edges.
Restart ==
  /\ restarts < MaxRestarts /\ restarts' = restarts + 1
  /\ \E c \in Answers :
       \/ wire' = SetScl(SetSda(wire, 1), 1, c)
       \/ wire' = SetSda(SetScl(wire, 1, c), 1)
  /\ Go("reset")
  /\ call' = NoCall /\ i' = 0 /\ value' = <<>> /\ buff' = Empty
  /\ ret' = "FAILED" /\ refused' = FALSE

----------------------------------------------------------------------------
Master ==
  \/ Start \/ Abort \/ Stop \/ SendBit \/ SendAck \/ OffsetStop \/ RecvBit \/ RecvAck
  \/ ResetClock \/ ResetStop \/ InitLines

Next == Calls \/ Master \/ Release \/ Restart

Spec == Init /\ [][Next]_vars

\* The master goes on, its callers call again, and the device does not hold the
\* clock for ever.
FairSpec == Spec /\ WF_vars(Master) /\ SF_vars(Calls) /\ WF_vars(Release)

----------------------------------------------------------------------------
(* Properties.                                                             *)

TypeOK ==
  /\ wire.scl \in {0, 1} /\ wire.sda \in {0, 1}
  /\ wire.hold \in BOOLEAN /\ wire.low \in BOOLEAN /\ wire.ack \in BOOLEAN
  /\ wire.st \in {"off", "address", "offset", "data", "send", "asked", "next"}
  /\ Len(wire.shift) <= BITS /\ Len(wire.part) < OffsetBytes /\ wire.n \in 0..WIDTH + 1
  /\ pc \in {"reset", "init", "idle", "start", "address", "high", "low", "refused",
             "restart", "again", "receive", "data", "stop", "abort"}
  /\ k \in 0..BITS /\ i \in 0..WIDTH - 1
  /\ Len(value) <= BITS /\ buff \in [0..WIDTH - 1 -> Byte \cup {NoByte}]
  /\ ret \in {"OK", "FAILED"} /\ refused \in BOOLEAN

\* What a write asks for: the bytes at the offset and those that follow it.
Asked ==
  LET off == IF call.addr \in Wide THEN call.off ELSE Tail(call.off)
  IN [j \in 1..LEN |-> <<off, j - 1, call.data[j]>>]

\* What a read should have got.
Got ==
  LET off == IF call.addr \in Wide THEN call.off ELSE Tail(call.off)
  IN [j \in 1..LEN |-> <<off, j - 1, buff[j - 1]>>]

Returned(r) == pc = "idle" /\ call # NoCall /\ ret = r

\* A write that reports success has written every byte, and a read has got the
\* device's bytes, at the offset the caller asked for (i2c_master.c:387-388, 440-441,
\* 504-505), except a read whose offset the device refused: it goes on from elsewhere.
OkMeansDone ==
  Returned("OK") =>
    IF call.op = "write" THEN wire.wrote = Asked ELSE refused \/ wire.served = Got

\* Whatever the device refuses, it is never made to write anything but what the call
\* asks for, in order: bits that follow a STOP are not taken for an address and data
\* (i2c_master.c:358-379, 562-572).  Not so if it stretches the clock within a byte.
OnlyAsAsked ==
  call # NoCall =>
    IF call.op = "write" THEN IsPrefix(wire.wrote, Asked) ELSE wire.wrote = <<>>

\* After a call that reports success the bus is free (i2c_master.c:118-120).
OkMeansFree == Returned("OK") => High(wire) /\ wire.st = "off"

\* Every call returns (i2c_master.c:237, 301, 479).
CallReturns == pc # "idle" ~> pc = "idle"

\* A device left in the middle of a transfer, by a call that failed or by a restart
\* of the board, does not lock the bus: again and again a call gets as far as sending
\* its address (i2c_master.c:39-49, 66).
BusRecovers == []<>(pc = "address")

=============================================================================
