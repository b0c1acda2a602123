--------------------------- MODULE I2cMasterProofs ---------------------------
(***************************************************************************)
(* The bit-banged master, for every width of a byte and of its counters.   *)
(***************************************************************************)
EXTENDS I2cMaster, TLAPS, SequenceTheorems

Bit == {0, 1}
States == {"off", "address", "offset", "data", "send", "asked", "next"}
Listening == {"address", "offset", "data"}
Traces == Seq(Seq(Seq(Bit)) \X Nat \X Seq(Bit))

\* The lines and the device.
Wires ==
  [scl : Bit, sda : Bit, hold : BOOLEAN, low : BOOLEAN, st : States, ack : BOOLEAN,
   shift : Seq(Bit), part : Seq(Seq(Bit)), off : Seq(Seq(Bit)), n : 0..WIDTH + 1,
   wrote : Traces, served : Traces]

\* A byte is taken at the end of its last clock, and its acknowledgement begins empty.
Formed(w) ==
  /\ w \in Wires
  /\ Len(w.shift) <= BITS /\ Len(w.part) < OffsetBytes
  /\ w.ack => w.shift = <<>> /\ w.st \in {"offset", "data", "send"}

Room(w) == w.st \in Listening /\ ~ w.ack => Len(w.shift) < BITS

Shaped(w) == Formed(w) /\ (SCL(w) = 0 => Room(w))

Chosen == [ack : BOOLEAN, byte : Held, hold : BOOLEAN]

LEMMA ByteIsSequence ==
  ASSUME NEW b \in Byte
  PROVE  b \in Seq(Bit) /\ Len(b) = BITS /\ Tail(b) \in Seq(Bit) /\ Len(Tail(b)) = BITS - 1
         /\ b[1] \in Bit
<1>1. BITS \in Nat /\ BITS > 1
  BY MasterAssumption
<1>2. b \in Seq(Bit)
  BY <1>1 DEF Byte, Bit
<1>3. Len(b) = BITS
  BY <1>1, <1>2 DEF Byte
<1>4. QED
  BY <1>1, <1>2, <1>3 DEF Byte, Bit

LEMMA OffsetBytesAre == OffsetBytes \in {1, 2}
  BY DEF OffsetBytes

LEMMA EmptyBits == <<>> \in Seq(Bit) /\ <<>> \in Seq(Seq(Bit)) /\ <<>> \in Traces
  BY DEF Traces

LEMMA SdaShaped ==
  ASSUME NEW w, Shaped(w), NEW v \in Bit
  PROVE  Shaped(SetSda(w, v)) /\ SetSda(w, v).sda = v /\ SetSda(w, v).scl = w.scl
<1> DEFINE n == [w EXCEPT !.sda = v]
<1>1. Shaped(n) /\ n.sda = v /\ n.scl = w.scl
  BY DEF Shaped, Formed, Room, Wires, SCL
<1>2. Shaped(Started(n)) /\ Started(n).sda = v /\ Started(n).scl = w.scl
  <2>1. Started(n) \in Wires
    BY <1>1, EmptyBits DEF Started, Shaped, Formed, Wires, States
  <2>2. QED
    BY <1>1, <2>1, MasterAssumption DEF Started, Shaped, Formed, Room, Wires, SCL
<1>3. Shaped(Stopped(n)) /\ Stopped(n).sda = v /\ Stopped(n).scl = w.scl
  <2>1. Stopped(n) \in Wires
    BY <1>1, EmptyBits DEF Stopped, Shaped, Formed, Wires, States
  <2>2. QED
    BY <1>1, <2>1, MasterAssumption DEF Stopped, Shaped, Formed, Room, Wires, SCL, Listening
<1>4. QED
  BY <1>1, <1>2, <1>3 DEF SetSda

\* What was written or served, as far as it is remembered.
LEMMA Beginning ==
  ASSUME NEW S, NEW u \in Seq(S), NEW m \in Nat, Len(u) > m
  PROVE  SubSeq(u, 1, m + 1) \in Seq(S)
<1>1. \A j \in 1 .. m + 1 : u[j] \in S
  <2>1. Len(u) \in Nat /\ \A j \in 1 .. m + 1 : j \in 1 .. Len(u)
    OBVIOUS
  <2>2. \A j \in 1 .. Len(u) : u[j] \in S
    OBVIOUS
  <2>3. QED
    BY <2>1, <2>2
<1>2. QED
  BY <1>1, SubSeqProperties

LEMMA TraceGrows ==
  ASSUME NEW t \in Traces, NEW off \in Seq(Seq(Bit)), NEW n \in Nat, NEW byte \in Seq(Bit)
  PROVE  AtMost(Append(t, <<off, n, byte>>)) \in Traces
<1>1. WIDTH \in Nat
  BY MasterAssumption
<1>2. Append(t, <<off, n, byte>>) \in Traces
  BY DEF Traces
<1>3. \A u \in Traces : Len(u) > WIDTH => SubSeq(u, 1, WIDTH + 1) \in Traces
  BY <1>1, Beginning DEF Traces
<1>4. QED
  BY <1>2, <1>3 DEF AtMost

LEMMA FurtherIs ==
  ASSUME NEW n \in 0..WIDTH + 1
  PROVE  Further(n) \in 0..WIDTH + 1
BY MasterAssumption DEF Further

LEMMA LoadFormed ==
  ASSUME NEW w, Formed(w), NEW b \in Held
  PROVE  /\ Formed(Load(w, b)) /\ Room(Load(w, b))
         /\ Load(w, b).scl = w.scl /\ Load(w, b).sda = w.sda
<1>1. b \in Seq(Bit) /\ Tail(b) \in Seq(Bit) /\ Len(Tail(b)) = BITS - 1 /\ BITS \in Nat
  BY ByteIsSequence, MasterAssumption
<1>2. AtMost(Append(w.served, <<w.off, w.n, b>>)) \in Traces
  BY <1>1, TraceGrows, MasterAssumption DEF Formed, Wires
<1>3. Further(w.n) \in 0..WIDTH + 1
  BY FurtherIs DEF Formed, Wires
<1>4. Load(w, b) \in Wires
  BY <1>1, <1>2, <1>3 DEF Load, Formed, Wires, States
<1>5. QED
  BY <1>1, <1>4 DEF Load, Formed, Room, Wires, Listening

LEMMA TakenFormed ==
  ASSUME NEW w, Formed(w), w.st \in Listening
  PROVE  /\ Formed(Taken(w)) /\ Room(Taken(w)) /\ Taken(w).scl = w.scl /\ Taken(w).sda = w.sda
<1> DEFINE part == Append(w.part, w.shift)
<1>1. Len(w.part) \in Nat /\ BITS \in Nat /\ BITS > 1 /\ OffsetBytes \in {1, 2} /\ w \in Wires
  BY MasterAssumption, OffsetBytesAre DEF Formed, Wires
<1>2. part \in Seq(Seq(Bit)) /\ Len(part) = Len(w.part) + 1
  BY DEF Formed, Wires
<1>3. CASE w.st = "address"
  <2>1. PICK st \in {"send", "offset"} : st = IF Last(w.shift) = 1 THEN "send" ELSE "offset"
    OBVIOUS
  <2> DEFINE r == [w EXCEPT !.ack = TRUE, !.low = TRUE, !.shift = <<>>, !.st = st,
                            !.part = <<>>, !.served = <<>>]
  <2>2. r \in Wires
    BY <1>1, EmptyBits DEF Wires, States
  <2>3. Taken(w) = r
    BY <1>1, <1>3, <2>1 DEF Taken, Wires
  <2>4. QED
    BY <1>1, <2>2, <2>3, EmptyBits DEF Formed, Room, Wires
<1>4. CASE w.st = "offset" /\ Len(part) = OffsetBytes
  <2> DEFINE r == [w EXCEPT !.ack = TRUE, !.low = TRUE, !.shift = <<>>, !.st = "data",
                            !.off = part, !.n = 0, !.part = <<>>]
  <2>1. 0 \in 0..WIDTH + 1
    BY MasterAssumption
  <2>2. r \in Wires
    BY <1>1, <1>2, <2>1, EmptyBits DEF Wires, States
  <2>3. Taken(w) = r
    BY <1>1, <1>4 DEF Taken, Wires
  <2>4. QED
    BY <1>1, <2>2, <2>3, EmptyBits DEF Formed, Room, Wires
<1>5. CASE w.st = "offset" /\ Len(part) # OffsetBytes
  <2> DEFINE r == [w EXCEPT !.ack = TRUE, !.low = TRUE, !.shift = <<>>, !.part = part]
  <2>1. r \in Wires
    BY <1>1, <1>2, EmptyBits DEF Wires
  <2>2. Taken(w) = r
    BY <1>1, <1>5 DEF Taken, Wires
  <2>3. Len(part) < OffsetBytes
    BY <1>1, <1>2, <1>5 DEF Formed
  <2>4. QED
    BY <1>1, <1>5, <2>1, <2>2, <2>3, EmptyBits DEF Formed, Room, Wires
<1>6. CASE w.st = "data"
  <2>1. PICK t \in Traces : t = AtMost(Append(w.wrote, <<w.off, w.n, w.shift>>))
    BY TraceGrows, MasterAssumption DEF Formed, Wires
  <2>2. PICK n \in 0..WIDTH + 1 : n = Further(w.n)
    BY FurtherIs DEF Formed, Wires
  <2> DEFINE r == [w EXCEPT !.ack = TRUE, !.low = TRUE, !.shift = <<>>, !.wrote = t, !.n = n]
  <2>3. r \in Wires
    BY <1>1, <2>1, <2>2, EmptyBits DEF Wires
  <2>4. Taken(w) = r
    BY <1>1, <1>6, <2>1, <2>2 DEF Taken, Wires
  <2>5. QED
    BY <1>1, <1>6, <2>3, <2>4, EmptyBits DEF Formed, Room, Wires
<1>7. QED
  BY <1>3, <1>4, <1>5, <1>6 DEF Listening

\* A rising edge; w has it already.
LEMMA RisenFormed ==
  ASSUME NEW w, Formed(w), Room(w)
  PROVE  Formed(Risen(w)) /\ Risen(w).scl = w.scl /\ Risen(w).hold = w.hold
<1>1. BITS \in Nat /\ SDA(w) \in Bit
  BY MasterAssumption DEF Formed, Wires, SDA, Bit
<1>2. CASE w.st \in Listening /\ ~ w.ack
  <2> DEFINE s == Append(w.shift, SDA(w))
             r == [w EXCEPT !.shift = s]
  <2>1. s \in Seq(Bit) /\ Len(s) = Len(w.shift) + 1 /\ Len(w.shift) \in Nat
    BY <1>1 DEF Formed, Wires
  <2>2. r \in Wires
    BY <2>1 DEF Formed, Wires
  <2>3. Risen(w) = r
    BY <1>2 DEF Risen, Listening
  <2>4. QED
    BY <1>1, <1>2, <2>1, <2>2, <2>3 DEF Formed, Room, Wires
<1>3. CASE ~ (w.st \in Listening /\ ~ w.ack) /\ w.st = "asked"
  BY <1>1, <1>3 DEF Risen, Formed, Wires, Listening, States
<1>4. CASE ~ (w.st \in Listening /\ ~ w.ack) /\ w.st # "asked"
  <2>1. Risen(w) = w
    BY <1>4 DEF Risen, Listening
  <2>2. QED
    BY <1>1, <2>1 DEF Formed
<1>5. QED
  BY <1>2, <1>3, <1>4

\* A falling edge; w has it already.
LEMMA FallenFormed ==
  ASSUME NEW w, Formed(w), NEW c \in Chosen
  PROVE  Formed(Fallen(w, c)) /\ Room(Fallen(w, c)) /\ Fallen(w, c).scl = w.scl
<1> DEFINE full == w.st \in {"address", "offset", "data"} /\ Len(w.shift) = BITS
           accepts == c.ack /\ (w.st = "address" => Front(w.shift) = Dev)
           q == CASE w.ack -> IF w.st = "send" THEN Load(w, c.byte)
                              ELSE [w EXCEPT !.ack = FALSE, !.low = FALSE]
                  [] ~ w.ack /\ full -> IF accepts THEN Taken(w) ELSE Stopped(w)
                  [] ~ w.ack /\ w.st = "send" ->
                       IF w.shift = <<>> THEN [w EXCEPT !.st = "asked", !.low = FALSE]
                       ELSE [w EXCEPT !.low = (Head(w.shift) = 0), !.shift = Tail(@)]
                  [] w.st = "next" -> Load(w, c.byte)
                  [] OTHER -> w
           place == IF full \/ w.ack THEN "byte" ELSE "bit"
<1>1. BITS \in Nat /\ BITS > 1 /\ c.byte \in Held /\ Len(w.shift) \in Nat /\ w \in Wires
  BY MasterAssumption DEF Formed, Wires, Chosen
<1>2. Formed(q) /\ Room(q) /\ q.scl = w.scl
  <2>1. CASE w.ack /\ w.st = "send"
    BY <1>1, <2>1, LoadFormed
  <2>2. CASE w.ack /\ w.st # "send"
    <3>1. q = [w EXCEPT !.ack = FALSE, !.low = FALSE]
      BY <2>2 DEF Formed
    <3> DEFINE r == [w EXCEPT !.ack = FALSE, !.low = FALSE]
    <3>2. w.shift = <<>> /\ r \in Wires
      BY <1>1, <2>2 DEF Formed, Wires
    <3>3. Formed(r) /\ Room(r) /\ r.scl = w.scl
      BY <1>1, <3>2, EmptyBits DEF Formed, Room, Wires
    <3>4. QED
      BY <3>1, <3>3
  <2>3. CASE ~ w.ack /\ full /\ accepts
    BY <1>1, <2>3, TakenFormed DEF Listening
  <2>4. CASE ~ w.ack /\ full /\ ~ accepts
    <3>1. Stopped(w) \in Wires
      BY <1>1, EmptyBits DEF Stopped, Wires, States
    <3>2. q = Stopped(w)
      BY <2>4
    <3>3. Formed(Stopped(w)) /\ Room(Stopped(w)) /\ Stopped(w).scl = w.scl
      BY <1>1, <3>1, EmptyBits DEF Stopped, Formed, Room, Wires, Listening
    <3>4. QED
      BY <3>2, <3>3
  <2>5. CASE ~ w.ack /\ w.st = "send" /\ w.shift = <<>>
    <3> DEFINE r == [w EXCEPT !.st = "asked", !.low = FALSE]
    <3>1. r \in Wires
      BY <1>1 DEF Wires, States
    <3>2. q = r
      BY <2>5
    <3>3. Formed(r) /\ Room(r) /\ r.scl = w.scl
      BY <1>1, <2>5, <3>1, EmptyBits DEF Formed, Room, Wires, Listening
    <3>4. QED
      BY <3>2, <3>3
  <2>6. CASE ~ w.ack /\ w.st = "send" /\ w.shift # <<>>
    <3>1. Tail(w.shift) \in Seq(Bit) /\ Len(Tail(w.shift)) < BITS
      BY <1>1, <2>6 DEF Formed, Wires
    <3>2. PICK t \in Seq(Bit) : t = Tail(w.shift)
      BY <3>1
    <3>3. PICK low \in BOOLEAN : low = (Head(w.shift) = 0)
      OBVIOUS
    <3> DEFINE r == [w EXCEPT !.low = low, !.shift = t]
    <3>4. r \in Wires
      BY <1>1, <3>2, <3>3 DEF Wires
    <3>5. q = r
      BY <1>1, <2>6, <3>2, <3>3 DEF Wires
    <3>6. Formed(r) /\ Room(r) /\ r.scl = w.scl
      BY <1>1, <2>6, <3>1, <3>2, <3>4 DEF Formed, Room, Wires, Listening
    <3>7. QED
      BY <3>5, <3>6
  <2>7. CASE ~ w.ack /\ ~ full /\ w.st = "next"
    BY <1>1, <2>7, LoadFormed
  <2>8. CASE ~ w.ack /\ ~ full /\ w.st \notin {"send", "next"}
    <3>1. q = w
      BY <2>8
    <3>2. QED
      BY <1>1, <2>8, <3>1 DEF Formed, Room, Listening
  <2>9. QED
    BY <2>1, <2>2, <2>3, <2>4, <2>5, <2>6, <2>7, <2>8
<1> HIDE DEF q, place
<1>3. PICK h \in BOOLEAN : h = (c.hold /\ q.st # "off" /\ place \in Stretches)
  BY DEF Chosen
<1>4. Fallen(w, c) = [q EXCEPT !.hold = h]
  BY <1>3 DEF Fallen, q, place
<1>5. QED
  BY <1>2, <1>3, <1>4 DEF Formed, Room, Wires

LEMMA SclShaped ==
  ASSUME NEW w, Shaped(w), NEW v \in Bit, NEW c \in Chosen
  PROVE  Shaped(SetScl(w, v, c)) /\ SetScl(w, v, c).scl = v
<1> DEFINE n == [w EXCEPT !.scl = v]
<1>1. Formed(n) /\ n.scl = v /\ n.hold = w.hold /\ (Room(w) => Room(n)) /\ n.st = w.st
  BY DEF Shaped, Formed, Room, Wires, Bit
<1>2. CASE w.scl = v \/ w.hold
  <2>1. SetScl(w, v, c) = n
    BY <1>2 DEF SetScl
  <2>2. SCL(n) = 0 => SCL(w) = 0
    BY <1>1, <1>2 DEF SCL
  <2>3. Shaped(n)
    BY <1>1, <2>2 DEF Shaped
  <2> HIDE DEF n
  <2>4. QED
    BY <1>1, <2>1, <2>3
<1>3. CASE w.scl # v /\ ~ w.hold /\ v = 1
  <2>1. SCL(w) = 0
    BY <1>3 DEF Shaped, Formed, Wires, SCL, Bit
  <2>2. Formed(Risen(n)) /\ Risen(n).scl = 1 /\ Risen(n).hold = FALSE
    BY <1>1, <1>3, <2>1, RisenFormed DEF Shaped, Formed, Wires
  <2>3. QED
    BY <1>3, <2>2 DEF SetScl, Shaped, SCL
<1>4. CASE w.scl # v /\ ~ w.hold /\ v = 0
  <2>1. Formed(Fallen(n, c)) /\ Room(Fallen(n, c)) /\ Fallen(n, c).scl = v
    BY <1>1, FallenFormed
  <2>2. SetScl(w, v, c) = Fallen(n, c)
    BY <1>4 DEF SetScl
  <2> HIDE DEF n
  <2>3. QED
    BY <2>1, <2>2 DEF Shaped
<1>5. QED
  BY <1>2, <1>3, <1>4 DEF Bit

\* The device lets go of SCL.
LEMMA ReleaseShaped ==
  ASSUME Shaped(wire), Release
  PROVE  Shaped(wire')
<1> DEFINE n == [wire EXCEPT !.hold = FALSE]
<1>1. Formed(n) /\ Room(n) /\ n.scl = wire.scl /\ n.hold = FALSE
  BY DEF Release, Shaped, SCL, Formed, Room, Wires
<1>2. wire' = IF n.scl = 1 THEN Risen(n) ELSE n
  BY DEF Release
<1>3. Formed(Risen(n)) /\ Risen(n).scl = n.scl /\ Risen(n).hold = FALSE
  BY <1>1, RisenFormed
<1>4. n.scl \in Bit
  BY <1>1 DEF Formed, Wires
<1> HIDE DEF n
<1>5. QED
  BY <1>1, <1>2, <1>3, <1>4 DEF Shaped, SCL, Bit

LEMMA Levels ==
  ASSUME NEW w, Shaped(w)
  PROVE  SCL(w) \in Bit /\ SDA(w) \in Bit
BY DEF Shaped, Formed, Wires, SCL, SDA, Bit

\* START, STOP and bits leave a wire.
LEMMA PreparedShaped ==
  ASSUME NEW w, Shaped(w), NEW c \in Chosen
  PROVE  Shaped(Prepared(w, c)) /\ Shaped(StartDone(w, c))
<1>1. 0 \in Bit /\ 1 \in Bit
  BY DEF Bit
<1>2. Shaped(Prepared(w, c))
  BY <1>1, SdaShaped, SclShaped DEF Prepared
<1>3. Shaped(SetScl(SetSda(Prepared(w, c), 0), 0, c))
  BY <1>1, <1>2, SdaShaped, SclShaped
<1>4. QED
  BY <1>2, <1>3 DEF StartDone

LEMMA LoweredShaped ==
  ASSUME NEW w, Shaped(w), NEW c \in Chosen
  PROVE  Shaped(Lowered(w, c)) /\ Shaped(StopDone(w, c))
<1>1. 0 \in Bit /\ 1 \in Bit
  BY DEF Bit
<1>2. Shaped(Lowered(w, c))
  BY <1>1, SdaShaped, SclShaped DEF Lowered
<1>3. Shaped(SetSda(Lowered(w, c), 1))
  BY <1>1, <1>2, SdaShaped
<1>4. QED
  BY <1>2, <1>3 DEF StopDone

LEMMA BitShaped ==
  ASSUME NEW w, Shaped(w), NEW v \in Bit, NEW c \in Chosen
  PROVE  Shaped(WRITE_BIT(w, v, c)) /\ Shaped(READ_BIT(w, c)) /\ readBit(w, c) \in Bit
<1>1. 0 \in Bit /\ 1 \in Bit
  BY DEF Bit
<1>2. \A u \in Bit : Shaped(Up(w, u, c)) /\ Shaped(WRITE_BIT(w, u, c))
  BY <1>1, SdaShaped, SclShaped DEF Up, WRITE_BIT
<1>3. QED
  BY <1>1, <1>2, Levels DEF READ_BIT, readBit

----------------------------------------------------------------------------
(* Types.                                                                  *)

Requests ==
  [op : {"read"}, addr : Address, off : Byte \X Byte, data : Seq({NoByte})]
  \cup [op : {"write"}, addr : Address, off : Byte \X Byte, data : Seq(Byte)]

\* The transfer of a call, and where its operation has led it.
InCall == pc \notin {"reset", "init", "idle"}

Called ==
  /\ InCall => call \in Requests /\ (call.op = "write" => LEN < WIDTH)
  /\ pc \in {"start", "address", "high", "low", "refused", "restart", "again"} => i = 0
  /\ pc \in {"restart", "again", "receive"} => call.op = "read"
  /\ pc = "data" => call.op = "write" /\ i < LEN

Typed ==
  /\ pc \in {"reset", "init", "idle", "start", "address", "high", "low", "refused",
             "restart", "again", "receive", "data", "stop", "abort"}
  /\ k \in 0..BITS /\ i \in 0..WIDTH - 1
  /\ value \in Seq(Bit) /\ Len(value) = IF pc = "receive" THEN k ELSE 0
  /\ buff \in [0..WIDTH - 1 -> Byte \cup {NoByte}]
  /\ ret \in {"OK", "FAILED"} /\ refused \in BOOLEAN

MasterInv == Shaped(wire) /\ Called /\ Typed

LEMMA RequestIs ==
  ASSUME call \in Requests
  PROVE  /\ call.addr \in Address /\ call.off \in Byte \X Byte /\ LEN \in Nat
         /\ call.op \in {"read", "write"} /\ (call.op = "write" => call.data \in Seq(Byte))
<1>1. CASE call \in [op : {"read"}, addr : Address, off : Byte \X Byte, data : Seq({NoByte})]
  BY <1>1 DEF LEN
<1>2. CASE call \in [op : {"write"}, addr : Address, off : Byte \X Byte, data : Seq(Byte)]
  BY <1>2 DEF LEN
<1>3. QED
  BY <1>1, <1>2 DEF Requests

LEMMA ByteFromBits ==
  ASSUME NEW b \in Seq(Bit), Len(b) = BITS
  PROVE  b \in Byte
BY MasterAssumption DEF Byte, Bit

\* The byte that is sent.
LEMMA OutgoingIs ==
  ASSUME Called, Typed, Sending
  PROVE  Outgoing \in Byte
<1>1. call.addr \in Address /\ call.off \in Byte \X Byte
  BY RequestIs DEF Called, Sending, InCall
<1>2. \A a \in Address, b \in Bit : Append(a, b) \in Byte
  <2>1. SUFFICES ASSUME NEW a \in Address, NEW b \in Bit PROVE Append(a, b) \in Byte
    OBVIOUS
  <2>2. BITS \in Nat /\ BITS > 1
    BY MasterAssumption
  <2>3. a \in Seq(Bit) /\ Len(a) = BITS - 1
    BY <2>2 DEF Address, Bit
  <2>4. Append(a, b) \in Seq(Bit) /\ Len(Append(a, b)) = BITS
    BY <2>2, <2>3
  <2>5. QED
    BY <2>4, ByteFromBits
<1>3. CASE pc \in {"address", "again"}
  BY <1>1, <1>2, <1>3 DEF Outgoing, Bit
<1>4. CASE pc \in {"high", "low"}
  BY <1>1, <1>4 DEF Outgoing
<1>5. CASE pc = "data"
  <2>1. call.data \in Seq(Byte) /\ LEN \in Nat /\ i + 1 \in 1 .. LEN
    BY <1>5, RequestIs, MasterAssumption DEF Called, Typed, InCall
  <2>2. QED
    BY <1>5, <2>1 DEF Outgoing, LEN
<1>6. QED
  BY <1>3, <1>4, <1>5 DEF Sending

LEMMA AnswersAre == \A c \in Answers : c \in Chosen
  BY DEF Answers, Chosen

----------------------------------------------------------------------------
\* The wire under every step.
LEMMA WireNext ==
  ASSUME MasterInv, [Next]_vars
  PROVE  Shaped(wire')
<1>1. Shaped(wire) /\ Called /\ Typed /\ 0 \in Bit /\ 1 \in Bit
  BY DEF MasterInv, Bit
<1>2. CASE Calls
  <2>1. wire' = [wire EXCEPT !.wrote = <<>>]
    BY <1>2 DEF Calls, Begin
  <2>2. QED
    BY <1>1, <2>1, EmptyBits DEF Shaped, Formed, Room, Wires, SCL
<1>3. CASE Release
  BY <1>1, <1>3, ReleaseShaped
<1>4. CASE Start \/ Abort \/ Stop \/ OffsetStop \/ ResetStop
  <2>1. PICK c \in Chosen : wire' = StartDone(wire, c) \/ wire' = StopDone(wire, c)
    BY <1>4, AnswersAre DEF Start, Abort, Stop, OffsetStop, ResetStop
  <2>2. QED
    BY <1>1, <2>1, PreparedShaped, LoweredShaped
<1>5. CASE SendBit
  <2>1. Outgoing \in Byte /\ k + 1 \in 1..BITS
    BY <1>1, <1>5, OutgoingIs, MasterAssumption DEF SendBit, Typed
  <2>2. Outgoing[k + 1] \in Bit
    BY <2>1 DEF Byte, Bit
  <2>3. QED
    BY <1>1, <1>5, <2>2, BitShaped, AnswersAre DEF SendBit
<1>6. CASE SendAck \/ RecvBit \/ RecvAck
  <2>1. PICK c \in Chosen, v \in Bit : wire' = READ_BIT(wire, c) \/ wire' = WRITE_BIT(wire, v, c)
    BY <1>1, <1>6, AnswersAre DEF SendAck, RecvBit, RecvAck
  <2>2. QED
    BY <1>1, <2>1, BitShaped
<1>7. CASE ResetClock
  BY <1>1, <1>7, SclShaped, AnswersAre DEF ResetClock
<1>8. CASE InitLines
  <2>1. PICK c \in Chosen : wire' = SetSda(SetScl(SetSda(SetScl(wire, 0, c), 0), 1, c), 1)
    BY <1>8, AnswersAre DEF InitLines
  <2>2. Shaped(SetSda(SetScl(wire, 0, c), 0))
    BY <1>1, SclShaped, SdaShaped
  <2>3. QED
    BY <1>1, <2>1, <2>2, SclShaped, SdaShaped
<1>9. CASE Restart
  <2>1. PICK c \in Chosen : \/ wire' = SetScl(SetSda(wire, 1), 1, c)
                            \/ wire' = SetSda(SetScl(wire, 1, c), 1)
    BY <1>9, AnswersAre DEF Restart
  <2>2. QED
    BY <1>1, <2>1, SclShaped, SdaShaped
<1>10. CASE UNCHANGED vars
  BY <1>1, <1>10 DEF vars
<1>11. QED
  BY <1>2, <1>3, <1>4, <1>5, <1>6, <1>7, <1>8, <1>9, <1>10 DEF Next, Master

\* Where a byte that is acknowledged leads.
LEMMA AfterOffsetIs ==
  ASSUME Called, Typed, InCall, i = 0
  PROVE  /\ AfterOffset \in {"restart", "stop", "data"}
         /\ AfterOffset = "restart" => call.op = "read"
         /\ AfterOffset = "data" => call.op = "write" /\ i < LEN
<1>1. call.op \in {"read", "write"} /\ LEN \in Nat
  BY RequestIs DEF Called
<1>2. QED
  BY <1>1 DEF AfterOffset

LEMMA CalledNext ==
  ASSUME MasterInv, [Next]_vars
  PROVE  Called' /\ Typed'
<1>1. Called /\ Typed /\ BITS \in Nat /\ BITS > 1 /\ WIDTH \in Nat /\ WIDTH > 0
  BY MasterAssumption DEF MasterInv
<1>2. CASE Calls
  <2>1. PICK addr \in Addrs, off \in Offsets :
          \/ \E n \in Reads : Begin("read", addr, off, [j \in 1..n |-> NoByte])
          \/ \E n \in Writes : \E data \in [1..n -> Sent] : Begin("write", addr, off, data)
    BY <1>2 DEF Calls
  <2>2. addr \in Address /\ off \in Byte \X Byte
    BY <2>1, MasterAssumption
  <2>3. pc' = "start" /\ k' = 0 /\ i' = 0 /\ value' = <<>> /\ buff' = Empty /\ ret' = "FAILED"
        /\ refused' = FALSE
    BY <2>1 DEF Begin
  <2>4. Typed'
    BY <1>1, <2>3, EmptyBits DEF Typed, Empty
  <2>5. call' \in Requests /\ (call'.op = "write" => Len(call'.data) < WIDTH)
    <3>1. ASSUME NEW n \in Reads, Begin("read", addr, off, [j \in 1..n |-> NoByte])
          PROVE  call' \in Requests /\ call'.op = "read"
      <4>1. n \in Nat
        BY MasterAssumption
      <4>2. [j \in 1..n |-> NoByte] \in Seq({NoByte})
        BY <4>1
      <4>3. QED
        BY <2>2, <3>1, <4>2 DEF Begin, Requests
    <3>2. ASSUME NEW n \in Writes, NEW data \in [1..n -> Sent], Begin("write", addr, off, data)
          PROVE  call' \in Requests /\ Len(call'.data) < WIDTH
      <4>1. n \in Nat /\ n < WIDTH /\ Sent \subseteq Byte
        BY MasterAssumption
      <4>2. data \in Seq(Byte) /\ Len(data) = n
        BY <4>1
      <4>3. QED
        BY <2>2, <3>2, <4>1, <4>2 DEF Begin, Requests
    <3>3. QED
      BY <2>1, <3>1, <3>2
  <2>6. QED
    BY <2>3, <2>4, <2>5 DEF Called, LEN
<1>3. CASE Release \/ ResetClock \/ UNCHANGED vars
  <2>1. UNCHANGED <<call, pc, k, i, value, buff, ret, refused>>
    BY <1>3 DEF Release, ResetClock, vars
  <2>2. QED
    BY <1>1, <2>1 DEF Called, Typed, InCall, LEN
<1>4. CASE Start
  <2>1. /\ pc \in {"start", "restart"} /\ pc' \in {"abort", "address", "again"} /\ k' = 0
        /\ pc = "start" => pc' # "again"
        /\ UNCHANGED <<call, i, value, buff, ret, refused>>
    BY <1>4 DEF Start, Go
  <2>2. QED
    BY <1>1, <2>1 DEF Called, Typed, InCall, LEN
<1>5. CASE Abort \/ Stop \/ ResetStop \/ InitLines
  <2>1. /\ pc' \in {"idle", "init"} /\ k' = 0 /\ ret' \in {ret, "OK", "FAILED"}
        /\ pc # "receive" /\ UNCHANGED <<call, i, value, buff, refused>>
    BY <1>5 DEF Abort, Stop, ResetStop, InitLines, Return, Go
  <2>2. QED
    BY <1>1, <2>1 DEF Called, Typed, InCall, LEN
<1>6. CASE SendBit
  <2>1. k' = k + 1 /\ k < BITS /\ pc # "receive" /\ UNCHANGED <<call, pc, i, value, buff, ret, refused>>
    BY <1>6 DEF SendBit, Sending
  <2>2. QED
    BY <1>1, <2>1 DEF Called, Typed, InCall, LEN
<1>7. CASE SendAck
  <2>1. pc \in {"address", "again", "high", "low", "data"} /\ UNCHANGED <<call, value, buff, ret>>
        /\ refused' \in BOOLEAN /\ k' = 0
    BY <1>1, <1>7 DEF SendAck, Sending, Acknowledged, Go, Typed
  <2>2. LEN \in Nat
    BY <1>1, <2>1, RequestIs DEF Called, InCall
  <2>3. CASE UNCHANGED i /\ pc' \in {"refused", "abort"} /\ (pc' = "refused" => i = 0)
    BY <1>1, <2>1, <2>3, EmptyBits DEF Called, Typed, InCall, LEN
  <2>4. CASE Acknowledged /\ pc # "data"
    <3>1. UNCHANGED i /\ i = 0
      BY <1>1, <2>1, <2>4 DEF Acknowledged, Called
    <3>2. \/ pc' \in {"high", "low"}
          \/ pc' = AfterOffset
          \/ pc = "again" /\ pc' = "receive"
      BY <2>1, <2>4 DEF Acknowledged, Go
    <3>3. pc' \in {"high", "low", "restart", "stop", "data", "receive"}
          /\ (pc' \in {"restart", "receive"} => call.op = "read")
          /\ (pc' = "data" => call.op = "write" /\ i < LEN)
      BY <1>1, <2>1, <3>1, <3>2, AfterOffsetIs DEF Called, InCall
    <3>4. QED
      BY <1>1, <2>1, <3>1, <3>3 DEF Called, Typed, InCall, LEN
  <2>5. CASE Acknowledged /\ pc = "data"
    <3>1. i' = (i + 1) % WIDTH /\ pc' = IF i' < LEN THEN "data" ELSE "stop"
      BY <2>5 DEF Acknowledged, Go
    <3>2. i' \in 0..WIDTH - 1
      BY <1>1, <3>1 DEF Typed
    <3>3. QED
      BY <1>1, <2>1, <2>5, <3>1, <3>2 DEF Called, Typed, InCall, LEN
  <2>6. QED
    BY <1>1, <1>7, <2>1, <2>3, <2>4, <2>5 DEF SendAck, Go, Called
<1>8. CASE OffsetStop
  <2>1. pc = "refused" /\ pc' = AfterOffset /\ k' = 0 /\ i = 0
        /\ UNCHANGED <<call, i, value, buff, ret, refused>>
    BY <1>1, <1>8 DEF OffsetStop, Go, Called
  <2>2. pc' \in {"restart", "stop", "data"} /\ (pc' = "restart" => call.op = "read")
        /\ (pc' = "data" => call.op = "write" /\ i < LEN)
    BY <1>1, <2>1, AfterOffsetIs DEF InCall
  <2>3. QED
    BY <1>1, <2>1, <2>2 DEF Called, Typed, InCall, LEN
<1>9. CASE RecvBit
  <2>1. PICK c \in Chosen : value' = Append(value, readBit(wire, c))
    BY <1>9, AnswersAre DEF RecvBit
  <2>2. value' \in Seq(Bit) /\ Len(value') = Len(value) + 1
    BY <1>1, <2>1, BitShaped DEF Typed, MasterInv
  <2>3. pc = "receive" /\ k' = k + 1 /\ k < BITS /\ UNCHANGED <<call, pc, i, buff, ret, refused>>
    BY <1>9 DEF RecvBit
  <2>4. QED
    BY <1>1, <2>2, <2>3 DEF Called, Typed, InCall, LEN
<1>10. CASE RecvAck
  <2>1. pc = "receive" /\ k = BITS /\ k' = 0 /\ value' = <<>> /\ pc' \in {"receive", "stop"}
        /\ UNCHANGED <<call, ret, refused>> /\ (i' = i \/ i' = (i + 1) % WIDTH)
    BY <1>10 DEF RecvAck, Go
  <2>2. value \in Byte
    BY <1>1, <2>1, ByteFromBits DEF Typed
  <2>3. buff' \in [0..WIDTH - 1 -> Byte \cup {NoByte}]
    BY <1>1, <1>10, <2>2 DEF RecvAck, Typed
  <2>4. i' \in 0..WIDTH - 1
    BY <1>1, <2>1 DEF Typed
  <2>5. QED
    BY <1>1, <2>1, <2>3, <2>4, EmptyBits DEF Called, Typed, InCall, LEN
<1>11. CASE Restart
  BY <1>1, <1>11, EmptyBits DEF Restart, Go, Called, Typed, InCall, Empty
<1>12. QED
  BY <1>2, <1>3, <1>4, <1>5, <1>6, <1>7, <1>8, <1>9, <1>10, <1>11 DEF Next, Master

LEMMA MasterInvariant == Spec => []MasterInv
<1>1. Init => MasterInv
  <2>1. SUFFICES ASSUME Init PROVE MasterInv
    OBVIOUS
  <2>2. Shaped(wire)
    <3>1. Silent \in Wires /\ 0 < OffsetBytes /\ 0 <= BITS
      BY EmptyBits, MasterAssumption, OffsetBytesAre DEF Silent, Wires, Bit, States
    <3>2. QED
      BY <2>1, <3>1 DEF Init, Silent, Shaped, Formed, Room, Listening
  <2>3. Called
    BY <2>1 DEF Init, Called, InCall
  <2>4. 0 \in 0..BITS /\ 0 \in 0..WIDTH - 1 /\ Empty \in [0..WIDTH - 1 -> Byte \cup {NoByte}]
    BY MasterAssumption DEF Empty
  <2>5. Typed
    BY <2>1, <2>4, EmptyBits DEF Init, Typed
  <2>6. QED
    BY <2>2, <2>3, <2>5 DEF MasterInv
<1>2. MasterInv /\ [Next]_vars => MasterInv'
  BY WireNext, CalledNext DEF MasterInv
<1>3. QED
  BY <1>1, <1>2, PTL DEF Spec

\* The state stays within its types, for every width of a byte and of the loop counter: no
\* shift register takes a bit too many, whatever is stretched, refused or interrupted by a
\* restart, and i does not wrap while a write goes on (mcu_sal_i2c_master.c:237, 301).
THEOREM TypeCorrect == Spec => []TypeOK
<1>1. MasterInv => TypeOK
  <2>1. SUFFICES ASSUME MasterInv PROVE TypeOK
    OBVIOUS
  <2>2. Len(value) <= BITS
    BY <2>1, MasterAssumption DEF MasterInv, Typed
  <2>3. QED
    BY <2>1, <2>2 DEF MasterInv, Shaped, Formed, Wires, Bit, States, Typed, TypeOK
<1>2. QED
  BY <1>1, MasterInvariant, PTL

----------------------------------------------------------------------------
(* A call that reports success leaves the bus free.                        *)

\* The inductive invariant.
OkFree == ret = "OK" => pc = "idle" /\ High(wire) /\ wire.st = "off"

\* A STOP that is seen to have been made has stopped the device.
LEMMA StopFrees ==
  ASSUME NEW w, Shaped(w), NEW c \in Chosen, StopOk(w, c)
  PROVE  High(StopDone(w, c)) /\ StopDone(w, c).st = "off"
<1> DEFINE p == Lowered(w, c)
<1>1. Shaped(p) /\ SDA(p) = 0
  BY LoweredShaped DEF StopOk
<1>2. High(StopDone(w, c))
  BY DEF StopOk
<1>3. SCL(p) = 1 /\ StopDone(w, c) = SetSda(p, 1)
  <2>1. StopDone(w, c) = IF SCL(p) = 1 /\ SDA(p) = 0 THEN SetSda(p, 1) ELSE p
    BY DEF StopDone
  <2>2. QED
    BY <1>1, <1>2, <2>1 DEF High
<1> HIDE DEF p
<1>4. SetSda(p, 1).st = "off"
  <2>1. p \in Wires
    BY <1>1 DEF Shaped, Formed
  <2>2. ~ p.low
    BY <1>2, <1>3, <2>1 DEF High, SetSda, SDA, Wires
  <2>3. p.sda = 0
    BY <1>1, <2>2 DEF SDA
  <2>4. QED
    BY <1>3, <2>1, <2>2, <2>3 DEF SetSda, Stopped, Wires
<1>5. QED
  BY <1>2, <1>3, <1>4

LEMMA OkFreeInvariant == Spec => []OkFree
<1>1. Init => OkFree
  BY DEF Init, OkFree
<1>2. MasterInv /\ OkFree /\ [Next]_vars => OkFree'
  <2>1. SUFFICES ASSUME MasterInv, OkFree, [Next]_vars PROVE OkFree'
    OBVIOUS
  <2>2. CASE Stop
    <3>1. PICK c \in Chosen : wire' = StopDone(wire, c) /\ pc' = "idle"
                              /\ ret' = IF StopOk(wire, c) THEN "OK" ELSE "FAILED"
      BY <2>2, AnswersAre DEF Stop, Return, Go
    <3>2. QED
      BY <2>1, <3>1, StopFrees DEF OkFree, MasterInv
  <2>3. CASE Release
    <3>1. ret # "OK"
      BY <2>1, <2>3 DEF OkFree, High, SCL, Release
    <3>2. QED
      BY <2>3, <3>1 DEF OkFree, Release
  <2>4. CASE Calls \/ Abort \/ Restart
    BY <2>4 DEF Calls, Begin, Abort, Return, Restart, OkFree
  <2>5. CASE \/ Start \/ SendBit \/ SendAck \/ OffsetStop \/ RecvBit \/ RecvAck
             \/ ResetClock \/ ResetStop \/ InitLines
    <3>1. pc # "idle" /\ ret' = ret
      BY <2>5 DEF Start, SendBit, SendAck, OffsetStop, RecvBit, RecvAck, ResetClock, ResetStop,
         InitLines, Sending
    <3>2. QED
      BY <2>1, <3>1 DEF OkFree
  <2>6. CASE UNCHANGED vars
    BY <2>1, <2>6 DEF OkFree, vars, High, SCL, SDA
  <2>7. QED
    BY <2>1, <2>2, <2>3, <2>4, <2>5, <2>6 DEF Next, Master
<1>3. QED
  BY <1>1, <1>2, MasterInvariant, PTL DEF Spec

\* A call that reports success has ended with a STOP the device saw, and leaves both lines
\* high: the next one starts on a free bus, whatever was stretched or refused
\* (_i2c_master_imitate_stop, mcu_sal_i2c_master.c:118-120).
THEOREM SuccessFrees == Spec => []OkMeansFree
<1>1. OkFree => OkMeansFree
  BY DEF OkFree, OkMeansFree, Returned
<1>2. QED
  BY <1>1, OkFreeInvariant, PTL

----------------------------------------------------------------------------
(* A call that reports success has done what it was asked for.             *)

\* SCL is low after a clock, and the device does not pull SDA.
Low(w) == w.scl = 0 /\ ~ w.ack /\ ~ w.low

\* In a bit: both lines are set; the device has heard it.
Driven(w, v) == [w EXCEPT !.sda = v, !.scl = 1]
Heard(w, v) == [w EXCEPT !.sda = v, !.shift = Append(w.shift, v)]
Stretched(w, h) == [w EXCEPT !.hold = h]

LEMMA StretchedIs ==
  ASSUME NEW w \in Wires, NEW h \in BOOLEAN
  PROVE  LET y == Stretched(w, h) IN
         /\ y \in Wires /\ y.hold = h
         /\ y.scl = w.scl /\ y.sda = w.sda /\ y.low = w.low /\ y.st = w.st /\ y.ack = w.ack
         /\ y.shift = w.shift /\ y.part = w.part /\ y.off = w.off /\ y.n = w.n
         /\ y.wrote = w.wrote /\ y.served = w.served
BY DEF Stretched, Wires

LEMMA DrivenIs ==
  ASSUME NEW w \in Wires, NEW v \in Bit
  PROVE  LET y == Driven(w, v) IN
         /\ y \in Wires /\ y.hold = w.hold
         /\ y.scl = 1 /\ y.sda = v /\ y.low = w.low /\ y.st = w.st /\ y.ack = w.ack
         /\ y.shift = w.shift /\ y.part = w.part /\ y.off = w.off /\ y.n = w.n
         /\ y.wrote = w.wrote /\ y.served = w.served
BY DEF Driven, Wires, Bit

LEMMA HeardIs ==
  ASSUME NEW w \in Wires, NEW v \in Bit
  PROVE  LET y == Heard(w, v) IN
         /\ y \in Wires /\ y.hold = w.hold
         /\ y.scl = w.scl /\ y.sda = v /\ y.low = w.low /\ y.st = w.st /\ y.ack = w.ack
         /\ y.shift = Append(w.shift, v) /\ y.part = w.part /\ y.off = w.off /\ y.n = w.n
         /\ y.wrote = w.wrote /\ y.served = w.served
         /\ Len(y.shift) = Len(w.shift) + 1 /\ Len(w.shift) \in Nat
<1>1. PICK s \in Seq(Bit) : s = Append(w.shift, v)
  <2>1. w.shift \in Seq(Bit)
    BY DEF Wires
  <2>2. Append(w.shift, v) \in Seq(Bit)
    BY <2>1
  <2>3. QED
    BY <2>2
<1>2. Heard(w, v) = [w EXCEPT !.sda = v, !.shift = s]
  BY <1>1 DEF Heard
<1>3. Len(s) = Len(w.shift) + 1 /\ Len(w.shift) \in Nat
  BY <1>1 DEF Wires
<1>4. QED
  BY <1>1, <1>2, <1>3 DEF Wires

\* A bit is a rising and a falling edge.
LEMMA Clocked ==
  ASSUME NEW w, Shaped(w), w.scl = 0, ~ w.hold, NEW v \in Bit, NEW c \in Chosen
  PROVE  /\ w \in Wires /\ Formed(Driven(w, v)) /\ Room(Driven(w, v))
         /\ Up(w, v, c) = Risen(Driven(w, v))
         /\ WRITE_BIT(w, v, c) = Fallen([Risen(Driven(w, v)) EXCEPT !.scl = 0], c)
<1> DEFINE n == Driven(w, v)   u == [w EXCEPT !.sda = v]
<1>1. w \in Wires /\ SCL(w) = 0 /\ Room(w)
  BY DEF Shaped, Formed, SCL
<1>2. n \in Wires /\ Formed(n) /\ Room(n) /\ n.scl = 1 /\ n.hold = FALSE
  BY <1>1, DrivenIs DEF Shaped, Formed, Room, Wires
<1>3. SetSda(w, v) = u
  BY <1>1 DEF SetSda
<1>4. u.scl = 0 /\ u.hold = FALSE /\ [u EXCEPT !.scl = 1] = n
  BY <1>1 DEF Wires, Driven
<1> HIDE DEF u, n
<1>5. Up(w, v, c) = Risen(n)
  BY <1>3, <1>4 DEF Up, SetScl
<1>6. Risen(n).scl = 1 /\ Risen(n).hold = FALSE
  BY <1>2, RisenFormed
<1>7. WRITE_BIT(w, v, c) = Fallen([Risen(n) EXCEPT !.scl = 0], c)
  BY <1>5, <1>6 DEF WRITE_BIT, SetScl
<1>8. QED
  BY <1>1, <1>2, <1>5, <1>7 DEF n

\* A falling edge that takes a byte, refuses one, or comes within one.
LEMMA FallenListening ==
  ASSUME NEW x \in Wires, x.st \in Listening, ~ x.ack, NEW c \in Chosen
  PROVE  /\ Len(x.shift) # BITS => \E h \in BOOLEAN : Fallen(x, c) = Stretched(x, h)
         /\ Len(x.shift) = BITS =>
              IF c.ack /\ (x.st = "address" => Front(x.shift) = Dev)
              THEN \E h \in BOOLEAN : Fallen(x, c) = Stretched(Taken(x), h)
              ELSE Fallen(x, c) = Stretched(Stopped(x), FALSE)
<1> DEFINE accepted == c.ack /\ (x.st = "address" => Front(x.shift) = Dev)
<1>1. x.st \in {"address", "offset", "data"} /\ x.st # "send" /\ x.st # "next"
  BY DEF Listening
<1>2. CASE Len(x.shift) # BITS
  <2>1. PICK h \in BOOLEAN : h = (c.hold /\ x.st # "off" /\ "bit" \in Stretches)
    OBVIOUS
  <2>2. Fallen(x, c) = Stretched(x, h)
    BY <1>1, <1>2, <2>1 DEF Fallen, Stretched
  <2>3. QED
    BY <1>2, <2>2
<1>3. CASE Len(x.shift) = BITS /\ accepted
  <2>1. PICK h \in BOOLEAN : h = (c.hold /\ Taken(x).st # "off" /\ "byte" \in Stretches)
    OBVIOUS
  <2>2. Fallen(x, c) = Stretched(Taken(x), h)
    BY <1>1, <1>3, <2>1 DEF Fallen, Stretched
  <2>3. QED
    BY <1>3, <2>2
<1>4. CASE Len(x.shift) = BITS /\ ~ accepted
  <2>1. Stopped(x).st = "off"
    BY DEF Stopped, Wires
  <2>2. PICK h : h = (c.hold /\ Stopped(x).st # "off" /\ "byte" \in Stretches)
    OBVIOUS
  <2>3. h = FALSE
    BY <2>1, <2>2
  <2>4. Fallen(x, c) = Stretched(Stopped(x), h)
    BY <1>1, <1>4, <2>2 DEF Fallen, Stretched
  <2>5. QED
    BY <1>4, <2>3, <2>4
<1>5. QED
  BY <1>2, <1>3, <1>4

\* A bit that the device listens to.
LEMMA BitHeard ==
  ASSUME NEW w, Shaped(w), Low(w), ~ w.hold, w.st \in Listening, NEW v \in Bit, NEW c \in Chosen
  PROVE  /\ Len(w.shift) < BITS /\ SDA(Up(w, v, c)) = v
         /\ WRITE_BIT(w, v, c) = Fallen(Heard(w, v), c)
<1> DEFINE n == Driven(w, v)
<1>1. w \in Wires /\ w.scl = 0 /\ w.ack = FALSE /\ w.low = FALSE /\ Len(w.shift) < BITS
  BY DEF Shaped, Formed, Room, Low, SCL
<1>2. Up(w, v, c) = Risen(n) /\ WRITE_BIT(w, v, c) = Fallen([Risen(n) EXCEPT !.scl = 0], c)
  BY <1>1, Clocked
<1>3. SDA(n) = v /\ n.shift = w.shift /\ n.st = w.st /\ n.ack = FALSE /\ n.low = FALSE /\ n.sda = v /\ n \in Wires
  BY <1>1, DrivenIs DEF SDA
<1>4. PICK s : s = Append(w.shift, v)
  OBVIOUS
<1>5. Risen(n) = [n EXCEPT !.shift = s]
  <2> HIDE DEF n
  <2>1. QED
    BY <1>3, <1>4 DEF Risen, Listening
<1>6. SDA(Risen(n)) = v
  <2> HIDE DEF n
  <2>1. QED
    BY <1>3, <1>5 DEF SDA, Wires
<1>7. [[n EXCEPT !.shift = s] EXCEPT !.scl = 0] = [w EXCEPT !.sda = v, !.shift = s]
  BY <1>1 DEF Wires, Driven
<1>8. Heard(w, v) = [w EXCEPT !.sda = v, !.shift = s]
  BY <1>4 DEF Heard
<1>9. QED
  BY <1>1, <1>2, <1>5, <1>6, <1>7, <1>8

\* What the device keeps of its transfers.
Kept(x, w) ==
  x.part = w.part /\ x.off = w.off /\ x.n = w.n /\ x.wrote = w.wrote /\ x.served = w.served

\* The device has heard m bits of a byte; it has taken one; it has dropped out.
Hears(w, st, m, byte) ==
  /\ Low(w) /\ w.st = st /\ Len(w.shift) = m
  /\ \A j \in 1..m : w.shift[j] = byte[j]
Took(w, st) == w.scl = 0 /\ w.ack /\ w.low /\ w.st = st
Dropped(w) == Low(w) /\ w.st = "off" /\ ~ w.hold

LEMMA StoppedIs ==
  ASSUME NEW w \in Wires
  PROVE  LET y == Stopped(w) IN
         /\ y \in Wires /\ y.hold = w.hold
         /\ y.scl = w.scl /\ y.sda = w.sda /\ y.low = w.low /\ y.st = "off" /\ y.ack = FALSE
         /\ y.shift = <<>> /\ Kept(y, w)
BY EmptyBits DEF Stopped, Wires, States, Kept

LEMMA BitsAppended ==
  ASSUME NEW byte \in Byte, NEW s \in Seq(Bit), NEW m \in Nat, Len(s) = m, m < BITS,
         \A j \in 1..m : s[j] = byte[j]
  PROVE  /\ byte[m + 1] \in Bit
         /\ Append(s, byte[m + 1]) \in Seq(Bit) /\ Len(Append(s, byte[m + 1])) = m + 1
         /\ \A j \in 1..m + 1 : Append(s, byte[m + 1])[j] = byte[j]
         /\ m + 1 = BITS => Append(s, byte[m + 1]) = byte
<1>1. byte \in Seq(Bit) /\ Len(byte) = BITS /\ BITS \in Nat
  BY ByteIsSequence, MasterAssumption
<1>2. byte[m + 1] \in Bit
  BY <1>1
<1>3. PICK v \in Bit : v = byte[m + 1]
  BY <1>2
<1>4. Append(s, v) \in Seq(Bit) /\ Len(Append(s, v)) = m + 1
  OBVIOUS
<1>5. \A j \in 1..m + 1 : Append(s, v)[j] = byte[j]
  BY <1>1, <1>3
<1>6. m + 1 = BITS => Append(s, v) = byte
  BY <1>1, <1>4, <1>5, SeqEqual
<1>7. QED
  BY <1>3, <1>4, <1>5, <1>6

\* The next bit of a byte.
LEMMA HearsNext ==
  ASSUME NEW w, Shaped(w), ~ w.hold, NEW st \in Listening, NEW byte \in Byte, NEW m \in 0..BITS - 1,
         Hears(w, st, m, byte), NEW c \in Chosen, NEW x, x = WRITE_BIT(w, byte[m + 1], c)
  PROVE  /\ m + 1 < BITS => Hears(x, st, m + 1, byte) /\ Kept(x, w)
         /\ m + 1 = BITS =>
              \/ Dropped(x) /\ Kept(x, w)
              \/ \E y \in Wires, h \in BOOLEAN :
                    /\ x = Stretched(Taken(y), h)
                    /\ y.shift = byte /\ y.st = st /\ y.scl = 0 /\ Kept(y, w)
                    /\ st = "address" => Front(byte) = Dev
<1> DEFINE v == byte[m + 1]   y == Heard(w, v)
<1>1. w \in Wires /\ w.shift \in Seq(Bit) /\ Len(w.shift) = m /\ Low(w) /\ w.st = st /\ BITS \in Nat
      /\ m \in Nat /\ w.hold = FALSE
  BY MasterAssumption DEF Shaped, Formed, Wires, Hears
<1>2. v \in Bit /\ Append(w.shift, v) \in Seq(Bit) /\ Len(Append(w.shift, v)) = m + 1
      /\ (\A j \in 1..m + 1 : Append(w.shift, v)[j] = byte[j])
      /\ (m + 1 = BITS => Append(w.shift, v) = byte)
  BY <1>1, BitsAppended DEF Hears
<1> HIDE DEF v
<1>3. /\ y \in Wires /\ y.shift = Append(w.shift, v) /\ y.scl = 0 /\ y.st = st /\ y.ack = FALSE
      /\ y.low = FALSE /\ y.hold = FALSE /\ Kept(y, w)
  BY <1>1, <1>2, HeardIs DEF Low, Kept, Wires
<1>4. x = Fallen(y, c)
  BY <1>1, <1>2, BitHeard DEF v
<1> HIDE DEF y
<1>5. ASSUME m + 1 < BITS PROVE Hears(x, st, m + 1, byte) /\ Kept(x, w)
  <2>1. PICK h \in BOOLEAN : x = Stretched(y, h)
    <3>1. Len(y.shift) # BITS
      BY <1>1, <1>2, <1>3, <1>5
    <3>2. QED
      BY <1>3, <1>4, <3>1, FallenListening
  <2>2. QED
    BY <1>1, <1>2, <1>3, <2>1, StretchedIs DEF Hears, Low, Kept
<1>6. ASSUME m + 1 = BITS
      PROVE  \/ Dropped(x) /\ Kept(x, w)
             \/ \E h \in BOOLEAN : x = Stretched(Taken(y), h) /\ (st = "address" => Front(byte) = Dev)
  <2>1. y.shift = byte /\ Len(y.shift) = BITS
    BY <1>1, <1>2, <1>3, <1>6
  <2>2. CASE x = Stretched(Stopped(y), FALSE)
    <3>1. PICK z \in Wires : z = Stopped(y)
      BY <1>3, StoppedIs
    <3>2. z.scl = 0 /\ z.low = FALSE /\ z.st = "off" /\ z.ack = FALSE /\ Kept(z, w)
      BY <1>3, <3>1, StoppedIs DEF Kept
    <3>3. PICK h \in BOOLEAN : h = FALSE
      OBVIOUS
    <3>4. x = Stretched(z, h)
      BY <2>2, <3>1, <3>3
    <3>5. Dropped(x) /\ Kept(x, w)
      BY <3>2, <3>3, <3>4, StretchedIs DEF Dropped, Low, Kept
    <3>6. QED
      BY <3>5
  <2>3. \/ x = Stretched(Stopped(y), FALSE)
        \/ (y.st = "address" => Front(y.shift) = Dev) /\ \E h \in BOOLEAN : x = Stretched(Taken(y), h)
    BY <1>3, <1>4, <2>1, FallenListening
  <2>4. QED
    BY <1>3, <2>1, <2>2, <2>3
<1>7. QED
  BY <1>1, <1>2, <1>3, <1>5, <1>6

\* What taking a byte leaves.
LEMMA AddressTaken ==
  ASSUME NEW y \in Wires, NEW h \in BOOLEAN, NEW byte \in Byte, y.shift = byte, y.st = "address",
         y.scl = 0, NEW x, x = Stretched(Taken(y), h)
  PROVE  /\ Took(x, IF byte[BITS] = 1 THEN "send" ELSE "offset")
         /\ x.part = <<>> /\ x.served = <<>> /\ x.off = y.off /\ x.n = y.n /\ x.wrote = y.wrote
<1>1. Last(y.shift) = byte[BITS]
  BY ByteIsSequence DEF Last
<1>2. PICK st \in {"send", "offset"} : st = IF byte[BITS] = 1 THEN "send" ELSE "offset"
  OBVIOUS
<1> DEFINE r == [y EXCEPT !.ack = TRUE, !.low = TRUE, !.shift = <<>>, !.st = st,
                          !.part = <<>>, !.served = <<>>]
<1>3. Taken(y) = r
  BY <1>1, <1>2 DEF Taken, Wires
<1>4. r \in Wires
  BY <1>2, EmptyBits DEF Wires, States
<1>5. r.ack = TRUE /\ r.low = TRUE /\ r.st = st /\ r.part = <<>> /\ r.served = <<>> /\ r.scl = 0
      /\ r.off = y.off /\ r.n = y.n /\ r.wrote = y.wrote
  BY DEF Wires
<1> HIDE DEF r
<1>6. QED
  BY <1>2, <1>3, <1>4, <1>5, StretchedIs DEF Took

LEMMA OffsetTaken ==
  ASSUME NEW y \in Wires, NEW h \in BOOLEAN, NEW byte \in Byte, y.shift = byte, y.st = "offset",
         y.scl = 0, NEW x, x = Stretched(Taken(y), h), NEW part, part = Append(y.part, byte)
  PROVE  /\ x.wrote = y.wrote /\ x.served = y.served
         /\ IF Len(part) = OffsetBytes
            THEN Took(x, "data") /\ x.off = part /\ x.n = 0 /\ x.part = <<>>
            ELSE Took(x, "offset") /\ x.part = part /\ x.off = y.off /\ x.n = y.n
<1>1. part \in Seq(Seq(Bit))
  BY ByteIsSequence DEF Wires
<1>2. CASE Len(part) = OffsetBytes
  <2> DEFINE r == [y EXCEPT !.ack = TRUE, !.low = TRUE, !.shift = <<>>, !.st = "data",
                            !.off = part, !.n = 0, !.part = <<>>]
  <2>1. Taken(y) = r
    BY <1>2 DEF Taken, Wires
  <2>2. 0 \in 0..WIDTH + 1
    BY MasterAssumption
  <2>3. r \in Wires
    BY <1>1, <2>2, EmptyBits DEF Wires, States
  <2>4. r.ack = TRUE /\ r.low = TRUE /\ r.st = "data" /\ r.part = <<>> /\ r.off = part /\ r.scl = 0
        /\ r.n = 0 /\ r.wrote = y.wrote /\ r.served = y.served
    BY DEF Wires
  <2> HIDE DEF r
  <2>5. QED
    BY <1>2, <2>1, <2>3, <2>4, StretchedIs DEF Took
<1>3. CASE Len(part) # OffsetBytes
  <2> DEFINE r == [y EXCEPT !.ack = TRUE, !.low = TRUE, !.shift = <<>>, !.part = part]
  <2>1. Taken(y) = r
    BY <1>3 DEF Taken, Wires
  <2>2. r \in Wires
    BY <1>1, EmptyBits DEF Wires, States
  <2>3. r.ack = TRUE /\ r.low = TRUE /\ r.st = "offset" /\ r.part = part /\ r.off = y.off /\ r.scl = 0
        /\ r.n = y.n /\ r.wrote = y.wrote /\ r.served = y.served
    BY DEF Wires
  <2> HIDE DEF r
  <2>4. QED
    BY <1>3, <2>1, <2>2, <2>3, StretchedIs DEF Took
<1>4. QED
  BY <1>2, <1>3

LEMMA DataTaken ==
  ASSUME NEW y \in Wires, NEW h \in BOOLEAN, NEW byte \in Byte, y.shift = byte, y.st = "data",
         y.scl = 0, NEW x, x = Stretched(Taken(y), h)
  PROVE  /\ Took(x, "data") /\ x.wrote = AtMost(Append(y.wrote, <<y.off, y.n, byte>>))
         /\ x.n = Further(y.n) /\ x.off = y.off /\ x.part = y.part /\ x.served = y.served
<1>1. PICK t \in Traces : t = AtMost(Append(y.wrote, <<y.off, y.n, byte>>))
  BY TraceGrows, ByteIsSequence, MasterAssumption DEF Wires
<1>2. PICK n \in 0..WIDTH + 1 : n = Further(y.n)
  BY FurtherIs DEF Wires
<1> DEFINE r == [y EXCEPT !.ack = TRUE, !.low = TRUE, !.shift = <<>>, !.wrote = t, !.n = n]
<1>3. Taken(y) = r
  BY <1>1, <1>2 DEF Taken, Wires
<1>4. r \in Wires
  BY EmptyBits DEF Wires
<1>5. r.ack = TRUE /\ r.low = TRUE /\ r.st = "data" /\ r.wrote = t /\ r.n = n /\ r.scl = 0
      /\ r.off = y.off /\ r.part = y.part /\ r.served = y.served
  BY DEF Wires
<1> HIDE DEF r
<1>6. QED
  BY <1>1, <1>2, <1>3, <1>4, <1>5, StretchedIs DEF Took

\* A falling edge behind the clock in which the device did nothing.
Set(w, v) == [w EXCEPT !.sda = v]

LEMMA SetIs ==
  ASSUME NEW w \in Wires, NEW v \in Bit
  PROVE  LET y == Set(w, v) IN
         /\ y \in Wires /\ y.hold = w.hold
         /\ y.scl = w.scl /\ y.sda = v /\ y.low = w.low /\ y.st = w.st /\ y.ack = w.ack
         /\ y.shift = w.shift /\ Kept(y, w)
BY DEF Set, Wires, Kept

\* A clock whose rising edge the device does not use.
LEMMA BitUnheard ==
  ASSUME NEW w, Shaped(w), w.scl = 0, ~ w.hold, NEW v \in Bit, NEW c \in Chosen,
         w.st # "asked", w.st \in Listening => w.ack
  PROVE  /\ SDA(Up(w, v, c)) = IF w.low THEN 0 ELSE v
         /\ WRITE_BIT(w, v, c) = Fallen(Set(w, v), c)
<1> DEFINE n == Driven(w, v)
<1>1. /\ w \in Wires /\ Up(w, v, c) = Risen(n)
      /\ WRITE_BIT(w, v, c) = Fallen([Risen(n) EXCEPT !.scl = 0], c)
  BY Clocked
<1>2. n.st = w.st /\ n.ack = w.ack /\ n.low = w.low /\ n.sda = v
  BY <1>1, DrivenIs
<1>3. [n EXCEPT !.scl = 0] = Set(w, v)
  BY <1>1 DEF Driven, Set, Wires
<1> HIDE DEF n
<1>4. Risen(n) = n
  BY <1>2 DEF Risen, Listening
<1>5. QED
  BY <1>1, <1>2, <1>3, <1>4 DEF SDA

\* The clock of an acknowledgement, by a device that goes on listening.
LEMMA AckClocked ==
  ASSUME NEW w, Shaped(w), ~ w.hold, NEW st \in {"offset", "data"}, Took(w, st), NEW c \in Chosen,
         NEW x, x = READ_BIT(w, c)
  PROVE  readBit(w, c) = 0 /\ Low(x) /\ x.st = st /\ x.shift = <<>> /\ Kept(x, w)
<1>1. w \in Wires /\ w.shift = <<>> /\ w.scl = 0 /\ w.ack /\ w.low /\ w.st = st /\ 1 \in Bit
  BY DEF Shaped, Formed, Took, Bit
<1>2. readBit(w, c) = 0 /\ x = Fallen(Set(w, 1), c)
  BY <1>1, BitUnheard DEF readBit, READ_BIT
<1>3. PICK y \in Wires : y = Set(w, 1)
  BY <1>1, SetIs
<1>4. y.ack /\ y.st = st /\ y.scl = 0 /\ y.shift = <<>> /\ Kept(y, w)
  BY <1>1, <1>3, SetIs
<1> DEFINE r == [y EXCEPT !.ack = FALSE, !.low = FALSE]
<1>5. r \in Wires /\ r.ack = FALSE /\ r.low = FALSE /\ r.st = st /\ r.scl = 0 /\ r.shift = <<>> /\ Kept(r, w)
  BY <1>4 DEF Wires, Kept
<1>6. PICK h \in BOOLEAN : h = (c.hold /\ r.st # "off" /\ "byte" \in Stretches)
  OBVIOUS
<1>7. Fallen(y, c) = Stretched(r, h)
  BY <1>4, <1>6 DEF Fallen, Stretched
<1> HIDE DEF r
<1>8. QED
  BY <1>2, <1>3, <1>5, <1>7, StretchedIs DEF Low, Kept

\* A byte the device begins to send.
LEMMA LoadIs ==
  ASSUME NEW w \in Wires, NEW byte \in Held
  PROVE  LET y == Load(w, byte) IN
         /\ y \in Wires /\ y.hold = w.hold
         /\ y.scl = w.scl /\ y.sda = w.sda /\ y.low = (byte[1] = 0) /\ y.st = "send" /\ y.ack = FALSE
         /\ y.shift = Tail(byte) /\ y.part = w.part /\ y.off = w.off /\ y.n = Further(w.n)
         /\ y.wrote = w.wrote /\ y.served = AtMost(Append(w.served, <<w.off, w.n, byte>>))
<1>1. PICK t \in Traces : t = AtMost(Append(w.served, <<w.off, w.n, byte>>))
  BY TraceGrows, ByteIsSequence, MasterAssumption DEF Wires
<1>2. PICK n \in 0..WIDTH + 1 : n = Further(w.n)
  BY FurtherIs DEF Wires
<1>3. PICK s \in Seq(Bit) : s = Tail(byte)
  BY ByteIsSequence, MasterAssumption
<1>4. PICK low \in BOOLEAN : low = (byte[1] = 0)
  OBVIOUS
<1> DEFINE r == [w EXCEPT !.st = "send", !.ack = FALSE, !.low = low, !.shift = s, !.served = t, !.n = n]
<1>5. Load(w, byte) = r
  BY <1>1, <1>2, <1>3, <1>4 DEF Load, Wires
<1>6. /\ r \in Wires /\ r.hold = w.hold
      /\ r.scl = w.scl /\ r.sda = w.sda /\ r.low = low /\ r.st = "send" /\ r.ack = FALSE
      /\ r.shift = s /\ r.part = w.part /\ r.off = w.off /\ r.n = n
      /\ r.wrote = w.wrote /\ r.served = t
  BY DEF Wires, States
<1> HIDE DEF r
<1>7. QED
  BY <1>1, <1>2, <1>3, <1>4, <1>5, <1>6

\* The device sends m bits of the byte that began; the next is on SDA.
Sends(w, m, byte) ==
  /\ w.scl = 0 /\ ~ w.ack /\ w.st = "send" /\ w.low = (byte[m + 1] = 0)
  /\ Len(w.shift) = BITS - m - 1
  /\ \A j \in 1..BITS - m - 1 : w.shift[j] = byte[m + 1 + j]

Loaded(x, w, byte) ==
  /\ Sends(x, 0, byte) /\ x.part = w.part /\ x.off = w.off /\ x.n = Further(w.n)
  /\ x.wrote = w.wrote /\ x.served = AtMost(Append(w.served, <<w.off, w.n, byte>>))

LEMMA LoadSends ==
  ASSUME NEW w, w \in Wires, w.scl = 0, NEW byte \in Held, NEW h \in BOOLEAN, NEW u, Kept(w, u)
  PROVE  Loaded(Stretched(Load(w, byte), h), u, byte)
<1>1. byte \in Seq(Bit) /\ Len(byte) = BITS /\ BITS \in Nat /\ BITS > 1
  BY ByteIsSequence, MasterAssumption
<1>2. Len(Tail(byte)) = BITS - 0 - 1 /\ \A j \in 1..BITS - 0 - 1 : Tail(byte)[j] = byte[0 + 1 + j]
  BY <1>1
<1>3. PICK y \in Wires : y = Load(w, byte)
  BY LoadIs
<1>4. /\ y.scl = w.scl /\ y.low = (byte[1] = 0) /\ y.st = "send" /\ y.ack = FALSE
      /\ y.shift = Tail(byte) /\ y.part = w.part /\ y.off = w.off /\ y.n = Further(w.n)
      /\ y.wrote = w.wrote /\ y.served = AtMost(Append(w.served, <<w.off, w.n, byte>>))
  BY <1>3, LoadIs
<1>5. /\ y.scl = 0 /\ y.low = (byte[1] = 0) /\ y.st = "send" /\ y.ack = FALSE
      /\ y.shift = Tail(byte) /\ y.part = u.part /\ y.off = u.off /\ y.n = Further(u.n)
      /\ y.wrote = u.wrote /\ y.served = AtMost(Append(u.served, <<u.off, u.n, byte>>))
  BY <1>4 DEF Kept
<1>6. PICK x : x = Stretched(y, h)
  OBVIOUS
<1>7. /\ x.scl = 0 /\ x.low = (byte[1] = 0) /\ x.st = "send" /\ x.ack = FALSE
      /\ x.shift = Tail(byte) /\ x.part = u.part /\ x.off = u.off /\ x.n = Further(u.n)
      /\ x.wrote = u.wrote /\ x.served = AtMost(Append(u.served, <<u.off, u.n, byte>>))
  BY <1>5, <1>6, StretchedIs
<1>8. Sends(x, 0, byte)
  BY <1>2, <1>7 DEF Sends
<1>9. QED
  BY <1>3, <1>6, <1>7, <1>8 DEF Loaded

\* The clock of an acknowledgement, by a device that will send.
LEMMA AckLoads ==
  ASSUME NEW w, Shaped(w), ~ w.hold, Took(w, "send"), NEW c \in Chosen, NEW x, x = READ_BIT(w, c)
  PROVE  readBit(w, c) = 0 /\ \E byte \in Held : Loaded(x, w, byte)
<1>1. w \in Wires /\ w.scl = 0 /\ w.ack /\ w.low /\ w.st = "send" /\ 1 \in Bit
  BY DEF Shaped, Formed, Took, Bit
<1>2. readBit(w, c) = 0 /\ x = Fallen(Set(w, 1), c)
  BY <1>1, BitUnheard DEF readBit, READ_BIT, Listening
<1>3. PICK y \in Wires : y = Set(w, 1)
  BY <1>1, SetIs
<1>4. y.ack /\ y.st = "send" /\ y.scl = 0 /\ Kept(y, w)
  BY <1>1, <1>3, SetIs
<1>5. c.byte \in Held
  BY DEF Chosen
<1>6. PICK h \in BOOLEAN : h = (c.hold /\ Load(y, c.byte).st # "off" /\ "byte" \in Stretches)
  OBVIOUS
<1>7. Fallen(y, c) = Stretched(Load(y, c.byte), h)
  BY <1>4, <1>6 DEF Fallen, Stretched
<1>8. QED
  BY <1>2, <1>3, <1>4, <1>5, <1>7, LoadSends

\* A device that has dropped out does nothing.
LEMMA DroppedClocked ==
  ASSUME NEW w, Shaped(w), Dropped(w), NEW v \in Bit, NEW c \in Chosen, NEW x, x = WRITE_BIT(w, v, c)
  PROVE  SDA(Up(w, v, c)) = v /\ Dropped(x) /\ x.sda = v /\ Kept(x, w)
<1>1. w \in Wires /\ w.scl = 0 /\ ~ w.ack /\ ~ w.low /\ w.st = "off" /\ w.hold = FALSE
  BY DEF Shaped, Formed, Dropped, Low, Wires
<1>2. SDA(Up(w, v, c)) = v /\ x = Fallen(Set(w, v), c)
  BY <1>1, BitUnheard DEF Listening
<1>3. PICK y \in Wires : y = Set(w, v)
  BY <1>1, SetIs
<1>4. ~ y.ack /\ y.st = "off" /\ y.scl = 0 /\ y.low = FALSE /\ y.sda = v /\ Kept(y, w)
  BY <1>1, <1>3, SetIs
<1>5. PICK h \in BOOLEAN : h = (c.hold /\ y.st # "off" /\ "bit" \in Stretches)
  OBVIOUS
<1>6. h = FALSE
  BY <1>4, <1>5
<1>7. Fallen(y, c) = Stretched(y, h)
  BY <1>4, <1>5 DEF Fallen, Stretched
<1>8. QED
  BY <1>2, <1>3, <1>4, <1>6, <1>7, StretchedIs DEF Dropped, Low, Kept

LEMMA Tails ==
  ASSUME NEW s \in Seq(Bit), NEW d \in Nat, Len(s) = d, d > 0
  PROVE  /\ s # <<>> /\ Head(s) = s[1] /\ Tail(s) \in Seq(Bit) /\ Len(Tail(s)) = d - 1
         /\ \A j \in 1..d - 1 : Tail(s)[j] = s[j + 1]
<1>1. s # <<>>
  OBVIOUS
<1>2. QED
  BY <1>1, HeadTailProperties

\* The device sends a bit.
LEMMA SendClocked ==
  ASSUME NEW w, Shaped(w), ~ w.hold, NEW byte \in Byte, NEW m \in 0..BITS - 1, Sends(w, m, byte),
         NEW c \in Chosen, NEW x, x = READ_BIT(w, c)
  PROVE  /\ readBit(w, c) = byte[m + 1] /\ Kept(x, w)
         /\ m + 1 < BITS => Sends(x, m + 1, byte)
         /\ m + 1 = BITS => Low(x) /\ x.st = "asked"
<1>1. w \in Wires /\ w.scl = 0 /\ w.ack = FALSE /\ w.st = "send" /\ w.low = (byte[m + 1] = 0) /\ 1 \in Bit
      /\ w.shift \in Seq(Bit) /\ Len(w.shift) = BITS - m - 1 /\ BITS \in Nat /\ m \in Nat
      /\ w.hold = FALSE
  BY MasterAssumption DEF Shaped, Formed, Wires, Sends, Bit
<1>2. byte[m + 1] \in Bit
  BY <1>1 DEF Byte, Bit
<1>3. SDA(Up(w, 1, c)) = (IF w.low THEN 0 ELSE 1) /\ x = Fallen(Set(w, 1), c)
  BY <1>1, BitUnheard DEF READ_BIT, Listening
<1>4. readBit(w, c) = byte[m + 1]
  BY <1>1, <1>2, <1>3 DEF readBit, Bit
<1>5. PICK y \in Wires : y = Set(w, 1)
  BY <1>1, SetIs
<1>6. y.ack = FALSE /\ y.st = "send" /\ y.scl = 0 /\ y.shift = w.shift /\ Kept(y, w)
  BY <1>1, <1>5, SetIs
<1>7. CASE m + 1 < BITS
  <2>1. /\ w.shift # <<>> /\ Head(w.shift) = byte[m + 2] /\ Tail(w.shift) \in Seq(Bit)
        /\ Len(Tail(w.shift)) = BITS - (m + 1) - 1
        /\ \A j \in 1..BITS - (m + 1) - 1 : Tail(w.shift)[j] = byte[m + 1 + 1 + j]
    <3>1. PICK d \in Nat : d = BITS - m - 1 /\ d > 0 /\ d - 1 = BITS - (m + 1) - 1
      BY <1>1, <1>7
    <3>2. /\ w.shift # <<>> /\ Head(w.shift) = w.shift[1] /\ Tail(w.shift) \in Seq(Bit)
          /\ Len(Tail(w.shift)) = d - 1 /\ \A j \in 1..d - 1 : Tail(w.shift)[j] = w.shift[j + 1]
      BY <1>1, <3>1, Tails
    <3>3. \A j \in 1..d : w.shift[j] = byte[m + 1 + j]
      BY <3>1 DEF Sends
    <3>4. m + 1 + 1 = m + 2 /\ 1 \in 1..d
      BY <1>1, <3>1
    <3>5. ASSUME NEW j \in 1..d - 1 PROVE Tail(w.shift)[j] = byte[m + 1 + 1 + j]
      <4>1. j + 1 \in 1..d /\ m + 1 + (j + 1) = m + 1 + 1 + j
        BY <1>1, <3>1
      <4>2. QED
        BY <3>2, <3>3, <4>1
    <3>6. w.shift[1] = byte[m + 2]
      BY <3>3, <3>4
    <3>7. QED
      BY <3>1, <3>2, <3>5, <3>6
  <2>2. PICK t \in Seq(Bit) : t = Tail(y.shift)
    BY <1>6, <2>1
  <2>3. PICK low \in BOOLEAN : low = (Head(y.shift) = 0)
    OBVIOUS
  <2> DEFINE r == [y EXCEPT !.low = low, !.shift = t]
  <2>4. r \in Wires /\ r.low = low /\ r.shift = t /\ r.st = "send" /\ r.ack = FALSE /\ r.scl = 0 /\ Kept(r, w)
    BY <1>6 DEF Wires, Kept
  <2>5. PICK h \in BOOLEAN : h = (c.hold /\ r.st # "off" /\ "bit" \in Stretches)
    OBVIOUS
  <2>6. Fallen(y, c) = Stretched(r, h)
    BY <1>6, <2>1, <2>2, <2>3, <2>5 DEF Fallen, Stretched
  <2> HIDE DEF r
  <2>7. /\ x.low = low /\ x.shift = t /\ x.st = "send" /\ x.ack = FALSE /\ x.scl = 0 /\ Kept(x, w)
    BY <1>3, <1>5, <2>4, <2>6, StretchedIs DEF Kept
  <2>8. Sends(x, m + 1, byte)
    <3>1. (m + 1) + 1 = m + 2
      BY <1>1
    <3>2. x.low = (byte[(m + 1) + 1] = 0)
      BY <1>6, <2>1, <2>3, <2>7, <3>1
    <3>3. QED
      BY <1>6, <2>1, <2>2, <2>7, <3>2 DEF Sends
  <2>9. QED
    BY <1>1, <1>4, <1>7, <2>7, <2>8
<1>8. CASE m + 1 = BITS
  <2>1. y.shift = <<>>
    <3>1. Len(w.shift) = 0
      BY <1>1, <1>8
    <3>2. QED
      BY <1>1, <1>6, <3>1, EmptySeq
  <2> DEFINE r == [y EXCEPT !.st = "asked", !.low = FALSE]
  <2>2. r \in Wires /\ r.low = FALSE /\ r.st = "asked" /\ r.ack = FALSE /\ r.scl = 0 /\ Kept(r, w)
    BY <1>6 DEF Wires, States, Kept
  <2>3. PICK h \in BOOLEAN : h = (c.hold /\ r.st # "off" /\ "bit" \in Stretches)
    OBVIOUS
  <2>4. Fallen(y, c) = Stretched(r, h)
    BY <1>6, <2>1, <2>3 DEF Fallen, Stretched
  <2> HIDE DEF r
  <2>5. Low(x) /\ x.st = "asked" /\ Kept(x, w)
    BY <1>3, <1>5, <2>2, <2>4, StretchedIs DEF Kept, Low
  <2>6. QED
    BY <1>1, <1>4, <1>8, <2>5
<1>9. QED
  BY <1>1, <1>7, <1>8

\* The device is told whether to go on.
LEMMA AskedClocked ==
  ASSUME NEW w, Shaped(w), ~ w.hold, Low(w), w.st = "asked", NEW v \in Bit, NEW c \in Chosen,
         NEW x, x = WRITE_BIT(w, v, c)
  PROVE  /\ v = 0 => \E byte \in Held : Loaded(x, w, byte)
         /\ v = 1 => Dropped(x) /\ Kept(x, w)
<1> DEFINE n == Driven(w, v)
<1>1. /\ w \in Wires /\ w.scl = 0 /\ ~ w.ack /\ ~ w.low /\ w.hold = FALSE
      /\ x = Fallen([Risen(n) EXCEPT !.scl = 0], c)
  BY Clocked DEF Low, Wires
<1>2. n \in Wires /\ n.st = "asked" /\ SDA(n) = v /\ n.ack = FALSE /\ n.low = FALSE /\ Kept(n, w)
  BY <1>1, DrivenIs DEF SDA, Wires, Kept
<1> HIDE DEF n
<1>3. PICK st \in {"next", "off"} : st = IF v = 0 THEN "next" ELSE "off"
  OBVIOUS
<1>4. Risen(n) = [n EXCEPT !.st = st]
  BY <1>2, <1>3 DEF Risen
<1> DEFINE y == [[n EXCEPT !.st = st] EXCEPT !.scl = 0]
<1>5. y \in Wires /\ y.st = st /\ y.scl = 0 /\ y.ack = FALSE /\ y.low = FALSE /\ Kept(y, w)
  BY <1>2 DEF Wires, States, Bit, Kept
<1>6. x = Fallen(y, c) /\ c.byte \in Held
  BY <1>1, <1>4 DEF Chosen
<1> HIDE DEF y
<1>7. CASE v = 0
  <2>1. PICK h \in BOOLEAN : h = (c.hold /\ Load(y, c.byte).st # "off" /\ "bit" \in Stretches)
    OBVIOUS
  <2>2. Fallen(y, c) = Stretched(Load(y, c.byte), h)
    BY <1>3, <1>5, <1>7, <2>1 DEF Fallen, Stretched
  <2>3. Loaded(x, w, c.byte)
    BY <1>5, <1>6, <2>2, LoadSends
  <2>4. QED
    BY <1>6, <1>7, <2>3
<1>8. CASE v = 1
  <2>1. PICK h \in BOOLEAN : h = (c.hold /\ y.st # "off" /\ "bit" \in Stretches)
    OBVIOUS
  <2>2. h = FALSE
    <3>1. y.st = "off"
      BY <1>3, <1>5, <1>8
    <3>2. QED
      BY <2>1, <3>1
  <2>3. Fallen(y, c) = Stretched(y, h)
    BY <1>3, <1>5, <1>8, <2>1 DEF Fallen, Stretched
  <2>4. QED
    BY <1>3, <1>5, <1>6, <1>8, <2>2, <2>3, StretchedIs DEF Dropped, Low, Kept
<1>9. QED
  BY <1>7, <1>8 DEF Bit

----------------------------------------------------------------------------
(* START and STOP.                                                         *)

LEMMA RisenKeeps ==
  ASSUME NEW w \in Wires
  PROVE  LET y == Risen(w) IN
         /\ y.scl = w.scl /\ y.sda = w.sda /\ y.low = w.low /\ y.hold = w.hold /\ Kept(y, w)
         /\ w.st = "off" => y = w
<1>1. PICK s : s = Append(w.shift, SDA(w))
  OBVIOUS
<1>2. PICK st : st = IF SDA(w) = 0 THEN "next" ELSE "off"
  OBVIOUS
<1>3. \/ Risen(w) = [w EXCEPT !.shift = s] /\ w.st # "off"
      \/ Risen(w) = [w EXCEPT !.st = st] /\ w.st # "off"
      \/ Risen(w) = w
  BY <1>1, <1>2 DEF Risen
<1>4. QED
  BY <1>3 DEF Wires, Kept

\* What a falling edge may change of the trace of writes: the byte is acknowledged then.
LEMMA FallenWrites ==
  ASSUME NEW w, Formed(w), NEW c \in Chosen
  PROVE  Fallen(w, c).wrote = w.wrote \/ Fallen(w, c).low
<1>1. w \in Wires /\ BITS > 1 /\ BITS \in Nat /\ c.byte \in Held
  BY MasterAssumption DEF Formed, Chosen
<1>2. CASE ~ w.ack /\ w.st \in Listening
  <2>1. CASE Len(w.shift) # BITS
    <3>1. PICK h \in BOOLEAN : Fallen(w, c) = Stretched(w, h)
      BY <1>1, <1>2, <2>1, FallenListening
    <3>2. QED
      BY <1>1, <3>1, StretchedIs
  <2>2. CASE Len(w.shift) = BITS
    <3>1. Taken(w) \in Wires /\ Stopped(w) \in Wires /\ Stopped(w).wrote = w.wrote
      BY <1>1, <1>2, TakenFormed, StoppedIs DEF Formed, Kept
    <3>2. Taken(w).low
      <4>1. PICK a \in Wires : a = [w EXCEPT !.ack = TRUE, !.low = TRUE, !.shift = <<>>]
        BY <1>1, EmptyBits DEF Wires
      <4>2. a.low = TRUE
        BY <1>1, <4>1 DEF Wires
      <4>3. PICK p, t, u, st, n : /\ p = Append(w.part, w.shift)
                                  /\ t = AtMost(Append(a.wrote, <<w.off, w.n, w.shift>>))
                                  /\ st = IF Last(w.shift) = 1 THEN "send" ELSE "offset"
                                  /\ n = Further(a.n)
        OBVIOUS
      <4>4. \/ Taken(w) = [a EXCEPT !.st = st, !.part = <<>>, !.served = <<>>]
            \/ Taken(w) = [a EXCEPT !.st = "data", !.off = p, !.n = 0, !.part = <<>>]
            \/ Taken(w) = [a EXCEPT !.part = p]
            \/ Taken(w) = [a EXCEPT !.wrote = t, !.n = n]
        BY <1>2, <4>1, <4>3 DEF Taken, Listening
      <4>5. QED
        BY <4>2, <4>4 DEF Wires
    <3>3. PICK h \in BOOLEAN : \/ Fallen(w, c) = Stretched(Taken(w), h)
                               \/ Fallen(w, c) = Stretched(Stopped(w), h)
      BY <1>1, <1>2, <2>2, FallenListening
    <3>4. PICK t \in Wires, s \in Wires : t = Taken(w) /\ s = Stopped(w)
      BY <3>1
    <3>5. QED
      BY <3>1, <3>2, <3>3, <3>4, StretchedIs
  <2>3. QED
    BY <2>1, <2>2
<1>3. CASE w.ack \/ w.st \notin Listening
  <2>1. \A r \in Wires, h \in BOOLEAN :
          Fallen(w, c) = Stretched(r, h) /\ r.wrote = w.wrote => Fallen(w, c).wrote = w.wrote
    BY StretchedIs
  <2>2. CASE (w.ack /\ w.st = "send") \/ (~ w.ack /\ w.st = "next")
    <3> DEFINE r == Load(w, c.byte)
    <3>1. r \in Wires /\ r.wrote = w.wrote
      BY <1>1, LoadIs
    <3>2. PICK h \in BOOLEAN, g \in BOOLEAN : /\ h = (c.hold /\ r.st # "off" /\ "byte" \in Stretches)
                                             /\ g = (c.hold /\ r.st # "off" /\ "bit" \in Stretches)
      OBVIOUS
    <3>3. CASE w.ack /\ w.st = "send"
      <4>1. Fallen(w, c) = Stretched(r, h)
        BY <3>2, <3>3 DEF Fallen, Stretched
      <4> HIDE DEF r
      <4>2. QED
        BY <2>1, <3>1, <4>1
    <3>4. CASE ~ w.ack /\ w.st = "next"
      <4>1. w.ack = FALSE /\ w.st = "next"
        BY <1>1, <3>4 DEF Wires
      <4> HIDE DEF r
      <4>2. Fallen(w, c) = Stretched(r, g)
        BY <3>2, <4>1 DEF Fallen, Stretched, r
      <4>3. QED
        BY <2>1, <3>1, <4>2
    <3>5. QED
      BY <2>2, <3>3, <3>4
  <2>3. CASE w.ack /\ w.st # "send"
    <3> DEFINE r == [w EXCEPT !.ack = FALSE, !.low = FALSE]
    <3>1. r \in Wires /\ r.wrote = w.wrote
      BY <1>1 DEF Wires
    <3>2. PICK h \in BOOLEAN : h = (c.hold /\ r.st # "off" /\ "byte" \in Stretches)
      OBVIOUS
    <3>3. w.ack = TRUE /\ w.st \in {"offset", "data"}
      BY <1>1, <2>3 DEF Formed, Wires
    <3>4. Fallen(w, c) = Stretched(r, h)
      BY <3>2, <3>3 DEF Fallen, Stretched
    <3> HIDE DEF r
    <3>5. QED
      BY <2>1, <3>1, <3>4
  <2>4. CASE ~ w.ack /\ w.st = "send" /\ w.shift = <<>>
    <3> DEFINE r == [w EXCEPT !.st = "asked", !.low = FALSE]
    <3>1. r \in Wires /\ r.wrote = w.wrote
      BY <1>1 DEF Wires, States
    <3>2. PICK h \in BOOLEAN : h = (c.hold /\ r.st # "off" /\ "bit" \in Stretches)
      OBVIOUS
    <3>3. Fallen(w, c) = Stretched(r, h)
      BY <2>4, <3>2 DEF Fallen, Stretched
    <3> HIDE DEF r
    <3>4. QED
      BY <2>1, <3>1, <3>3
  <2>5. CASE ~ w.ack /\ w.st = "send" /\ w.shift # <<>>
    <3>1. w.shift \in Seq(Bit)
      BY <1>1 DEF Wires
    <3>2. Tail(w.shift) \in Seq(Bit)
      BY <2>5, <3>1
    <3>3. PICK t \in Seq(Bit) : t = Tail(w.shift)
      BY <3>2
    <3>4. PICK low \in BOOLEAN : low = (Head(w.shift) = 0)
      OBVIOUS
    <3> DEFINE r == [w EXCEPT !.low = low, !.shift = t]
    <3>5. r \in Wires /\ r.wrote = w.wrote
      BY <1>1 DEF Wires
    <3>6. PICK h \in BOOLEAN : h = (c.hold /\ r.st # "off" /\ "bit" \in Stretches)
      OBVIOUS
    <3>7. Fallen(w, c) = Stretched(r, h)
      BY <2>5, <3>3, <3>4, <3>6 DEF Fallen, Stretched
    <3> HIDE DEF r
    <3>8. QED
      BY <2>1, <3>5, <3>7
  <2>6. CASE ~ w.ack /\ w.st \notin {"send", "next"}
    <3>1. PICK h \in BOOLEAN : h = (c.hold /\ w.st # "off" /\ "bit" \in Stretches)
      OBVIOUS
    <3>2. Fallen(w, c) = Stretched(w, h)
      BY <1>3, <2>6, <3>1 DEF Fallen, Stretched, Listening
    <3>3. QED
      BY <1>1, <2>1, <3>2
  <2>7. QED
    BY <1>3, <2>2, <2>3, <2>4, <2>5, <2>6
<1>4. QED
  BY <1>2, <1>3

LEMMA SdaKeeps ==
  ASSUME NEW w \in Wires, NEW v \in Bit
  PROVE  LET y == SetSda(w, v) IN
         /\ y \in Wires /\ y.scl = w.scl /\ y.sda = v /\ y.low = w.low /\ y.hold = w.hold /\ Kept(y, w)
         /\ SCL(w) = 0 => y = Set(w, v)
<1>1. PICK n \in Wires : /\ n = Set(w, v) /\ n.scl = w.scl /\ n.sda = v /\ n.low = w.low /\ n.hold = w.hold
                         /\ Kept(n, w)
  BY SetIs
<1>2. LET y == Started(n) IN
      y \in Wires /\ y.scl = w.scl /\ y.sda = v /\ y.low = w.low /\ y.hold = w.hold /\ Kept(y, w)
  BY <1>1, EmptyBits DEF Started, Wires, States, Kept
<1>3. LET y == Stopped(n) IN
      y \in Wires /\ y.scl = w.scl /\ y.sda = v /\ y.low = w.low /\ y.hold = w.hold /\ Kept(y, w)
  BY <1>1, StoppedIs DEF Kept
<1>4. \/ SetSda(w, v) = n
      \/ SetSda(w, v) = Started(n) /\ SCL(w) # 0
      \/ SetSda(w, v) = Stopped(n) /\ SCL(w) # 0
  BY <1>1 DEF SetSda, Set
<1>5. QED
  BY <1>1, <1>2, <1>3, <1>4

\* SCL rises.
Rising(w) == [w EXCEPT !.scl = 1]

LEMMA SclRises ==
  ASSUME NEW w \in Wires, NEW c
  PROVE  LET y == SetScl(w, 1, c) IN
         /\ y.scl = 1 /\ y.sda = w.sda /\ y.low = w.low /\ y.hold = w.hold /\ Kept(y, w)
         /\ w.scl = 1 => y = w
         /\ w.st = "off" => y = Rising(w)
<1> DEFINE n == Rising(w)
<1>1. /\ n \in Wires /\ n.scl = 1 /\ n.sda = w.sda /\ n.low = w.low
      /\ n.hold = w.hold /\ n.st = w.st /\ Kept(n, w) /\ (w.scl = 1 => n = w)
  BY DEF Wires, Bit, Kept, Rising
<1>2. SetScl(w, 1, c) = IF w.scl = 1 \/ w.hold THEN n ELSE Risen(n)
  BY DEF SetScl, Rising
<1> HIDE DEF n
<1>3. LET y == Risen(n) IN y.scl = 1 /\ y.sda = w.sda /\ y.low = w.low /\ y.hold = w.hold /\ Kept(y, w)
                           /\ (w.st = "off" => y = n)
  BY <1>1, RisenKeeps DEF Kept
<1>4. QED
  BY <1>1, <1>2, <1>3 DEF n

\* SCL, which was high, falls.
Falling(w) == [w EXCEPT !.scl = 0]

LEMMA SclFalls ==
  ASSUME NEW w, Shaped(w), SCL(w) = 1, NEW c \in Chosen
  PROVE  LET y == SetScl(w, 0, c) IN
         /\ y = Fallen(Falling(w), c) /\ Shaped(y) /\ y.scl = 0
         /\ Formed(Falling(w)) /\ Falling(w).st = w.st /\ Kept(Falling(w), w)
<1>1. w \in Wires /\ w.scl = 1 /\ w.hold = FALSE /\ 0 \in Bit
  BY DEF Shaped, Formed, SCL, Wires, Bit
<1>2. SetScl(w, 0, c) = Fallen(Falling(w), c)
  BY <1>1 DEF SetScl, Falling
<1>3. Formed(Falling(w)) /\ Falling(w).st = w.st /\ Kept(Falling(w), w)
  BY DEF Shaped, Formed, Wires, Bit, Kept, Falling
<1>4. QED
  BY <1>1, <1>2, <1>3, SclShaped

\* A START that is made leaves the device listening for its address.
LEMMA StartIsMade ==
  ASSUME NEW w, Shaped(w), NEW c \in Chosen, High(Prepared(w, c)), NEW x, x = StartDone(w, c)
  PROVE  /\ Low(x) /\ x.st = "address" /\ Len(x.shift) = 0 /\ x.wrote = w.wrote
         /\ w.scl = 0 => Kept(x, w)
<1> DEFINE p == Prepared(w, c)   a == SetSda(p, 0)
<1>1. Shaped(p) /\ p \in Wires /\ SCL(p) = 1 /\ SDA(p) = 1 /\ BITS > 1 /\ BITS \in Nat /\ w \in Wires
      /\ 0 \in Bit /\ 1 \in Bit
  BY PreparedShaped, MasterAssumption DEF High, Shaped, Formed, Bit
<1>2. p.scl = 1 /\ p.sda = 1 /\ p.low = FALSE /\ p.hold = FALSE
  BY <1>1 DEF SCL, SDA, Wires
<1>3. x = SetScl(a, 0, c)
  BY DEF StartDone
<1>4. Kept(p, w) \/ w.scl = 1
  <2>1. CASE SCL(w) = 1
    BY <2>1 DEF SCL
  <2>2. CASE SCL(w) # 1
    <3>1. p = SetScl(SetSda(w, 1), 1, c)
      BY <2>2 DEF Prepared
    <3>2. QED
      BY <1>1, <3>1, SdaKeeps, SclRises DEF Kept
  <2>3. QED
    BY <2>1, <2>2
<1>5. p.wrote = w.wrote
  <2>1. CASE SCL(w) = 1 /\ SDA(w) = 0
    <3> DEFINE f == SetScl(w, 0, c)
    <3>1. Shaped(f) /\ (f.wrote = w.wrote \/ f.low)
      BY <1>1, <2>1, SclFalls, FallenWrites DEF Kept
    <3>2. p = SetScl(SetSda(f, 1), 1, c)
      BY <2>1 DEF Prepared
    <3> HIDE DEF f
    <3>3. p.low = f.low /\ p.wrote = f.wrote
      BY <1>1, <3>1, <3>2, SdaKeeps, SclRises DEF Kept, Shaped, Formed
    <3>4. QED
      BY <1>2, <3>1, <3>3
  <2>2. CASE SCL(w) = 1 /\ SDA(w) # 0
    <3>1. p = w
      BY <2>2 DEF Prepared
    <3>2. QED
      BY <3>1
  <2>3. CASE SCL(w) # 1
    <3>1. w.scl = 0 \/ (w.scl = 1 /\ w.hold)
      BY <1>1, <2>3 DEF SCL, Wires, Bit
    <3>2. p = SetScl(SetSda(w, 1), 1, c)
      BY <2>3 DEF Prepared
    <3>3. QED
      BY <1>1, <3>2, SdaKeeps, SclRises DEF Kept
  <2>4. QED
    BY <2>1, <2>2, <2>3
<1> HIDE DEF p
<1>6. a = Started([p EXCEPT !.sda = 0])
  BY <1>1, <1>2 DEF SetSda
<1>7. Shaped(a) /\ SCL(a) = 1 /\ a.st = "address" /\ a.ack = FALSE /\ a.low = FALSE /\ a.shift = <<>> /\ Kept(a, p)
  <2>1. Shaped(a)
    BY <1>1, SdaShaped
  <2>2. a.scl = 1 /\ a.hold = FALSE /\ a.low = FALSE /\ Kept(a, p)
    BY <1>1, <1>2, SdaKeeps
  <2>3. a.st = "address" /\ a.ack = FALSE /\ a.shift = <<>>
    BY <1>1, <1>6 DEF Started, Wires
  <2>4. QED
    BY <2>1, <2>2, <2>3 DEF SCL
<1> HIDE DEF a
<1>8. PICK y \in Wires : y = Falling(a)
  BY <1>7 DEF Falling, Shaped, Formed, Wires, Bit
<1>9. y.st = "address" /\ y.ack = FALSE /\ y.low = FALSE /\ y.shift = <<>> /\ y.scl = 0 /\ Kept(y, p)
  BY <1>7, <1>8 DEF Falling, Shaped, Formed, Wires, Kept
<1>10. x = Fallen(y, c) /\ Len(y.shift) = 0 /\ Len(y.shift) # BITS
  BY <1>1, <1>3, <1>7, <1>8, <1>9, SclFalls
<1>11. PICK h \in BOOLEAN : x = Stretched(y, h)
  BY <1>9, <1>10, FallenListening DEF Listening
<1>12. QED
  BY <1>4, <1>5, <1>9, <1>10, <1>11, StretchedIs DEF Low, Kept

\* A STOP that is seen to have been made has had no byte acknowledged on its way.
LEMMA StopWritesNothing ==
  ASSUME NEW w, Shaped(w), NEW c \in Chosen, StopOk(w, c)
  PROVE  StopDone(w, c).wrote = w.wrote
<1> DEFINE p == Lowered(w, c)   q == StopDone(w, c)
<1>1. Shaped(p) /\ p \in Wires /\ w \in Wires /\ 0 \in Bit /\ 1 \in Bit
  BY LoweredShaped DEF Shaped, Formed, Bit
<1>2. SDA(q) = 1
  BY DEF StopOk, High
<1>3. q.low = p.low /\ q.wrote = p.wrote
  <2>1. q = SetSda(p, 1) \/ q = p
    BY DEF StopDone
  <2>2. QED
    BY <1>1, <2>1, SdaKeeps DEF Kept
<1>4. ~ p.low
  BY <1>2, <1>3 DEF SDA
<1>5. p.wrote = w.wrote
  <2>1. CASE SCL(w) = 0
    <3>1. p = SetScl(w, 1, c) \/ p = SetScl(SetSda(w, 0), 1, c)
      BY <2>1 DEF Lowered
    <3>2. QED
      BY <1>1, <3>1, SdaKeeps, SclRises DEF Kept
  <2>2. CASE SCL(w) # 0 /\ SDA(w) = 1
    <3> DEFINE f == SetScl(w, 0, c)
    <3>1. Shaped(f) /\ (f.wrote = w.wrote \/ f.low)
      <4>1. SCL(w) = 1
        BY <2>2, Levels DEF Bit
      <4>2. QED
        BY <4>1, SclFalls, FallenWrites DEF Kept
    <3>2. p = SetScl(SetSda(f, 0), 1, c)
      BY <2>2 DEF Lowered
    <3> HIDE DEF f
    <3>3. p.low = f.low /\ p.wrote = f.wrote
      BY <1>1, <3>1, <3>2, SdaKeeps, SclRises DEF Kept, Shaped, Formed
    <3>4. QED
      BY <1>4, <3>1, <3>3
  <2>3. CASE SCL(w) # 0 /\ SDA(w) # 1
    <3>1. p = w
      BY <2>3 DEF Lowered
    <3>2. QED
      BY <3>1
  <2>4. QED
    BY <2>1, <2>2, <2>3
<1>6. QED
  BY <1>3, <1>5

\* A falling edge leaves a device alone that has dropped out.
LEMMA OffFalls ==
  ASSUME NEW w \in Wires, w.st = "off", ~ w.ack, NEW c \in Chosen
  PROVE  Fallen(w, c) = Stretched(w, FALSE)
<1>1. PICK h \in BOOLEAN : h = (c.hold /\ w.st # "off" /\ "bit" \in Stretches)
  OBVIOUS
<1>2. h = FALSE
  BY <1>1
<1>3. Fallen(w, c) = Stretched(w, h)
  BY <1>1 DEF Fallen, Stretched
<1>4. QED
  BY <1>2, <1>3

\* So does a STOP.
LEMMA StopOffKeeps ==
  ASSUME NEW w, Shaped(w), w.st = "off", NEW c \in Chosen
  PROVE  Kept(StopDone(w, c), w)
<1> DEFINE p == Lowered(w, c)   q == StopDone(w, c)
<1>1. Shaped(p) /\ p \in Wires /\ w \in Wires /\ 0 \in Bit /\ 1 \in Bit /\ ~ w.ack
  BY LoweredShaped DEF Shaped, Formed, Bit
<1>2. Kept(q, p)
  <2>1. q = SetSda(p, 1) \/ q = p
    BY DEF StopDone
  <2>2. QED
    BY <1>1, <2>1, SdaKeeps DEF Kept
<1>3. Kept(p, w)
  <2>1. CASE SCL(w) = 0
    <3>1. p = SetScl(w, 1, c) \/ p = SetScl(SetSda(w, 0), 1, c)
      BY <2>1 DEF Lowered
    <3>2. QED
      BY <1>1, <3>1, SdaKeeps, SclRises DEF Kept
  <2>2. CASE SCL(w) # 0 /\ SDA(w) = 1
    <3> DEFINE f == SetScl(w, 0, c)   u == Falling(w)
    <3>1. SCL(w) = 1
      BY <2>2, Levels DEF Bit
    <3>2. f = Fallen(u, c) /\ Shaped(f) /\ u \in Wires /\ u.st = "off" /\ ~ u.ack /\ Kept(u, w)
      <4>1. u.ack = w.ack
        BY <1>1 DEF Falling, Wires
      <4>2. QED
        BY <1>1, <3>1, <4>1, SclFalls DEF Formed
    <3> HIDE DEF u
    <3>3. PICK h \in BOOLEAN : f = Stretched(u, h)
      BY <3>2, OffFalls
    <3>4. p = SetScl(SetSda(f, 0), 1, c)
      BY <2>2 DEF Lowered
    <3> HIDE DEF f
    <3>5. Kept(f, w)
      BY <3>2, <3>3, StretchedIs DEF Kept
    <3>6. QED
      BY <1>1, <3>2, <3>4, <3>5, SdaKeeps, SclRises DEF Kept, Shaped, Formed
  <2>3. CASE SCL(w) # 0 /\ SDA(w) # 1
    <3>1. p = w
      BY <2>3 DEF Lowered
    <3>2. QED
      BY <3>1 DEF Kept
  <2>4. QED
    BY <2>1, <2>2, <2>3
<1>4. QED
  BY <1>2, <1>3 DEF Kept

\* The STOP behind a refused offset brings both lines up.
LEMMA DroppedStop ==
  ASSUME NEW w, Shaped(w), Dropped(w), w.sda = 1, NEW c \in Chosen, NEW x, x = StopDone(w, c)
  PROVE  High(x) /\ x.st = "off" /\ Kept(x, w)
<1>1. w \in Wires /\ w.scl = 0 /\ ~ w.low /\ w.hold = FALSE /\ w.st = "off" /\ 0 \in Bit /\ 1 \in Bit
  BY DEF Shaped, Formed, Wires, Dropped, Low, Bit
<1>2. SCL(w) = 0 /\ SDA(w) = 1
  BY <1>1 DEF SCL, SDA
<1> DEFINE s == SetSda(w, 0)   p == SetScl(s, 1, c)
<1>3. s = Set(w, 0) /\ s \in Wires /\ s.hold = FALSE /\ s.st = "off" /\ s.low = w.low /\ s.sda = 0
  BY <1>1, <1>2, SdaKeeps, SetIs
<1> HIDE DEF s
<1>4. p = Rising(s) /\ p.scl = 1 /\ p.sda = 0 /\ ~ p.low /\ p.hold = FALSE
  BY <1>1, <1>3, SclRises
<1>5. p \in Wires
  BY <1>3, <1>4 DEF Rising, Wires, Bit
<1>6. Lowered(w, c) = p
  BY <1>2 DEF Lowered, s
<1> HIDE DEF p
<1>7. x = SetSda(p, 1) /\ x = Stopped([p EXCEPT !.sda = 1])
  BY <1>4, <1>6 DEF StopDone, SetSda, SCL, SDA
<1>8. x.scl = 1 /\ x.sda = 1 /\ ~ x.low /\ x.hold = FALSE
  BY <1>1, <1>4, <1>5, <1>7, SdaKeeps
<1>9. x.st = "off"
  BY <1>5, <1>7 DEF Stopped, Wires
<1>10. QED
  BY <1>1, <1>8, <1>9, StopOffKeeps DEF High, SCL, SDA

----------------------------------------------------------------------------
(* Out of step: the bits behind a refused offset.                          *)

Astray(w, m) ==
  IF m = 0 THEN High(w) /\ w.st = "off"
  ELSE Low(w) /\ (w.st = "off" \/ (w.st = "address" /\ Len(w.shift) = m - 1))

LEMMA AstrayNext ==
  ASSUME NEW w, Shaped(w), ~ w.hold, NEW m \in 0..BITS - 1, Astray(w, m), NEW v \in Bit,
         NEW c \in Chosen
  PROVE  Astray(WRITE_BIT(w, v, c), m + 1)
<1> DEFINE x == WRITE_BIT(w, v, c)
<1>1. w \in Wires /\ m \in Nat /\ BITS \in Nat /\ BITS > 1 /\ m + 1 # 0 /\ m + 1 - 1 = m /\ w.hold = FALSE
      /\ 0 \in Bit /\ 1 \in Bit
  BY MasterAssumption DEF Shaped, Formed, Wires, Bit
<1>2. SUFFICES Low(x) /\ (x.st = "off" \/ (x.st = "address" /\ Len(x.shift) = m))
  BY <1>1 DEF Astray
<1>3. CASE m = 0
  <2>1. w.scl = 1 /\ w.sda = 1 /\ w.low = FALSE /\ w.st = "off" /\ SCL(w) = 1 /\ ~ w.ack
    BY <1>1, <1>3 DEF Astray, High, SCL, SDA, Wires, Shaped, Formed
  <2> DEFINE s == SetSda(w, v)
  <2>2. Shaped(s) /\ s \in Wires /\ s.scl = 1 /\ s.hold = FALSE /\ s.low = FALSE /\ s.ack = FALSE
    <3>1. Shaped(s) /\ s \in Wires /\ s.scl = 1 /\ s.hold = FALSE /\ s.low = FALSE
      BY <1>1, <2>1, SdaShaped, SdaKeeps
    <3>2. s = [w EXCEPT !.sda = v] \/ s = Started([w EXCEPT !.sda = v])
          \/ s = Stopped([w EXCEPT !.sda = v])
      BY DEF SetSda
    <3> HIDE DEF s
    <3>3. ASSUME s = [w EXCEPT !.sda = v] PROVE s.ack = FALSE
      BY <1>1, <2>1, <3>3 DEF Wires
    <3>4. ASSUME s = Started([w EXCEPT !.sda = v]) PROVE s.ack = FALSE
      BY <1>1, <3>4 DEF Started, Wires
    <3>5. ASSUME s = Stopped([w EXCEPT !.sda = v]) PROVE s.ack = FALSE
      BY <1>1, <3>5 DEF Stopped, Wires
    <3>6. QED
      BY <3>1, <3>2, <3>3, <3>4, <3>5
  <2>3. s.st = "off" \/ (s.st = "address" /\ s.shift = <<>>)
    <3>1. CASE v = 1
      <4>1. s = [w EXCEPT !.sda = v]
        BY <2>1, <3>1 DEF SetSda
      <4>2. QED
        BY <1>1, <2>1, <4>1 DEF Wires
    <3>2. CASE v = 0
      <4>1. s = Started([w EXCEPT !.sda = v])
        BY <2>1, <3>2 DEF SetSda
      <4>2. QED
        BY <1>1, <4>1 DEF Started, Wires
    <3>3. QED
      BY <3>1, <3>2 DEF Bit
  <2>4. x = SetScl(SetScl(s, 1, c), 0, c)
    BY DEF WRITE_BIT, Up
  <2> HIDE DEF s
  <2>5. SetScl(s, 1, c) = s /\ SCL(s) = 1
    BY <2>2, SclRises DEF SCL
  <2>6. PICK u \in Wires : u = Falling(s)
    BY <2>2 DEF Falling, Wires, Bit
  <2>7. u.scl = 0 /\ u.low = FALSE /\ u.ack = FALSE /\ u.st = s.st /\ u.shift = s.shift
    BY <2>2, <2>6 DEF Falling, Wires
  <2>8. x = Fallen(u, c)
    BY <2>2, <2>4, <2>5, <2>6, SclFalls
  <2>9. CASE s.st = "off"
    <3>1. PICK h \in BOOLEAN : x = Stretched(u, h)
      BY <2>7, <2>8, <2>9, OffFalls
    <3>2. QED
      BY <2>7, <2>9, <3>1, StretchedIs DEF Low
  <2>10. CASE s.st = "address" /\ s.shift = <<>>
    <3>1. Len(u.shift) = 0 /\ Len(u.shift) # BITS
      BY <1>1, <2>7, <2>10
    <3>2. PICK h \in BOOLEAN : x = Stretched(u, h)
      BY <2>7, <2>8, <2>10, <3>1, FallenListening DEF Listening
    <3>3. QED
      BY <1>3, <2>7, <2>10, <3>1, <3>2, StretchedIs DEF Low
  <2>11. QED
    BY <2>3, <2>9, <2>10
<1>4. CASE m # 0 /\ w.st = "off"
  <2>1. Dropped(w)
    BY <1>1, <1>4 DEF Astray, Dropped
  <2>2. Dropped(x)
    BY <2>1, DroppedClocked
  <2>3. QED
    BY <2>2 DEF Dropped
<1>5. CASE m # 0 /\ w.st = "address"
  <2>1. Low(w) /\ Len(w.shift) = m - 1
    BY <1>5 DEF Astray
  <2>2. PICK y \in Wires : y = Heard(w, v)
    BY <1>1, HeardIs
  <2>3. y.st = "address" /\ y.scl = 0 /\ y.ack = FALSE /\ y.low = FALSE /\ Len(y.shift) = m
    BY <1>1, <1>5, <2>1, <2>2, HeardIs DEF Low, Wires
  <2>4. x = Fallen(y, c) /\ Len(y.shift) # BITS
    BY <1>1, <1>5, <2>1, <2>2, <2>3, BitHeard DEF Listening
  <2>5. PICK h \in BOOLEAN : x = Stretched(y, h)
    BY <2>3, <2>4, FallenListening DEF Listening
  <2>6. QED
    BY <2>3, <2>5, StretchedIs DEF Low
<1>6. QED
  BY <1>3, <1>4, <1>5 DEF Astray

\* Such bits are not acknowledged.
LEMMA AstrayRefused ==
  ASSUME NEW w, Shaped(w), ~ w.hold, Astray(w, BITS), NEW c \in Chosen
  PROVE  readBit(w, c) = 1
<1>1. Low(w) /\ 1 \in Bit
  BY MasterAssumption DEF Astray, Bit
<1>2. CASE w.st = "off"
  BY <1>1, <1>2, DroppedClocked DEF Dropped, readBit
<1>3. CASE w.st = "address"
  BY <1>1, <1>3, BitHeard DEF readBit, Listening
<1>4. QED
  BY <1>2, <1>3, MasterAssumption DEF Astray

----------------------------------------------------------------------------
(* The inductive invariant: where the device is, for each place of the     *)
(* master.  It rests on ret not being "OK" before the end (OkFree).        *)

AskedOff == IF call.addr \in Wide THEN call.off ELSE Tail(call.off)

Wrote(w, m) == Len(w.wrote) = m /\ \A j \in 1..m : w.wrote[j] = Asked[j]
Served(w, m) == Len(w.served) = m /\ \A j \in 1..m : w.served[j] = Got[j]

\* The device shifts in what the master sends, and at the end of the byte has taken it
\* or has dropped out.
InStep(st, next) ==
  IF k < BITS THEN Hears(wire, st, k, Outgoing) ELSE Dropped(wire) \/ Took(wire, next)

Pointed == wire.off = AskedOff /\ wire.n = 0

AtAddress ==
  InStep("address", "offset") /\ (Took(wire, "offset") => call.addr = Dev /\ wire.part = <<>>)
AtHigh ==
  /\ call.addr = Dev /\ call.addr \in Wide /\ InStep("offset", "offset")
  /\ wire.part = IF k < BITS \/ Dropped(wire) THEN <<>> ELSE <<call.off[1]>>
AtLow ==
  /\ call.addr = Dev /\ InStep("offset", "data")
  /\ IF k < BITS THEN wire.part = IF call.addr \in Wide THEN <<call.off[1]>> ELSE <<>>
     ELSE Dropped(wire) \/ Pointed
AtAgain ==
  /\ InStep("address", "send")
  /\ refused \/ (Pointed /\ (k = BITS => Dropped(wire) \/ wire.served = <<>>))
AtData ==
  /\ InStep("data", "data") /\ wire.off = AskedOff
  /\ IF k = BITS /\ ~ Dropped(wire) THEN Wrote(wire, i + 1) /\ wire.n = i + 1
     ELSE Wrote(wire, i) /\ wire.n = i
AtReceive ==
  /\ i < LEN /\ wire.off = AskedOff /\ wire.n = i + 1
  /\ Len(wire.served) = i + 1 /\ \A j \in 1..i : wire.served[j] = Got[j]
  /\ \E byte \in Byte :
       /\ wire.served[i + 1] = <<AskedOff, i, byte>>
       /\ \A j \in 1..k : value[j] = byte[j]
       /\ IF k < BITS THEN Sends(wire, k, byte) ELSE Low(wire) /\ wire.st = "asked"

Readable == InCall /\ call.op = "read" => LEN \in 1..WIDTH

Stage ==
  /\ pc \in {"start", "address", "high", "low"} => ~ refused
  /\ pc \in {"start", "address", "high", "low", "refused"} => wire.wrote = <<>>
  /\ pc = "address" => AtAddress
  /\ pc = "high" => AtHigh
  /\ pc = "low" => AtLow
  /\ pc = "refused" => refused /\ Dropped(wire) /\ wire.sda = 1
  /\ pc = "restart" => refused \/ (Low(wire) /\ wire.st = "data" /\ Pointed)
  /\ pc = "again" => AtAgain
  /\ pc = "data" => IF refused THEN Astray(wire, k) ELSE AtData
  /\ pc = "receive" => refused \/ AtReceive
  /\ pc = "stop" => IF call.op = "write" THEN Wrote(wire, LEN)
                    ELSE refused \/ (wire.st = "off" /\ Served(wire, LEN))

Ended ==
  ret = "OK" => IF call.op = "write" THEN Wrote(wire, LEN) ELSE refused \/ Served(wire, LEN)

DoneInv == MasterInv /\ OkFree /\ Readable /\ Stage /\ Ended

----------------------------------------------------------------------------
LEMMA OffsetIs ==
  ASSUME NEW off \in Byte \X Byte
  PROVE  /\ Append(<<off[1]>>, off[2]) = off /\ Len(off) = 2
         /\ Append(<<>>, off[2]) = Tail(off) /\ Len(Append(<<>>, off[2])) = 1
         /\ Append(<<>>, off[1]) = <<off[1]>> /\ Len(Append(<<>>, off[1])) = 1
<1>1. PICK a \in Byte, b \in Byte : off = <<a, b>>
  OBVIOUS
<1>2. Append(<<a>>, b) = <<a, b>> /\ Len(<<a, b>>) = 2
  <2>1. <<a, b>> \in Seq(Byte) /\ Len(<<a, b>>) = 2 /\ <<a>> \in Seq(Byte) /\ Len(<<a>>) = 1
    OBVIOUS
  <2>2. Append(<<a>>, b) \in Seq(Byte) /\ Len(Append(<<a>>, b)) = 2
    BY <2>1
  <2>3. Append(<<a>>, b)[1] = a /\ Append(<<a>>, b)[2] = b
    BY <2>1
  <2>4. \A j \in 1..2 : Append(<<a>>, b)[j] = <<a, b>>[j]
    BY <2>3
  <2>5. QED
    BY <2>1, <2>2, <2>4, SeqEqual
<1>3. Append(<<>>, b) = <<b>> /\ Len(<<b>>) = 1 /\ Append(<<>>, a) = <<a>> /\ Len(<<a>>) = 1
  OBVIOUS
<1>4. Tail(<<a, b>>) = <<b>>
  OBVIOUS
<1>5. QED
  BY <1>1, <1>2, <1>3, <1>4

\* The byte that addresses the device: its address, and whether it will be read.
LEMMA AddressByte ==
  ASSUME NEW a \in Address, NEW v \in Bit
  PROVE  Append(a, v)[BITS] = v /\ Front(Append(a, v)) = a
<1>1. BITS \in Nat /\ BITS > 1 /\ a \in Seq(Bit) /\ Len(a) = BITS - 1
  <2>1. BITS \in Nat /\ BITS > 1
    BY MasterAssumption
  <2>2. QED
    BY <2>1 DEF Address, Bit
<1>2. PICK s \in Seq(Bit) : s = Append(a, v)
  <2>1. Append(a, v) \in Seq(Bit)
    BY <1>1
  <2>2. QED
    BY <2>1
<1>3. Len(s) = BITS /\ s[BITS] = v /\ \A j \in 1..BITS - 1 : s[j] = a[j]
  BY <1>1, <1>2
<1>4. Front(s) = a
  <2>1. Front(s) = SubSeq(s, 1, BITS - 1)
    BY <1>1, <1>3 DEF Front
  <2>2. SubSeq(s, 1, BITS - 1) \in Seq(Bit) /\ Len(SubSeq(s, 1, BITS - 1)) = BITS - 1
        /\ \A j \in 1..BITS - 1 : SubSeq(s, 1, BITS - 1)[j] = s[j]
    BY <1>1, <1>3, SubSeqProperties
  <2>3. QED
    BY <1>1, <1>3, <2>1, <2>2, SeqEqual
<1>5. QED
  BY <1>2, <1>3, <1>4

LEMMA Fits ==
  /\ \A n \in 0..WIDTH : Further(n) = n + 1
  /\ \A s : Len(s) \in 0..WIDTH => AtMost(s) = s
BY MasterAssumption DEF Further, AtMost

\* The bits of the byte that is sent, and what its last one makes of the device.
LEMMA NextBit ==
  ASSUME MasterInv, SendBit, NEW st \in Listening, Hears(wire, st, k, Outgoing)
  PROVE  /\ Outgoing' = Outgoing /\ Outgoing \in Byte
         /\ k' < BITS => Hears(wire', st, k', Outgoing) /\ Kept(wire', wire)
         /\ k' = BITS =>
              \/ Dropped(wire') /\ Kept(wire', wire)
              \/ \E y \in Wires, h \in BOOLEAN :
                    /\ wire' = Stretched(Taken(y), h)
                    /\ y.shift = Outgoing /\ y.st = st /\ y.scl = 0 /\ Kept(y, wire)
                    /\ st = "address" => Front(Outgoing) = Dev
<1>1. Outgoing \in Byte /\ Outgoing' = Outgoing /\ Shaped(wire) /\ ~ wire.hold
  BY OutgoingIs DEF MasterInv, SendBit, Outgoing, Sending
<1>2. k \in 0..BITS - 1 /\ k' = k + 1
  BY MasterAssumption DEF SendBit, MasterInv, Typed
<1>3. PICK c \in Chosen : wire' = WRITE_BIT(wire, Outgoing[k + 1], c)
  BY AnswersAre DEF SendBit
<1>4. QED
  BY <1>1, <1>2, <1>3, HearsNext

LEMMA AddressBit ==
  ASSUME DoneInv, SendBit, pc = "address", AskedOff' = AskedOff, k \in Nat, k' = k + 1, k' <= BITS
  PROVE  AtAddress' /\ wire'.wrote = wire.wrote
<1>1. call' = call /\ pc' = pc /\ BITS \in Nat /\ call.addr \in Address
  BY RequestIs, MasterAssumption DEF SendBit, DoneInv, MasterInv, Called, InCall
<1>2. Hears(wire, "address", k, Outgoing)
  BY <1>1 DEF DoneInv, Stage, AtAddress, InStep
<1>3. /\ Outgoing' = Outgoing /\ Outgoing \in Byte
      /\ k' < BITS => Hears(wire', "address", k', Outgoing) /\ Kept(wire', wire)
      /\ k' = BITS =>
           \/ Dropped(wire') /\ Kept(wire', wire)
           \/ \E y \in Wires, h \in BOOLEAN :
                 /\ wire' = Stretched(Taken(y), h)
                 /\ y.shift = Outgoing /\ y.st = "address" /\ y.scl = 0 /\ Kept(y, wire)
                 /\ Front(Outgoing) = Dev
  BY <1>2, NextBit DEF DoneInv, Listening
<1>4. CASE k' < BITS
  <2>1. InStep("address", "offset")'
    BY <1>3, <1>4 DEF InStep
  <2>2. ~ Took(wire, "offset")'
    BY <1>3, <1>4 DEF Hears, Low, Took
  <2>3. QED
    BY <1>3, <1>4, <2>1, <2>2 DEF AtAddress, Kept
<1>5. CASE k' = BITS /\ Dropped(wire') /\ Kept(wire', wire)
  BY <1>5 DEF AtAddress, InStep, Dropped, Low, Took, Kept
<1>6. ASSUME k' = BITS, NEW y \in Wires, NEW h \in BOOLEAN, wire' = Stretched(Taken(y), h),
             y.shift = Outgoing, y.st = "address", y.scl = 0, Kept(y, wire), Front(Outgoing) = Dev
      PROVE  AtAddress' /\ wire'.wrote = wire.wrote
  <2>1. Outgoing = Append(call.addr, 0)
    BY DEF Outgoing
  <2>2. Outgoing[BITS] = 0 /\ Front(Outgoing) = call.addr
    BY <1>1, <2>1, AddressByte DEF Bit
  <2>3. Took(wire', "offset") /\ wire'.part = <<>> /\ wire'.wrote = wire.wrote
    BY <1>3, <1>6, <2>2, AddressTaken DEF Kept
  <2>4. QED
    BY <1>1, <1>6, <2>2, <2>3 DEF AtAddress, InStep
<1>7. QED
  BY <1>1, <1>3, <1>4, <1>5, <1>6

LEMMA AgainBit ==
  ASSUME DoneInv, SendBit, pc = "again", AskedOff' = AskedOff, k \in Nat, k' = k + 1,
         k' <= BITS
  PROVE  AtAgain'
<1>1. call' = call /\ refused' = refused /\ pc' = pc /\ BITS \in Nat /\ call.addr \in Address
  BY RequestIs, MasterAssumption DEF SendBit, DoneInv, MasterInv, Called, InCall
<1>2. Hears(wire, "address", k, Outgoing) /\ (refused \/ (wire.off = AskedOff /\ wire.n = 0))
  BY <1>1 DEF DoneInv, Stage, AtAgain, InStep, Pointed
<1>3. /\ Outgoing' = Outgoing /\ Outgoing \in Byte
      /\ k' < BITS => Hears(wire', "address", k', Outgoing) /\ Kept(wire', wire)
      /\ k' = BITS =>
           \/ Dropped(wire') /\ Kept(wire', wire)
           \/ \E y \in Wires, h \in BOOLEAN :
                 /\ wire' = Stretched(Taken(y), h)
                 /\ y.shift = Outgoing /\ y.st = "address" /\ y.scl = 0 /\ Kept(y, wire)
  BY <1>2, NextBit DEF DoneInv, Listening
<1>4. CASE k' < BITS
  BY <1>1, <1>2, <1>3, <1>4 DEF AtAgain, InStep, Pointed, Kept
<1>5. CASE k' = BITS /\ Dropped(wire') /\ Kept(wire', wire)
  BY <1>1, <1>2, <1>5 DEF AtAgain, InStep, Pointed, Kept
<1>6. ASSUME k' = BITS, NEW y \in Wires, NEW h \in BOOLEAN, wire' = Stretched(Taken(y), h),
             y.shift = Outgoing, y.st = "address", y.scl = 0, Kept(y, wire)
      PROVE  AtAgain'
  <2>1. Outgoing = Append(call.addr, 1)
    BY DEF Outgoing
  <2>2. Outgoing[BITS] = 1
    BY <1>1, <2>1, AddressByte DEF Bit
  <2>3. Took(wire', "send") /\ wire'.served = <<>> /\ wire'.off = wire.off /\ wire'.n = wire.n
    BY <1>3, <1>6, <2>2, AddressTaken DEF Kept
  <2>4. QED
    BY <1>1, <1>2, <1>6, <2>3 DEF AtAgain, InStep, Pointed
<1>7. QED
  BY <1>1, <1>3, <1>4, <1>5, <1>6

LEMMA OffsetBit ==
  ASSUME DoneInv, SendBit, pc \in {"high", "low"}, AskedOff' = AskedOff, k \in Nat, k' = k + 1,
         k' <= BITS
  PROVE  /\ pc = "high" => AtHigh'
         /\ pc = "low" => AtLow'
         /\ wire'.wrote = wire.wrote
<1>1. call' = call /\ pc' = pc /\ BITS \in Nat /\ call.off \in Byte \X Byte
  BY RequestIs, MasterAssumption DEF SendBit, DoneInv, MasterInv, Called, InCall
<1>2. /\ Hears(wire, "offset", k, Outgoing) /\ call.addr = Dev
      /\ pc = "high" => call.addr \in Wide
      /\ wire.part = IF pc = "low" /\ call.addr \in Wide THEN <<call.off[1]>> ELSE <<>>
  BY <1>1 DEF DoneInv, Stage, AtHigh, AtLow, InStep
<1>3. /\ Outgoing' = Outgoing /\ Outgoing \in Byte
      /\ k' < BITS => Hears(wire', "offset", k', Outgoing) /\ Kept(wire', wire)
      /\ k' = BITS =>
           \/ Dropped(wire') /\ Kept(wire', wire)
           \/ \E y \in Wires, h \in BOOLEAN :
                 /\ wire' = Stretched(Taken(y), h)
                 /\ y.shift = Outgoing /\ y.st = "offset" /\ y.scl = 0 /\ Kept(y, wire)
  BY <1>2, NextBit DEF DoneInv, Listening
<1>4. CASE k' < BITS
  BY <1>1, <1>2, <1>3, <1>4 DEF AtHigh, AtLow, InStep, Kept
<1>5. CASE k' = BITS /\ Dropped(wire') /\ Kept(wire', wire)
  BY <1>1, <1>2, <1>5 DEF AtHigh, AtLow, InStep, Kept
<1>6. ASSUME k' = BITS, NEW y \in Wires, NEW h \in BOOLEAN, wire' = Stretched(Taken(y), h),
             y.shift = Outgoing, y.st = "offset", y.scl = 0, Kept(y, wire)
      PROVE  /\ pc = "high" => AtHigh'
             /\ pc = "low" => AtLow'
             /\ wire'.wrote = wire.wrote
  <2>1. PICK part : part = Append(wire.part, Outgoing)
    OBVIOUS
  <2>2. /\ wire'.wrote = wire.wrote
        /\ IF Len(part) = OffsetBytes
           THEN Took(wire', "data") /\ wire'.off = part /\ wire'.n = 0 /\ wire'.part = <<>>
           ELSE Took(wire', "offset") /\ wire'.part = part
    <3>1. part = Append(y.part, Outgoing) /\ y.wrote = wire.wrote
      BY <1>6, <2>1 DEF Kept
    <3>2. QED
      BY <1>3, <1>6, <3>1, OffsetTaken
  <2>3. CASE pc = "high"
    <3>1. part = <<call.off[1]>> /\ Len(part) = 1 /\ OffsetBytes = 2
      BY <1>1, <1>2, <2>1, <2>3, OffsetIs DEF Outgoing, OffsetBytes
    <3>2. Took(wire', "offset") /\ wire'.part = <<call.off[1]>> /\ ~ Dropped(wire')
      BY <2>2, <3>1 DEF Took, Dropped, Low
    <3>3. QED
      BY <1>1, <1>2, <1>6, <2>2, <2>3, <3>2 DEF AtHigh, InStep
  <2>4. CASE pc = "low"
    <3>1. part = AskedOff /\ Len(part) = OffsetBytes
      BY <1>1, <1>2, <2>1, <2>4, OffsetIs DEF Outgoing, OffsetBytes, AskedOff
    <3>2. Took(wire', "data") /\ wire'.off = AskedOff /\ wire'.n = 0
      BY <2>2, <3>1
    <3>3. QED
      BY <1>1, <1>2, <1>6, <2>2, <2>4, <3>2 DEF AtLow, InStep, Pointed
  <2>5. QED
    BY <2>3, <2>4
<1>7. QED
  BY <1>1, <1>3, <1>4, <1>5, <1>6 DEF Kept, Hears

LEMMA DataBit ==
  ASSUME DoneInv, SendBit, pc = "data", ~ refused, AskedOff' = AskedOff, Asked' = Asked, k \in Nat,
         k' = k + 1, k' <= BITS
  PROVE  AtData'
<1>1. /\ call' = call /\ pc' = pc /\ i' = i /\ BITS \in Nat /\ i \in Nat /\ LEN \in Nat /\ i < LEN
      /\ LEN < WIDTH /\ WIDTH \in Nat /\ call.op = "write"
  BY RequestIs, MasterAssumption DEF SendBit, DoneInv, MasterInv, Called, Typed, InCall
<1>2. Hears(wire, "data", k, Outgoing) /\ wire.off = AskedOff /\ Wrote(wire, i) /\ wire.n = i
  BY <1>1 DEF DoneInv, Stage, AtData, InStep
<1>3. /\ Outgoing' = Outgoing /\ Outgoing \in Byte
      /\ k' < BITS => Hears(wire', "data", k', Outgoing) /\ Kept(wire', wire)
      /\ k' = BITS =>
           \/ Dropped(wire') /\ Kept(wire', wire)
           \/ \E y \in Wires, h \in BOOLEAN :
                 /\ wire' = Stretched(Taken(y), h)
                 /\ y.shift = Outgoing /\ y.st = "data" /\ y.scl = 0 /\ Kept(y, wire)
  BY <1>2, NextBit DEF DoneInv, Listening
<1>4. ASSUME Kept(wire', wire) PROVE wire'.off = AskedOff /\ Wrote(wire, i)' /\ wire'.n = i
  BY <1>1, <1>2, <1>4 DEF Kept, Wrote
<1>5. CASE k' < BITS
  BY <1>1, <1>3, <1>4, <1>5 DEF AtData, InStep
<1>6. CASE k' = BITS /\ Dropped(wire') /\ Kept(wire', wire)
  BY <1>1, <1>4, <1>6 DEF AtData, InStep
<1>7. ASSUME k' = BITS, NEW y \in Wires, NEW h \in BOOLEAN, wire' = Stretched(Taken(y), h),
             y.shift = Outgoing, y.st = "data", y.scl = 0, Kept(y, wire)
      PROVE  AtData'
  <2>1. Took(wire', "data") /\ wire'.wrote = AtMost(Append(wire.wrote, <<AskedOff, i, Outgoing>>))
        /\ wire'.n = Further(i) /\ wire'.off = AskedOff
    BY <1>2, <1>3, <1>7, DataTaken DEF Kept
  <2>2. Further(i) = i + 1
    BY <1>1, Fits
  <2>3. <<AskedOff, i, Outgoing>> = Asked[i + 1]
    <3>1. i + 1 \in 1..LEN /\ i + 1 - 1 = i
      BY <1>1
    <3>2. Outgoing = call.data[i + 1]
      BY DEF Outgoing
    <3>3. Asked = [j \in 1..LEN |-> <<AskedOff, j - 1, call.data[j]>>]
      BY DEF Asked, AskedOff
    <3>4. \A j \in 1..LEN : Asked[j] = <<AskedOff, j - 1, call.data[j]>>
      BY <3>3
    <3>5. PICK j \in 1..LEN : j = i + 1 /\ j - 1 = i
      BY <1>1
    <3>6. Asked[j] = <<AskedOff, i, call.data[j]>>
      BY <3>4, <3>5
    <3>7. QED
      BY <3>2, <3>5, <3>6
  <2>4. PICK t \in Traces : t = wire.wrote
    BY DEF DoneInv, MasterInv, Shaped, Formed, Wires
  <2>5. Len(t) = i /\ \A j \in 1..i : t[j] = Asked[j]
    BY <1>2, <2>4 DEF Wrote
  <2>6. PICK u : u = Append(t, Asked[i + 1])
    OBVIOUS
  <2>7. Len(u) = i + 1 /\ \A j \in 1..i + 1 : u[j] = Asked[j]
    <3>1. t \in Seq(Seq(Seq(Bit)) \X Nat \X Seq(Bit))
      BY DEF Traces
    <3>2. QED
      BY <1>1, <2>5, <2>6, <3>1
  <2>8. AtMost(u) = u
    BY <1>1, <2>7, Fits
  <2>9. wire'.wrote = u
    BY <2>1, <2>3, <2>4, <2>6, <2>8
  <2>10. Wrote(wire', i + 1) /\ Wrote(wire, i + 1)'
    BY <1>1, <2>7, <2>9 DEF Wrote
  <2>11. ~ Dropped(wire')
    BY <2>1 DEF Took, Dropped, Low
  <2>12. QED
    BY <1>1, <1>7, <2>1, <2>2, <2>10, <2>11 DEF AtData, InStep
<1>8. QED
  BY <1>1, <1>3, <1>5, <1>6, <1>7

LEMMA SendBitStage ==
  ASSUME DoneInv, SendBit
  PROVE  Stage'
<1>1. /\ pc' = pc /\ call' = call /\ i' = i /\ refused' = refused /\ k \in 0..BITS - 1 /\ k' = k + 1
      /\ BITS \in Nat /\ k \in Nat
      /\ pc \in {"address", "again", "high", "low", "data"} /\ InCall
  BY MasterAssumption DEF SendBit, Sending, DoneInv, MasterInv, Typed, InCall
<1>2. AskedOff' = AskedOff /\ Asked' = Asked /\ k' <= BITS
  BY <1>1 DEF AskedOff, Asked, LEN
<1>3. CASE pc = "address"
  BY <1>1, <1>2, <1>3, AddressBit DEF Stage, DoneInv
<1>4. CASE pc = "again"
  BY <1>1, <1>2, <1>4, AgainBit DEF Stage
<1>5. CASE pc \in {"high", "low"}
  BY <1>1, <1>2, <1>5, OffsetBit DEF Stage, DoneInv
<1>6. CASE pc = "data" /\ refused
  <2>1. Astray(wire, k) /\ Shaped(wire) /\ ~ wire.hold /\ Outgoing \in Byte
    BY <1>6, OutgoingIs DEF DoneInv, MasterInv, Stage, SendBit, Sending
  <2>2. Outgoing[k + 1] \in Bit
    BY <1>1, <2>1, ByteIsSequence
  <2>3. Astray(wire', k')
    BY <1>1, <2>1, <2>2, AstrayNext, AnswersAre DEF SendBit
  <2>4. QED
    BY <1>1, <1>6, <2>3 DEF Stage, Astray
<1>7. CASE pc = "data" /\ ~ refused
  BY <1>1, <1>2, <1>7, DataBit DEF Stage
<1>8. QED
  BY <1>1, <1>3, <1>4, <1>5, <1>6, <1>7

\* A byte is acknowledged, refused, or nobody is there.
LEMMA SendAckStage ==
  ASSUME DoneInv, SendAck
  PROVE  Stage'
<1>1. /\ call' = call /\ k = BITS /\ BITS \in Nat /\ BITS > 1 /\ ~ wire.hold /\ Shaped(wire)
      /\ pc \in {"address", "again", "high", "low", "data"} /\ InCall
      /\ i \in Nat /\ WIDTH \in Nat /\ 1 \in Bit
  BY MasterAssumption DEF SendAck, Sending, DoneInv, MasterInv, Typed, InCall, Bit
<1>2. PICK c \in Chosen :
        /\ wire' = READ_BIT(wire, c)
        /\ IF readBit(wire, c) = 0
           THEN Acknowledged /\ UNCHANGED refused
           ELSE /\ Go(IF pc \in {"high", "low"} THEN "refused" ELSE "abort")
                /\ refused' = (refused \/ pc \in {"high", "low"})
                /\ UNCHANGED i
  BY AnswersAre DEF SendAck
<1>3. AskedOff' = AskedOff /\ Asked' = Asked /\ buff' = buff /\ LEN' = LEN /\ AfterOffset' = AfterOffset
  BY <1>1 DEF AskedOff, Asked, LEN, SendAck, AfterOffset
<1>4. /\ call \in Requests /\ call.addr \in Address /\ call.off \in Byte \X Byte /\ LEN \in Nat
      /\ call.op \in {"read", "write"} /\ (pc \in {"address", "high", "low", "again"} => i = 0)
      /\ (call.op = "write" => LEN < WIDTH)
      /\ (call.op = "read" => LEN > 0)
      /\ (pc = "again" => call.op = "read") /\ (pc = "data" => call.op = "write" /\ i < LEN)
  BY <1>1, RequestIs DEF DoneInv, MasterInv, Called, Readable
<1>5. ASSUME Dropped(wire)
      PROVE  /\ Dropped(wire') /\ wire'.sda = 1 /\ Kept(wire', wire)
             /\ pc' = (IF pc \in {"high", "low"} THEN "refused" ELSE "abort")
             /\ refused' = (refused \/ pc \in {"high", "low"})
  <2>1. readBit(wire, c) = 1 /\ Dropped(wire') /\ wire'.sda = 1 /\ Kept(wire', wire)
    BY <1>1, <1>2, <1>5, DroppedClocked DEF readBit, READ_BIT
  <2>2. QED
    BY <1>2, <2>1 DEF Go
<1>6. ASSUME NEW st \in {"offset", "data"}, Took(wire, st)
      PROVE  /\ Low(wire') /\ wire'.st = st /\ wire'.shift = <<>> /\ Len(wire'.shift) = 0 /\ Kept(wire', wire)
             /\ Acknowledged /\ refused' = refused
  BY <1>1, <1>2, <1>6, AckClocked
<1>7. CASE pc = "address"
  <2>1. CASE Dropped(wire)
    BY <1>5, <1>7, <2>1 DEF Stage
  <2>2. CASE ~ Dropped(wire)
    <3>1. Took(wire, "offset") /\ call.addr = Dev /\ wire.part = <<>> /\ ~ refused /\ wire.wrote = <<>>
      BY <1>1, <1>7, <2>2 DEF DoneInv, Stage, AtAddress, InStep
    <3>2. /\ pc' = (IF call.addr \in Wide THEN "high" ELSE "low") /\ k' = 0 /\ k' < BITS
          /\ Low(wire') /\ wire'.st = "offset" /\ Len(wire'.shift) = 0 /\ wire'.part = <<>>
          /\ wire'.wrote = <<>> /\ ~ refused'
      BY <1>1, <1>6, <1>7, <3>1 DEF Acknowledged, Go, Kept
    <3>3. InStep("offset", "offset")' /\ InStep("offset", "data")'
      BY <3>2 DEF InStep, Hears
    <3>4. CASE call.addr \in Wide
      BY <1>1, <3>1, <3>2, <3>3, <3>4 DEF Stage, AtHigh
    <3>5. CASE call.addr \notin Wide
      BY <1>1, <3>1, <3>2, <3>3, <3>5 DEF Stage, AtLow
    <3>6. QED
      BY <3>4, <3>5
  <2>3. QED
    BY <2>1, <2>2
<1>8. CASE pc = "high"
  <2>1. CASE Dropped(wire)
    BY <1>5, <1>8, <2>1 DEF Stage, DoneInv, Kept
  <2>2. CASE ~ Dropped(wire)
    <3>1. Took(wire, "offset") /\ call.addr = Dev /\ call.addr \in Wide /\ wire.part = <<call.off[1]>>
          /\ ~ refused /\ wire.wrote = <<>>
      BY <1>1, <1>8, <2>2 DEF DoneInv, Stage, AtHigh, InStep
    <3>2. /\ pc' = "low" /\ k' = 0 /\ k' < BITS
          /\ Low(wire') /\ wire'.st = "offset" /\ Len(wire'.shift) = 0 /\ wire'.part = <<call.off[1]>>
          /\ wire'.wrote = <<>> /\ ~ refused'
      BY <1>1, <1>6, <1>8, <3>1 DEF Acknowledged, Go, Kept
    <3>3. InStep("offset", "data")'
      BY <3>2 DEF InStep, Hears
    <3>4. QED
      BY <1>1, <3>1, <3>2, <3>3 DEF Stage, AtLow
  <2>3. QED
    BY <2>1, <2>2
<1>9. CASE pc = "low"
  <2>1. CASE Dropped(wire)
    BY <1>5, <1>9, <2>1 DEF Stage, DoneInv, Kept
  <2>2. CASE ~ Dropped(wire)
    <3>1. Took(wire, "data") /\ Pointed /\ ~ refused /\ wire.wrote = <<>>
      BY <1>1, <1>9, <2>2 DEF DoneInv, Stage, AtLow, InStep
    <3>2. /\ pc' = AfterOffset /\ k' = 0 /\ k' < BITS /\ i' = 0
          /\ Low(wire') /\ wire'.st = "data" /\ Len(wire'.shift) = 0 /\ Kept(wire', wire) /\ ~ refused'
      BY <1>1, <1>4, <1>6, <1>9, <3>1 DEF Acknowledged, Go
    <3>3. wire'.off = AskedOff' /\ wire'.n = 0 /\ Pointed' /\ wire'.wrote = <<>>
      BY <1>3, <3>1, <3>2 DEF Pointed, Kept
    <3>4. CASE AfterOffset = "restart"
      BY <3>2, <3>3, <3>4 DEF Stage
    <3>5. CASE AfterOffset = "stop"
      <4>1. call'.op = "write" /\ LEN' = 0
        BY <1>1, <1>3, <1>4, <3>5 DEF AfterOffset
      <4>2. Wrote(wire, LEN)'
        BY <1>3, <3>3, <4>1 DEF Wrote
      <4>3. QED
        BY <3>2, <3>5, <4>1, <4>2 DEF Stage
    <3>6. CASE AfterOffset = "data"
      <4>1. InStep("data", "data")'
        BY <3>2 DEF InStep, Hears
      <4>2. Wrote(wire, i)'
        BY <1>3, <3>2, <3>3 DEF Wrote
      <4>3. AtData'
        BY <1>1, <3>2, <3>3, <4>1, <4>2 DEF AtData
      <4>4. QED
        BY <3>2, <3>6, <4>3 DEF Stage
    <3>7. QED
      BY <3>4, <3>5, <3>6 DEF AfterOffset
  <2>3. QED
    BY <2>1, <2>2
<1>10. CASE pc = "again"
  <2>1. CASE refused
    <3>1. refused' /\ pc' \in {"receive", "abort"}
      BY <1>2, <1>10, <2>1 DEF Acknowledged, Go
    <3>2. QED
      BY <3>1 DEF Stage
  <2>2. CASE ~ refused /\ Dropped(wire)
    BY <1>5, <1>10, <2>2 DEF Stage
  <2>3. CASE ~ refused /\ ~ Dropped(wire)
    <3>1. Took(wire, "send") /\ wire.off = AskedOff /\ wire.n = 0 /\ wire.served = <<>>
      BY <1>1, <1>10, <2>3 DEF DoneInv, Stage, AtAgain, InStep, Pointed
    <3>2. PICK byte \in Held : readBit(wire, c) = 0 /\ Loaded(wire', wire, byte)
      BY <1>1, <1>2, <3>1, AckLoads
    <3>3. pc' = "receive" /\ k' = 0 /\ k' < BITS /\ i' = 0
      BY <1>1, <1>2, <1>4, <1>10, <3>2 DEF Acknowledged, Go
    <3>4. /\ Sends(wire', 0, byte) /\ wire'.off = AskedOff' /\ wire'.n = 1
          /\ wire'.served = AtMost(<< <<AskedOff, 0, byte>> >>)
      <4>1. Append(<<>>, <<AskedOff, 0, byte>>) = << <<AskedOff, 0, byte>> >>
        OBVIOUS
      <4>2. Further(0) = 1
        BY <1>1, Fits
      <4>3. QED
        BY <1>3, <3>1, <3>2, <4>1, <4>2 DEF Loaded
    <3>5. wire'.served = << <<AskedOff', i', byte>> >>
      <4>1. Len(<< <<AskedOff, 0, byte>> >>) = 1 /\ 1 \in 0..WIDTH
        BY MasterAssumption
      <4>2. AtMost(<< <<AskedOff, 0, byte>> >>) = << <<AskedOff, 0, byte>> >>
        BY <4>1, Fits
      <4>3. QED
        BY <1>3, <3>3, <3>4, <4>2
    <3>6. Len(wire'.served) = 1 /\ wire'.served[1] = <<AskedOff', i', byte>>
      BY <3>5
    <3>7. i' < LEN' /\ byte \in Byte
      BY <1>3, <1>4, <1>10, <3>3, MasterAssumption
    <3>8. AtReceive'
      BY <3>3, <3>4, <3>6, <3>7 DEF AtReceive
    <3>9. QED
      BY <3>3, <3>8 DEF Stage
  <2>4. QED
    BY <2>1, <2>2, <2>3
<1>11. CASE pc = "data"
  <2>1. CASE refused
    <3>1. readBit(wire, c) = 1
      BY <1>1, <1>11, <2>1, AstrayRefused DEF DoneInv, Stage
    <3>2. pc' = "abort"
      BY <1>2, <1>11, <3>1 DEF Go
    <3>3. QED
      BY <3>2 DEF Stage
  <2>2. CASE ~ refused /\ Dropped(wire)
    BY <1>5, <1>11, <2>2 DEF Stage
  <2>3. CASE ~ refused /\ ~ Dropped(wire)
    <3>1. Took(wire, "data") /\ wire.off = AskedOff /\ Wrote(wire, i + 1) /\ wire.n = i + 1
      BY <1>1, <1>11, <2>3 DEF DoneInv, Stage, AtData, InStep
    <3>2. i' = (i + 1) % WIDTH /\ i + 1 < WIDTH
      BY <1>1, <1>4, <1>6, <1>11, <3>1 DEF Acknowledged
    <3>3. i' = i + 1
      BY <1>1, <3>2
    <3>4. /\ pc' = (IF i' < LEN THEN "data" ELSE "stop") /\ k' = 0 /\ k' < BITS
          /\ Low(wire') /\ wire'.st = "data" /\ Len(wire'.shift) = 0 /\ Kept(wire', wire) /\ ~ refused'
      BY <1>1, <1>6, <1>11, <2>3, <3>1 DEF Acknowledged, Go
    <3>5. wire'.off = AskedOff' /\ wire'.n = i' /\ Wrote(wire, i)'
      BY <1>3, <3>1, <3>3, <3>4 DEF Kept, Wrote
    <3>6. CASE i' < LEN
      <4>1. InStep("data", "data")'
        BY <3>4 DEF InStep, Hears
      <4>2. AtData'
        BY <3>4, <3>5, <4>1 DEF AtData
      <4>3. QED
        BY <3>4, <3>6, <4>2 DEF Stage
    <3>7. CASE ~ (i' < LEN)
      <4>1. i' = LEN'
        BY <1>1, <1>3, <1>4, <1>11, <3>3, <3>7
      <4>2. Wrote(wire, LEN)'
        BY <3>5, <4>1 DEF Wrote
      <4>3. call'.op = "write"
        BY <1>1, <1>4, <1>11
      <4>4. QED
        BY <3>4, <3>7, <4>2, <4>3 DEF Stage
    <3>8. QED
      BY <3>6, <3>7
  <2>4. QED
    BY <2>1, <2>2, <2>3
<1>12. QED
  BY <1>1, <1>7, <1>8, <1>9, <1>10, <1>11

\* A refused offset ends with a STOP, and the call goes on.
LEMMA OffsetStopStage ==
  ASSUME DoneInv, OffsetStop
  PROVE  Stage'
<1>1. /\ call' = call /\ pc = "refused" /\ pc' = AfterOffset /\ k' = 0 /\ refused' = refused
      /\ Shaped(wire) /\ refused /\ Dropped(wire) /\ wire.sda = 1 /\ wire.wrote = <<>> /\ InCall
      /\ LEN' = LEN
  BY DEF OffsetStop, Go, DoneInv, MasterInv, Stage, InCall, LEN
<1>2. PICK c \in Chosen : wire' = StopDone(wire, c)
  BY AnswersAre DEF OffsetStop
<1>3. High(wire') /\ wire'.st = "off" /\ Kept(wire', wire)
  BY <1>1, <1>2, DroppedStop
<1>4. CASE AfterOffset = "restart"
  BY <1>1, <1>4 DEF Stage
<1>5. CASE AfterOffset = "stop"
  <2>1. call'.op = "write" /\ LEN' = 0
    BY <1>1, <1>5, RequestIs DEF AfterOffset, DoneInv, MasterInv, Called
  <2>2. Wrote(wire, LEN)'
    BY <1>1, <1>3, <2>1 DEF Wrote, Kept
  <2>3. QED
    BY <1>1, <1>5, <2>1, <2>2 DEF Stage
<1>6. CASE AfterOffset = "data"
  BY <1>1, <1>3, <1>6 DEF Stage, Astray
<1>7. QED
  BY <1>4, <1>5, <1>6 DEF AfterOffset

\* The device sends.
LEMMA RecvBitStage ==
  ASSUME DoneInv, RecvBit
  PROVE  Stage'
<1>1. /\ call' = call /\ i' = i /\ buff' = buff /\ pc = "receive" /\ pc' = "receive"
      /\ refused' = refused /\ k \in 0..BITS - 1 /\ k \in Nat /\ BITS \in Nat /\ k' = k + 1
      /\ ~ wire.hold /\ Shaped(wire) /\ value \in Seq(Bit) /\ Len(value) = k
  BY MasterAssumption DEF RecvBit, DoneInv, MasterInv, Typed
<1>2. AskedOff' = AskedOff /\ Got' = Got /\ LEN' = LEN
  BY <1>1 DEF AskedOff, Got, LEN
<1>3. SUFFICES ASSUME ~ refused PROVE AtReceive'
  BY <1>1 DEF Stage
<1>4. AtReceive
  BY <1>1, <1>3 DEF DoneInv, Stage
<1>5. PICK byte \in Byte :
        /\ wire.served[i + 1] = <<AskedOff, i, byte>>
        /\ \A j \in 1..k : value[j] = byte[j]
        /\ Sends(wire, k, byte)
  BY <1>1, <1>4 DEF AtReceive
<1>6. PICK c \in Chosen : wire' = READ_BIT(wire, c) /\ value' = Append(value, readBit(wire, c))
  BY AnswersAre DEF RecvBit
<1>7. /\ readBit(wire, c) = byte[k + 1] /\ Kept(wire', wire)
      /\ k + 1 < BITS => Sends(wire', k + 1, byte)
      /\ k + 1 = BITS => Low(wire') /\ wire'.st = "asked"
  BY <1>1, <1>5, <1>6, SendClocked
<1>8. \A j \in 1..k' : value'[j] = byte[j]
  BY <1>1, <1>5, <1>6, <1>7, BitsAppended
<1>9. IF k' < BITS THEN Sends(wire', k', byte) ELSE Low(wire') /\ wire'.st = "asked"
  BY <1>1, <1>7
<1>10. wire'.served[i' + 1] = <<AskedOff', i', byte>>
  BY <1>1, <1>2, <1>5, <1>7 DEF Kept
<1>11. /\ i' < LEN' /\ wire'.off = AskedOff' /\ wire'.n = i' + 1
       /\ Len(wire'.served) = i' + 1 /\ \A j \in 1..i' : wire'.served[j] = Got'[j]
  BY <1>1, <1>2, <1>4, <1>7 DEF AtReceive, Kept
<1>12. QED
  BY <1>8, <1>9, <1>10, <1>11 DEF AtReceive

\* A byte has been received: another one is asked for, or the device lets go.
LEMMA RecvAckStage ==
  ASSUME DoneInv, RecvAck
  PROVE  Stage'
<1>1. /\ call' = call /\ pc = "receive" /\ refused' = refused /\ k = BITS /\ BITS \in Nat /\ BITS > 1
      /\ ~ wire.hold /\ Shaped(wire) /\ value \in Seq(Bit) /\ Len(value) = BITS
      /\ i \in 0..WIDTH - 1 /\ i \in Nat /\ WIDTH \in Nat /\ WIDTH > 0
      /\ buff \in [0..WIDTH - 1 -> Byte \cup {NoByte}]
      /\ 0 \in Bit /\ 1 \in Bit
  BY MasterAssumption DEF RecvAck, DoneInv, MasterInv, Typed, Bit
<1>2. AskedOff' = AskedOff /\ LEN' = LEN
  BY <1>1 DEF AskedOff, LEN
<1>3. call.op = "read" /\ LEN \in 1..WIDTH
  BY <1>1 DEF DoneInv, MasterInv, Called, Readable, InCall
<1>4. pc' \in {"receive", "stop"}
  BY DEF RecvAck, Go
<1>5. CASE refused
  BY <1>1, <1>3, <1>4, <1>5 DEF Stage
<1>6. CASE ~ refused
  <2>1. AtReceive
    BY <1>1, <1>6 DEF DoneInv, Stage
  <2>2. PICK byte \in Byte :
          /\ wire.served[i + 1] = <<AskedOff, i, byte>>
          /\ \A j \in 1..BITS : value[j] = byte[j]
    BY <1>1, <2>1 DEF AtReceive
  <2>3. /\ Low(wire) /\ wire.st = "asked" /\ i < LEN /\ wire.off = AskedOff /\ wire.n = i + 1
        /\ Len(wire.served) = i + 1 /\ \A j \in 1..i : wire.served[j] = Got[j]
    BY <1>1, <2>1 DEF AtReceive
  <2>4. value = byte /\ value \in Byte
    BY <1>1, <2>2, ByteIsSequence, SeqEqual
  <2>5. buff' = [buff EXCEPT ![i] = value]
    <3>1. ~ AnotherByte => LEN - 1 = i
      BY <1>1, <1>3, <2>3 DEF AnotherByte
    <3>2. QED
      BY <3>1 DEF RecvAck
  <2>6. \A j \in 1..i + 1 : wire.served[j] = Got'[j]
    <3>1. Got = [j \in 1..LEN |-> <<AskedOff, j - 1, buff[j - 1]>>]
      BY DEF Got, AskedOff
    <3>2. Got' = [j \in 1..LEN |-> <<AskedOff, j - 1, buff'[j - 1]>>]
      BY <1>1, <1>2 DEF Got, AskedOff
    <3>3. buff'[i] = value /\ \A j \in 0..i - 1 : buff'[j] = buff[j]
      BY <1>1, <2>5
    <3>4. ASSUME NEW j \in 1..i PROVE wire.served[j] = Got'[j]
      <4>1. j \in 1..LEN /\ j - 1 \in 0..i - 1
        BY <1>1, <1>3, <2>3
      <4>2. Got[j] = <<AskedOff, j - 1, buff[j - 1]>> /\ Got'[j] = <<AskedOff, j - 1, buff'[j - 1]>>
        BY <3>1, <3>2, <4>1
      <4>3. QED
        BY <2>3, <3>3, <4>1, <4>2
    <3>5. wire.served[i + 1] = Got'[i + 1]
      <4>1. PICK j \in 1..LEN : j = i + 1 /\ j - 1 = i
        BY <1>1, <1>3, <2>3
      <4>2. Got'[j] = <<AskedOff, i, buff'[i]>>
        BY <3>2, <4>1
      <4>3. QED
        BY <2>2, <2>4, <3>3, <4>1, <4>2
    <3>6. QED
      BY <1>1, <3>4, <3>5
  <2>7. CASE AnotherByte
    <3>1. PICK c \in Chosen : wire' = WRITE_BIT(wire, 0, c)
      BY <2>7, AnswersAre DEF RecvAck
    <3>2. PICK b \in Held : Loaded(wire', wire, b)
      BY <1>1, <2>3, <3>1, AskedClocked
    <3>3. i' = i + 1 /\ pc' = "receive" /\ k' = 0 /\ k' < BITS /\ i' < LEN'
      <4>1. i' = (i + 1) % WIDTH /\ i < LEN - 1 /\ pc' = "receive" /\ k' = 0
        BY <2>7 DEF RecvAck, Go, AnotherByte
      <4>2. QED
        BY <1>1, <1>2, <1>3, <4>1
    <3>4. /\ Sends(wire', 0, b) /\ wire'.off = AskedOff' /\ wire'.n = i' + 1
          /\ wire'.served = AtMost(Append(wire.served, <<AskedOff, i', b>>))
      <4>1. i + 1 \in 0..WIDTH
        BY <1>1
      <4>2. Further(i + 1) = i + 1 + 1
        BY <4>1, Fits
      <4>3. QED
        BY <1>2, <2>3, <3>2, <3>3, <4>2 DEF Loaded
    <3>5. PICK t \in Traces : t = wire.served
      BY <1>1 DEF Shaped, Formed, Wires
    <3>6. PICK u : u = Append(t, <<AskedOff, i', b>>)
      OBVIOUS
    <3>7. Len(u) = i' + 1 /\ u[i' + 1] = <<AskedOff, i', b>> /\ \A j \in 1..i' : u[j] = t[j]
      <4>1. t \in Seq(Seq(Seq(Bit)) \X Nat \X Seq(Bit)) /\ Len(t) = i'
        BY <2>3, <3>3, <3>5 DEF Traces
      <4>2. QED
        BY <1>1, <3>3, <3>6, <4>1
    <3>8. AtMost(u) = u
      <4>1. Len(u) \in 0..WIDTH
        BY <1>1, <1>2, <1>3, <3>3, <3>7
      <4>2. QED
        BY <4>1, Fits
    <3>9. wire'.served = u
      BY <3>4, <3>5, <3>6, <3>8
    <3>10. \A j \in 1..i' : wire'.served[j] = Got'[j]
      BY <2>6, <3>3, <3>5, <3>7, <3>9
    <3>11. b \in Byte /\ k' = 0 /\ wire'.served[i' + 1] = <<AskedOff', i', b>>
      BY <1>2, <3>3, <3>7, <3>9, MasterAssumption
    <3>12. AtReceive'
      BY <3>3, <3>4, <3>7, <3>9, <3>10, <3>11 DEF AtReceive
    <3>13. QED
      BY <3>3, <3>12 DEF Stage
  <2>8. CASE ~ AnotherByte
    <3>1. PICK c \in Chosen : wire' = WRITE_BIT(wire, 1, c)
      BY <2>8, AnswersAre DEF RecvAck
    <3>2. Dropped(wire') /\ Kept(wire', wire)
      BY <1>1, <2>3, <3>1, AskedClocked
    <3>3. pc' = "stop" /\ LEN' = i + 1
      BY <1>1, <1>2, <1>3, <2>3, <2>8 DEF RecvAck, Go, AnotherByte
    <3>4. Served(wire, LEN)'
      BY <2>3, <2>6, <3>2, <3>3 DEF Served, Kept
    <3>5. QED
      BY <1>1, <1>3, <3>2, <3>3, <3>4 DEF Stage, Dropped
  <2>9. QED
    BY <2>7, <2>8
<1>7. QED
  BY <1>5, <1>6

\* A START.
LEMMA StartStage ==
  ASSUME DoneInv, Start
  PROVE  Stage'
<1>1. /\ call' = call /\ k' = 0 /\ k' < BITS /\ refused' = refused /\ Shaped(wire)
      /\ pc \in {"start", "restart"} /\ BITS \in Nat
  BY MasterAssumption DEF Start, Go, DoneInv, MasterInv
<1>2. PICK c \in Chosen :
        /\ wire' = StartDone(wire, c)
        /\ pc' = IF ~ High(Prepared(wire, c)) THEN "abort"
                 ELSE IF pc = "start" THEN "address" ELSE "again"
  BY AnswersAre DEF Start, Go
<1>3. CASE ~ High(Prepared(wire, c))
  BY <1>2, <1>3 DEF Stage
<1>4. CASE High(Prepared(wire, c))
  <2>1. /\ Low(wire') /\ wire'.st = "address" /\ Len(wire'.shift) = 0 /\ wire'.wrote = wire.wrote
        /\ wire.scl = 0 => Kept(wire', wire)
    BY <1>1, <1>2, <1>4, StartIsMade
  <2>2. InStep("address", "offset")' /\ InStep("address", "send")'
    BY <1>1, <2>1 DEF InStep, Hears
  <2>3. CASE pc = "start"
    <3>1. pc' = "address" /\ ~ refused' /\ wire'.wrote = <<>>
      BY <1>1, <1>2, <1>4, <2>1, <2>3 DEF DoneInv, Stage
    <3>2. ~ Took(wire', "offset")
      BY <2>1 DEF Took
    <3>3. QED
      BY <2>2, <3>1, <3>2 DEF Stage, AtAddress
  <2>4. CASE pc = "restart"
    <3>1. pc' = "again" /\ k' # BITS
      BY <1>1, <1>2, <1>4, <2>4
    <3>2. CASE ~ refused
      <4>1. Low(wire) /\ Pointed
        BY <2>4, <3>2 DEF DoneInv, Stage
      <4>2. Pointed'
        BY <1>1, <2>1, <4>1 DEF Pointed, AskedOff, Low, Kept
      <4>3. QED
        BY <2>2, <3>1, <4>2 DEF Stage, AtAgain
    <3>3. CASE refused
      BY <1>1, <2>2, <3>1, <3>3 DEF Stage, AtAgain
    <3>4. QED
      BY <3>2, <3>3
  <2>5. QED
    BY <1>1, <2>3, <2>4
<1>5. QED
  BY <1>3, <1>4

\* The STOP that ends a call that has got so far.
LEMMA StopEnds ==
  ASSUME DoneInv, Stop
  PROVE  Ended'
<1>1. PICK c \in Chosen : wire' = StopDone(wire, c) /\ ret' = IF StopOk(wire, c) THEN "OK" ELSE "FAILED"
  BY AnswersAre DEF Stop, Return
<1>2. call' = call /\ refused' = refused /\ buff' = buff /\ pc = "stop" /\ Shaped(wire)
  BY DEF Stop, DoneInv, MasterInv
<1>3. Asked' = Asked /\ Got' = Got /\ LEN' = LEN
  BY <1>2 DEF Asked, Got, LEN
<1>4. SUFFICES ASSUME StopOk(wire, c)
               PROVE  IF call'.op = "write" THEN Wrote(wire, LEN)' ELSE refused' \/ Served(wire, LEN)'
  BY <1>1 DEF Ended
<1>5. CASE call.op = "write"
  <2>1. Wrote(wire, LEN)
    BY <1>2, <1>5 DEF DoneInv, Stage
  <2>2. wire'.wrote = wire.wrote
    BY <1>1, <1>2, <1>4, StopWritesNothing
  <2>3. QED
    BY <1>2, <1>3, <1>5, <2>1, <2>2 DEF Wrote
<1>6. CASE call.op # "write" /\ ~ refused
  <2>1. wire.st = "off" /\ Served(wire, LEN)
    BY <1>2, <1>6 DEF DoneInv, Stage
  <2>2. wire'.served = wire.served
    BY <1>1, <1>2, <2>1, StopOffKeeps DEF Kept
  <2>3. QED
    BY <1>2, <1>3, <1>6, <2>1, <2>2 DEF Served
<1>7. QED
  BY <1>2, <1>5, <1>6

\* The device lets go of SCL: nobody waits for that where both lines are high.
LEMMA ReleaseStage ==
  ASSUME DoneInv, Release
  PROVE  Stage'
<1> DEFINE n == [wire EXCEPT !.hold = FALSE]
<1>1. /\ wire' = (IF n.scl = 1 THEN Risen(n) ELSE n) /\ wire.hold /\ wire \in Wires
      /\ UNCHANGED <<call, pc, k, i, value, buff, ret, refused, restarts>>
  BY DEF Release, DoneInv, MasterInv, Shaped, Formed
<1>2. /\ n \in Wires /\ n.scl = wire.scl /\ n.sda = wire.sda /\ n.low = wire.low /\ n.st = wire.st
      /\ n.ack = wire.ack /\ n.shift = wire.shift /\ Kept(n, wire)
  BY <1>1 DEF Wires, Kept
<1> HIDE DEF n
<1>3. /\ Outgoing' = Outgoing /\ AskedOff' = AskedOff /\ Asked' = Asked /\ Got' = Got /\ LEN' = LEN
  BY <1>1 DEF Outgoing, AskedOff, Asked, Got, LEN
<1>4. Kept(wire', wire) /\ (wire.st = "off" => wire'.st = "off") /\ (wire.scl = 0 => wire' = n)
  BY <1>1, <1>2, RisenKeeps DEF Kept
<1>5. ~ Dropped(wire) /\ ~ High(wire)
  BY <1>1 DEF Dropped, High, SCL
<1>6. wire.scl = 0 =>
        /\ wire'.scl = wire.scl /\ wire'.low = wire.low /\ wire'.st = wire.st /\ wire'.ack = wire.ack
        /\ wire'.shift = wire.shift
  BY <1>2, <1>4
<1>7. /\ Low(wire) => Low(wire') /\ wire'.st = wire.st /\ wire'.shift = wire.shift /\ wire.scl = 0
      /\ \A st : Took(wire, st) => Took(wire', st) /\ wire.scl = 0 /\ ~ Dropped(wire')
      /\ \A st : wire.scl = 0 /\ Took(wire', st) => Took(wire, st)
  BY <1>6 DEF Low, Took, Dropped
<1>8. ASSUME NEW st, NEW next, InStep(st, next)
      PROVE  /\ InStep(st, next)' /\ wire.scl = 0
             /\ ~ (k < BITS) => Took(wire, next) /\ ~ Dropped(wire')
  <2>1. CASE k < BITS
    BY <1>1, <1>3, <1>7, <1>8, <2>1 DEF InStep, Hears
  <2>2. CASE ~ (k < BITS)
    BY <1>1, <1>5, <1>7, <1>8, <2>2 DEF InStep
  <2>3. QED
    BY <2>1, <2>2
<1>9. Pointed => Pointed'
  BY <1>3, <1>4 DEF Pointed, Kept
<1>10. \A m : Wrote(wire, m) => Len(wire'.wrote) = m /\ \A j \in 1..m : wire'.wrote[j] = Asked'[j]
  BY <1>3, <1>4 DEF Wrote, Kept
<1>11. k' = k /\ pc' = pc /\ i' = i /\ call' = call /\ refused' = refused /\ buff' = buff
       /\ value' = value /\ wire'.part = wire.part /\ wire'.off = wire.off /\ wire'.n = wire.n
       /\ wire'.wrote = wire.wrote /\ wire'.served = wire.served
       /\ k \in 0..BITS /\ BITS \in Nat /\ Stage
  BY <1>1, <1>4, MasterAssumption DEF Kept, DoneInv, MasterInv, Typed
<1>12. CASE pc = "address"
  <2>1. AtAddress
    BY <1>11, <1>12 DEF Stage
  <2>2. InStep("address", "offset")' /\ wire.scl = 0
    BY <1>8, <2>1 DEF AtAddress
  <2>3. Took(wire', "offset") => call.addr = Dev /\ wire.part = <<>>
    BY <1>7, <2>1, <2>2 DEF AtAddress
  <2>4. QED
    BY <1>11, <1>12, <2>2, <2>3 DEF Stage, AtAddress
<1>13. CASE pc = "high"
  <2>1. AtHigh
    BY <1>11, <1>13 DEF Stage
  <2>2. InStep("offset", "offset")' /\ (~ (k < BITS) => ~ Dropped(wire'))
    BY <1>8, <2>1 DEF AtHigh
  <2>3. AtHigh'
    BY <1>5, <1>11, <2>1, <2>2 DEF AtHigh
  <2>4. QED
    BY <1>11, <1>13, <2>3 DEF Stage
<1>14. CASE pc = "low"
  <2>1. AtLow
    BY <1>11, <1>14 DEF Stage
  <2>2. InStep("offset", "data")' /\ (~ (k < BITS) => ~ Dropped(wire'))
    BY <1>8, <2>1 DEF AtLow
  <2>3. AtLow'
    BY <1>5, <1>9, <1>11, <2>1, <2>2 DEF AtLow
  <2>4. QED
    BY <1>11, <1>14, <2>3 DEF Stage
<1>15. CASE pc = "again"
  <2>1. AtAgain
    BY <1>11, <1>15 DEF Stage
  <2>2. InStep("address", "send")'
    BY <1>8, <2>1 DEF AtAgain
  <2>3. AtAgain'
    BY <1>5, <1>9, <1>11, <2>1, <2>2 DEF AtAgain
  <2>4. QED
    BY <1>11, <1>15, <2>3 DEF Stage
<1>16. CASE pc = "data"
  <2>1. ASSUME ~ refused PROVE AtData'
    <3>1. AtData
      BY <1>11, <1>16, <2>1 DEF Stage
    <3>2. InStep("data", "data")' /\ (~ (k < BITS) => ~ Dropped(wire'))
      BY <1>8, <3>1 DEF AtData
    <3>3. \A m : Wrote(wire, m) => (Len(wire'.wrote) = m /\ \A j \in 1..m : wire'.wrote[j] = Asked'[j])
      BY <1>10
    <3>4. CASE k = BITS
      <4>1. ~ Dropped(wire) /\ ~ Dropped(wire') /\ Wrote(wire, i + 1) /\ wire.n = i + 1
        BY <1>5, <1>11, <3>1, <3>2, <3>4 DEF AtData
      <4>2. Len(wire'.wrote) = i + 1 /\ \A j \in 1..i + 1 : wire'.wrote[j] = Asked'[j]
        BY <3>3, <4>1
      <4>3. Wrote(wire', i' + 1) 
        BY <1>3, <1>11, <4>2 DEF Wrote
      <4>4. QED
        BY <1>3, <1>11, <3>1, <3>2, <3>4, <4>1, <4>2 DEF AtData, Wrote
    <3>5. CASE k # BITS
      <4>1. Wrote(wire, i) /\ wire.n = i
        BY <3>1, <3>5 DEF AtData
      <4>2. Len(wire'.wrote) = i /\ \A j \in 1..i : wire'.wrote[j] = Asked'[j]
        BY <3>3, <4>1
      <4>3. QED
        BY <1>3, <1>11, <3>1, <3>2, <3>5, <4>1, <4>2 DEF AtData, Wrote
    <3>6. QED
      BY <3>4, <3>5
  <2>2. ASSUME refused PROVE Astray(wire', k)
    <3>1. Astray(wire, k) /\ k # 0
      BY <1>5, <1>11, <1>16, <2>2 DEF Stage, Astray
    <3>2. QED
      BY <1>7, <3>1 DEF Astray
  <2>3. QED
    BY <1>11, <1>16, <2>1, <2>2 DEF Stage
<1>17. CASE pc = "receive"
  <2>1. ASSUME ~ refused PROVE AtReceive'
    <3>1. AtReceive
      BY <1>11, <1>17, <2>1 DEF Stage
    <3>2. PICK byte \in Byte :
            /\ wire.served[i + 1] = <<AskedOff, i, byte>>
            /\ \A j \in 1..k : value[j] = byte[j]
            /\ IF k < BITS THEN Sends(wire, k, byte) ELSE Low(wire) /\ wire.st = "asked"
      BY <3>1 DEF AtReceive
    <3>3. IF k < BITS THEN Sends(wire', k, byte) ELSE Low(wire') /\ wire'.st = "asked"
      BY <1>6, <1>7, <3>2 DEF Sends
    <3>4. /\ wire'.served[i + 1] = <<AskedOff', i, byte>>
          /\ \A j \in 1..k : value'[j] = byte[j]
      BY <1>3, <1>11, <3>2
    <3>5. /\ i' < LEN' /\ wire'.off = AskedOff' /\ wire'.n = i' + 1
          /\ Len(wire'.served) = i' + 1 /\ \A j \in 1..i' : wire'.served[j] = Got'[j]
      BY <1>3, <1>11, <3>1 DEF AtReceive
    <3>6. QED
      BY <1>11, <3>3, <3>4, <3>5 DEF AtReceive
  <2>2. QED
    BY <1>11, <1>17, <2>1 DEF Stage
<1>18. CASE pc = "stop"
  <2>1. CASE call.op = "write"
    <3>1. Wrote(wire, LEN)'
      BY <1>3, <1>11, <1>18, <2>1 DEF Stage, Wrote
    <3>2. QED
      BY <1>11, <1>18, <2>1, <3>1 DEF Stage
  <2>2. CASE call.op # "write"
    <3>1. refused \/ (wire'.st = "off" /\ Served(wire, LEN)')
      BY <1>3, <1>4, <1>11, <1>18, <2>2 DEF Stage, Served
    <3>2. QED
      BY <1>11, <1>18, <2>2, <3>1 DEF Stage
  <2>3. QED
    BY <2>1, <2>2
<1>19. CASE pc = "restart"
  BY <1>7, <1>9, <1>11, <1>19 DEF Stage
<1>20. CASE pc \in {"start", "refused", "reset", "init", "idle", "abort"}
  BY <1>5, <1>11, <1>20 DEF Stage
<1>21. QED
  BY <1>12, <1>13, <1>14, <1>15, <1>16, <1>17, <1>18, <1>19, <1>20 DEF DoneInv, MasterInv, Typed

\* A call begins.
LEMMA CallsStage ==
  ASSUME DoneInv, Calls
  PROVE  Stage' /\ Readable'
<1>1. PICK addr \in Addrs, off \in Offsets :
        \/ \E n \in Reads : Begin("read", addr, off, [j \in 1..n |-> NoByte])
        \/ \E n \in Writes : \E data \in [1..n -> Sent] : Begin("write", addr, off, data)
  BY DEF Calls
<1>2. pc' = "start" /\ refused' = FALSE /\ wire' = [wire EXCEPT !.wrote = <<>>] /\ wire \in Wires
  BY <1>1 DEF Begin, DoneInv, MasterInv, Shaped, Formed
<1>3. Stage'
  BY <1>2 DEF Stage, Wires
<1>4. ASSUME NEW n \in Reads, Begin("read", addr, off, [j \in 1..n |-> NoByte])
      PROVE  Readable'
  <2>1. n \in 1..WIDTH /\ n \in Nat
    BY MasterAssumption
  <2>2. PICK data : data = [j \in 1..n |-> NoByte]
    OBVIOUS
  <2>3. call' = [op |-> "read", addr |-> addr, off |-> off, data |-> data]
    BY <1>4, <2>2 DEF Begin
  <2>4. call'.data = data /\ Len(data) = n
    BY <2>1, <2>2, <2>3
  <2>5. QED
    BY <2>1, <2>4 DEF Readable, LEN
<1>5. ASSUME NEW n \in Writes, NEW data \in [1..n -> Sent], Begin("write", addr, off, data)
      PROVE  Readable'
  <2>1. call'.op = "write"
    BY <1>5 DEF Begin
  <2>2. QED
    BY <2>1 DEF Readable
<1>6. QED
  BY <1>1, <1>3, <1>4, <1>5

LEMMA DoneNext ==
  ASSUME DoneInv, [Next]_vars
  PROVE  Readable' /\ Stage' /\ Ended'
<1>1. CASE Calls
  BY <1>1, CallsStage DEF Calls, Begin, Ended
<1>2. CASE Restart \/ ResetClock \/ ResetStop \/ InitLines \/ Abort
  <2>1. pc' \in {"reset", "init", "idle"} /\ ret' # "OK"
    BY <1>2 DEF Restart, ResetClock, ResetStop, InitLines, Abort, Go, Return, DoneInv, OkFree
  <2>2. QED
    BY <2>1 DEF Readable, InCall, Stage, Ended
<1>3. CASE Start \/ SendBit \/ SendAck \/ OffsetStop \/ RecvBit \/ RecvAck \/ Stop \/ Release
  <2>1. Readable'
    <3>1. call' = call /\ (InCall' => InCall)
      BY <1>3 DEF Start, SendBit, SendAck, OffsetStop, RecvBit, RecvAck, Stop, Release, InCall, Sending
    <3>2. QED
      BY <3>1 DEF DoneInv, Readable, LEN
  <2>2. Stage'
    <3>1. ASSUME Stop PROVE Stage'
      BY <3>1 DEF Stop, Return, Go, Stage
    <3>2. QED
      BY <1>3, <3>1, StartStage, SendBitStage, SendAckStage, OffsetStopStage, RecvBitStage,
         RecvAckStage, ReleaseStage
  <2>3. Ended'
    <3>1. CASE Start \/ SendBit \/ SendAck \/ OffsetStop \/ RecvBit \/ RecvAck
      BY <3>1 DEF Start, SendBit, SendAck, OffsetStop, RecvBit, RecvAck, Sending, DoneInv, OkFree, Ended
    <3>2. CASE Release
      BY <3>2 DEF Release, DoneInv, OkFree, Ended, High, SCL
    <3>3. QED
      BY <1>3, <3>1, <3>2, StopEnds
  <2>4. QED
    BY <2>1, <2>2, <2>3
<1>4. CASE UNCHANGED vars
  <2>1. /\ Readable' = Readable /\ Ended' = Ended
    BY <1>4 DEF vars, Readable, InCall, LEN, Ended, Wrote, Served, Asked, Got
  <2>2. /\ AtAddress' = AtAddress /\ AtHigh' = AtHigh /\ AtLow' = AtLow
        /\ AtAgain' = AtAgain /\ AtData' = AtData /\ AtReceive' = AtReceive
        /\ Pointed' = Pointed
    BY <1>4 DEF vars, AtAddress, AtHigh, AtLow, AtAgain, AtData, AtReceive, InStep, Pointed, AskedOff,
       Outgoing, Wrote, Asked, Got, LEN
  <2>3. Stage' = Stage
    BY <1>4, <2>2 DEF vars, Stage, Wrote, Served, Asked, Got, LEN
  <2>4. QED
    BY <2>1, <2>3 DEF DoneInv
<1>5. QED
  BY <1>1, <1>2, <1>3, <1>4 DEF Next, Master

LEMMA Ending ==
  ASSUME DoneInv
  PROVE  OkMeansDone
<1>1. SUFFICES ASSUME Returned("OK")
               PROVE  IF call.op = "write" THEN wire.wrote = Asked ELSE refused \/ wire.served = Got
  BY DEF OkMeansDone
<1>2. IF call.op = "write" THEN Wrote(wire, LEN) ELSE refused \/ Served(wire, LEN)
  BY <1>1 DEF Returned, DoneInv, Ended
<1>3. wire.wrote \in Traces /\ wire.served \in Traces
  BY DEF DoneInv, MasterInv, Shaped, Formed, Wires
<1>4. \A t \in Traces : \A f : Len(t) = LEN /\ f = [j \in 1..LEN |-> f[j]] /\ (\A j \in 1..LEN : t[j] = f[j])
                           => t = f
  <2>1. SUFFICES ASSUME NEW t \in Traces, NEW f, Len(t) = LEN, f = [j \in 1..LEN |-> f[j]],
                        \A j \in 1..LEN : t[j] = f[j]
                 PROVE  t = f
    OBVIOUS
  <2>2. t = [j \in 1..LEN |-> t[j]]
    BY <2>1 DEF Traces
  <2>3. QED
    BY <2>1, <2>2
<1>5. Asked = [j \in 1..LEN |-> Asked[j]] /\ Got = [j \in 1..LEN |-> Got[j]]
  BY DEF Asked, Got
<1>6. QED
  BY <1>2, <1>3, <1>4, <1>5 DEF Wrote, Served

LEMMA DoneInvariant == Spec => []DoneInv
<1> DEFINE Place == Readable /\ Stage /\ Ended
<1>1. Init => Place
  BY DEF Init, Readable, InCall, Stage, Ended
<1>2. MasterInv /\ OkFree /\ Place /\ [Next]_vars => Place'
  BY DoneNext DEF DoneInv
<1>3. MasterInv /\ OkFree /\ Place => DoneInv
  BY DEF DoneInv
<1>4. QED
  BY <1>1, <1>2, <1>3, MasterInvariant, OkFreeInvariant, PTL DEF Spec

\* A write that reports success has written every byte, and a read has got the device's
\* bytes, at the offset the caller asked for, wherever the device stretches the clock and
\* whatever it has left over from an aborted call; except a read whose offset was refused
\* (mcu_sal_i2c_master.c:387-388, 440-441, 504-505).
THEOREM SuccessMeansDone == Spec => []OkMeansDone
BY DoneInvariant, Ending, PTL

----------------------------------------------------------------------------
(* The device is never made to write anything else.                        *)

\* It stretches the clock only behind a byte and its acknowledgement.
WholeBytes == "bit" \notin Stretches

\* It holds SCL with nothing shifted in, and pulls SDA only to acknowledge or to send.
Sure(w) ==
  /\ w.st \in {"offset", "data"} /\ w.hold => w.shift = <<>>
  /\ w.st \in Listening /\ ~ w.ack => ~ w.low

Firm(w) == Shaped(w) /\ Sure(w)

\* A device left in a transfer has the clock high and no more than a stray bit.
Still(w) == w.st \in {"offset", "data"} => w.scl = 1 /\ Len(w.shift) <= 1

LEMMA SdaFirm ==
  ASSUME NEW w, Firm(w), NEW v \in Bit
  PROVE  Firm(SetSda(w, v)) /\ SetSda(w, v).sda = v /\ SetSda(w, v).scl = w.scl
<1>1. Shaped(w) /\ w \in Wires /\ Sure(w)
  BY DEF Firm, Shaped, Formed
<1>2. PICK n \in Wires : n = [w EXCEPT !.sda = v]
  BY <1>1 DEF Wires
<1>3. n.st = w.st /\ n.shift = w.shift /\ n.ack = w.ack /\ n.low = w.low /\ n.hold = w.hold
  BY <1>1, <1>2 DEF Wires
<1>4. Sure(n)
  BY <1>1, <1>3 DEF Sure
<1>5. LET y == Started(n) IN y.st = "address" /\ y.low = n.low /\ y.hold = n.hold
  BY DEF Started, Wires
<1>6. Stopped(n).st = "off"
  BY DEF Stopped, Wires
<1>7. \/ SetSda(w, v) = n
      \/ SetSda(w, v) = Started(n) /\ ~ w.low
      \/ SetSda(w, v) = Stopped(n)
  BY <1>2 DEF SetSda
<1>8. Sure(SetSda(w, v))
  BY <1>3, <1>4, <1>5, <1>6, <1>7 DEF Sure, Listening
<1>9. QED
  BY <1>1, <1>8, SdaShaped DEF Firm

LEMMA RisenSure ==
  ASSUME NEW w \in Wires, Sure(w)
  PROVE  /\ ~ w.hold => Sure(Risen(w))
         /\ Risen(w).st = w.st \/ (w.st = "asked" /\ Risen(w).st \in {"next", "off"})
         /\ w.st \in {"offset", "data"} =>
              Risen(w).shift = w.shift \/ Len(Risen(w).shift) = Len(w.shift) + 1
<1>1. PICK s : s = Append(w.shift, SDA(w))
  OBVIOUS
<1>2. PICK st \in {"next", "off"} : st = IF SDA(w) = 0 THEN "next" ELSE "off"
  OBVIOUS
<1>3. \/ Risen(w) = [w EXCEPT !.shift = s]
      \/ Risen(w) = [w EXCEPT !.st = st] /\ w.st = "asked"
      \/ Risen(w) = w
  BY <1>1, <1>2 DEF Risen
<1>4. Len(s) = Len(w.shift) + 1
  BY <1>1 DEF Wires
<1>5. CASE Risen(w) = [w EXCEPT !.shift = s]
  BY <1>4, <1>5 DEF Wires, Sure
<1>6. CASE Risen(w) = [w EXCEPT !.st = st] /\ w.st = "asked"
  BY <1>2, <1>6 DEF Wires, Sure, Listening
<1>7. CASE Risen(w) = w
  BY <1>7
<1>8. QED
  BY <1>3, <1>5, <1>6, <1>7

\* A falling edge: the trace of writes grows only by a byte shifted in to the end.
LEMMA FallenSure ==
  ASSUME WholeBytes, NEW w, Formed(w), Sure(w), ~ w.hold, NEW c \in Chosen
  PROVE  /\ Sure(Fallen(w, c))
         /\ w.st # "data" \/ w.ack \/ Len(w.shift) # BITS => Fallen(w, c).wrote = w.wrote
         /\ w.st \notin Listening => Fallen(w, c).st \notin Listening
<1>1. w \in Wires /\ c.byte \in Held /\ (w.ack => w.shift = <<>> /\ w.st \in {"offset", "data", "send"})
  BY DEF Formed, Chosen
<1>2. CASE ~ w.ack /\ w.st \in Listening
  <2>1. ~ w.low
    BY <1>2 DEF Sure
  <2>2. CASE Len(w.shift) # BITS
    <3>1. PICK h \in BOOLEAN : h = (c.hold /\ w.st # "off" /\ "bit" \in Stretches)
      OBVIOUS
    <3>2. h = FALSE
      BY <3>1 DEF WholeBytes
    <3>3. Fallen(w, c) = Stretched(w, h)
      BY <1>2, <2>2, <3>1 DEF Fallen, Stretched, Listening
    <3>4. QED
      BY <1>1, <1>2, <2>1, <3>2, <3>3, StretchedIs DEF Sure
  <2>3. CASE Len(w.shift) = BITS
    <3>1. Stopped(w) \in Wires /\ Stopped(w).st = "off" /\ Stopped(w).wrote = w.wrote /\ Taken(w) \in Wires
      BY <1>1, <1>2, StoppedIs, TakenFormed DEF Kept, Formed
    <3>2. Taken(w).shift = <<>> /\ Taken(w).ack /\ (w.st # "data" => Taken(w).wrote = w.wrote)
      <4>1. PICK a \in Wires : a = [w EXCEPT !.ack = TRUE, !.low = TRUE, !.shift = <<>>]
        BY <1>1, EmptyBits DEF Wires
      <4>2. a.ack = TRUE /\ a.shift = <<>> /\ a.wrote = w.wrote
        BY <1>1, <4>1 DEF Wires
      <4>3. PICK p, t, u, st, n : /\ p = Append(w.part, w.shift)
                                  /\ t = AtMost(Append(a.wrote, <<w.off, w.n, w.shift>>))
                                  /\ st = IF Last(w.shift) = 1 THEN "send" ELSE "offset"
                                  /\ n = Further(a.n)
        OBVIOUS
      <4>4. \/ Taken(w) = [a EXCEPT !.st = st, !.part = <<>>, !.served = <<>>]
            \/ Taken(w) = [a EXCEPT !.st = "data", !.off = p, !.n = 0, !.part = <<>>]
            \/ Taken(w) = [a EXCEPT !.part = p]
            \/ Taken(w) = [a EXCEPT !.wrote = t, !.n = n] /\ w.st = "data"
        BY <1>2, <4>1, <4>3 DEF Taken, Listening
      <4>5. QED
        BY <4>2, <4>4 DEF Wires
    <3>3. PICK h \in BOOLEAN : \/ Fallen(w, c) = Stretched(Taken(w), h)
                               \/ Fallen(w, c) = Stretched(Stopped(w), h)
      BY <1>1, <1>2, <2>3, FallenListening
    <3>4. QED
      BY <1>2, <2>3, <3>1, <3>2, <3>3, StretchedIs DEF Sure, Listening
  <2>4. QED
    BY <2>2, <2>3
<1>3. CASE w.ack \/ w.st \notin Listening
  <2>1. \A r \in Wires, h \in BOOLEAN :
          /\ Fallen(w, c) = Stretched(r, h) /\ r.wrote = w.wrote
          /\ (r.st \in {"offset", "data"} => r.shift = <<>>) /\ (r.st \in Listening => ~ r.low)
          /\ (w.st \notin Listening => r.st \notin Listening)
          => /\ Sure(Fallen(w, c)) /\ Fallen(w, c).wrote = w.wrote
             /\ (w.st \notin Listening => Fallen(w, c).st \notin Listening)
    BY StretchedIs DEF Sure
  <2>2. CASE (w.ack /\ w.st = "send") \/ (~ w.ack /\ w.st = "next")
    <3> DEFINE r == Load(w, c.byte)
    <3>1. r \in Wires /\ r.wrote = w.wrote /\ r.st = "send" /\ r.st \notin Listening
      BY <1>1, LoadIs DEF Listening
    <3>2. PICK h \in BOOLEAN, g \in BOOLEAN : /\ h = (c.hold /\ r.st # "off" /\ "byte" \in Stretches)
                                             /\ g = (c.hold /\ r.st # "off" /\ "bit" \in Stretches)
      OBVIOUS
    <3>3. CASE w.ack /\ w.st = "send"
      <4>1. Fallen(w, c) = Stretched(r, h)
        BY <3>2, <3>3 DEF Fallen, Stretched
      <4> HIDE DEF r
      <4>2. QED
        BY <2>1, <3>1, <4>1
    <3>4. CASE ~ w.ack /\ w.st = "next"
      <4>1. w.ack = FALSE /\ w.st = "next"
        BY <1>1, <3>4 DEF Wires
      <4> HIDE DEF r
      <4>2. Fallen(w, c) = Stretched(r, g)
        BY <3>2, <4>1 DEF Fallen, Stretched, r
      <4>3. QED
        BY <2>1, <3>1, <4>2
    <3>5. QED
      BY <2>2, <3>3, <3>4
  <2>3. CASE w.ack /\ w.st # "send"
    <3> DEFINE r == [w EXCEPT !.ack = FALSE, !.low = FALSE]
    <3>1. r \in Wires /\ r.wrote = w.wrote /\ r.shift = <<>> /\ r.low = FALSE /\ r.st = w.st
      BY <1>1, <2>3 DEF Wires
    <3>2. PICK h \in BOOLEAN : h = (c.hold /\ r.st # "off" /\ "byte" \in Stretches)
      OBVIOUS
    <3>3. w.ack = TRUE /\ w.st \in {"offset", "data"}
      BY <1>1, <2>3 DEF Wires
    <3>4. Fallen(w, c) = Stretched(r, h)
      BY <3>2, <3>3 DEF Fallen, Stretched
    <3> HIDE DEF r
    <3>5. QED
      BY <2>1, <3>1, <3>4
  <2>4. CASE ~ w.ack /\ w.st = "send" /\ w.shift = <<>>
    <3> DEFINE r == [w EXCEPT !.st = "asked", !.low = FALSE]
    <3>1. r \in Wires /\ r.wrote = w.wrote /\ r.st = "asked" /\ r.st \notin Listening
      BY <1>1 DEF Wires, States, Listening
    <3>2. PICK h \in BOOLEAN : h = (c.hold /\ r.st # "off" /\ "bit" \in Stretches)
      OBVIOUS
    <3>3. Fallen(w, c) = Stretched(r, h)
      BY <2>4, <3>2 DEF Fallen, Stretched
    <3> HIDE DEF r
    <3>4. QED
      BY <2>1, <3>1, <3>3
  <2>5. CASE ~ w.ack /\ w.st = "send" /\ w.shift # <<>>
    <3>1. w.shift \in Seq(Bit)
      BY <1>1 DEF Wires
    <3>2. Tail(w.shift) \in Seq(Bit)
      BY <2>5, <3>1
    <3>3. PICK t \in Seq(Bit) : t = Tail(w.shift)
      BY <3>2
    <3>4. PICK low \in BOOLEAN : low = (Head(w.shift) = 0)
      OBVIOUS
    <3> DEFINE r == [w EXCEPT !.low = low, !.shift = t]
    <3>5. r \in Wires /\ r.wrote = w.wrote /\ r.st = "send" /\ r.st \notin Listening
      BY <1>1, <2>5 DEF Wires, Listening
    <3>6. PICK h \in BOOLEAN : h = (c.hold /\ r.st # "off" /\ "bit" \in Stretches)
      OBVIOUS
    <3>7. Fallen(w, c) = Stretched(r, h)
      BY <2>5, <3>3, <3>4, <3>6 DEF Fallen, Stretched
    <3> HIDE DEF r
    <3>8. QED
      BY <2>1, <3>5, <3>7
  <2>6. CASE ~ w.ack /\ w.st \notin {"send", "next"}
    <3>1. PICK h \in BOOLEAN : h = (c.hold /\ w.st # "off" /\ "bit" \in Stretches)
      OBVIOUS
    <3>2. Fallen(w, c) = Stretched(w, h)
      BY <1>3, <2>6, <3>1 DEF Fallen, Stretched, Listening
    <3>3. w.st \notin Listening /\ w.st \notin {"offset", "data"}
      BY <1>3, <2>6 DEF Listening
    <3>4. QED
      BY <1>1, <2>1, <3>2, <3>3
  <2>7. QED
    BY <1>3, <2>2, <2>3, <2>4, <2>5, <2>6
<1>4. QED
  BY <1>2, <1>3

LEMMA SclFirm ==
  ASSUME WholeBytes, NEW w, Firm(w), NEW v \in Bit, NEW c \in Chosen
  PROVE  /\ Firm(SetScl(w, v, c)) /\ SetScl(w, v, c).scl = v
         /\ w.st \notin Listening => SetScl(w, v, c).st \notin Listening
         /\ v = 1 \/ w.st # "data" \/ w.ack \/ Len(w.shift) # BITS => SetScl(w, v, c).wrote = w.wrote
<1>1. Shaped(w) /\ Formed(w) /\ w \in Wires /\ Sure(w)
  BY DEF Firm, Shaped, Formed
<1>2. PICK n \in Wires : n = [w EXCEPT !.scl = v]
  BY <1>1 DEF Wires
<1>3. /\ n.st = w.st /\ n.shift = w.shift /\ n.ack = w.ack /\ n.low = w.low /\ n.hold = w.hold
      /\ n.wrote = w.wrote /\ n.part = w.part /\ n.scl = v
  BY <1>1, <1>2 DEF Wires
<1>4. Sure(n) /\ Formed(n)
  BY <1>1, <1>3 DEF Sure, Formed
<1>5. \/ SetScl(w, v, c) = n
      \/ SetScl(w, v, c) = Risen(n) /\ ~ w.hold
      \/ SetScl(w, v, c) = Fallen(n, c) /\ ~ w.hold /\ v # 1
  BY <1>2 DEF SetScl
<1>6. Shaped(SetScl(w, v, c)) /\ SetScl(w, v, c).scl = v
  BY <1>1, SclShaped
<1>7. CASE SetScl(w, v, c) = n
  BY <1>3, <1>4, <1>6, <1>7 DEF Firm
<1>8. CASE SetScl(w, v, c) = Risen(n) /\ ~ w.hold
  <2>1. Risen(n).wrote = n.wrote
    BY RisenKeeps DEF Kept
  <2>2. Sure(Risen(n)) /\ (Risen(n).st = n.st \/ Risen(n).st \in {"next", "off"})
    BY <1>3, <1>4, <1>8, RisenSure
  <2>3. QED
    BY <1>3, <1>6, <1>8, <2>1, <2>2 DEF Firm, Listening
<1>9. CASE SetScl(w, v, c) = Fallen(n, c) /\ ~ w.hold /\ v # 1
  <2>1. /\ Sure(Fallen(n, c))
        /\ n.st # "data" \/ n.ack \/ Len(n.shift) # BITS => Fallen(n, c).wrote = n.wrote
        /\ n.st \notin Listening => Fallen(n, c).st \notin Listening
    BY <1>3, <1>4, <1>9, FallenSure
  <2>2. QED
    BY <1>3, <1>6, <1>9, <2>1 DEF Firm
<1>10. QED
  BY <1>5, <1>7, <1>8, <1>9

\* START, STOP and bits.
LEMMA StartFirm ==
  ASSUME WholeBytes, NEW w, Firm(w), NEW c \in Chosen
  PROVE  Firm(Prepared(w, c)) /\ Firm(StartDone(w, c))
<1>1. 0 \in Bit /\ 1 \in Bit
  BY DEF Bit
<1>2. Firm(Prepared(w, c))
  BY <1>1, SdaFirm, SclFirm DEF Prepared
<1>3. Firm(SetScl(SetSda(Prepared(w, c), 0), 0, c))
  BY <1>1, <1>2, SdaFirm, SclFirm
<1>4. QED
  BY <1>2, <1>3 DEF StartDone

LEMMA StopFirm ==
  ASSUME WholeBytes, NEW w, Firm(w), NEW c \in Chosen
  PROVE  Firm(Lowered(w, c)) /\ Firm(StopDone(w, c))
<1>1. 0 \in Bit /\ 1 \in Bit
  BY DEF Bit
<1>2. Firm(Lowered(w, c))
  BY <1>1, SdaFirm, SclFirm DEF Lowered
<1>3. Firm(SetSda(Lowered(w, c), 1))
  BY <1>1, <1>2, SdaFirm
<1>4. QED
  BY <1>2, <1>3 DEF StopDone

\* Where a line stays low, the device holds or pulls it, with nothing shifted in.
LEMMA LowIsStill ==
  ASSUME NEW w, Firm(w), w.scl = 1, w.hold \/ w.low
  PROVE  Still(w)
<1>1. w.st \in {"offset", "data"} => w.shift = <<>>
  BY DEF Firm, Sure, Shaped, Formed, Listening
<1>2. QED
  BY <1>1 DEF Still

\* A START that is not made leaves the device still.
LEMMA StartNotMade ==
  ASSUME WholeBytes, NEW w, Firm(w), NEW c \in Chosen, ~ High(Prepared(w, c)), NEW x, x = StartDone(w, c),
         Still(w) \/ w.scl = 0
  PROVE  Still(x) /\ x.wrote = w.wrote
<1> DEFINE p == Prepared(w, c)
<1>1. Firm(p) /\ x = p /\ 0 \in Bit /\ 1 \in Bit /\ BITS \in Nat /\ BITS > 1
  BY StartFirm, MasterAssumption DEF StartDone, Bit
<1>2. w \in Wires /\ p \in Wires /\ SCL(w) \in Bit /\ SDA(w) \in Bit
  BY <1>1, Levels DEF Firm, Shaped, Formed
<1>3. CASE SCL(w) = 1 /\ SDA(w) = 0
  <2> DEFINE f == SetScl(w, 0, c)
  <2>1. w.scl = 1
    BY <1>3 DEF SCL
  <2>2. w.st # "data" \/ Len(w.shift) # BITS
    BY <1>1, <2>1 DEF Still
  <2>3. Firm(f) /\ f.wrote = w.wrote /\ f \in Wires
    BY <1>1, <2>2, SclFirm DEF Firm, Shaped, Formed
  <2>4. p = SetScl(SetSda(f, 1), 1, c)
    BY <1>3 DEF Prepared
  <2> HIDE DEF f
  <2>5. p.scl = 1 /\ p.sda = 1 /\ p.wrote = w.wrote
    BY <1>1, <2>3, <2>4, SdaKeeps, SclRises DEF Kept
  <2>6. p.hold \/ p.low
    BY <1>1, <2>5 DEF High, SCL, SDA
  <2>7. QED
    BY <1>1, <2>5, <2>6, LowIsStill
<1>4. CASE SCL(w) = 0
  <2>1. p = SetScl(SetSda(w, 1), 1, c)
    BY <1>4 DEF Prepared
  <2>2. p.scl = 1 /\ p.sda = 1 /\ p.wrote = w.wrote
    <3>1. PICK s \in Wires : s = SetSda(w, 1) /\ s.sda = 1 /\ s.wrote = w.wrote
      BY <1>1, <1>2, SdaKeeps DEF Kept
    <3>2. QED
      BY <2>1, <3>1, SclRises DEF Kept
  <2>3. p.hold \/ p.low
    BY <1>1, <2>2 DEF High, SCL, SDA
  <2>4. QED
    BY <1>1, <2>2, <2>3, LowIsStill
<1>5. CASE SCL(w) = 1 /\ SDA(w) = 1
  BY <1>5 DEF Prepared, High
<1>6. QED
  BY <1>2, <1>3, <1>4, <1>5 DEF Bit

\* A STOP, whether the device sees it or not.
LEMMA StopIsStill ==
  ASSUME WholeBytes, NEW w, Firm(w), NEW c \in Chosen, NEW x, x = StopDone(w, c)
  PROVE  Still(x) /\ (Still(w) \/ w.scl = 0 => x.wrote = w.wrote)
<1> DEFINE p == Lowered(w, c)
<1>1. Firm(p) /\ Firm(x) /\ 0 \in Bit /\ 1 \in Bit /\ BITS \in Nat /\ BITS > 1
  BY StopFirm, MasterAssumption DEF Bit
<1>2. w \in Wires /\ p \in Wires /\ SCL(w) \in Bit /\ SDA(w) \in Bit
  BY <1>1, Levels DEF Firm, Shaped, Formed
<1>3. p.scl = 1 /\ SDA(p) = 0 /\ (Still(w) \/ w.scl = 0 => p.wrote = w.wrote)
  <2>1. CASE SCL(w) = 0 /\ SDA(w) = 0
    <3>1. p = SetScl(w, 1, c)
      BY <2>1 DEF Lowered
    <3>2. QED
      BY <1>2, <2>1, <3>1, SclRises DEF Kept, SDA
  <2>2. CASE SCL(w) = 0 /\ SDA(w) = 1
    <3>1. p = SetScl(SetSda(w, 0), 1, c)
      BY <2>2 DEF Lowered
    <3>2. p.scl = 1 /\ p.sda = 0 /\ p.wrote = w.wrote
      <4>1. PICK s \in Wires : s = SetSda(w, 0) /\ s.sda = 0 /\ s.wrote = w.wrote
        BY <1>1, <1>2, SdaKeeps DEF Kept
      <4>2. QED
        BY <3>1, <4>1, SclRises DEF Kept
    <3>3. QED
      BY <3>2 DEF SDA
  <2>3. CASE SCL(w) = 1 /\ SDA(w) = 1
    <3> DEFINE f == SetScl(w, 0, c)
    <3>1. w.scl = 1
      BY <2>3 DEF SCL
    <3>2. Firm(f) /\ f \in Wires /\ (Still(w) => f.wrote = w.wrote)
      <4>1. Still(w) => w.st # "data" \/ Len(w.shift) # BITS
        BY <1>1 DEF Still
      <4>2. QED
        BY <1>1, <4>1, SclFirm DEF Firm, Shaped, Formed
    <3>3. p = SetScl(SetSda(f, 0), 1, c)
      BY <2>3 DEF Lowered
    <3> HIDE DEF f
    <3>4. p.scl = 1 /\ p.sda = 0 /\ p.wrote = f.wrote
      BY <1>1, <3>2, <3>3, SdaKeeps, SclRises DEF Kept
    <3>5. QED
      BY <3>1, <3>2, <3>4 DEF SDA
  <2>4. CASE SCL(w) = 1 /\ SDA(w) = 0
    <3>1. p = w
      BY <2>4 DEF Lowered
    <3>2. QED
      BY <2>4, <3>1 DEF SCL
  <2>5. QED
    BY <1>2, <2>1, <2>2, <2>3, <2>4 DEF Bit
<1>4. x = (IF SCL(p) = 1 /\ SDA(p) = 0 THEN SetSda(p, 1) ELSE p)
  BY DEF StopDone
<1> HIDE DEF p
<1>5. x.wrote = p.wrote /\ x.scl = 1 /\ x.low = p.low /\ x.hold = p.hold
  <2>1. LET y == SetSda(p, 1) IN
        y.wrote = p.wrote /\ y.scl = p.scl /\ y.low = p.low /\ y.hold = p.hold
    BY <1>1, <1>2, SdaKeeps DEF Kept
  <2>2. QED
    BY <1>3, <1>4, <2>1
<1>6. CASE x.hold \/ x.low
  BY <1>1, <1>3, <1>5, <1>6, LowIsStill
<1>7. CASE ~ x.hold /\ ~ x.low
  <2>1. SCL(p) = 1 /\ SDA(p) = 0 /\ ~ p.low /\ p.sda = 0
    BY <1>3, <1>5, <1>7 DEF SCL, SDA
  <2>2. x = Stopped([p EXCEPT !.sda = 1])
    BY <1>4, <2>1 DEF SetSda
  <2>3. x.st = "off"
    BY <1>2, <2>2 DEF Stopped, Wires
  <2>4. QED
    BY <1>3, <1>5, <2>3 DEF Still
<1>8. QED
  BY <1>6, <1>7

\* A bit of the master's.
LEMMA BitFirm ==
  ASSUME WholeBytes, NEW w, Firm(w), ~ w.hold, NEW v \in Bit, NEW c \in Chosen, NEW x, x = WRITE_BIT(w, v, c)
  PROVE  /\ Firm(x) /\ x.scl = 0
         /\ w.st # "data" => x.wrote = w.wrote
         /\ w.st \notin Listening /\ w.scl = 0 => x.st \notin Listening
<1> DEFINE s == SetSda(w, v)   u == SetScl(s, 1, c)
<1>1. x = SetScl(u, 0, c) /\ 0 \in Bit /\ 1 \in Bit /\ w \in Wires
  BY DEF WRITE_BIT, Up, Bit, Firm, Shaped, Formed
<1>2. Firm(s) /\ s \in Wires
  BY SdaFirm DEF Firm, Shaped, Formed
<1>3. s.wrote = w.wrote /\ (w.scl = 0 => s.st = w.st)
  <2>1. s.wrote = w.wrote /\ (SCL(w) = 0 => s = Set(w, v))
    BY <1>1, SdaKeeps DEF Kept
  <2>2. QED
    BY <1>1, <2>1, SetIs DEF SCL
<1>4. w.st # "data" => s.st # "data"
  <2>1. PICK n \in Wires : n = [w EXCEPT !.sda = v]
    BY <1>1 DEF Wires
  <2>2. n.st = w.st
    BY <1>1, <2>1 DEF Wires
  <2>3. Started(n).st = "address" /\ Stopped(n).st = "off"
    BY DEF Started, Stopped, Wires
  <2>4. s = n \/ s = Started(n) \/ s = Stopped(n)
    BY <2>1 DEF SetSda
  <2>5. QED
    BY <2>2, <2>3, <2>4
<1> HIDE DEF s
<1>5. Firm(u) /\ u.wrote = s.wrote /\ (s.st \notin Listening => u.st \notin Listening)
  BY <1>1, <1>2, SclFirm
<1>6. s.st # "data" => u.st # "data"
  <2>1. PICK n \in Wires : n = [s EXCEPT !.scl = 1]
    BY <1>1, <1>2 DEF Wires
  <2>2. n.st = s.st /\ n.hold = s.hold /\ n.shift = s.shift /\ n.ack = s.ack /\ n.low = s.low
    BY <1>2, <2>1 DEF Wires
  <2>3. Sure(n)
    BY <1>2, <2>2 DEF Firm, Sure
  <2>4. u = n \/ u = Risen(n)
    BY <2>1 DEF SetScl
  <2>5. QED
    BY <2>2, <2>3, <2>4, RisenSure
<1> HIDE DEF u
<1>7. QED
  BY <1>1, <1>3, <1>4, <1>5, <1>6, SclFirm

\* The clock of an acknowledgement, out of step: at most an address is taken.
LEMMA AstrayEnds ==
  ASSUME NEW w, Shaped(w), ~ w.hold, Astray(w, BITS), NEW c \in Chosen, NEW x, x = READ_BIT(w, c)
  PROVE  x.st \notin {"offset", "data"}
<1>1. Low(w) /\ w \in Wires /\ BITS \in Nat /\ BITS > 1 /\ BITS - 1 \in 0..BITS - 1 /\ 1 \in Bit
  BY MasterAssumption DEF Astray, Shaped, Formed, Bit
<1>2. CASE w.st = "off"
  <2>1. Dropped(w)
    BY <1>1, <1>2 DEF Dropped
  <2>2. Dropped(x)
    BY <1>1, <2>1, DroppedClocked DEF READ_BIT
  <2>3. QED
    BY <2>2 DEF Dropped
<1>3. CASE w.st = "address" /\ Len(w.shift) = BITS - 1
  <2>1. PICK byte : byte = Append(w.shift, 1)
    OBVIOUS
  <2>2. w.shift \in Seq(Bit)
    BY <1>1 DEF Wires
  <2>3. byte \in Seq(Bit) /\ Len(byte) = BITS /\ byte[BITS] = 1 /\ \A j \in 1..BITS - 1 : w.shift[j] = byte[j]
    BY <1>1, <1>3, <2>1, <2>2
  <2>4. byte \in Byte
    BY <2>3, ByteFromBits
  <2>5. Hears(w, "address", BITS - 1, byte)
    BY <1>1, <1>3, <2>3 DEF Hears
  <2>6. x = WRITE_BIT(w, byte[BITS - 1 + 1], c)
    BY <1>1, <2>3 DEF READ_BIT
  <2>7. \/ Dropped(x)
        \/ \E y \in Wires, h \in BOOLEAN :
              x = Stretched(Taken(y), h) /\ y.shift = byte /\ y.st = "address" /\ y.scl = 0
    <3>1. BITS - 1 + 1 = BITS /\ ~ (BITS < BITS)
      BY <1>1
    <3>2. QED
      BY <1>1, <2>4, <2>5, <2>6, <3>1, HearsNext DEF Listening
  <2>8. ASSUME NEW y \in Wires, NEW h \in BOOLEAN,
               x = Stretched(Taken(y), h), y.shift = byte, y.st = "address", y.scl = 0
        PROVE  x.st = "send"
    BY <2>3, <2>4, <2>8, AddressTaken DEF Took
  <2>9. QED
    BY <2>7, <2>8 DEF Dropped
<1>4. QED
  BY <1>1, <1>2, <1>3 DEF Astray

\* The lines of start-up end with a STOP, unless the device holds or pulls one.
LEMMA InitIsStill ==
  ASSUME WholeBytes, NEW w, Firm(w), NEW c \in Chosen,
         NEW x, x = SetSda(SetScl(SetSda(SetScl(w, 0, c), 0), 1, c), 1)
  PROVE  Firm(x) /\ Still(x)
<1> DEFINE g == SetSda(SetScl(w, 0, c), 0)   p == SetScl(g, 1, c)
<1>1. 0 \in Bit /\ 1 \in Bit
  BY DEF Bit
<1>2. Firm(g) /\ g.sda = 0 /\ g \in Wires
  BY <1>1, SclFirm, SdaFirm DEF Firm, Shaped, Formed
<1>3. Firm(p) /\ p.scl = 1 /\ p.sda = 0 /\ p \in Wires
  <2> HIDE DEF g
  <2>1. QED
    BY <1>1, <1>2, SclFirm, SclRises DEF Firm, Shaped, Formed
<1> HIDE DEF p
<1>4. x = SetSda(p, 1) /\ Firm(x) /\ x.scl = 1 /\ x.low = p.low /\ x.hold = p.hold
  <2>1. x = SetSda(p, 1)
    BY DEF p
  <2>2. QED
    BY <1>1, <1>3, <2>1, SdaFirm, SdaKeeps
<1>5. CASE x.hold \/ x.low
  BY <1>4, <1>5, LowIsStill
<1>6. CASE ~ x.hold /\ ~ x.low
  <2>1. SCL(p) = 1 /\ ~ p.low /\ p.sda = 0
    BY <1>3, <1>4, <1>6 DEF SCL
  <2>2. x = Stopped([p EXCEPT !.sda = 1])
    BY <1>4, <2>1 DEF SetSda
  <2>3. x.st = "off"
    BY <1>3, <2>2 DEF Stopped, Wires
  <2>4. QED
    BY <1>4, <2>3 DEF Still
<1>7. QED
  BY <1>5, <1>6

\* The device lets go of SCL.
LEMMA ReleaseFirm ==
  ASSUME Firm(wire), Release
  PROVE  /\ Firm(wire') /\ (Still(wire) => Still(wire'))
         /\ wire'.wrote = wire.wrote /\ wire'.scl = wire.scl
         /\ wire.st \notin Listening => wire'.st \notin Listening
         /\ wire.st = "off" => wire'.st = "off"
<1>1. Shaped(wire) /\ wire \in Wires /\ Sure(wire) /\ wire.hold /\ Shaped(wire')
  BY ReleaseShaped DEF Firm, Shaped, Formed, Release
<1>2. PICK n \in Wires : n = [wire EXCEPT !.hold = FALSE]
  BY <1>1 DEF Wires
<1>3. /\ n.st = wire.st /\ n.shift = wire.shift /\ n.ack = wire.ack /\ n.low = wire.low /\ n.hold = FALSE
      /\ n.wrote = wire.wrote /\ n.scl = wire.scl
  BY <1>1, <1>2 DEF Wires
<1>4. wire' = n \/ wire' = Risen(n)
  BY <1>2 DEF Release
<1>5. Sure(n)
  BY <1>1, <1>3 DEF Sure
<1>6. /\ Sure(Risen(n)) /\ Risen(n).wrote = n.wrote /\ Risen(n).scl = n.scl
      /\ Risen(n).st = n.st \/ (n.st = "asked" /\ Risen(n).st \in {"next", "off"})
      /\ n.st \in {"offset", "data"} => Risen(n).shift = n.shift \/ Len(Risen(n).shift) = Len(n.shift) + 1
  BY <1>3, <1>5, RisenSure, RisenKeeps DEF Kept
<1>7. wire.st \in {"offset", "data"} => Len(n.shift) = 0
  BY <1>1, <1>3 DEF Sure
<1>8. Still(wire) => Still(wire')
  BY <1>3, <1>4, <1>6, <1>7 DEF Still
<1>9. Firm(wire')
  BY <1>1, <1>4, <1>5, <1>6 DEF Firm
<1>10. QED
  BY <1>3, <1>4, <1>6, <1>8, <1>9 DEF Listening

----------------------------------------------------------------------------
(* The inductive invariant.                                                *)

Guarded ==
  /\ Sure(wire)
  /\ pc \in {"idle", "start", "abort"} => Still(wire)
  /\ pc \in {"reset", "init"} => call = NoCall
  /\ pc = "restart" /\ refused => wire.st = "off"
  /\ pc = "receive" => wire.scl = 0 /\ wire.st \notin Listening
  /\ pc = "stop" => wire.scl = 0 \/ wire.st = "off"

OnlyInv == DoneInv /\ Guarded /\ OnlyAsAsked

LEMMA PrefixIs ==
  ASSUME NEW S, NEW s \in Seq(S), NEW t \in Seq(S), Len(s) <= Len(t), \A j \in 1..Len(s) : s[j] = t[j]
  PROVE  IsPrefix(s, t)
<1>1. Len(s) \in Nat /\ Len(t) \in Nat /\ \A j \in 1..Len(t) : t[j] \in S
  OBVIOUS
<1>2. PICK n \in Nat : n = Len(s)
  BY <1>1
<1>3. SubSeq(s, 1, n) \in Seq(S) /\ Len(SubSeq(s, 1, n)) = n /\ \A j \in 1..n : SubSeq(s, 1, n)[j] = s[j]
  BY <1>2
<1>4. SubSeq(t, 1, n) \in Seq(S) /\ Len(SubSeq(t, 1, n)) = n /\ \A j \in 1..n : SubSeq(t, 1, n)[j] = t[j]
  BY <1>1, <1>2
<1>5. SubSeq(s, 1, n) = SubSeq(t, 1, n)
  BY <1>2, <1>3, <1>4, SeqEqual
<1>6. QED
  BY <1>2, <1>5 DEF IsPrefix

\* What was written so far, of what is asked for.
LEMMA WrittenPrefix ==
  ASSUME NEW f, NEW m \in Nat, f = [j \in 1..m |-> f[j]], NEW t \in Traces, Len(t) <= m,
         \A j \in 1..Len(t) : t[j] = f[j]
  PROVE  IsPrefix(t, f)
<1>1. PICK S : S = (Seq(Seq(Bit)) \X Nat \X Seq(Bit)) \cup {f[j] : j \in 1..m}
  OBVIOUS
<1>2. f \in [1..m -> S]
  BY <1>1
<1>3. f \in Seq(S) /\ Len(f) = m
  BY <1>2
<1>4. t \in Seq(S)
  <2>1. PICK R : R = Seq(Seq(Bit)) \X Nat \X Seq(Bit)
    OBVIOUS
  <2>2. t \in Seq(R)
    BY <2>1 DEF Traces
  <2>3. R \subseteq S
    BY <1>1, <2>1
  <2>4. QED
    BY <2>2, <2>3
<1>5. QED
  BY <1>3, <1>4, PrefixIs

LEMMA AskedPrefix ==
  ASSUME call \in Requests, call.op = "write", NEW t \in Traces, Len(t) <= LEN,
         \A j \in 1..Len(t) : t[j] = Asked[j]
  PROVE  IsPrefix(t, Asked)
<1>1. LEN \in Nat
  BY RequestIs
<1>2. PICK f : f = Asked
  OBVIOUS
<1>3. f = [j \in 1..LEN |-> f[j]]
  BY <1>2 DEF Asked
<1>4. QED
  BY <1>1, <1>2, <1>3, WrittenPrefix

\* What was written so far is right as long as nothing is added.
LEMMA OnlyKept ==
  ASSUME OnlyAsAsked, wire'.wrote = wire.wrote, call' = call
  PROVE  OnlyAsAsked'
<1>1. Asked' = Asked
  BY DEF Asked, LEN
<1>2. QED
  BY <1>1 DEF OnlyAsAsked

LEMMA OnlyNext ==
  ASSUME WholeBytes, OnlyInv, [Next]_vars
  PROVE  Guarded' /\ OnlyAsAsked'
<1>1. Firm(wire) /\ wire \in Wires /\ MasterInv /\ Stage /\ 0 \in Bit /\ 1 \in Bit
  BY DEF OnlyInv, DoneInv, MasterInv, Firm, Guarded, Shaped, Formed, Bit
<1>2. CASE Calls
  <2>1. wire' = [wire EXCEPT !.wrote = <<>>] /\ pc = "idle" /\ pc' = "start"
    BY <1>2 DEF Calls, Begin
  <2>2. /\ wire'.wrote = <<>> /\ wire'.st = wire.st /\ wire'.shift = wire.shift /\ wire'.hold = wire.hold
        /\ wire'.ack = wire.ack /\ wire'.low = wire.low /\ wire'.scl = wire.scl
    BY <1>1, <2>1 DEF Wires
  <2>3. Guarded'
    BY <2>1, <2>2 DEF OnlyInv, Guarded, Sure, Still
  <2>4. ASSUME call'.op = "write" PROVE IsPrefix(wire'.wrote, Asked')
    <3>1. call' \in Requests
      BY <1>1, <2>1, CalledNext DEF Called, InCall
    <3>2. PICK m : m = Len(call'.data)
      OBVIOUS
    <3>3. m \in Nat
      BY <2>4, <3>1, <3>2 DEF Requests
    <3>4. PICK f : f = Asked'
      OBVIOUS
    <3>5. f = [j \in 1..m |-> f[j]]
      BY <3>2, <3>4 DEF Asked, LEN
    <3>6. <<>> \in Traces /\ Len(<<>>) = 0
      BY DEF Traces
    <3>7. QED
      BY <2>2, <3>3, <3>4, <3>5, <3>6, WrittenPrefix
  <2>5. QED
    BY <2>2, <2>3, <2>4 DEF OnlyAsAsked
<1>3. CASE Release
  <2>1. call' = call /\ pc' = pc /\ refused' = refused
    BY <1>3 DEF Release
  <2>2. QED
    BY <1>1, <1>3, <2>1, ReleaseFirm, OnlyKept DEF OnlyInv, Guarded, Firm
<1>4. CASE Restart
  <2>1. PICK c \in Chosen : \/ wire' = SetScl(SetSda(wire, 1), 1, c)
                            \/ wire' = SetSda(SetScl(wire, 1, c), 1)
    BY <1>4, AnswersAre DEF Restart
  <2>2. Firm(wire')
    BY <1>1, <2>1, SclFirm, SdaFirm
  <2>3. pc' = "reset" /\ call' = NoCall
    BY <1>4 DEF Restart, Go
  <2>4. QED
    BY <2>2, <2>3 DEF Guarded, Firm, OnlyAsAsked
<1>5. CASE ResetClock \/ ResetStop
  <2>1. PICK c \in Chosen : wire' = SetScl(SetScl(wire, 1, c), 0, c) \/ wire' = StopDone(wire, c)
    BY <1>5, AnswersAre DEF ResetClock, ResetStop
  <2>2. Firm(wire')
    BY <1>1, <2>1, SclFirm, StopFirm
  <2>3. pc = "reset" /\ pc' \in {"reset", "init"} /\ call' = call
    BY <1>5 DEF ResetClock, ResetStop, Go
  <2>4. call' = NoCall
    BY <2>3 DEF OnlyInv, Guarded
  <2>5. QED
    BY <2>2, <2>3, <2>4 DEF Guarded, Firm, OnlyAsAsked
<1>6. CASE InitLines
  <2>1. PICK c \in Chosen : wire' = SetSda(SetScl(SetSda(SetScl(wire, 0, c), 0), 1, c), 1)
    BY <1>6, AnswersAre DEF InitLines
  <2>2. Firm(wire') /\ Still(wire')
    BY <1>1, <2>1, InitIsStill
  <2>3. pc' = "idle" /\ call' = NoCall
    BY <1>6 DEF InitLines, Go, OnlyInv, Guarded
  <2>4. QED
    BY <2>2, <2>3 DEF Guarded, Firm, OnlyAsAsked
<1>7. CASE Abort \/ Stop \/ OffsetStop
  <2>1. PICK c \in Chosen : wire' = StopDone(wire, c)
    BY <1>7, AnswersAre DEF Abort, Stop, OffsetStop
  <2>2. Firm(wire') /\ Still(wire')
    BY <1>1, <2>1, StopFirm, StopIsStill
  <2>3. call' = call
    BY <1>7 DEF Abort, Stop, OffsetStop
  <2>4. wire'.wrote = wire.wrote
    <3>1. Still(wire) \/ wire.scl = 0
      BY <1>1, <1>7 DEF Abort, Stop, OffsetStop, OnlyInv, Guarded, Still, Stage, Dropped, Low
    <3>2. QED
      BY <1>1, <2>1, <3>1, StopIsStill
  <2>5. OnlyAsAsked'
    BY <2>3, <2>4, OnlyKept DEF OnlyInv
  <2>6. Guarded'
    <3>1. CASE Abort \/ Stop
      BY <2>2, <3>1 DEF Abort, Stop, Return, Go, Guarded, Firm
    <3>2. CASE OffsetStop
      <4>1. wire'.st = "off"
        <5>1. Dropped(wire) /\ wire.sda = 1 /\ Shaped(wire)
          BY <1>1, <3>2 DEF Stage, OffsetStop, MasterInv
        <5>2. QED
          BY <2>1, <5>1, DroppedStop
      <4>2. pc' \in {"restart", "stop", "data"}
        BY <3>2 DEF OffsetStop, Go, AfterOffset
      <4>3. QED
        BY <2>2, <4>1, <4>2 DEF Guarded, Firm
    <3>3. QED
      BY <1>7, <3>1, <3>2
  <2>7. QED
    BY <2>5, <2>6
<1>8. CASE Start
  <2>1. PICK c \in Chosen : wire' = StartDone(wire, c)
                            /\ pc' = IF ~ High(Prepared(wire, c)) THEN "abort"
                                     ELSE IF pc = "start" THEN "address" ELSE "again"
    BY <1>8, AnswersAre DEF Start, Go
  <2>2. Firm(wire') /\ call' = call
    BY <1>1, <1>8, <2>1, StartFirm DEF Start
  <2>3. CASE High(Prepared(wire, c))
    <3>1. wire'.wrote = wire.wrote
      BY <1>1, <2>1, <2>3, StartIsMade DEF Firm
    <3>2. QED
      BY <2>1, <2>2, <2>3, <3>1, OnlyKept DEF OnlyInv, Guarded, Firm
  <2>4. CASE ~ High(Prepared(wire, c))
    <3>1. Still(wire) \/ wire.scl = 0
      BY <1>1, <1>8 DEF Start, OnlyInv, Guarded, Still, Stage, Low
    <3>2. Still(wire') /\ wire'.wrote = wire.wrote
      BY <1>1, <2>1, <2>4, <3>1, StartNotMade
    <3>3. QED
      BY <2>1, <2>2, <2>4, <3>2, OnlyKept DEF OnlyInv, Guarded, Firm
  <2>5. QED
    BY <2>3, <2>4
<1>9. CASE SendBit
  <2>1. Outgoing \in Byte /\ k + 1 \in 1..BITS
    BY <1>1, <1>9, OutgoingIs, MasterAssumption DEF SendBit, MasterInv, Typed
  <2>2. Outgoing[k + 1] \in Bit
    BY <2>1, ByteIsSequence
  <2>3. PICK c \in Chosen : wire' = WRITE_BIT(wire, Outgoing[k + 1], c)
    BY <1>9, AnswersAre DEF SendBit
  <2>4. /\ pc' = pc /\ call' = call /\ i' = i /\ refused' = refused /\ ~ wire.hold /\ k' = k + 1
        /\ pc \in {"address", "again", "high", "low", "data"}
    BY <1>9 DEF SendBit, Sending
  <2>5. Firm(wire') /\ (wire.st # "data" => wire'.wrote = wire.wrote)
    BY <1>1, <2>2, <2>3, <2>4, BitFirm
  <2>6. Guarded'
    BY <2>4, <2>5 DEF Guarded, Firm
  <2>7. CASE pc # "data" \/ refused
    <3>1. wire.st # "data"
      <4>1. k < BITS
        BY <1>9 DEF SendBit
      <4>2. CASE pc = "data"
        BY <1>1, <2>7, <4>2 DEF Stage, Astray
      <4>3. CASE pc # "data"
        BY <1>1, <2>4, <4>1, <4>3 DEF Stage, AtAddress, AtAgain, AtHigh, AtLow, InStep, Hears
      <4>4. QED
        BY <4>2, <4>3
    <3>2. QED
      BY <2>4, <2>5, <2>6, <3>1, OnlyKept DEF OnlyInv
  <2>8. CASE pc = "data" /\ ~ refused
    <3>1. Stage'
      BY <1>9, SendBitStage DEF OnlyInv
    <3>2. AtData'
      BY <2>4, <2>8, <3>1 DEF Stage
    <3>3. call.op = "write" /\ i < LEN /\ LEN \in Nat /\ i \in Nat
      <4>1. call \in Requests /\ call.op = "write" /\ i < LEN
        BY <1>1, <2>8 DEF MasterInv, Called, InCall
      <4>2. QED
        BY <1>1, <4>1, RequestIs, MasterAssumption DEF MasterInv, Typed
    <3>4. PICK m \in {i, i + 1} : Len(wire'.wrote) = m /\ \A j \in 1..m : wire'.wrote[j] = Asked'[j]
      BY <2>4, <3>2 DEF AtData, Wrote
    <3>5. m \in 0..LEN
      BY <3>3
    <3>6. wire'.wrote \in Traces
      BY <2>5 DEF Firm, Shaped, Formed, Wires
    <3>7. IsPrefix(wire'.wrote, Asked)
      <4>1. Asked' = Asked
        BY <2>4 DEF Asked, LEN
      <4>2. call \in Requests
        BY <1>1, <2>8 DEF MasterInv, Called, InCall
      <4>3. Len(wire'.wrote) <= LEN /\ \A j \in 1..Len(wire'.wrote) : wire'.wrote[j] = Asked[j]
        BY <3>3, <3>4, <3>5, <4>1
      <4>4. QED
        BY <3>3, <3>6, <4>2, <4>3, AskedPrefix
    <3>8. Asked' = Asked
      BY <2>4 DEF Asked, LEN
    <3>9. QED
      BY <2>4, <2>6, <3>3, <3>7, <3>8 DEF OnlyAsAsked
  <2>9. QED
    BY <2>7, <2>8
<1>10. CASE SendAck
  <2>1. PICK c \in Chosen :
          /\ wire' = READ_BIT(wire, c)
          /\ IF readBit(wire, c) = 0
             THEN Acknowledged /\ UNCHANGED refused
             ELSE /\ Go(IF pc \in {"high", "low"} THEN "refused" ELSE "abort")
                  /\ UNCHANGED i
    BY <1>10, AnswersAre DEF SendAck
  <2>2. /\ call' = call /\ ~ wire.hold /\ k = BITS /\ pc \in {"address", "again", "high", "low", "data"}
        /\ Shaped(wire) /\ BITS \in Nat
    BY <1>1, <1>10, MasterAssumption DEF SendAck, Sending, Firm
  <2>3. Firm(wire') /\ wire'.scl = 0 /\ (wire.st # "data" => wire'.wrote = wire.wrote)
    BY <1>1, <2>1, <2>2, BitFirm DEF READ_BIT
  <2>4. ASSUME Guarded', wire'.wrote = wire.wrote PROVE Guarded' /\ OnlyAsAsked'
    BY <2>2, <2>4, OnlyKept DEF OnlyInv
  <2>5. CASE Dropped(wire)
    <3>1. readBit(wire, c) = 1 /\ Dropped(wire') /\ Kept(wire', wire)
      BY <1>1, <2>1, <2>2, <2>5, DroppedClocked DEF readBit, READ_BIT
    <3>2. pc' \in {"refused", "abort"}
      BY <2>1, <3>1 DEF Go
    <3>3. QED
      BY <2>3, <2>4, <3>1, <3>2 DEF Guarded, Firm, Still, Dropped, Kept
  <2>6. CASE pc = "data" /\ refused
    <3>1. Astray(wire, BITS)
      BY <1>1, <2>2, <2>6 DEF Stage
    <3>2. readBit(wire, c) = 1 /\ wire'.st \notin {"offset", "data"}
      BY <2>1, <2>2, <3>1, AstrayRefused, AstrayEnds
    <3>3. pc' = "abort"
      BY <2>1, <2>6, <3>2 DEF Go
    <3>4. wire.st # "data"
      BY <3>1 DEF Astray
    <3>5. QED
      BY <2>3, <2>4, <3>2, <3>3, <3>4 DEF Guarded, Firm, Still
  <2>7. CASE pc = "again" /\ ~ Dropped(wire)
    <3>1. Took(wire, "send")
      BY <1>1, <2>2, <2>7 DEF Stage, AtAgain, InStep
    <3>2. PICK byte \in Held : readBit(wire, c) = 0 /\ Loaded(wire', wire, byte)
      BY <2>1, <2>2, <3>1, AckLoads
    <3>3. pc' = "receive"
      BY <2>1, <2>7, <3>2 DEF Acknowledged, Go
    <3>4. wire'.wrote = wire.wrote /\ wire'.st = "send"
      BY <3>2 DEF Loaded, Sends
    <3>5. QED
      BY <2>3, <2>4, <3>3, <3>4 DEF Guarded, Firm, Listening
  <2>8. CASE pc # "again" /\ ~ (pc = "data" /\ refused) /\ ~ Dropped(wire)
    <3>1. PICK st \in {"offset", "data"} : Took(wire, st)
      BY <1>1, <2>2, <2>8 DEF Stage, AtAddress, AtHigh, AtLow, AtData, InStep
    <3>2. readBit(wire, c) = 0 /\ Kept(wire', wire)
      BY <2>1, <2>2, <3>1, AckClocked
    <3>3. Acknowledged /\ refused' = refused
      BY <2>1, <3>2
    <3>4. pc' \in {"high", "low", "restart", "stop", "data"} /\ (pc' = "restart" => pc = "low")
      BY <2>2, <2>8, <3>3 DEF Acknowledged, Go, AfterOffset
    <3>5. pc = "low" => ~ refused
      BY <1>1 DEF Stage
    <3>6. QED
      BY <2>3, <2>4, <3>2, <3>3, <3>4, <3>5 DEF Guarded, Firm, Kept
  <2>9. QED
    BY <2>5, <2>6, <2>7, <2>8
<1>11. CASE RecvBit \/ RecvAck
  <2>1. PICK c \in Chosen, v \in Bit : wire' = WRITE_BIT(wire, v, c)
    BY <1>1, <1>11, AnswersAre DEF RecvBit, RecvAck, READ_BIT
  <2>2. wire.scl = 0 /\ wire.st \notin Listening /\ ~ wire.hold /\ call' = call
        /\ pc' \in {"receive", "stop"}
    BY <1>11 DEF RecvBit, RecvAck, Go, OnlyInv, Guarded
  <2>3. Firm(wire') /\ wire'.scl = 0 /\ wire'.wrote = wire.wrote /\ wire'.st \notin Listening
    BY <1>1, <2>1, <2>2, BitFirm DEF Listening
  <2>4. QED
    BY <2>2, <2>3, OnlyKept DEF OnlyInv, Guarded, Firm
<1>12. CASE UNCHANGED vars
  BY <1>12 DEF vars, OnlyInv, Guarded, OnlyAsAsked, Asked, LEN
<1>13. QED
  BY <1>2, <1>3, <1>4, <1>5, <1>6, <1>7, <1>8, <1>9, <1>10, <1>11, <1>12 DEF Next, Master

\* Whatever the device refuses, it is never made to write anything but what the call
\* asks for, in order (i2c_master.c:358-379, 562-572), if it stretches the clock only
\* behind a byte or its acknowledgement: within a byte, TLC finds the master astray.
THEOREM WritesOnlyAsAsked ==
  ASSUME WholeBytes
  PROVE  Spec => []OnlyAsAsked
<1>1. Init => Guarded /\ OnlyAsAsked
  BY DEF Init, Silent, Guarded, Sure, Still, OnlyAsAsked
<1>2. DoneInv /\ (Guarded /\ OnlyAsAsked) /\ [Next]_vars => (Guarded /\ OnlyAsAsked)'
  BY OnlyNext DEF OnlyInv
<1>3. QED
  BY <1>1, <1>2, DoneInvariant, PTL DEF Spec

=============================================================================
