--------------------------- MODULE FlashBufferProofs ---------------------------
(***************************************************************************)
(* Flash writes and the buffer, for any sizes, bytes and number of calls,  *)
(* with power failing at any moment.  The argument has three parts: what a *)
(* write has done to the page so far (Landing), how the count relates to   *)
(* the slots that are full (Counted), and that each byte which             *)
(* flash_write_run is to write is in the flash or in its slot (AllKept).   *)
(***************************************************************************)
EXTENDS FlashBuffer, TLAPS, FiniteSetTheorems, SequenceTheorems, WellFoundedInduction

\* One of the two functions that write is under way, and the page it writes.
Calling == pc \in {"byte", "save", "erase", "rewrite", "program", "wrote"}
Start == GET_FLASH_PAGE_START_ADDR(call.addr)
Own == Page(call.addr)

\* The function under way and its arguments.
Called ==
  Calling =>
    /\ call.of \in {"flash_write", "flash_write_byte", "flash_write_run"}
    /\ call.addr \in Addrs /\ Len(call.bytes) \in Nat /\ Span \subseteq Addrs
    /\ \A a \in Span : ByteFor(a) \in SUBSET Bits
    /\ call.of # "flash_write" => Len(call.bytes) = 1
    /\ pc = "byte" => call.of # "flash_write"
    /\ pc = "program" => call.of = "flash_write"

\* What it makes of a byte.
Result(a) == IF a \notin Span THEN was[a] ELSE IF a \in Own THEN ByteFor(a) ELSE Programmed(a)

\* How far it is: what is erased, what is written again, what is programmed.
Landing ==
  /\ pc \in {"byte", "save", "erase"} => cell = was
  /\ pc = "erase" => save = [a \in Own |-> was[a]]
  /\ pc = "rewrite" =>
       /\ i \in Start .. Start + FLASH_PAGE_SIZE
       /\ save \in [Own -> SUBSET Bits]
       /\ \A a \in Own :
            save[a] = IF call.of # "flash_write" /\ a = call.addr THEN ByteFor(a) ELSE was[a]
       /\ \A a \in Own :
            cell[a] = IF a < i /\ ~ (call.of = "flash_write" /\ a \in Span) THEN save[a] ELSE Erased
       /\ \A a \in Addrs \ Own : cell[a] = was[a]
  /\ pc = "program" =>
       /\ i \in call.addr .. call.addr + Len(call.bytes)
       /\ \A a \in Own : 
            cell[a] = IF a \in Span THEN IF a < i THEN ByteFor(a) ELSE Erased ELSE was[a]
       /\ \A a \in Addrs \ Own :
            cell[a] = IF a \in Span /\ a < i THEN Programmed(a) ELSE was[a]
  /\ pc = "wrote" => \A a \in Addrs : cell[a] = Result(a)

\* The slots, and what flash_write_run is to write.
Slot == [full : BOOLEAN, addr : Addrs, value : SUBSET Bits]
Items == [addr : Addrs, value : SUBSET Bits]
Buffered == buff \in [Slots -> Slot] /\ came \subseteq Items

\* What holds of the write under way.
WriteInv ==
  /\ cell \in [Addrs -> SUBSET Bits] /\ was \in [Addrs -> SUBSET Bits]
  /\ pc \in {"idle", "byte", "save", "erase", "rewrite", "program", "wrote", "loop", "count",
             "uncount", "clear", "ran"}
  /\ i \in 0 .. FLASH_MAX_ADDR + 1
  /\ Called
  /\ Landing

\* The page of an address holds it and lies in the flash.
LEMMA PageFacts ==
  ASSUME NEW a \in Addrs
  PROVE  /\ a \in Page(a) /\ Page(a) \subseteq Addrs
         /\ GET_FLASH_PAGE_START_ADDR(a) \in Addrs
         /\ GET_FLASH_PAGE_START_ADDR(a) + FLASH_PAGE_SIZE \in 0 .. FLASH_MAX_ADDR + 1
         /\ \A b \in Int : b \in Page(a) <=>
              b >= GET_FLASH_PAGE_START_ADDR(a) /\ b < GET_FLASH_PAGE_START_ADDR(a) + FLASH_PAGE_SIZE
<1>1. a \in Nat /\ FLASH_PAGE_SIZE \in Nat \ {0} /\ FLASH_MAX_ADDR \in Nat
  BY FlashAssumption DEF Addrs
<1>2. a % FLASH_PAGE_SIZE \in 0 .. FLASH_PAGE_SIZE - 1
  BY <1>1
<1> DEFINE s == GET_FLASH_PAGE_START_ADDR(a)
<1>3. s = a - (a % FLASH_PAGE_SIZE) /\ s \in Int /\ Page(a) = s .. s + FLASH_PAGE_SIZE - 1
  BY <1>1, <1>2 DEF GET_FLASH_PAGE_START_ADDR, Page
<1> HIDE DEF s
<1>4. a \in Page(a) /\ s \in Page(a) /\ s + FLASH_PAGE_SIZE - 1 \in Page(a) /\ Page(a) \subseteq Addrs
  BY <1>1, <1>2, <1>3, FlashAssumption
<1>5. s \in Addrs /\ s + FLASH_PAGE_SIZE - 1 \in 0 .. FLASH_MAX_ADDR
  BY <1>4 DEF Addrs
<1>6. QED
  BY <1>1, <1>3, <1>4, <1>5 DEF s

\* Programming an erased cell gives the byte.
LEMMA ProgramErased ==
  ASSUME NEW v \in SUBSET Bits
  PROVE  Erased \cap v = v
BY DEF Erased

\* WriteInv holds at first.
LEMMA WriteInit == Init => WriteInv
BY FlashAssumption DEF Init, WriteInv, Called, Landing, Calling, NoCall, Addrs

\* A call begins: of one byte, or of as many as fit.
LEMMA WriteBegins ==
  ASSUME WriteInv, NEW of \in {"flash_write", "flash_write_byte", "flash_write_run"},
         NEW a \in Addrs, NEW bytes \in Seq(SUBSET Bits), a + Len(bytes) <= FLASH_MAX_ADDR + 1,
         of # "flash_write" => Len(bytes) = 1,
         Begin(of, a, bytes), cell' = cell, i' = i,
         pc' = IF of = "flash_write" THEN "save" ELSE "byte"
  PROVE  WriteInv'
<1>1. /\ call'.of = of /\ call'.addr = a /\ call'.bytes = bytes /\ was' = cell
      /\ Len(bytes) \in Nat /\ Span' = a .. a + Len(bytes) - 1
  BY LenProperties DEF Begin, Span
<1>2. FLASH_MAX_ADDR \in Nat /\ a \in Nat /\ Bytes \subseteq SUBSET Bits
  BY FlashAssumption DEF Addrs
<1>3. Span' \subseteq Addrs
  BY <1>1, <1>2 DEF Addrs
<1>4. ASSUME NEW b \in Span' PROVE ByteFor(b)' \in SUBSET Bits
  <2>1. b - a + 1 \in 1 .. Len(bytes) /\ ByteFor(b)' = bytes[b - a + 1]
    BY <1>1, <1>2 DEF ByteFor
  <2>2. QED
    BY <2>1, <1>2, ElementOfSeq
<1>5. Called'
  BY <1>1, <1>3, <1>4 DEF Called
<1>6. QED
  BY <1>1, <1>5 DEF WriteInv, Landing

\* What a step under way knows of its call.
LEMMA CallFacts ==
  ASSUME WriteInv, Calling
  PROVE  /\ call.addr \in Addrs /\ call.addr \in Nat /\ Len(call.bytes) \in Nat
         /\ call.addr \in Own /\ Own \subseteq Addrs
         /\ Start \in Nat /\ Start + FLASH_PAGE_SIZE \in 0 .. FLASH_MAX_ADDR + 1
         /\ FLASH_PAGE_SIZE \in Nat \ {0} /\ FLASH_MAX_ADDR \in Nat /\ Addrs \subseteq Nat
         /\ \A b \in Int : b \in Own <=> b >= Start /\ b < Start + FLASH_PAGE_SIZE
         /\ \A b \in Int : b \in Span <=> b >= call.addr /\ b < call.addr + Len(call.bytes)
         /\ Span \subseteq Addrs
         /\ \A b \in Span : ByteFor(b) \in SUBSET Bits
         /\ call.of # "flash_write" => Span = {call.addr}
<1>1. /\ call.addr \in Addrs /\ Len(call.bytes) \in Nat /\ Span \subseteq Addrs
      /\ FLASH_PAGE_SIZE \in Nat \ {0} /\ FLASH_MAX_ADDR \in Nat /\ Addrs \subseteq Nat
      /\ \A b \in Span : ByteFor(b) \in SUBSET Bits
      /\ call.of # "flash_write" => Len(call.bytes) = 1
  BY FlashAssumption DEF WriteInv, Called, Addrs
<1> DEFINE first == call.addr   count == Len(call.bytes)
<1>2. \A b \in Int : b \in Span <=> b >= first /\ b < first + count
  <2>1. first \in Nat /\ count \in Nat /\ Span = first .. first + count - 1
    BY <1>1 DEF Span
  <2> HIDE DEF first, count
  <2>2. QED
    BY <2>1
<1>3. call.of # "flash_write" => Span = {call.addr}
  <2>1. SUFFICES ASSUME call.of # "flash_write" PROVE Span = {call.addr}
    OBVIOUS
  <2>2. first \in Nat /\ Span = first .. first + 1 - 1
    BY <1>1, <2>1 DEF Span
  <2> HIDE DEF first
  <2>3. Span = {first}
    BY <2>2
  <2>4. QED
    BY <2>3 DEF first
<1>4. QED
  BY <1>1, <1>2, <1>3, PageFacts DEF Own, Start, Addrs

\* A byte that is there already, or goes into an erased cell.
LEMMA ByteKeeps ==
  ASSUME WriteInv, Byte
  PROVE  WriteInv'
<1>1. /\ pc = "byte" /\ Calling /\ UNCHANGED <<was, call, i, save>> /\ pc' \in {"wrote", "save"}
      /\ cell = was /\ call.of # "flash_write" /\ UNCHANGED <<Own, Start, Span>>
      /\ \A a : ByteFor(a)' = ByteFor(a)
  BY DEF Byte, Calling, WriteInv, Landing, Called, Own, Start, Span, ByteFor
<1>2. /\ call.addr \in Addrs /\ call.addr \in Nat /\ Span = {call.addr} /\ ByteFor(call.addr) = call.bytes[1]
      /\ ByteFor(call.addr) \in SUBSET Bits /\ call.addr \in Own /\ Own \subseteq Addrs
  <2>1. /\ call.addr \in Addrs /\ call.addr \in Nat /\ Span = {call.addr}
        /\ ByteFor(call.addr) \in SUBSET Bits /\ call.addr \in Own /\ Own \subseteq Addrs
    BY <1>1, CallFacts
  <2>2. call.addr - call.addr + 1 = 1
    BY <2>1
  <2>3. QED
    BY <2>1, <2>2 DEF ByteFor
<1>3. Called'
  BY <1>1 DEF WriteInv, Called, Calling
<1>4. CASE pc' = "save" /\ cell' = cell
  BY <1>1, <1>3, <1>4 DEF WriteInv, Landing
<1>5. CASE pc' = "wrote" /\ cell = cell' /\ cell[call.addr] = call.bytes[1]
  BY <1>1, <1>2, <1>3, <1>5 DEF WriteInv, Landing, Result
<1>6. CASE /\ pc' = "wrote" /\ cell[call.addr] = Erased
           /\ flash_hw_write_byte(call.addr, call.bytes[1])
  <2>1. cell' = [cell EXCEPT ![call.addr] = ByteFor(call.addr)]
    BY <1>2, <1>6, ProgramErased DEF flash_hw_write_byte, WriteInv
  <2>2. QED
    BY <1>1, <1>2, <1>3, <1>6, <2>1 DEF WriteInv, Landing, Result
<1>7. QED
  BY <1>4, <1>5, <1>6 DEF Byte

\* The page is copied.
LEMMA SaveKeeps ==
  ASSUME WriteInv, Save
  PROVE  WriteInv'
<1>1. pc = "save" /\ pc' = "erase" /\ UNCHANGED <<cell, was, call, i>> /\ cell = was
      /\ save' = [a \in Own |-> was[a]] /\ UNCHANGED <<Own, Start, Span>>
  BY DEF Save, Calling, WriteInv, Landing, Called, Own, Start, Span
<1>2. Called'
  BY <1>1 DEF WriteInv, Called, Calling, ByteFor
<1>3. QED
  BY <1>1, <1>2 DEF WriteInv, Landing

\* The page is erased; the copy has the new byte.
LEMMA EraseKeeps ==
  ASSUME WriteInv, Erase
  PROVE  WriteInv'
<1>1. /\ pc = "erase" /\ pc' = "rewrite" /\ Calling /\ UNCHANGED <<was, call>> /\ i' = Start
      /\ cell = was /\ save = [a \in Own |-> was[a]] /\ UNCHANGED <<Own, Start, Span>>
      /\ \A a : ByteFor(a)' = ByteFor(a)
  BY DEF Erase, Calling, WriteInv, Landing, Called, Own, Start, Span, ByteFor
<1>2. /\ cell' = [b \in Addrs |-> IF b \in Own THEN Erased ELSE cell[b]]
      /\ save' = IF call.of = "flash_write" THEN save ELSE [save EXCEPT ![call.addr] = ByteFor(call.addr)]
  BY DEF Erase, flash_hw_erase_page, Own
<1>3. Called'
  BY <1>1 DEF WriteInv, Called, Calling
<1>4. /\ save' \in [Own -> SUBSET Bits]
      /\ \A a \in Own :
            save'[a] = IF call.of # "flash_write" /\ a = call.addr THEN ByteFor(a) ELSE was[a]
  BY <1>1, <1>2, CallFacts DEF WriteInv
<1>5. i' \in Start .. Start + FLASH_PAGE_SIZE /\ i' \in 0 .. FLASH_MAX_ADDR + 1
      /\ \A a \in Own : ~ (a < i')
  BY <1>1, CallFacts
<1>6. cell' \in [Addrs -> SUBSET Bits] /\ \A a \in Own : cell'[a] = Erased
  BY <1>1, <1>2, CallFacts DEF WriteInv, Erased
<1>7. \A a \in Addrs \ Own : cell'[a] = was[a]
  BY <1>1, <1>2 DEF WriteInv
<1>8. Landing'
  BY <1>1, <1>4, <1>5, <1>6, <1>7 DEF Landing
<1>9. QED
  BY <1>1, <1>3, <1>5, <1>6, <1>8 DEF WriteInv

\* One byte of the copy is written back.
LEMMA RewriteKeeps ==
  ASSUME WriteInv, Rewrite
  PROVE  WriteInv'
<1>1. /\ pc = "rewrite" /\ pc' = pc /\ Calling /\ UNCHANGED <<was, call, save>> /\ i \in Own /\ i' = i + 1
      /\ UNCHANGED <<Own, Start, Span>> /\ \A a : ByteFor(a)' = ByteFor(a)
  BY DEF Rewrite, Calling, Own, Start, Span, ByteFor
<1>2. Called'
  BY <1>1 DEF WriteInv, Called, Calling
<1>3. i' \in Start .. Start + FLASH_PAGE_SIZE /\ i' \in 0 .. FLASH_MAX_ADDR + 1 /\ i \in Nat
  BY <1>1, CallFacts DEF WriteInv, Landing
<1>4. cell' = IF call.of = "flash_write" /\ i \in Span THEN cell ELSE [cell EXCEPT ![i] = save[i]]
  <2>1. CASE call.of = "flash_write" /\ i \in Span
    BY <2>1 DEF Rewrite
  <2>2. CASE ~ (call.of = "flash_write" /\ i \in Span)
    <3>1. cell[i] = Erased /\ save[i] \in SUBSET Bits
      BY <1>1, <1>3, <2>2 DEF WriteInv, Landing
    <3>2. QED
      BY <2>2, <3>1, ProgramErased DEF Rewrite, flash_hw_write_byte
  <2>3. QED
    BY <2>1, <2>2
<1>5. cell' \in [Addrs -> SUBSET Bits] /\ \A a \in Addrs \ {i} : cell'[a] = cell[a]
  BY <1>1, <1>4, CallFacts DEF WriteInv, Landing
<1>6. ASSUME NEW a \in Own
      PROVE  cell'[a] = IF a < i' /\ ~ (call.of = "flash_write" /\ a \in Span) THEN save[a] ELSE Erased
  <2>1. cell[a] = IF a < i /\ ~ (call.of = "flash_write" /\ a \in Span) THEN save[a] ELSE Erased
    BY <1>1 DEF WriteInv, Landing
  <2>2. a \in Addrs /\ a \in Nat
    BY <1>1, CallFacts
  <2>3. CASE a = i
    <3>1. a < i' /\ save[a] \in SUBSET Bits /\ ~ (a < i)
      BY <1>1, <1>3, <2>2, <2>3 DEF WriteInv, Landing
    <3>2. CASE call.of = "flash_write" /\ a \in Span
      BY <1>4, <2>1, <2>3, <3>2
    <3>3. CASE ~ (call.of = "flash_write" /\ a \in Span)
      <4>1. cell' = [cell EXCEPT ![a] = save[a]] /\ cell \in [Addrs -> SUBSET Bits]
        BY <1>4, <2>3, <3>3 DEF WriteInv
      <4>2. QED
        BY <2>2, <3>1, <3>3, <4>1
    <3>4. QED
      BY <3>2, <3>3
  <2>4. CASE a # i
    <3>1. cell'[a] = cell[a] /\ (a < i' <=> a < i)
      BY <1>1, <1>3, <1>5, <2>2, <2>4
    <3>2. QED
      BY <2>1, <3>1
  <2>5. QED
    BY <2>3, <2>4
<1>7. \A a \in Addrs \ Own : cell'[a] = was[a]
  BY <1>1, <1>5 DEF WriteInv, Landing
<1>8. Landing'
  <2>1. /\ save' \in [Own -> SUBSET Bits]
        /\ \A a \in Own :
              save'[a] = IF call.of # "flash_write" /\ a = call.addr THEN ByteFor(a) ELSE was[a]
    BY <1>1 DEF WriteInv, Landing
  <2>2. QED
    BY <1>1, <1>3, <1>6, <1>7, <2>1 DEF Landing
<1>9. QED
  BY <1>1, <1>2, <1>3, <1>5, <1>8 DEF WriteInv

\* The copy is back.
LEMMA RewrittenKeeps ==
  ASSUME WriteInv, Rewritten
  PROVE  WriteInv'
<1>1. /\ pc = "rewrite" /\ Calling /\ UNCHANGED <<cell, was, call, save>> /\ i \notin Own
      /\ UNCHANGED <<Own, Start, Span>> /\ \A a : ByteFor(a)' = ByteFor(a)
  BY DEF Rewritten, Calling, Own, Start, Span, ByteFor
<1>2. \A a \in Own : a < i
  BY <1>1, CallFacts DEF WriteInv, Landing
<1>3. \A a \in Own : cell[a] = IF a \in Span THEN IF call.of = "flash_write" THEN Erased ELSE ByteFor(a) ELSE was[a]
  BY <1>1, <1>2, CallFacts DEF WriteInv, Landing
<1>4. CASE call.of = "flash_write"
  <2>1. pc' = "program" /\ i' = call.addr
    BY <1>4 DEF Rewritten
  <2>2. Called'
    BY <1>1, <1>4, <2>1 DEF WriteInv, Called, Calling
  <2>3. i' \in call.addr .. call.addr + Len(call.bytes) /\ i' \in 0 .. FLASH_MAX_ADDR + 1
        /\ \A a \in Span : ~ (a < i')
    BY <1>1, <2>1, CallFacts
  <2>4. \A a \in Own :
            cell[a] = IF a \in Span THEN IF a < i' THEN ByteFor(a) ELSE Erased ELSE was[a]
    BY <1>3, <1>4, <2>3
  <2>5. \A a \in Addrs \ Own :
            cell[a] = IF a \in Span /\ a < i' THEN Programmed(a) ELSE was[a]
    BY <1>1, <2>3 DEF WriteInv, Landing
  <2>6. Landing'
    BY <1>1, <2>1, <2>3, <2>4, <2>5 DEF Landing, Programmed
  <2>7. QED
    BY <1>1, <2>1, <2>2, <2>3, <2>6 DEF WriteInv
<1>5. CASE call.of # "flash_write"
  <2>1. pc' = "wrote" /\ i' = i
    BY <1>5 DEF Rewritten
  <2>2. Called'
    BY <1>1, <2>1 DEF WriteInv, Called, Calling
  <2>3. \A a \in Addrs : cell[a] = Result(a)
    <3>1. Span \subseteq Own /\ \A a \in Addrs \ Own : cell[a] = was[a]
      BY <1>1, <1>5, CallFacts DEF WriteInv, Landing
    <3>2. QED
      BY <1>3, <1>5, <3>1 DEF Result
  <2>4. Landing'
    BY <1>1, <2>1, <2>3 DEF Landing, Result, Programmed
  <2>5. QED
    BY <1>1, <2>1, <2>2, <2>4 DEF WriteInv
<1>6. QED
  BY <1>4, <1>5

\* One byte of flash_write is programmed.
LEMMA ProgramKeeps ==
  ASSUME WriteInv, Program
  PROVE  WriteInv'
<1>1. /\ pc = "program" /\ Calling /\ UNCHANGED <<was, call, save>>
      /\ UNCHANGED <<Own, Start, Span>> /\ \A a : ByteFor(a)' = ByteFor(a)
      /\ call.of = "flash_write"
  BY DEF Program, Calling, Own, Start, Span, ByteFor, WriteInv, Called
<1>2. /\ i \in Nat /\ i \in call.addr .. call.addr + Len(call.bytes)
      /\ \A a \in Own : 
            cell[a] = IF a \in Span THEN IF a < i THEN ByteFor(a) ELSE Erased ELSE was[a]
      /\ \A a \in Addrs \ Own :
            cell[a] = IF a \in Span /\ a < i THEN Programmed(a) ELSE was[a]
  BY <1>1 DEF WriteInv, Landing
<1>3. CASE i \in Span
  <2>1. pc' = "program" /\ i' = i + 1 /\ cell' = [cell EXCEPT ![i] = @ \cap ByteFor(i)]
    BY <1>3 DEF Program, flash_hw_write_byte, WriteInv
  <2>2. i \in Addrs /\ ByteFor(i) \in SUBSET Bits /\ (i \in Own => cell[i] = Erased)
    BY <1>1, <1>2, <1>3, CallFacts
  <2>3. cell' \in [Addrs -> SUBSET Bits] /\ (\A a \in Addrs \ {i} : cell'[a] = cell[a])
        /\ (i \in Own => cell'[i] = ByteFor(i)) /\ cell'[i] = cell[i] \cap ByteFor(i)
    BY <2>1, <2>2, ProgramErased DEF WriteInv
  <2>4. i' \in call.addr .. call.addr + Len(call.bytes) /\ i' \in 0 .. FLASH_MAX_ADDR + 1
    BY <1>1, <1>2, <1>3, <2>1, <2>2, CallFacts DEF Addrs
  <2>5. \A a \in Own : 
            cell'[a] = IF a \in Span THEN IF a < i' THEN ByteFor(a) ELSE Erased ELSE was[a]
    <3>1. SUFFICES ASSUME NEW a \in Own
                   PROVE  cell'[a] = IF a \in Span THEN IF a < i' THEN ByteFor(a) ELSE Erased ELSE was[a]
      OBVIOUS
    <3>2. a \in Addrs /\ a \in Nat
      BY <1>1, CallFacts
    <3>3. CASE a = i
      BY <1>2, <1>3, <2>1, <2>3, <3>2, <3>3
    <3>4. CASE a # i
      <4>1. cell'[a] = cell[a] /\ (a < i' <=> a < i)
        BY <1>2, <2>1, <2>3, <3>2, <3>4
      <4>2. QED
        BY <4>1, <1>2
    <3>5. QED
      BY <3>3, <3>4
  <2>6. Called'
    BY <1>1, <2>1 DEF WriteInv, Called, Calling
  <2>7. ASSUME NEW a \in Addrs \ Own
        PROVE  cell'[a] = IF a \in Span /\ a < i' THEN Programmed(a) ELSE was[a]
    <3>1. a \in Nat /\ ~ (i < i) /\ i < i'
      BY <1>1, <1>2, <2>1, CallFacts
    <3>2. CASE a = i
      BY <1>2, <1>3, <2>3, <3>1, <3>2 DEF Programmed
    <3>3. CASE a # i
      <4>1. cell'[a] = cell[a] /\ (a < i' <=> a < i)
        BY <1>2, <2>1, <2>3, <3>1, <3>3
      <4>2. QED
        BY <4>1, <1>2
    <3>4. QED
      BY <3>2, <3>3
  <2>8. Landing'
    BY <1>1, <2>1, <2>4, <2>5, <2>7 DEF Landing, Programmed
  <2>9. QED
    BY <1>1, <2>1, <2>3, <2>4, <2>6, <2>8 DEF WriteInv
<1>4. CASE i \notin Span
  <2>1. pc' = "wrote" /\ UNCHANGED <<cell, i>>
    BY <1>4 DEF Program
  <2>2. \A a \in Span : a < i
    BY <1>1, <1>2, <1>4, CallFacts
  <2>3. Called'
    BY <1>1, <2>1 DEF WriteInv, Called, Calling
  <2>4. \A a \in Addrs : cell[a] = Result(a)
    BY <1>2, <2>2 DEF Result
  <2>5. Landing'
    BY <1>1, <2>1, <2>4 DEF Landing, Result, Programmed
  <2>6. QED
    BY <1>1, <2>1, <2>3, <2>5 DEF WriteInv
<1>5. QED
  BY <1>3, <1>4

\* An empty slot is one.
LEMMA EmptySlot == Empty \in Slot
BY FlashAssumption DEF Empty, Slot, Addrs

\* What is in a slot is a byte and an address.
LEMMA ItemFacts ==
  ASSUME NEW a, NEW v
  PROVE  /\ Item(a, v) \in Items <=> a \in Addrs /\ v \in SUBSET Bits
         /\ Item(a, v).addr = a /\ Item(a, v).value = v
BY DEF Item, Items

\* The slots are slots at first.
LEMMA BufferedInit == Init => Buffered
BY EmptySlot DEF Init, Buffered

\* Every action leaves slots.
LEMMA BufferedNext == Buffered /\ [Next]_vars => Buffered'
<1> SUFFICES ASSUME Buffered, [Next]_vars PROVE Buffered'
  OBVIOUS
<1>1. CASE flash_recv_byte
  <2>1. ASSUME NEW a \in Addrs, NEW value \in Bytes
        PROVE  [full |-> TRUE, addr |-> a, value |-> value] \in Slot /\ Item(a, value) \in Items
    BY FlashAssumption, ItemFacts DEF Slot
  <2>2. CASE Free = {}
    BY <1>1, <2>2 DEF flash_recv_byte, Buffered
  <2>3. CASE Free # {}
    <3>1. PICK a \in Addrs, value \in Bytes :
            /\ buff' = [buff EXCEPT ![First] = [full |-> TRUE, addr |-> a, value |-> value]]
            /\ came' = IF Running THEN came \cup {Item(a, value)} ELSE came
      BY <1>1, <2>3 DEF flash_recv_byte
    <3>2. QED
      BY <2>1, <3>1 DEF Buffered
  <2>4. QED
    BY <2>2, <2>3
<1>2. CASE Clear \/ RunReturns \/ PowerFails
  BY <1>2, EmptySlot DEF Clear, RunReturns, PowerFails, Buffered
<1>3. CASE flash_write_run
  <2>1. \A s \in Slots : Item(buff[s].addr, buff[s].value) \in Items
    BY ItemFacts DEF Buffered, Slot
  <2>2. buff' = buff /\ came' = {Item(buff[s].addr, buff[s].value) : s \in Slots \ Free}
    BY <1>3 DEF flash_write_run
  <2>3. QED
    BY <2>1, <2>2 DEF Buffered
<1>4. CASE Beyond
  <2>1. ASSUME NEW a \in Addrs, NEW value \in Bytes PROVE Item(a, value) \in Items
    BY FlashAssumption, ItemFacts
  <2>2. QED
    BY <1>4, <2>1 DEF Beyond, Buffered
<1>5. CASE Write \/ LoopEnds \/ NextSlot \/ WriteSlot \/ Count \/ Uncount \/ UNCHANGED vars
  BY <1>5 DEF Write, LoopEnds, NextSlot, WriteSlot, Count, Uncount, vars, flash_write, flash_write_byte,
     Byte, Save, Erase, Rewrite, Rewritten, Program, Return, buffer, Buffered
<1>6. QED
  BY <1>1, <1>2, <1>3, <1>4, <1>5 DEF Next, Run

\* WriteInv is inductive: the actions of the buffer and of its handler do not touch a call
\* that is under way, and power fails with nothing under way afterwards.
LEMMA WriteNext == Buffered /\ WriteInv /\ [Next]_vars => WriteInv'
<1> SUFFICES ASSUME Buffered, WriteInv, [Next]_vars PROVE WriteInv'
  OBVIOUS
<1>1. CASE flash_write
  <2>0. PICK a \in Addrs, len \in 0 .. FLASH_PAGE_SIZE + 1 : \E bytes \in [1 .. len -> Bytes] :
          IF Accepted(a, len) THEN pc' = "save" /\ Begin("flash_write", a, bytes)
          ELSE UNCHANGED <<pc, call, was>>
    BY <1>1 DEF flash_write
  <2>1. PICK bytes \in [1 .. len -> Bytes] :
          IF Accepted(a, len) THEN pc' = "save" /\ Begin("flash_write", a, bytes)
          ELSE UNCHANGED <<pc, call, was>>
    BY <2>0
  <2>2. len \in Nat /\ bytes \in Seq(SUBSET Bits) /\ Len(bytes) = len
    <3>1. bytes \in [1 .. len -> SUBSET Bits] /\ len \in Nat
      BY FlashAssumption
    <3>2. QED
      BY <3>1
  <2>3. CASE Accepted(a, len)
    <3>1. a + Len(bytes) <= FLASH_MAX_ADDR + 1
      BY <2>2, <2>3, FlashAssumption DEF Accepted, Addrs
    <3>2. QED
      BY <1>1, <2>1, <2>2, <2>3, <3>1, WriteBegins DEF flash_write
  <2>4. CASE ~ Accepted(a, len)
    BY <1>1, <2>1, <2>4 DEF flash_write, WriteInv, Called, Landing, Calling
  <2>5. QED
    BY <2>3, <2>4
<1>2. CASE flash_write_byte
  <2>1. PICK a \in Addrs, value \in Bytes : pc' = "byte" /\ Begin("flash_write_byte", a, <<value>>)
    BY <1>2 DEF flash_write_byte
  <2>2. <<value>> \in Seq(SUBSET Bits) /\ Len(<<value>>) = 1 /\ a + 1 <= FLASH_MAX_ADDR + 1
    BY FlashAssumption DEF Addrs
  <2>3. QED
    BY <1>2, <2>1, <2>2, WriteBegins DEF flash_write_byte
<1>3. CASE Return
  BY <1>3, FlashAssumption DEF Return, WriteInv, Called, Landing, Calling
<1>4. CASE flash_recv_byte
  <2>1. UNCHANGED <<flash, pc>>
    BY <1>4 DEF flash_recv_byte
  <2>2. QED
    BY <2>1 DEF flash, WriteInv, Called, Landing, Calling, Span, ByteFor, Own, Start, Result, Programmed
<1>5. CASE PowerFails
  BY <1>5, FlashAssumption DEF PowerFails, WriteInv, Called, Landing, Calling
<1>6. CASE UNCHANGED vars
  BY <1>6 DEF vars, flash, WriteInv, Called, Landing, Calling, Span, ByteFor, Own, Start, Result,
     Programmed
<1>7. CASE Run
  <2>1. CASE WriteSlot
    <3>1. /\ buff[n].addr \in Addrs /\ <<buff[n].value>> \in Seq(SUBSET Bits) /\ Len(<<buff[n].value>>) = 1
          /\ buff[n].addr + 1 <= FLASH_MAX_ADDR + 1
      BY <2>1, FlashAssumption DEF WriteSlot, Buffered, Slot, Addrs
    <3>2. QED
      BY <2>1, <3>1, WriteBegins DEF WriteSlot
  <2>2. CASE Beyond
    BY <2>2, FlashAssumption DEF Beyond, WriteInv, Called, Landing, Calling
  <2>3. CASE flash_write_run \/ LoopEnds \/ NextSlot \/ Count \/ Uncount \/ Clear \/ RunReturns
    BY <2>3 DEF flash_write_run, LoopEnds, NextSlot, Count, Uncount, Clear, RunReturns, flash,
       WriteInv, Called, Landing, Calling
  <2>4. QED
    BY <1>7, <2>1, <2>2, <2>3 DEF Run
<1>8. QED
  BY <1>1, <1>2, <1>3, <1>4, <1>5, <1>6, <1>7, ByteKeeps, SaveKeeps, EraseKeeps, RewriteKeeps,
     RewrittenKeeps, ProgramKeeps DEF Next, Write

\* What has been done to the page at each place is what CallLands says.
LEMMA Lands == WriteInv => CallLands
<1> SUFFICES ASSUME WriteInv PROVE CallLands
  OBVIOUS
<1>1. pc = "wrote" =>
        \A a \in Addrs : cell[a] = IF a \notin Span THEN was[a]
                                   ELSE IF a \in Page(call.addr) THEN ByteFor(a) ELSE Programmed(a)
  BY DEF WriteInv, Landing, Result, Own
<1>2. ASSUME Calling, NEW a \in Addrs
      PROVE  \/ cell[a] = was[a]
             \/ a \in Own /\ cell[a] = Erased
             \/ a \in Span /\ cell[a] = IF a \in Own THEN ByteFor(a) ELSE Programmed(a)
  <2>1. CASE pc \in {"byte", "save", "erase"}
    BY <2>1 DEF WriteInv, Landing
  <2>2. CASE pc = "rewrite"
    <3>1. call.addr \in Own /\ call.addr \in Nat /\ (call.of # "flash_write" => Span = {call.addr})
      BY <1>2, CallFacts
    <3>2. CASE a \in Own
      <4>1. cell[a] \in {save[a], Erased}
            /\ save[a] = IF call.of # "flash_write" /\ a = call.addr THEN ByteFor(a) ELSE was[a]
        BY <2>2, <3>2 DEF WriteInv, Landing
      <4>2. QED
        BY <3>1, <3>2, <4>1
    <3>3. CASE a \notin Own
      BY <2>2, <3>3 DEF WriteInv, Landing
    <3>4. QED
      BY <3>2, <3>3
  <2>3. CASE pc = "program"
    <3>1. CASE a \in Own
      BY <2>3, <3>1 DEF WriteInv, Landing
    <3>2. CASE a \notin Own
      BY <2>3, <3>2 DEF WriteInv, Landing
    <3>3. QED
      BY <3>1, <3>2
  <2>4. CASE pc = "wrote"
    BY <2>4 DEF WriteInv, Landing, Result
  <2>5. QED
    BY <1>2, <2>1, <2>2, <2>3, <2>4 DEF Calling
<1>3. QED
  BY <1>1, <1>2 DEF CallLands, Calling, Own

----------------------------------------------------------------------------
Full == {s \in Slots : buff[s].full}

\* A slot is being written or has just been.
InSlot == pc \in {"count", "uncount", "clear"} \/ (Calling /\ call.of = "flash_write_run")

\* num is the number of full slots, less lost: between num -- and the emptying of its slot
\* less one more; and seen is what num was, less what came between its two halves.
Counted ==
  /\ num \in Nat /\ lost \in Nat /\ num <= Cardinality(Full)
  /\ n \in 0 .. FLASH_USER_PAGE_SIZE
  /\ InSlot => n \in Slots /\ buff[n].full
  /\ InSlot /\ pc # "clear" => num > 0
  /\ pc = "uncount" => seen \in 1 .. num /\ seen + lost = Cardinality(Full)
  /\ pc = "clear" => num + 1 + lost = Cardinality(Full)
  /\ pc \notin {"uncount", "clear"} => num + lost = Cardinality(Full)

\* The full slots can be counted.
LEMMA SlotsFinite ==
  /\ IsFiniteSet(Full) /\ Cardinality(Full) \in 0 .. FLASH_USER_PAGE_SIZE
  /\ Cardinality(Full) = 0 <=> Full = {}
<1>1. IsFiniteSet(Slots) /\ Cardinality(Slots) = FLASH_USER_PAGE_SIZE
  BY FlashAssumption, FS_Interval DEF Slots
<1>2. IsFiniteSet(Full) /\ Cardinality(Full) <= FLASH_USER_PAGE_SIZE
  BY <1>1, FS_Subset DEF Full
<1>3. QED
  BY <1>2, FlashAssumption, FS_CardinalityType, FS_EmptySet

\* The order of the numbers, as a relation.
Less == {ss \in Nat \X Nat : ss[1] < ss[2]}

\* The order of the numbers is well founded.
LEMMA LessWellFounded == IsWellFoundedOn(Less, Nat)
BY NatLessThanWellFounded, Zenon DEF OpToRel, Less

\* A set of numbers has a least one.
LEMMA LeastOf ==
  ASSUME NEW S \in SUBSET Nat, S # {}
  PROVE  \E x \in S : \A y \in S : x <= y
<1>1. PICK x \in S : \A y \in S : ~ (<<y, x>> \in Less)
  BY LessWellFounded, WFMin
<1>2. \A y \in S : x <= y
  <2>1. SUFFICES ASSUME NEW y \in S PROVE x <= y
    OBVIOUS
  <2>2. x \in Nat /\ y \in Nat /\ ~ (y < x)
    BY <1>1 DEF Less
  <2>3. QED
    BY <2>2
<1>3. QED
  BY <1>2

\* The full slots are those that are not free.
LEMMA FullSlots == Full = Slots \ Free
BY DEF Full, Free

\* The first free slot is one.
LEMMA FirstFree ==
  ASSUME Free # {}
  PROVE  First \in Slots /\ ~ buff[First].full
<1>1. Free \in SUBSET Nat
  BY FlashAssumption DEF Slots, Free
<1>2. \E s \in Free : \A t \in Free : s <= t
  BY <1>1, LeastOf
<1>3. First \in Free
  BY <1>2 DEF First
<1>4. QED
  BY <1>3 DEF Free

\* Counted holds at first.
LEMMA CountInit == Init => Counted
<1>1. SUFFICES ASSUME Init PROVE Counted
  OBVIOUS
<1>2. Full = {}
  BY <1>1 DEF Init, Full, Empty
<1>3. QED
  BY <1>1, <1>2, SlotsFinite, FlashAssumption DEF Init, Counted, InSlot, Calling

\* A byte that is stored fills a slot that was free, and leaves the others.
LEMMA ReceiveFacts ==
  ASSUME Buffered, flash_recv_byte, Free # {}
  PROVE  \E f \in Slots, a \in Addrs, value \in Bytes :
           /\ ~ buff[f].full
           /\ num' = num + 1
           /\ came' = IF Running THEN came \cup {Item(a, value)} ELSE came
           /\ behind' = (behind \/ f < n)
           /\ lost' = IF pc = "uncount" THEN lost + 1 ELSE lost
           /\ buff'[f].full /\ buff'[f].addr = a /\ buff'[f].value = value
           /\ \A t \in Slots : t # f => buff'[t] = buff[t]
<1>1. First \in Slots /\ ~ buff[First].full
  BY FirstFree
<1>2. PICK f \in Slots : f = First /\ ~ buff[f].full
  BY <1>1
<1>3. PICK a \in Addrs, value \in Bytes :
           /\ num' = num + 1
           /\ buff' = [buff EXCEPT ![f] = [full |-> TRUE, addr |-> a, value |-> value]]
           /\ came' = IF Running THEN came \cup {Item(a, value)} ELSE came
           /\ behind' = (behind \/ f < n)
           /\ lost' = IF pc = "uncount" THEN lost + 1 ELSE lost
  BY <1>2 DEF flash_recv_byte
<1>4. buff'[f] = [full |-> TRUE, addr |-> a, value |-> value]
  BY <1>3 DEF Buffered
<1>5. buff'[f].full /\ buff'[f].addr = a /\ buff'[f].value = value
  BY <1>4
<1>6. \A t \in Slots : t # f => buff'[t] = buff[t]
  BY <1>3 DEF Buffered
<1>7. QED
  BY <1>2, <1>3, <1>5, <1>6, Zenon

\* A slot is filled: there is one more.
LEMMA ReceiveCounts ==
  ASSUME Buffered, Counted, flash_recv_byte
  PROVE  Counted'
<1>1. UNCHANGED <<pc, n, seen, InSlot>>
  BY DEF flash_recv_byte, flash, InSlot, Calling
<1>2. Cardinality(Full) \in Nat /\ IsFiniteSet(Full)
  BY SlotsFinite, FlashAssumption
<1>3. CASE Free = {}
  <2>1. UNCHANGED <<buff, num, lost, Full>>
    BY <1>3 DEF flash_recv_byte, Full
  <2>2. QED
    BY <1>1, <2>1 DEF Counted
<1>4. CASE Free # {}
  <2>1. PICK f \in Slots :
          /\ ~ buff[f].full /\ num' = num + 1 /\ lost' = IF pc = "uncount" THEN lost + 1 ELSE lost
          /\ buff'[f].full /\ \A t \in Slots : t # f => buff'[t] = buff[t]
    BY <1>4, ReceiveFacts
  <2>2. \A t \in Slots : buff[t].full => buff'[t].full
    BY <2>1
  <2>3. Full' = Full \cup {f} /\ f \notin Full
    BY <2>1 DEF Full
  <2>4. Cardinality(Full') = Cardinality(Full) + 1
    BY <1>2, <2>3, FS_AddElement
  <2>5. QED
    BY <1>1, <1>2, <2>1, <2>2, <2>4 DEF Counted
<1>5. QED
  BY <1>3, <1>4

\* The written slot is emptied: there is one fewer.
LEMMA ClearCounts ==
  ASSUME Buffered, Counted, Clear
  PROVE  Counted'
<1>1. /\ pc = "clear" /\ pc' = "loop" /\ n' = n + 1 /\ UNCHANGED <<num, seen, lost>>
      /\ buff' = [buff EXCEPT ![n] = Empty] /\ n \in Slots /\ buff[n].full
  BY DEF Clear, Counted, InSlot
<1>2. Full' = Full \ {n} /\ n \in Full
  BY <1>1 DEF Full, Buffered, Empty
<1>3. Cardinality(Full') = Cardinality(Full) - 1 /\ Cardinality(Full) \in Nat
  BY <1>2, SlotsFinite, FS_RemoveElement, FlashAssumption
<1>4. n' \in 0 .. FLASH_USER_PAGE_SIZE
  BY <1>1, FlashAssumption DEF Slots
<1>5. QED
  BY <1>1, <1>3, <1>4 DEF Counted, InSlot, Calling

\* Counted is inductive.
LEMMA CountNext == Buffered /\ WriteInv /\ Counted /\ [Next]_vars => Counted'
<1> SUFFICES ASSUME Buffered, WriteInv, Counted, [Next]_vars PROVE Counted'
  OBVIOUS
<1>0. Cardinality(Full) \in Nat /\ (Cardinality(Full) = 0 <=> Full = {}) /\ FLASH_USER_PAGE_SIZE \in Nat \ {0}
  BY SlotsFinite, FlashAssumption
<1>1. CASE Byte \/ Save \/ Erase \/ Rewrite \/ Rewritten \/ Program \/ UNCHANGED vars
  <2>1. UNCHANGED <<call, buff, num, seen, n, lost, Full>> /\ InSlot' = InSlot
        /\ (pc' = pc \/ {pc, pc'} \cap {"clear", "uncount"} = {})
    BY <1>1 DEF Byte, Save, Erase, Rewrite, Rewritten, Program, vars, flash, buffer, InSlot, Calling, Full
  <2>2. QED
    BY <2>1 DEF Counted
<1>2. CASE flash_write \/ flash_write_byte
  <2>1. pc = "idle" /\ ~ InSlot' /\ pc' \notin {"clear", "uncount"} /\ UNCHANGED <<buff, num, seen, n, lost, Full>>
    BY <1>2 DEF flash_write, flash_write_byte, Begin, buffer, InSlot, Calling, Full
  <2>2. QED
    BY <2>1 DEF Counted
<1>3. CASE Return
  <2>1. /\ pc = "wrote" /\ pc' \in {"count", "idle"} /\ (InSlot' <=> InSlot)
        /\ UNCHANGED <<buff, num, seen, n, lost, Full>>
    BY <1>3 DEF Return, buffer, InSlot, Calling, Full
  <2>2. QED
    BY <2>1 DEF Counted
<1>4. CASE flash_write_run \/ LoopEnds \/ NextSlot \/ RunReturns
  <2>1. /\ pc \in {"idle", "loop", "ran"} /\ pc' \in {"idle", "loop", "ran"} /\ ~ InSlot'
        /\ UNCHANGED <<buff, num, seen, lost, Full>>
    BY <1>4 DEF flash_write_run, LoopEnds, NextSlot, RunReturns, flash, buffer, InSlot, Calling, Full
  <2>2. n' \in 0 .. FLASH_USER_PAGE_SIZE
    BY <1>0, <1>4 DEF flash_write_run, LoopEnds, NextSlot, RunReturns, Counted, Slots
  <2>3. QED
    BY <2>1, <2>2 DEF Counted
<1>5. CASE WriteSlot
  <2>1. pc = "loop" /\ pc' = "byte" /\ num # 0 /\ n \in Slots /\ buff[n].full
        /\ UNCHANGED <<buff, num, seen, lost, Full, n>>
    BY <1>5 DEF WriteSlot, Begin, buffer, Full
  <2>2. QED
    BY <2>1 DEF Counted
<1>6. CASE Count
  <2>1. pc = "count" /\ pc' = "uncount" /\ seen' = num /\ InSlot /\ InSlot'
        /\ UNCHANGED <<buff, num, lost, Full, n>>
    BY <1>6 DEF Count, InSlot, Full
  <2>2. QED
    BY <1>0, <2>1 DEF Counted
<1>7. CASE Uncount
  <2>1. pc = "uncount" /\ pc' = "clear" /\ num' = seen - 1 /\ InSlot /\ InSlot'
        /\ UNCHANGED <<buff, lost, Full, n>>
    BY <1>7 DEF Uncount, InSlot, Full
  <2>2. QED
    BY <1>0, <2>1 DEF Counted
<1>8. CASE Beyond
  <2>1. pc = "loop" /\ pc' = "loop" /\ ~ InSlot' /\ num # 0 /\ UNCHANGED <<buff, seen, Full>>
    BY <1>8 DEF Beyond, InSlot, Calling, Full
  <2>2. \/ n' = 0 /\ num' = num /\ lost' = lost
        \/ n' = n /\ num' = num - 1 /\ lost' = lost + 1
    BY <1>8 DEF Beyond
  <2>3. QED
    BY <1>0, <2>1, <2>2 DEF Counted
<1>9. CASE PowerFails
  <2>1. Full' = {} /\ pc' = "idle" /\ ~ InSlot' /\ num' = 0 /\ n' = 0 /\ lost' = 0
    BY <1>9 DEF PowerFails, Full, Empty, InSlot, Calling
  <2>2. Cardinality(Full') = 0
    BY <2>1, FS_EmptySet
  <2>3. QED
    BY <1>0, <2>1, <2>2 DEF Counted
<1>10. QED
  BY <1>1, <1>2, <1>3, <1>4, <1>5, <1>6, <1>7, <1>8, <1>9, ReceiveCounts, ClearCounts DEF Next, Write, Run

----------------------------------------------------------------------------
\* flash_write_run is under way.
InRun == InSlot \/ pc \in {"loop", "ran"}

\* The flash, apart from the page that is being written.
Flash == IF Calling THEN was ELSE cell

\* What is in a slot.
In(s) == Item(buff[s].addr, buff[s].value)

\* c is in the flash or still in its slot.
Kept(c) == Flash[c.addr] = c.value \/ \E s \in Full : In(s) = c

\* Where flash_write_run is: the slots that it has passed are empty unless a byte came behind
\* it, all that is in a slot is to be written, and the byte in slot n is what is written.
Place ==
  InRun =>
    /\ ~ behind => \A s \in Slots : s < n => ~ buff[s].full
    /\ \A s \in Full : In(s) \in came
    /\ Calling => call.addr = buff[n].addr /\ call.bytes = <<buff[n].value>>
    /\ pc \in {"count", "uncount", "clear"} => cell[buff[n].addr] = buff[n].value

\* Nothing that is to be written got lost.
AllKept == InRun => \A c \in came : Alone(c) => Kept(c)

\* The inductive invariant.
RunInv == Buffered /\ WriteInv /\ Counted /\ Place /\ AllKept

\* RunInv holds at first.
LEMMA RunInit == Init => RunInv
<1>1. Init => Place /\ AllKept
  BY DEF Init, Place, AllKept, InRun, InSlot, Calling
<1>2. QED
  BY <1>1, BufferedInit, WriteInit, CountInit DEF RunInv

\* Behind the last slot nothing is left to write, unless a byte came into a slot passed.
LEMMA EndReached ==
  ASSUME RunInv, pc = "loop", num # 0, n \notin Slots
  PROVE  behind
<1>1. SUFFICES ASSUME ~ behind PROVE FALSE
  OBVIOUS
<1>2. \A s \in Slots : s < n
  BY FlashAssumption DEF RunInv, Counted, Slots
<1>3. Full = {}
  BY <1>1, <1>2 DEF RunInv, Place, InRun, Full
<1>4. QED
  BY <1>3, SlotsFinite DEF RunInv, Counted

\* Slots, flash, list and place are the same: so is what is kept.
LEMMA SameKept ==
  ASSUME RunInv, InRun' => InRun, UNCHANGED <<buff, came, Flash>>
  PROVE  AllKept'
<1>1. \A s : In(s)' = In(s)
  BY DEF In
<1>2. \A c : Alone(c)' = Alone(c)
  BY DEF Alone
<1>3. Full' = Full
  BY DEF Full
<1>4. QED
  BY <1>1, <1>2, <1>3 DEF AllKept, Kept, RunInv

\* The byte of slot n has landed, and what was in the flash is still there.
LEMMA ReturnKeeps ==
  ASSUME RunInv, Return
  PROVE  Place' /\ AllKept'
<1>1. SUFFICES ASSUME InRun'
               PROVE  Place' /\ AllKept'
  BY DEF Place, AllKept
<1>2. /\ pc = "wrote" /\ call.of = "flash_write_run" /\ pc' = "count"
      /\ UNCHANGED <<cell, buff, came, behind, n>>
      /\ Calling /\ InRun /\ InSlot /\ ~ Calling'
  BY <1>1 DEF Return, InRun, InSlot, Calling, buffer
<1>3. /\ n \in Full /\ call.addr = buff[n].addr /\ call.bytes = <<buff[n].value>>
      /\ In(n) \in came
  BY <1>2 DEF RunInv, Counted, Place, Full
<1>4. cell[call.addr] = buff[n].value /\ \A a \in Addrs : a # call.addr => cell[a] = was[a]
  <2>1. Span = {call.addr} /\ call.addr \in Own /\ call.addr \in Nat /\ call.addr \in Addrs
    BY <1>2, CallFacts DEF RunInv
  <2>2. call.addr - call.addr + 1 = 1
    BY <2>1
  <2>3. ByteFor(call.addr) = buff[n].value
    BY <1>3, <2>2 DEF ByteFor
  <2>4. QED
    BY <1>2, <2>1, <2>3 DEF RunInv, WriteInv, Landing, Result
<1>5. Place'
  BY <1>2, <1>3, <1>4 DEF RunInv, Place, In, Full
<1>6. ASSUME NEW c \in came, Alone(c)
      PROVE  cell[c.addr] = c.value \/ \E s \in Full : In(s) = c
  <2>1. was[c.addr] = c.value \/ \E s \in Full : In(s) = c
    BY <1>2, <1>6 DEF RunInv, AllKept, Kept, Flash
  <2>2. c.addr \in Addrs /\ c \in Items
    BY DEF RunInv, Buffered, Items
  <2>3. CASE c.addr = call.addr
    <3>1. In(n) = c
      BY <1>3, <1>6, <2>3, ItemFacts DEF Alone, In
    <3>2. QED
      BY <1>3, <3>1
  <2>4. CASE c.addr # call.addr
    BY <1>4, <2>1, <2>2, <2>4
  <2>5. QED
    BY <2>3, <2>4
<1>7. AllKept'
  <2>1. \A s : In(s)' = In(s)
    BY <1>2 DEF In
  <2>2. \A c : Alone(c)' = Alone(c)
    BY <1>2 DEF Alone
  <2>3. Full' = Full /\ Flash' = cell
    BY <1>2 DEF Full, Flash
  <2>4. QED
    BY <1>2, <1>6, <2>1, <2>2, <2>3 DEF AllKept, Kept
<1>8. QED
  BY <1>5, <1>7

\* A byte that is stored is in its slot, and the others are where they were.
LEMMA ReceiveKeeps ==
  ASSUME RunInv, flash_recv_byte
  PROVE  Place' /\ AllKept'
<1>1. UNCHANGED <<pc, cell, was, call, n, InRun, InSlot, Calling, Flash>>
  BY DEF flash_recv_byte, flash, InRun, InSlot, Calling, Flash
<1>2. SUFFICES ASSUME InRun
               PROVE  Place' /\ AllKept'
  BY <1>1 DEF Place, AllKept
<1>3. CASE Free = {}
  <2>1. UNCHANGED <<buff, came, behind>>
    BY <1>3 DEF flash_recv_byte
  <2>2. Place'
    BY <1>1, <2>1 DEF RunInv, Place, In, Full
  <2>3. QED
    BY <1>1, <2>1, <2>2, SameKept
<1>4. CASE Free # {}
  <2>1. PICK f \in Slots, a \in Addrs, value \in Bytes :
           /\ ~ buff[f].full
           /\ came' = IF Running THEN came \cup {Item(a, value)} ELSE came
           /\ behind' = (behind \/ f < n)
           /\ buff'[f].full /\ buff'[f].addr = a /\ buff'[f].value = value
           /\ \A t \in Slots : t # f => buff'[t] = buff[t]
    BY <1>4, ReceiveFacts DEF RunInv
  <2>2. came' = came \cup {Item(a, value)}
    <3>1. Running
      BY <1>2 DEF Running, InRun, InSlot
    <3>2. QED
      BY <2>1, <3>1
  <2>3. /\ Full' = Full \cup {f} /\ f \notin Full
        /\ In(f)' = Item(a, value) /\ \A s \in Full : In(s)' = In(s)
    BY <2>1 DEF Full, In
  <2>4. InSlot => n \in Slots /\ buff[n].full /\ buff'[n] = buff[n]
    BY <2>1 DEF RunInv, Counted
  <2>5. Place'
    <3>1. ~ behind' => \A s \in Slots : s < n => ~ buff'[s].full
      BY <1>2, <2>1 DEF RunInv, Place
    <3>2. \A s \in Full' : In(s)' \in came'
      BY <1>2, <2>2, <2>3 DEF RunInv, Place
    <3>3. Calling => InSlot
      BY <1>2 DEF InRun, InSlot, Calling
    <3>4. pc \in {"count", "uncount", "clear"} => InSlot
      BY DEF InSlot
    <3>5. QED
      BY <1>1, <1>2, <2>4, <3>1, <3>2, <3>3, <3>4 DEF RunInv, Place
  <2>6. ASSUME NEW c \in came', Alone(c)'
        PROVE  Kept(c)'
    <3>1. CASE c = Item(a, value)
      BY <2>3, <3>1 DEF Kept
    <3>2. CASE c # Item(a, value)
      <4>1. c \in came /\ Alone(c)
        BY <2>2, <2>6, <3>2 DEF Alone
      <4>2. Kept(c)
        BY <1>2, <4>1 DEF RunInv, AllKept
      <4>3. QED
        BY <1>1, <2>3, <4>2 DEF Kept
    <3>3. QED
      BY <3>1, <3>2
  <2>7. QED
    BY <2>5, <2>6 DEF AllKept
<1>5. QED
  BY <1>3, <1>4

\* What is emptied is in the flash.
LEMMA ClearKeepsAll ==
  ASSUME RunInv, Clear
  PROVE  Place' /\ AllKept'
<1>1. /\ pc = "clear" /\ pc' = "loop" /\ n' = n + 1 /\ n \in Slots /\ buff' = [buff EXCEPT ![n] = Empty]
      /\ UNCHANGED <<cell, came, behind>> /\ ~ Calling /\ ~ Calling' /\ InRun /\ buff[n].full
  BY DEF Clear, flash, InRun, InSlot, Calling, Counted, RunInv
<1>2. /\ ~ buff'[n].full /\ (\A s \in Slots : s # n => buff'[s] = buff[s])
      /\ \A s \in Slots : s < n' <=> s < n \/ s = n
  BY <1>1, FlashAssumption DEF RunInv, Buffered, Empty, Slots
<1>3. /\ Full' = Full \ {n} /\ n \in Full
      /\ \A s \in Full' : In(s)' = In(s)
  BY <1>1, <1>2 DEF Full, In
<1>4. Place'
  BY <1>1, <1>2, <1>3 DEF RunInv, Place
<1>5. Flash' = Flash /\ Flash = cell
  BY <1>1 DEF Flash
<1>6. ASSUME NEW c \in came', Alone(c)' PROVE Kept(c)'
  <2>1. c \in came /\ Alone(c)
    BY <1>1, <1>6 DEF Alone
  <2>2. Kept(c) /\ cell[buff[n].addr] = buff[n].value
    BY <1>1, <2>1 DEF RunInv, AllKept, Place
  <2>3. CASE In(n) = c
    BY <1>5, <2>2, <2>3, ItemFacts DEF Kept, In
  <2>4. CASE In(n) # c
    BY <1>3, <1>5, <2>2, <2>4 DEF Kept
  <2>5. QED
    BY <2>3, <2>4
<1>7. QED
  BY <1>4, <1>6 DEF AllKept

\* Behind the buffer: what is written astray is in the flash, the rest is where it was.
LEMMA BeyondKeeps ==
  ASSUME RunInv, Beyond
  PROVE  Place' /\ AllKept'
<1>1. /\ pc = "loop" /\ pc' = pc /\ num # 0 /\ n \notin Slots /\ UNCHANGED <<buff, behind>>
      /\ InRun /\ ~ InSlot' /\ ~ Calling /\ ~ Calling' /\ Full' = Full /\ \A s : In(s)' = In(s)
  BY DEF Beyond, InRun, InSlot, Calling, Full, In
<1>2. behind
  BY <1>1, EndReached
<1>3. CASE n' = 0 /\ UNCHANGED <<cell, came>>
  <2>1. Place'
    BY <1>1, <1>2, <1>3 DEF RunInv, Place
  <2>2. Flash' = Flash
    BY <1>1, <1>3 DEF Flash
  <2>3. QED
    BY <1>1, <1>3, <2>1, <2>2, SameKept
<1>4. CASE \E a \in Addrs, value \in Bytes :
             cell' = [cell EXCEPT ![a] = value] /\ came' = came \cup {Item(a, value)}
  <2>1. PICK a \in Addrs, value \in Bytes :
             cell' = [cell EXCEPT ![a] = value] /\ came' = came \cup {Item(a, value)}
    BY <1>4
  <2>2. cell'[a] = value /\ \A b \in Addrs : b # a => cell'[b] = cell[b]
    BY <2>1 DEF RunInv, WriteInv
  <2>3. Place'
    BY <1>1, <1>2, <2>1 DEF RunInv, Place
  <2>4. ASSUME NEW c \in came', Alone(c)' PROVE Kept(c)'
    <3>1. Item(a, value).addr = a /\ Item(a, value).value = value
      BY ItemFacts
    <3>2. CASE c.addr = a
      <4>1. c = Item(a, value)
        BY <2>1, <2>4, <3>1, <3>2 DEF Alone
      <4>2. QED
        BY <1>1, <2>2, <3>1, <4>1 DEF Kept, Flash
    <3>3. CASE c.addr # a
      <4>1. c \in came /\ Alone(c) /\ c.addr \in Addrs
        BY <2>1, <2>4, <3>1, <3>3 DEF Alone, RunInv, Buffered, Items
      <4>2. Kept(c)
        BY <1>1, <4>1 DEF RunInv, AllKept
      <4>3. QED
        BY <1>1, <2>2, <3>3, <4>1, <4>2 DEF Kept, Flash
    <3>4. QED
      BY <3>2, <3>3
  <2>5. QED
    BY <2>3, <2>4 DEF AllKept
<1>5. QED
  BY <1>3, <1>4 DEF Beyond

\* RunInv is inductive.
LEMMA RunKeeps == RunInv /\ [Next]_vars => RunInv'
<1> SUFFICES ASSUME RunInv, [Next]_vars PROVE RunInv'
  OBVIOUS
<1>0. Buffered' /\ WriteInv' /\ Counted'
  BY BufferedNext, WriteNext, CountNext DEF RunInv
<1> SUFFICES Place' /\ AllKept'
  BY <1>0 DEF RunInv
<1>1. CASE Byte \/ Save \/ Erase \/ Rewrite \/ Rewritten \/ Program
  <2>1. /\ Calling /\ Calling' /\ UNCHANGED <<was, call, buff, came, behind, n>> /\ InRun' = InRun
        /\ {pc, pc'} \cap {"count", "uncount", "clear", "ran"} = {}
    BY <1>1 DEF Byte, Save, Erase, Rewrite, Rewritten, Program, buffer, InRun, InSlot, Calling
  <2>2. Place'
    BY <2>1 DEF RunInv, Place, Full, In
  <2>3. Flash' = Flash
    BY <2>1 DEF Flash
  <2>4. QED
    BY <2>1, <2>2, <2>3, SameKept
<1>2. CASE flash_write \/ flash_write_byte \/ RunReturns \/ PowerFails
  <2>1. ~ InRun'
    BY <1>2 DEF flash_write, flash_write_byte, RunReturns, PowerFails, InRun, InSlot, Calling, Begin
  <2>2. QED
    BY <2>1 DEF Place, AllKept
<1>3. CASE flash_write_run
  <2>1. /\ pc' = "loop" /\ n' = 0 /\ buff' = buff /\ ~ Calling'
        /\ came' = {In(s) : s \in Slots \ Free}
    BY <1>3 DEF flash_write_run, Calling, In
  <2>2. (\A s \in Slots : ~ (s < 0)) /\ Full = Slots \ Free /\ Full' = Full /\ \A s : In(s)' = In(s)
    BY <2>1, FullSlots, FlashAssumption DEF Slots, Full, In
  <2>3. Place'
    BY <2>1, <2>2 DEF Place
  <2>4. AllKept'
    BY <2>1, <2>2 DEF AllKept, Kept
  <2>5. QED
    BY <2>3, <2>4
<1>4. CASE LoopEnds
  <2>1. /\ pc = "loop" /\ pc' = "ran" /\ UNCHANGED <<cell, buff, came, n, behind>>
        /\ ~ Calling /\ ~ Calling' /\ InRun
    BY <1>4 DEF LoopEnds, flash, buffer, InRun, Calling
  <2>2. Place' /\ Flash' = Flash
    BY <2>1 DEF RunInv, Place, Full, In, Flash
  <2>3. QED
    BY <2>1, <2>2, SameKept
<1>5. CASE NextSlot
  <2>1. /\ pc = "loop" /\ pc' = "loop" /\ n' = n + 1 /\ n \in Slots /\ ~ buff[n].full
        /\ UNCHANGED <<cell, buff, came, behind>> /\ ~ Calling /\ ~ Calling' /\ InRun
    BY <1>5 DEF NextSlot, flash, buffer, InRun, Calling
  <2>2. \A s \in Slots : s < n' <=> s < n \/ s = n
    BY <2>1, FlashAssumption DEF Slots
  <2>3. Place' /\ Flash' = Flash
    BY <2>1, <2>2 DEF RunInv, Place, Full, In, Flash
  <2>4. QED
    BY <2>1, <2>3, SameKept
<1>6. CASE WriteSlot
  <2>1. /\ pc = "loop" /\ pc' = "byte" /\ was' = cell
        /\ call'.addr = buff[n].addr /\ call'.bytes = <<buff[n].value>>
        /\ UNCHANGED <<cell, buff, came, behind, n>> /\ ~ Calling /\ Calling' /\ InRun
    BY <1>6 DEF WriteSlot, Begin, buffer, InRun, Calling
  <2>2. Place' /\ Flash' = Flash
    BY <2>1 DEF RunInv, Place, Full, In, Flash
  <2>3. QED
    BY <2>1, <2>2, SameKept
<1>7. CASE Count \/ Uncount
  <2>1. /\ {pc, pc'} \subseteq {"count", "uncount", "clear"} /\ UNCHANGED <<cell, buff, came, behind, n>>
        /\ ~ Calling /\ ~ Calling' /\ InRun
    BY <1>7 DEF Count, Uncount, flash, InRun, InSlot, Calling
  <2>2. pc \in {"count", "uncount", "clear"}
    BY <2>1
  <2>3. Place' /\ Flash' = Flash
    BY <2>1, <2>2 DEF RunInv, Place, Full, In, Flash
  <2>4. QED
    BY <2>1, <2>3, SameKept
<1>8. CASE UNCHANGED vars
  <2>1. UNCHANGED <<pc, cell, was, call, buff, came, behind, n, InRun, Calling, Flash>>
    BY <1>8 DEF vars, flash, buffer, InRun, InSlot, Calling, Flash
  <2>2. Place'
    BY <2>1 DEF RunInv, Place, Full, In
  <2>3. QED
    BY <2>1, <2>2, SameKept
<1>9. QED
  BY <1>1, <1>2, <1>3, <1>4, <1>5, <1>6, <1>7, <1>8, ReturnKeeps, ReceiveKeeps, ClearKeepsAll, BeyondKeeps
  DEF Next, Write, Run

\* RunInv is invariant.
LEMMA RunInvariant == Spec => []RunInv
BY RunInit, RunKeeps, PTL DEF Spec

\* The flash, the buffer, its count and the indices keep to their types: neither index leaves
\* the flash or the buffer, and num is never more than there are slots
\* (flash_write, flash_recv_byte and flash_write_run, mcu_sal_flash.c).
THEOREM TypeCorrect == Spec => []TypeOK
<1>1. RunInv => TypeOK
  <2>1. SUFFICES ASSUME RunInv PROVE num \in 0 .. FLASH_USER_PAGE_SIZE
    BY DEF TypeOK, RunInv, Buffered, WriteInv, Counted, Items
  <2>2. QED
    BY <2>1, SlotsFinite, FlashAssumption DEF RunInv, Counted
<1>2. QED
  BY <1>1, RunInvariant, PTL

\* What flash_write and flash_write_byte leave at each address when they return, in the page
\* of the first byte, behind it and elsewhere; and what is there at any moment before, which
\* is what a power failure leaves (mcu_sal_flash.c:16-160).
THEOREM WritesLand == Spec => []CallLands
<1>1. RunInv => CallLands
  BY Lands DEF RunInv
<1>2. QED
  BY <1>1, RunInvariant, PTL

\* num is the number of full slots less the increments lost to num --, and flash_write_run
\* reads behind its buffer only if a byte came into a slot that it had passed
\* (mcu_sal_flash.c:196-237).
THEOREM StaysInBuffer == Spec => []InBuffer
<1>1. RunInv => InBuffer
  <2>1. SUFFICES ASSUME RunInv PROVE InBuffer
    OBVIOUS
  <2>2. pc \in {"idle", "loop", "ran"} => num + lost = Cardinality(Slots \ Free)
    BY <2>1, FullSlots DEF RunInv, Counted
  <2>3. QED
    BY <2>1, <2>2, EndReached DEF InBuffer
<1>2. QED
  BY <1>1, RunInvariant, PTL

\* No byte that flash_write_run found or that came meanwhile is lost: each is in the flash or
\* still in its slot, unless another was for its address; when the loop ends, as many are
\* still in their slots as increments were lost (mcu_sal_flash.c:196-237).
THEOREM RunDrains == Spec => []Drained
<1>1. RunInv => Drained
  <2>1. SUFFICES ASSUME RunInv PROVE Drained
    OBVIOUS
  <2>2. pc = "loop" /\ num = 0 => Cardinality(Slots \ Free) = lost
    BY <2>1, FullSlots DEF RunInv, Counted
  <2>3. ASSUME pc \in {"loop", "ran"}, NEW c \in came, Alone(c)
        PROVE  cell[c.addr] = c.value \/ \E s \in Slots : buff[s].full /\ Item(buff[s].addr, buff[s].value) = c
    BY <2>1, <2>3 DEF RunInv, AllKept, InRun, Kept, Flash, Calling, Full, In
  <2>4. QED
    BY <2>2, <2>3 DEF Drained
<1>2. QED
  BY <1>1, RunInvariant, PTL
=============================================================================
