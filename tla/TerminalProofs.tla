--------------------------- MODULE TerminalProofs ---------------------------
(***************************************************************************)
(* The terminal, for every size of the buffer and of the history.          *)
(***************************************************************************)
EXTENDS Terminal, TLAPS, FiniteSetTheorems, WellFoundedInduction, SequenceTheorems

----------------------------------------------------------------------------
(* Induction, for sets of positions.                                       *)

\* A set of numbers has a least one.
LEMMA Least ==
  ASSUME NEW T, T \subseteq Nat, T # {}
  PROVE  \E x \in T : \A y \in T : x <= y
<1> DEFINE Upto == {0..x : x \in T}   R == StrictSubsetOrdering(Nat)
<1>1. Upto \subseteq FiniteSubsetsOf(Nat)
  <2>1. SUFFICES ASSUME NEW x \in T PROVE 0..x \in FiniteSubsetsOf(Nat)
    OBVIOUS
  <2>2. IsFiniteSet(0..x) /\ 0..x \in SUBSET Nat
    BY FS_Interval
  <2>3. QED
    BY <2>2 DEF FiniteSubsetsOf
<1>2. IsWellFoundedOn(R, FiniteSubsetsOf(Nat))
  BY FS_StrictSubsetOrderingWellFounded
<1>3. \E U \in Upto : \A V \in Upto : ~ (<<V, U>> \in R)
  <2> HIDE DEF Upto, R
  <2>1. Upto # {}
    BY DEF Upto
  <2>2. QED
    BY <1>1, <1>2, <2>1, WFMin
<1>4. PICK x \in T : \A y \in T : ~ (<<0..y, 0..x>> \in R)
  BY <1>3
<1>5. ASSUME NEW y \in T, ~ (x <= y) PROVE FALSE
  <2>1. x \in Nat /\ y \in Nat /\ y < x
    BY <1>5
  <2>2. 0..y \subseteq 0..x /\ x \in 0..x /\ x \notin 0..y
    BY <2>1
  <2>3. 0..y \in SUBSET Nat /\ 0..x \in SUBSET Nat
    BY <2>1
  <2>4. <<0..y, 0..x>> \in R
    BY <2>2, <2>3 DEF StrictSubsetOrdering
  <2>5. QED
    BY <1>4, <2>4
<1>6. QED
  BY <1>5

\* What holds of a position as soon as it holds of all behind it, holds of all.
LEMMA Backward ==
  ASSUME NEW m \in Nat, NEW S,
         \A n \in 0..m : (\A j \in n + 1..m : j \in S) => n \in S
  PROVE  0..m \subseteq S
<1> DEFINE T == {n \in 0..m : m - n \notin S}
<1>1. SUFFICES ASSUME T # {} PROVE FALSE
  <2>1. SUFFICES ASSUME NEW n \in 0..m, n \notin S PROVE FALSE
    OBVIOUS
  <2>2. m - n \in 0..m /\ m - (m - n) = n
    OBVIOUS
  <2>3. m - n \in T
    BY <2>1, <2>2
  <2>4. QED
    BY <1>1, <2>3
<1>2. PICK x \in T : \A y \in T : x <= y
  <2>1. T \subseteq Nat
    OBVIOUS
  <2> HIDE DEF T
  <2>2. QED
    BY <1>1, <2>1, Least
<1>3. \A j \in m - x + 1..m : j \in S
  <2>1. SUFFICES ASSUME NEW j \in m - x + 1..m, j \notin S PROVE FALSE
    OBVIOUS
  <2>2. m - j \in 0..m /\ m - (m - j) = j /\ m - j < x
    OBVIOUS
  <2>3. m - j \in T
    BY <2>1, <2>2
  <2>4. QED
    BY <1>2, <2>2, <2>3
<1>4. QED
  BY <1>2, <1>3

----------------------------------------------------------------------------
(* Strings in the buffer.                                                  *)

Places == 0..LEN
Buffers == [Places -> Characters \cup {NUL}]

LEMMA EndIs ==
  ASSUME NEW b, NEW at \in 0..LEN + 1
  PROVE  /\ End(b, at) \in at..LEN + 1
         /\ End(b, at) <= LEN => b[End(b, at)] = NUL
         /\ \A i \in at..End(b, at) - 1 : b[i] # NUL
<1> DEFINE T == {e \in at..LEN + 1 : e <= LEN => b[e] = NUL}
<1>1. LEN \in Nat /\ LEN > 3
  BY TerminalAssumption DEF RESERVED
<1>2. PICK x \in T : \A y \in T : x <= y
  <2>1. T \subseteq Nat /\ LEN + 1 \in T
    BY <1>1
  <2> HIDE DEF T
  <2>2. QED
    BY <2>1, Least
<1>3. \A i \in at..x - 1 : b[i] # NUL
  <2>1. SUFFICES ASSUME NEW i \in at..x - 1, b[i] = NUL PROVE FALSE
    OBVIOUS
  <2>2. i \in T /\ i < x
    BY <1>1, <2>1
  <2>3. QED
    BY <1>2, <2>2
<1>4. \E e \in at..LEN + 1 : (e <= LEN => b[e] = NUL) /\ \A i \in at..e - 1 : b[i] # NUL
  BY <1>2, <1>3
<1>5. QED
  BY <1>4 DEF End

LEMMA StrIs ==
  ASSUME NEW b \in Buffers, NEW at \in Nat
  PROVE  /\ Str(b, at) \in Seq(Characters) /\ Len(Str(b, at)) <= LEN + 1
         /\ at <= LEN => /\ Len(Str(b, at)) = End(b, at) - at
                         /\ \A n \in 1..End(b, at) - at : Str(b, at)[n] = b[at + n - 1]
<1>1. LEN \in Nat
  BY TerminalAssumption
<1>2. CASE at > LEN
  BY <1>1, <1>2 DEF Str
<1>3. CASE at <= LEN
  <2>1. PICK e \in at..LEN + 1 : e = End(b, at) /\ \A i \in at..e - 1 : b[i] # NUL
    BY <1>1, <1>3, EndIs
  <2>2. e - at \in Nat /\ e - at <= LEN + 1
    BY <1>1, <2>1
  <2>3. \A n \in 1..e - at : b[at + n - 1] \in Characters
    <3>1. SUFFICES ASSUME NEW n \in 1..e - at PROVE b[at + n - 1] \in Characters
      OBVIOUS
    <3>2. PICK j \in at..e - 1 : j = at + n - 1
      BY <2>1, <2>2
    <3>3. j \in Places /\ b[j] # NUL
      BY <1>1, <2>1 DEF Places
    <3>4. QED
      BY <3>2, <3>3 DEF Buffers
  <2>4. Str(b, at) = [n \in 1..e - at |-> b[at + n - 1]]
    BY <1>1, <1>3, <2>1 DEF Str
  <2>5. Str(b, at) \in [1..e - at -> Characters]
    BY <2>3, <2>4
  <2>6. Str(b, at) \in Seq(Characters) /\ Len(Str(b, at)) = e - at
    BY <2>2, <2>5
  <2>7. QED
    BY <2>1, <2>2, <2>4, <2>6
<1>4. QED
  BY <1>1, <1>2, <1>3

LEMMA PutIs ==
  ASSUME NEW b \in Buffers, NEW at \in Int, NEW s \in Seq(Characters \cup {NUL})
  PROVE  Put(b, at, s) \in Buffers
<1>1. SUFFICES ASSUME NEW i \in Places
               PROVE  (IF at <= i /\ i < at + Len(s) THEN s[i - at + 1] ELSE b[i]) \in Characters \cup {NUL}
  BY DEF Put, Buffers, Places
<1>2. i \in Int /\ Len(s) \in Nat
  BY TerminalAssumption DEF Places
<1>3. CASE at <= i /\ i < at + Len(s)
  <2>1. i - at + 1 \in 1..Len(s)
    BY <1>2, <1>3
  <2>2. QED
    BY <1>3, <2>1
<1>4. QED
  BY <1>3 DEF Buffers

\* What the scan does at a position, given what it does behind.
From(b, f, i) ==
  IF i > LEN \/ b[i] = NUL THEN <<>>
  ELSE IF Sequence(b, i) THEN Kept(b, i + 3) \o f[i + 4] ELSE Kept(b, i) \o f[i + 1]

LEMMA KeptIs ==
  ASSUME NEW b, NEW i \in Nat
  PROVE  Kept(b, i) \in Seq(Valid) /\ Len(Kept(b, i)) <= 1 /\ (i > LEN => Kept(b, i) = <<>>)
<1>1. LEN \in Nat
  BY TerminalAssumption
<1>2. CASE i <= LEN /\ b[i] \in Valid
  <2>1. Kept(b, i) = <<b[i]>>
    BY <1>2 DEF Kept
  <2>2. QED
    BY <1>1, <1>2, <2>1
<1>3. CASE ~ (i <= LEN /\ b[i] \in Valid)
  <2>1. Kept(b, i) = <<>>
    BY <1>3 DEF Kept
  <2>2. QED
    BY <2>1
<1>4. QED
  BY <1>2, <1>3

\* The scan is well defined: a position depends on those behind it.
LEMMA ScanExists ==
  ASSUME NEW b
  PROVE  \E f : f = [i \in 0..LEN + 4 |-> From(b, f, i)]
<1>1. LEN \in Nat
  BY TerminalAssumption
<1> DEFINE S == {n \in 0..LEN + 4 : \E f \in [0..LEN + 4 -> Seq(Valid)] :
                                       \A i \in n..LEN + 4 : f[i] = From(b, f, i)}
<1>2. LEN + 4 \in S
  <2>1. [i \in 0..LEN + 4 |-> <<>>] \in [0..LEN + 4 -> Seq(Valid)]
    OBVIOUS
  <2>2. \A i \in LEN + 4..LEN + 4 : [j \in 0..LEN + 4 |-> <<>>][i] = From(b, [j \in 0..LEN + 4 |-> <<>>], i)
    BY <1>1 DEF From
  <2>3. QED
    BY <1>1, <2>1, <2>2
<1>3. ASSUME NEW n \in 0..LEN + 4, n + 1 \in S PROVE n \in S
  <2>1. PICK f \in [0..LEN + 4 -> Seq(Valid)] : \A i \in n + 1..LEN + 4 : f[i] = From(b, f, i)
    BY <1>3
  <2>2. From(b, f, n) \in Seq(Valid)
    <3>1. CASE n > LEN \/ b[n] = NUL
      BY <3>1 DEF From
    <3>2. CASE ~ (n > LEN \/ b[n] = NUL)
      <4>1. n + 1 \in 0..LEN + 4 /\ n + 4 \in 0..LEN + 4
        BY <1>1, <3>2
      <4>2. f[n + 1] \in Seq(Valid) /\ f[n + 4] \in Seq(Valid)
        BY <4>1
      <4>3. QED
        BY <3>2, <4>2, KeptIs DEF From
    <3>3. QED
      BY <3>1, <3>2
  <2>3. PICK g \in [0..LEN + 4 -> Seq(Valid)] : g = [f EXCEPT ![n] = From(b, f, n)]
    BY <2>2
  <2>4. g[n] = From(b, f, n) /\ \A i \in 0..LEN + 4 : i # n => g[i] = f[i]
    BY <2>3
  <2>5. \A i \in n..LEN + 4 : From(b, g, i) = From(b, f, i)
    <3>1. SUFFICES ASSUME NEW i \in n..LEN + 4, ~ (i > LEN \/ b[i] = NUL) PROVE From(b, g, i) = From(b, f, i)
      BY DEF From
    <3>2. i + 1 \in 0..LEN + 4 /\ i + 1 # n /\ i + 4 \in 0..LEN + 4 /\ i + 4 # n
      BY <1>1, <3>1
    <3>3. g[i + 1] = f[i + 1] /\ g[i + 4] = f[i + 4]
      BY <2>4, <3>2
    <3>4. QED
      BY <3>1, <3>3 DEF From
  <2>6. \A i \in n..LEN + 4 : g[i] = From(b, g, i)
    BY <1>1, <2>1, <2>4, <2>5
  <2>7. QED
    BY <2>6
<1>4. ASSUME NEW n \in 0..LEN + 4, \A j \in n + 1..LEN + 4 : j \in S PROVE n \in S
  <2> HIDE DEF S
  <2>1. CASE n = LEN + 4
    BY <1>2, <2>1
  <2>2. CASE n # LEN + 4
    <3>1. n + 1 \in n + 1..LEN + 4
      BY <1>1, <2>2
    <3>2. QED
      BY <1>3, <1>4, <3>1
  <2>3. QED
    BY <2>1, <2>2
<1>5. 0 \in S
  <2> HIDE DEF S
  <2>1. LEN + 4 \in Nat /\ 0 \in 0..LEN + 4
    BY <1>1
  <2>2. QED
    BY <1>4, <2>1, Backward
<1>6. PICK f \in [0..LEN + 4 -> Seq(Valid)] : \A i \in 0..LEN + 4 : f[i] = From(b, f, i)
  BY <1>5
<1>7. f = [i \in 0..LEN + 4 |-> From(b, f, i)]
  BY <1>6
<1>8. QED
  BY <1>7

LEMMA ScanIs ==
  ASSUME NEW b
  PROVE  Scan(b) = [i \in 0..LEN + 4 |-> From(b, Scan(b), i)]
BY ScanExists DEF Scan, From

LEMMA ScanType ==
  ASSUME NEW b, NEW i \in 0..LEN + 4
  PROVE  Scan(b)[i] \in Seq(Valid) /\ Len(Scan(b)[i]) <= IF i > LEN THEN 0 ELSE LEN + 1 - i
<1>1. LEN \in Nat
  BY TerminalAssumption
<1> DEFINE Room(n) == IF n > LEN THEN 0 ELSE LEN + 1 - n
           S == {n \in 0..LEN + 4 : Scan(b)[n] \in Seq(Valid) /\ Len(Scan(b)[n]) <= Room(n)}
<1>2. ASSUME NEW n \in 0..LEN + 4, \A j \in n + 1..LEN + 4 : j \in S PROVE n \in S
  <2>1. Scan(b)[n] = From(b, Scan(b), n)
    BY ScanIs
  <2>2. CASE n > LEN \/ b[n] = NUL
    <3>1. Scan(b)[n] = <<>>
      BY <2>1, <2>2 DEF From
    <3>2. Len(<<>>) = 0 /\ <<>> \in Seq(Valid) /\ 0 <= Room(n)
      BY <1>1
    <3>3. QED
      BY <3>1, <3>2
  <2>3. CASE n <= LEN /\ b[n] # NUL /\ Sequence(b, n)
    <3>1. n + 4 \in S /\ n < LEN /\ n + 4 \in Nat
      <4>1. n < LEN
        BY <2>3 DEF Sequence
      <4>2. n + 4 \in n + 1..LEN + 4
        BY <1>1, <4>1
      <4>3. QED
        BY <1>2, <4>1, <4>2
    <3>2. PICK s \in Seq(Valid) : s = Scan(b)[n + 4] /\ Len(s) <= Room(n + 4)
      BY <3>1
    <3>3. PICK c \in Seq(Valid) : c = Kept(b, n + 3) /\ Len(c) <= 1 /\ (n + 3 > LEN => Len(c) = 0)
      BY KeptIs
    <3>4. Scan(b)[n] = c \o s
      <4>1. ~ (n > LEN \/ b[n] = NUL)
        BY <1>1, <2>3
      <4>2. From(b, Scan(b), n) = Kept(b, n + 3) \o Scan(b)[n + 4]
        BY <2>3, <4>1 DEF From
      <4>3. QED
        BY <2>1, <3>2, <3>3, <4>2
    <3>5. c \o s \in Seq(Valid) /\ Len(c \o s) = Len(c) + Len(s)
      OBVIOUS
    <3>6. Len(c) + Len(s) <= Room(n)
      <4>1. Len(s) \in Nat /\ Len(c) \in Nat /\ Room(n) = LEN + 1 - n
        BY <1>1, <3>1
      <4>2. CASE n + 3 > LEN
        <5>1. Len(c) = 0
          BY <3>3, <4>2
        <5>2. Room(n + 4) = 0
          BY <1>1, <3>1, <4>2
        <5>3. QED
          BY <1>1, <3>1, <3>2, <4>1, <5>1, <5>2
      <4>3. CASE n + 3 <= LEN
        <5>1. Len(s) <= LEN + 1 - (n + 4)
          BY <1>1, <3>1, <3>2, <4>3
        <5>2. QED
          BY <1>1, <3>1, <3>3, <4>1, <5>1
      <4>4. QED
        BY <1>1, <4>2, <4>3
    <3>7. QED
      BY <3>4, <3>5, <3>6
  <2>4. CASE n <= LEN /\ b[n] # NUL /\ ~ Sequence(b, n)
    <3>1. n + 1 \in S
      BY <1>1, <1>2, <2>4
    <3>2. PICK s \in Seq(Valid) : s = Scan(b)[n + 1] /\ Len(s) <= Room(n + 1)
      BY <3>1
    <3>3. PICK c \in Seq(Valid) : c = Kept(b, n) /\ Len(c) <= 1
      BY KeptIs
    <3>4. Scan(b)[n] = c \o s
      <4>1. ~ (n > LEN \/ b[n] = NUL)
        BY <1>1, <2>4
      <4>2. From(b, Scan(b), n) = Kept(b, n) \o Scan(b)[n + 1]
        BY <2>4, <4>1 DEF From
      <4>3. QED
        BY <2>1, <3>2, <3>3, <4>2
    <3>5. c \o s \in Seq(Valid) /\ Len(c \o s) = Len(c) + Len(s)
      OBVIOUS
    <3>6. Len(c) + Len(s) <= Room(n)
      BY <1>1, <2>4, <3>2, <3>3
    <3>7. QED
      BY <3>4, <3>5, <3>6
  <2>5. QED
    BY <1>1, <2>2, <2>3, <2>4
<1>3. i \in S
  <2> HIDE DEF S
  <2>1. LEN + 4 \in Nat
    BY <1>1
  <2>2. QED
    BY <1>2, <2>1, Backward
<1>4. QED
  BY <1>3

LEMMA FormatIs ==
  ASSUME NEW b
  PROVE  Format(b) \in Seq(Valid) /\ Len(Format(b)) <= LEN + 1
<1>1. LEN \in Nat /\ 0 \in 0..LEN + 4
  BY TerminalAssumption
<1>2. QED
  BY <1>1, ScanType DEF Format

----------------------------------------------------------------------------
(* The types.                                                              *)

Texts == {s \in Seq(Characters) : Len(s) <= LEN + 1}

\* Where the pointers are while the task is at work, and that a recall has an entry.
Typed ==
  /\ TypeOK
  /\ pending \in Seq(Characters) /\ tmp \in Texts /\ ch \in Characters \cup {NUL}
  /\ hist \in [0..HIST - 1 -> Texts]
  /\ pc # "idle" => read >= 0
  /\ pc \notin {"idle", "deleteEnd"} => write >= 0
  /\ "recall" \in {pc, next} \/ "recallLock" \in {pc, next} => hread > 0
  /\ pc \in {"recallLock", "recallCopy", "recallEnd"} => next = "idle"
  /\ pc = "recallCopy" => hread < HIST
  /\ pc \in {"format", "formatLock", "formatCopy", "formatEnd"} =>
       next \in {"run", "delete", "insert", "right", "left", "recall"}
  /\ pc \in {"clear", "rewind"} => next \in {"idle", "recallLock"}

LEMMA Sizes == LEN \in Nat /\ LEN > 3 /\ HIST \in Nat /\ HIST > 0
  BY TerminalAssumption DEF RESERVED

LEMMA TypedIs ==
  ASSUME Typed
  PROVE  /\ buff \in Buffers /\ read \in -1..LEN + 1 /\ write \in -1..LEN + 2
         /\ cursor \in Nat /\ len \in Nat /\ hwrite \in 0..HIST - 1 /\ hread \in 0..HIST
         /\ Entries \in 0..HIST
         /\ Readable => read \in 0..LEN /\ read + 1 \in 0..LEN + 1 /\ write > 0 /\ buff[read] \in Characters
BY Sizes DEF Typed, TypeOK, Buffers, Places, Readable, Entries

LEMMA EmptyText == <<>> \in Seq(Characters) /\ Len(<<>>) = 0 /\ <<>> \in Texts
BY Sizes DEF Texts

LEMMA CharsAre ==
  ASSUME NEW k \in DOMAIN Chars
  PROVE  Chars[k] \in Seq(Characters)
<1>1. k \in Letters \cup Others \cup Keys
  BY DEF Chars
<1>2. {CR, BS, ESC, LB, "A", "C", "D"} \subseteq Characters
  BY DEF Characters, Valid
<1>3. CASE k \in {"Enter", "Backspace", "Recall", "Right", "Left"}
  BY <1>1, <1>2, <1>3 DEF Chars
<1>4. CASE k \notin {"Enter", "Backspace", "Recall", "Right", "Left"}
  <2>1. k \in Characters
    BY <1>1, <1>4, TerminalAssumption DEF Characters, Valid
  <2>2. Chars[k] = <<k>>
    BY <1>1, <1>4 DEF Chars
  <2>3. QED
    BY <2>1, <2>2
<1>5. QED
  BY <1>3, <1>4

LEMMA TypedInit == Init => Typed
<1> SUFFICES ASSUME Init PROVE Typed
  OBVIOUS
<1>1. hist \in [0..HIST - 1 -> Texts] /\ DOMAIN hist = 0..HIST - 1
  BY EmptyText DEF Init
<1>2. buff \in Buffers
  BY DEF Init, Blank, Buffers, Places
<1>3. TypeOK
  <2>1. buff \in [0..LEN -> Characters \cup {NUL}] /\ DOMAIN hist = 0..HIST - 1
    BY <1>1, <1>2 DEF Buffers, Places
  <2>2. /\ read = 0 /\ write = 0 /\ lock = 1 /\ cursor = 0 /\ len = 0
        /\ skip = FALSE /\ key_flag = FALSE /\ hwrite = 0 /\ hread = 0 /\ full = FALSE
    BY DEF Init
  <2>3. 0 \in -1..LEN + 1 /\ 0 \in -1..LEN + 2 /\ 0 \in 0..HIST - 1 /\ 0 \in 0..HIST
    BY Sizes
  <2>4. QED
    BY <2>1, <2>2, <2>3 DEF TypeOK
<1>4. QED
  BY <1>1, <1>3, EmptyText DEF Init, Typed

LEMMA TypedPress ==
  ASSUME Typed, NEW k \in DOMAIN Chars, Press(k)
  PROVE  Typed'
<1>1. pending' \in Seq(Characters)
  BY CharsAre DEF Press
<1>2. UNCHANGED <<buff, read, write, lock, cursor, len, skip, key_flag, hist, hwrite, hread, full,
                  pc, next, ch, tmp>>
  BY DEF Press, line, shown, history, local
<1>3. QED
  BY <1>1, <1>2 DEF Typed, TypeOK

\* The handler stores a character once or twice, or not.
LEMMA StoreIs ==
  ASSUME Typed, NEW c \in Characters, NEW n \in 0..2, Store(c, n), write + n <= LEN + 2
  PROVE  buff' \in Buffers /\ write' \in -1..LEN + 2 /\ write' >= write
<1>1. write \in -1..LEN + 2 /\ buff \in Buffers
  BY TypedIs
<1>2. [i \in 1..n |-> c] \in Seq(Characters \cup {NUL})
  OBVIOUS
<1>3. buff' \in Buffers
  BY <1>1, <1>2, PutIs DEF Store
<1>4. QED
  BY <1>1, <1>3, Sizes DEF Store

LEMMA TypedUart ==
  ASSUME Typed, Uart
  PROVE  Typed'
<1>1. UNCHANGED <<read, lock, cursor, len, skip, hist, hwrite, hread, full, pc, next, ch, tmp>>
  BY DEF Uart, RecvChar, RecvControl, shown, history, local
<1>2. pending # <<>> /\ pending' = Tail(pending) /\ pending \in Seq(Characters)
  BY DEF Uart, RecvChar, RecvControl, Typed
<1>3. Head(pending) \in Characters /\ pending' \in Seq(Characters)
  BY <1>2
<1>4. write \in -1..LEN + 2 /\ buff \in Buffers
  BY TypedIs
<1>5. buff' \in Buffers /\ write' \in -1..LEN + 2 /\ write' >= write /\ key_flag' \in BOOLEAN
  <2>1. CASE RecvChar
    <3>1. PICK n \in 0..1 : Store(Head(pending), n)
      BY <2>1 DEF RecvChar
    <3>2. key_flag' = key_flag /\ write + n <= LEN + 2
      BY <1>4, <2>1, <3>1, Sizes DEF RecvChar, RESERVED
    <3>3. QED
      BY <1>3, <3>1, <3>2, StoreIs DEF Typed, TypeOK
  <2>2. CASE RecvControl /\ Free
    <3>1. PICK n \in 0..2, flag \in BOOLEAN : Store(Head(pending), n) /\ key_flag' = (flag /\ write' # LEN)
      <4>1. DEFINE c == Head(pending)
                   control == c \in {BS, CR} /\ lock = 1
                   flag == key_flag \/ (~ control /\ c = ESC)
                   n == (IF control THEN 1 ELSE 0) + (IF flag /\ lock = 1 THEN 1 ELSE 0)
      <4>2. Store(c, n) /\ key_flag' = (flag /\ write' # LEN)
        BY <2>2 DEF RecvControl
      <4>3. n \in 0..2 /\ flag \in BOOLEAN
        BY DEF Typed, TypeOK
      <4>4. QED
        BY <4>2, <4>3
    <3>2. write <= LEN
      BY <2>2 DEF Free
    <3>3. QED
      BY <1>3, <1>4, <3>1, <3>2, StoreIs, Sizes
  <2>3. CASE RecvControl /\ ~ Free
    BY <1>4, <2>3 DEF RecvControl, Typed, TypeOK
  <2>4. QED
    BY <2>1, <2>2, <2>3 DEF Uart
<1>6. QED
  BY <1>1, <1>3, <1>4, <1>5 DEF Typed, TypeOK, Buffers, Places

\* The task reads a character and goes on.
LEMMA TypedRead ==
  ASSUME Typed,
         ReadEnter \/ ReadBackspace \/ ReadEscape \/ ReadChar \/ EscapeNext \/ DirectionNext
  PROVE  Typed'
<1>1. Readable /\ read' = read + 1
  BY DEF ReadEnter, ReadBackspace, ReadEscape, ReadChar, EscapeNext, DirectionNext, Take
<1>2. UNCHANGED <<buff, write, lock, key_flag, hist, hwrite, hread, full, pending>>
  BY DEF ReadEnter, ReadBackspace, ReadEscape, ReadChar, EscapeNext, DirectionNext, KeepsLine, history
<1>3. cursor' \in Nat /\ len' \in Nat /\ skip' \in BOOLEAN
  <2>1. CASE ReadChar
    BY <2>1, TypedIs DEF ReadChar, Typed, TypeOK
  <2>2. CASE ~ ReadChar
    BY <2>2 DEF ReadEnter, ReadBackspace, ReadEscape, EscapeNext, DirectionNext, shown, Typed, TypeOK
  <2>3. QED
    BY <2>1, <2>2
<1>4. /\ tmp' = tmp /\ ch' \in Characters \cup {NUL}
      /\ \/ pc' \in {"idle", "escape", "direction"} /\ next' = next
         \/ pc' = "format" /\ next' \in {"run", "delete", "insert", "right", "left"}
         \/ pc' = "format" /\ next' = "recall" /\ hread > 0
  <2>1. CASE ReadEnter \/ ReadBackspace \/ ReadEscape \/ EscapeNext
    BY <2>1 DEF ReadEnter, ReadBackspace, ReadEscape, EscapeNext, FormatThen, Go, Typed
  <2>2. CASE ReadChar
    BY <1>1, <2>2, TypedIs DEF ReadChar, FormatThen, Go, Typed
  <2>3. CASE DirectionNext
    BY <2>3 DEF DirectionNext, FormatThen, Go, Typed
  <2>4. QED
    BY <2>1, <2>2, <2>3
<1>5. read' \in 0..LEN + 1 /\ write >= 0
  BY <1>1, TypedIs
<1>6. QED
  BY <1>2, <1>3, <1>4, <1>5 DEF Typed, TypeOK

LEMMA TypedFormat ==
  ASSUME Typed, WaitEnds \/ FormatScan \/ FormatLock \/ FormatCopy \/ FormatEnd
  PROVE  Typed'
<1>1. UNCHANGED <<cursor, len, skip, key_flag, hist, hwrite, hread, full, pending, ch, next>>
  BY DEF WaitEnds, FormatScan, FormatLock, FormatCopy, FormatEnd, shown, history, Keeps, Go
<1>2. CASE WaitEnds
  BY <1>1, <1>2 DEF WaitEnds, Go, line, Typed, TypeOK
<1>3. CASE FormatScan
  <2>1. Format(buff) \in Texts
    <3>1. Format(buff) \in Seq(Valid) /\ Valid \subseteq Characters /\ Len(Format(buff)) <= LEN + 1
      BY FormatIs DEF Characters
    <3>2. QED
      BY <3>1 DEF Texts
  <2>2. tmp' \in Texts /\ pc' \in {next, "formatLock"} /\ pc = "format" /\ UNCHANGED <<buff, read, write, lock>>
    BY <1>3, <2>1 DEF FormatScan, line, Typed
  <2>3. QED
    BY <1>1, <2>2 DEF Typed, TypeOK
<1>4. CASE FormatLock
  BY <1>1, <1>4 DEF FormatLock, Go, Typed, TypeOK
<1>5. CASE FormatCopy
  <2>1. Put(Blank, 0, tmp) \in Buffers
    <3>1. Blank \in Buffers
      BY DEF Blank, Buffers, Places
    <3>2. tmp \in Seq(Characters \cup {NUL})
      BY DEF Typed, Texts
    <3>3. QED
      BY <3>1, <3>2, PutIs
  <2>2. buff' \in Buffers
    BY <1>5, <2>1, TypedIs, Sizes DEF FormatCopy, Buffers, Places
  <2>3. write' \in 0..LEN + 1 /\ lock' = 1 /\ pc' = "formatEnd" /\ tmp' = tmp /\ read' = read
        /\ pc = "formatCopy"
    BY <1>5 DEF FormatCopy, Go, Typed, Texts
  <2>4. QED
    BY <1>1, <2>2, <2>3, Sizes DEF Typed, TypeOK, Buffers, Places
<1>6. CASE FormatEnd
  <2>1. read' \in 0..LEN + 1 /\ pc' = next /\ tmp' = <<>> /\ UNCHANGED <<buff, write, lock>> /\ pc = "formatEnd"
    BY <1>6 DEF FormatEnd, Typed, Texts
  <2>2. QED
    BY <1>1, <2>1, EmptyText, Sizes DEF Typed, TypeOK
<1>7. QED
  BY <1>2, <1>3, <1>4, <1>5, <1>6

\* The string that is put back with its terminator.
LEMMA PutStrIs ==
  ASSUME NEW b \in Buffers, NEW at \in Int, NEW s \in Seq(Characters \cup {NUL})
  PROVE  PutStr(b, at, s) \in Buffers
<1>1. Append(s, NUL) \in Seq(Characters \cup {NUL})
  OBVIOUS
<1>2. QED
  BY <1>1, PutIs DEF PutStr

LEMMA TextLengths ==
  ASSUME Typed
  PROVE  Len(Str(buff, 0)) \in Nat /\ Len(tmp) \in Nat
<1>1. Str(buff, 0) \in Seq(Characters)
  BY StrIs, TypedIs
<1>2. tmp \in Seq(Characters)
  BY DEF Typed, Texts
<1>3. QED
  BY <1>1, <1>2

LEMMA TypedEdit ==
  ASSUME Typed, MoveRight \/ MoveLeft \/ InsertSave \/ InsertCopy \/ InsertEnd
  PROVE  Typed'
<1>1. UNCHANGED <<read, write, lock, skip, key_flag, hist, hwrite, hread, full, pending>>
  BY DEF MoveRight, MoveLeft, InsertSave, InsertCopy, InsertEnd, line, shown, history, Keeps
<1>2. CASE MoveRight \/ MoveLeft
  <2>1. cursor' \in Nat /\ len' = len /\ buff' = buff /\ UNCHANGED <<next, ch, tmp>> /\ pc' = "idle"
    BY <1>2, TypedIs DEF MoveRight, MoveLeft, line, Go
  <2>2. QED
    BY <1>1, <2>1 DEF Typed, TypeOK
<1>3. CASE InsertSave
  <2>1. PICK s \in Seq(Characters) : s = Str(buff, cursor) /\ Len(s) <= LEN + 1
    BY StrIs, TypedIs
  <2>2. PICK m \in Int : tmp' = SubSeq(s, 1, m) /\ m <= Len(s)
    <3>1. Len(s) \in Int /\ len - cursor \in Int
      BY <2>1, TypedIs
    <3>2. tmp' = SubSeq(s, 1, IF Len(s) < len - cursor THEN Len(s) ELSE len - cursor)
      BY <1>3, <2>1 DEF InsertSave
    <3>3. QED
      BY <3>1, <3>2
  <2>3. tmp' \in Texts
    <3>1. SubSeq(s, 1, m) \in Seq(Characters) /\ Len(SubSeq(s, 1, m)) <= Len(s)
      BY <2>2
    <3>2. QED
      BY <2>1, <2>2, <3>1, Sizes DEF Texts
  <2>4. pc = "insert" /\ pc' = "insertCopy" /\ UNCHANGED <<buff, cursor, len, next, ch>>
    BY <1>3 DEF InsertSave, line, shown
  <2>5. QED
    BY <1>1, <2>3, <2>4 DEF Typed, TypeOK
<1>4. CASE InsertCopy
  <2>1. <<ch>> \o tmp \in Seq(Characters \cup {NUL})
    <3>1. PICK C : C = Characters \cup {NUL}
      OBVIOUS
    <3>2. tmp \in Seq(C) /\ ch \in C
      BY <3>1 DEF Typed, Texts
    <3>3. QED
      BY <3>1, <3>2
  <2>2. buff' \in Buffers
    <3>1. PICK s \in Seq(Characters \cup {NUL}) : s = <<ch>> \o tmp
      BY <2>1
    <3>2. buff' = PutStr(buff, cursor, s) /\ buff \in Buffers /\ cursor \in Int
      BY <1>4, <3>1, TypedIs DEF InsertCopy
    <3>3. QED
      BY <3>2, PutStrIs
  <2>3. pc = "insertCopy" /\ pc' = "insertEnd" /\ UNCHANGED <<cursor, len, next, ch, tmp>>
    BY <1>4 DEF InsertCopy, Go, shown
  <2>4. QED
    BY <1>1, <2>2, <2>3 DEF Typed, TypeOK, Buffers, Places
<1>5. CASE InsertEnd
  <2>1. cursor' \in Nat /\ len' \in Nat
    <3>1. Len(Str(buff, 0)) \in Nat /\ Len(tmp) \in Nat
      BY TextLengths
    <3>2. QED
      BY <1>5, <3>1, TypedIs DEF InsertEnd, LeftBy
  <2>2. buff' = buff /\ pc' = "idle" /\ next' = "idle" /\ ch' = NUL /\ tmp' = <<>>
    BY <1>5 DEF InsertEnd, Done, line
  <2>3. QED
    BY <1>1, <2>1, <2>2, EmptyText DEF Typed, TypeOK
<1>6. QED
  BY <1>2, <1>3, <1>4, <1>5

LEMMA TypedDelete ==
  ASSUME Typed, DeleteSave \/ DeleteLock \/ DeleteCopy \/ DeleteEnd
  PROVE  Typed'
<1>1. UNCHANGED <<skip, key_flag, hist, hwrite, hread, full, pending>>
  BY DEF DeleteSave, DeleteLock, DeleteCopy, DeleteEnd, line, shown, history, Keeps
<1>2. CASE DeleteSave
  <2>1. tmp' \in Texts /\ pc = "delete" /\ pc' = "deleteLock"
        /\ UNCHANGED <<buff, read, write, lock, cursor, len, next, ch>>
    BY <1>2, StrIs, TypedIs DEF DeleteSave, line, shown, Texts
  <2>2. QED
    BY <1>1, <2>1 DEF Typed, TypeOK
<1>3. CASE DeleteLock
  BY <1>1, <1>3 DEF DeleteLock, Go, shown, Typed, TypeOK
<1>4. CASE DeleteCopy
  <2>1. tmp \in Seq(Characters \cup {NUL}) /\ cursor - 1 \in Int
    BY TypedIs DEF Typed, Texts
  <2>2. buff' \in Buffers
    BY <1>4, <2>1, TypedIs, PutStrIs DEF DeleteCopy
  <2>3. pc = "deleteCopy" /\ pc' = "deleteEnd" /\ write' = write - 1 /\ lock' = 1
        /\ UNCHANGED <<read, cursor, len, next, ch, tmp>>
    BY <1>4 DEF DeleteCopy, Go, shown
  <2>4. write >= 0
    BY <2>3 DEF Typed
  <2>6. write' \in -1..LEN + 2
    BY <2>3, <2>4, TypedIs, Sizes
  <2>5. QED
    BY <1>1, <2>2, <2>3, <2>6 DEF Typed, TypeOK, Buffers, Places
<1>5. CASE DeleteEnd
  <2>1. Len(Str(buff, 0)) \in Nat /\ Len(tmp) \in Nat
    BY TextLengths
  <2>2. len' \in Nat /\ cursor' \in Nat /\ read' = read - 1 /\ UNCHANGED <<buff, write, lock>>
        /\ pc = "deleteEnd" /\ pc' = "idle" /\ next' = "idle" /\ ch' = NUL /\ tmp' = <<>>
    BY <1>5, <2>1 DEF DeleteEnd, Done, LeftBy
  <2>3. read' \in -1..LEN + 1
    <3>1. read >= 0
      BY <2>2 DEF Typed
    <3>2. QED
      BY <2>2, <3>1, TypedIs, Sizes
  <2>4. QED
    BY <1>1, <2>2, <2>3, EmptyText DEF Typed, TypeOK
<1>6. QED
  BY <1>2, <1>3, <1>4, <1>5

LEMMA TypedRun ==
  ASSUME Typed, Run \/ Recall \/ Clear \/ Rewind \/ RecallLock \/ RecallCopy \/ RecallEnd
  PROVE  Typed'
<1>1. key_flag' = key_flag /\ pending' = pending
  BY DEF Run, Recall, Clear, Rewind, RecallLock, RecallCopy, RecallEnd, Keeps
<1>2. CASE Run
  <2>1. Str(buff, 0) \in Texts
    BY StrIs, TypedIs DEF Texts
  <2>2. UNCHANGED <<buff, read, write, lock, cursor, len, skip, ch, tmp>>
        /\ pc = "run" /\ pc' = "clear" /\ next' = "idle"
    BY <1>2 DEF Run, line, shown
  <2>3. /\ hist' \in [0..HIST - 1 -> Texts] /\ DOMAIN hist' = 0..HIST - 1
        /\ hwrite' \in 0..HIST - 1 /\ hread' \in 0..HIST /\ full' \in BOOLEAN
    <3>1. CASE buff[0] = NUL
      BY <1>2, <3>1 DEF Run, history, Typed, TypeOK
    <3>2. CASE buff[0] # NUL
      BY <1>2, <2>1, <3>2, TypedIs, Sizes DEF Run, Typed, TypeOK
    <3>3. QED
      BY <3>1, <3>2
  <2>4. QED
    BY <1>1, <2>2, <2>3 DEF Typed, TypeOK
<1>3. CASE Recall
  BY <1>1, <1>3 DEF Recall, line, shown, history, Typed, TypeOK
<1>4. CASE Clear
  <2>1. Blank \in [0..LEN -> Characters \cup {NUL}]
    BY DEF Blank
  <2>2. QED
    BY <1>1, <1>4, <2>1 DEF Clear, Go, shown, history, Typed, TypeOK
<1>5. CASE Rewind
  <2>1. /\ read' = 0 /\ write' = 0 /\ cursor' = 0 /\ len' = 0 /\ skip' = FALSE
        /\ pc = "rewind" /\ pc' = next /\ next' = "idle"
        /\ UNCHANGED <<buff, lock, hist, hwrite, hread, full, ch, tmp>>
    BY <1>5 DEF Rewind, history
  <2>2. next \in {"idle", "recallLock"}
    BY <2>1 DEF Typed
  <2>3. 0 \in -1..LEN + 1 /\ 0 \in -1..LEN + 2
    BY Sizes
  <2>4. TypeOK'
    BY <1>1, <2>1, <2>3 DEF Typed, TypeOK
  <2>5. QED
    BY <1>1, <2>1, <2>2, <2>4 DEF Typed
<1>6. CASE RecallLock
  <2>1. /\ UNCHANGED <<buff, read, write, cursor, len, skip, hist, hwrite, full, next, ch, tmp>>
        /\ lock' = 0 /\ pc = "recallLock" /\ pc' = "recallCopy" /\ hread' = hread - 1
    BY <1>6 DEF RecallLock, Go, shown
  <2>2. hread > 0 /\ next = "idle"
    BY <2>1 DEF Typed
  <2>3. hread' \in 0..HIST /\ hread' < HIST
    BY <2>1, <2>2, TypedIs, Sizes
  <2>4. QED
    BY <1>1, <2>1, <2>2, <2>3 DEF Typed, TypeOK
<1>7. CASE RecallCopy
  <2>1. hist[hread] \in Seq(Characters \cup {NUL})
    <3>1. hread \in 0..HIST - 1
      BY <1>7, TypedIs, Sizes DEF RecallCopy, Typed
    <3>2. hist[hread] \in Seq(Characters)
      BY <3>1 DEF Typed, Texts
    <3>3. QED
      BY <3>2
  <2>2. buff' \in Buffers
    BY <1>7, <2>1, TypedIs, PutIs DEF RecallCopy
  <2>3. write' \in 0..LEN + 1
    BY <1>7, <2>2, StrIs DEF RecallCopy
  <2>4. /\ UNCHANGED <<read, cursor, len, skip, hist, hwrite, hread, full, next, ch, tmp>>
        /\ lock' = 1 /\ pc = "recallCopy" /\ pc' = "recallEnd"
    BY <1>7 DEF RecallCopy, Go, shown, history
  <2>5. QED
    BY <1>1, <2>2, <2>3, <2>4, Sizes DEF Typed, TypeOK, Buffers, Places
<1>8. CASE RecallEnd
  <2>1. Len(Str(buff, 0)) \in 0..LEN + 1
    BY StrIs, TypedIs, Sizes
  <2>2. read' \in 0..LEN + 1 /\ len' \in Nat /\ cursor' \in Nat /\ hread' \in 0..HIST
        /\ UNCHANGED <<buff, write, lock, skip, hist, hwrite, full>>
        /\ pc' = "idle" /\ next' = "idle" /\ ch' = NUL /\ tmp' = <<>>
    BY <1>8, <2>1, TypedIs DEF RecallEnd, Done
  <2>3. QED
    BY <1>1, <2>2, EmptyText DEF Typed, TypeOK
<1>9. QED
  BY <1>2, <1>3, <1>4, <1>5, <1>6, <1>7, <1>8

LEMMA TypedNext == Typed /\ [Next]_vars => Typed'
<1> SUFFICES ASSUME Typed, [Next]_vars PROVE Typed'
  OBVIOUS
<1>1. CASE UNCHANGED vars
  BY <1>1 DEF vars, line, shown, history, local, ghost, Typed, TypeOK
<1>2. QED
  BY <1>1, TypedPress, TypedUart, TypedRead, TypedFormat, TypedEdit, TypedDelete, TypedRun
  DEF Next, Event

----------------------------------------------------------------------------
\* Whatever is typed, at any pace and into a buffer of any size, the pointers stay
\* within a place of buff (terminal.c:47-96, 163-195, 319-349), the history's
\* indices within the ring (673-685, 726-751), and what is read, moved or recalled
\* is text: the lines are characters, and none is longer than buff.
THEOREM TypeCorrect == Spec => []TypeOK
<1>1. Typed => TypeOK
  BY DEF Typed
<1>2. QED
  BY <1>1, TypedInit, TypedNext, PTL DEF Spec

----------------------------------------------------------------------------
(* Counting the line.                                                      *)

\* The terminal is given time, and room for arrow keys.  Letters are characters with
\* CHECK_CHAR_VALID (mcu_sal_hw_conf.h:69), so none is a control character or a bracket.
\* SKIP is not typed: it switches the count off that is spoken of.  Nor is a bracket by
\* itself, of which the sequences of the arrow keys are made.
Typist ==
  /\ Paced /\ Roomy
  /\ Letters \cap {NUL, BS, CR, ESC, LB, SKIP} = {}
  /\ Others \cap {NUL, LB, SKIP} = {}

LEMMA Distinct ==
  ASSUME Typist
  PROVE  /\ NUL \notin Characters /\ Valid \subseteq Characters
         /\ Valid \cap {NUL, BS, CR, ESC, LB} = {}
         /\ {BS, CR, ESC, LB, SKIP, "A", "C", "D"} \subseteq Characters
         /\ \A c, d \in {"A", "C", "D"} : c # BS /\ c # CR /\ c # SKIP /\ c # ESC /\ c # LB
         /\ BS # CR /\ BS # ESC /\ CR # ESC /\ LB # ESC /\ LB # BS /\ LB # CR /\ SKIP # ESC
BY DEF Typist, Characters, Valid, NUL, BS, CR, ESC, LB, SKIP

----------------------------------------------------------------------------
(* What the scan makes of a buffer that changes at its end.                *)

Filled(b, w) == w \in 0..LEN + 1 /\ \A i \in Places : b[i] = NUL <=> i >= w
NoBracket(b, w) == \A i \in Places : i < w => b[i] # LB

\* Up to place w the same characters, and no sequence that goes beyond.
Alike(b, d, w) ==
  /\ \A i \in Places : i < w => b[i] = d[i] /\ b[i] # NUL /\ b[i] # LB
  /\ w \in Places => b[w] # LB /\ d[w] # LB

LEMMA Joined ==
  ASSUME NEW p \in Seq(Valid), NEW q \in Seq(Valid), NEW r \in Seq(Valid)
  PROVE  p \o (q \o r) = (p \o q) \o r
BY ConcatAssociative

Extends(b, d, w) ==
  \E s \in Seq(Valid) : Format(b) = s \o Scan(b)[w] /\ Format(d) = s \o Scan(d)[w]

\* Two buffers that are the same up to a place are scanned alike up to there.
LEMMA ScanPrefix ==
  ASSUME NEW b, NEW d, NEW w \in 0..LEN + 1, Alike(b, d, w)
  PROVE  Extends(b, d, w)
<1> DEFINE T == {n \in 0..w : \E s \in Seq(Valid) :
                    Scan(b)[n] = s \o Scan(b)[w] /\ Scan(d)[n] = s \o Scan(d)[w]}
<1>0. LEN \in Nat
  BY Sizes
<1>a. PICK u \in Seq(Valid), v \in Seq(Valid) : u = Scan(b)[w] /\ v = Scan(d)[w]
  <2>1. w \in 0..LEN + 4
    BY <1>0
  <2>2. QED
    BY <2>1, ScanType
<1>1. ASSUME NEW n \in 0..w, \A j \in n + 1..w : j \in T PROVE n \in T
  <2>1. CASE n = w
    <3>1. <<>> \in Seq(Valid) /\ <<>> \o u = u /\ <<>> \o v = v
      BY ConcatEmptySeq
    <3>2. QED
      BY <1>a, <2>1, <3>1
  <2>2. CASE n < w
    <3>1. n + 1 \in n + 1..w
      BY <2>2
    <3>2. PICK s \in Seq(Valid) : Scan(b)[n + 1] = s \o Scan(b)[w] /\ Scan(d)[n + 1] = s \o Scan(d)[w]
      BY <1>1, <3>1
    <3>3. n \in Places /\ n <= LEN /\ n \in 0..LEN + 4
      BY <1>0, <2>2 DEF Places
    <3>4. ~ Sequence(b, n) /\ ~ Sequence(d, n)
      <4>1. SUFFICES ASSUME n < LEN PROVE b[n + 1] # LB /\ d[n + 1] # LB
        BY DEF Sequence
      <4>2. PICK j \in Places : j = n + 1 /\ j <= w
        BY <1>0, <2>2, <4>1 DEF Places
      <4>3. b[j] # LB /\ d[j] # LB
        <5>1. CASE j < w
          BY <4>2, <5>1 DEF Alike
        <5>2. CASE j = w
          BY <4>2, <5>2 DEF Alike
        <5>3. QED
          BY <4>2, <5>1, <5>2
      <4>4. QED
        BY <4>2, <4>3
    <3>5. b[n] = d[n] /\ b[n] # NUL
      BY <2>2, <3>3 DEF Alike
    <3>6. PICK k \in Seq(Valid) : k = Kept(b, n) /\ k = Kept(d, n)
      <4>1. Kept(b, n) = Kept(d, n)
        BY <3>5 DEF Kept
      <4>2. Kept(b, n) \in Seq(Valid)
        BY <3>3, KeptIs
      <4>3. QED
        BY <4>1, <4>2
    <3>7. Scan(b)[n] = k \o Scan(b)[n + 1] /\ Scan(d)[n] = k \o Scan(d)[n + 1]
      <4>1. Scan(b)[n] = From(b, Scan(b), n) /\ Scan(d)[n] = From(d, Scan(d), n)
        BY <3>3, ScanIs
      <4>2. ~ (n > LEN)
        BY <1>0, <3>3
      <4>3. QED
        BY <3>4, <3>5, <3>6, <4>1, <4>2 DEF From
    <3>8. k \o (s \o u) = (k \o s) \o u /\ k \o (s \o v) = (k \o s) \o v
      <4>1. s \in Seq(Valid) /\ k \in Seq(Valid) /\ u \in Seq(Valid) /\ v \in Seq(Valid)
        BY <1>a, <3>2, <3>6
      <4>2. QED
        BY <4>1, Joined
    <3>9. k \o s \in Seq(Valid)
      BY <3>2, <3>6
    <3>10. QED
      BY <1>a, <3>2, <3>7, <3>8, <3>9
  <2>3. n = w \/ n < w
    BY <1>0
  <2>4. QED
    BY <2>1, <2>2, <2>3
<1>2. 0 \in T
  <2> HIDE DEF T
  <2>1. w \in Nat /\ 0 \in 0..w
    BY <1>0
  <2>2. 0..w \subseteq T
    BY <1>1, <2>1, Backward
  <2>3. QED
    BY <2>1, <2>2
<1>3. QED
  BY <1>2 DEF Format, Extends

\* Behind the last character nothing is scanned.
LEMMA ScanEnd ==
  ASSUME NEW b, NEW i \in 0..LEN + 4, i \in Places => b[i] = NUL
  PROVE  Scan(b)[i] = <<>>
<1>1. i > LEN \/ b[i] = NUL
  BY Sizes DEF Places
<1>2. QED
  BY <1>1, ScanIs DEF From

Char(c) == IF c \in Valid THEN <<c>> ELSE <<>>

LEMMA CharIs ==
  ASSUME NEW c
  PROVE  Char(c) \in Seq(Valid) /\ Len(Char(c)) = IF c \in Valid THEN 1 ELSE 0
<1>1. CASE c \in Valid
  BY <1>1 DEF Char
<1>2. CASE c \notin Valid
  BY <1>2 DEF Char
<1>3. QED
  BY <1>1, <1>2

\* A character that is stored behind the others is one more, if it is valid.
LEMMA FormatStored ==
  ASSUME Typist, NEW b \in Buffers, NEW w \in 0..LEN, Filled(b, w), NoBracket(b, w),
         NEW c \in Characters, c # LB
  PROVE  Format([b EXCEPT ![w] = c]) = Format(b) \o Char(c)
<1>e. PICK e \in Buffers : e = [b EXCEPT ![w] = c]
  BY DEF Buffers
<1>0. w \in 0..LEN /\ LEN \in Nat
  BY Sizes DEF Places
<1>1. e[w] = c /\ \A i \in Places : i # w => e[i] = b[i]
  BY <1>e DEF Buffers
<1>2. b[w] = NUL /\ NUL # LB
  BY <1>0 DEF Filled, Places, NUL, LB
<1>3. PICK s \in Seq(Valid) : Format(b) = s \o Scan(b)[w] /\ Format(e) = s \o Scan(e)[w]
  <2>1. \A i \in Places : i < w => b[i] = e[i] /\ b[i] # NUL /\ b[i] # LB
    BY <1>0, <1>1 DEF Filled, NoBracket, Places
  <2>2. w \in 0..LEN + 1 /\ b[w] # LB /\ e[w] # LB
    BY <1>0, <1>1, <1>2
  <2>3. Alike(b, e, w)
    BY <2>1, <2>2 DEF Alike
  <2>4. w \in 0..LEN + 1
    BY <1>0
  <2>5. Extends(b, e, w)
    BY <2>3, <2>4, ScanPrefix
  <2>6. QED
    BY <2>5 DEF Extends
<1>4. Scan(b)[w] = <<>>
  <2>1. w \in 0..LEN + 4
    BY <1>0
  <2>2. QED
    BY <1>2, <2>1, ScanEnd
<1>5. Scan(e)[w] = Char(c)
  <2>1. w + 1 \in 0..LEN + 4 /\ w \in 0..LEN + 4 /\ ~ (w > LEN)
    BY <1>0
  <2>2. w + 1 \in Places => e[w + 1] = NUL
    <3>1. SUFFICES ASSUME NEW j \in Places, j = w + 1 PROVE e[j] = NUL
      OBVIOUS
    <3>2. j # w /\ j >= w
      BY <1>0, <3>1 DEF Places
    <3>3. QED
      BY <1>1, <3>2 DEF Filled
  <2>3. Scan(e)[w + 1] = <<>>
    BY <2>1, <2>2, ScanEnd
  <2>4. ~ Sequence(e, w)
    <3>1. SUFFICES ASSUME w < LEN PROVE e[w + 1] # LB
      BY DEF Sequence
    <3>2. w + 1 \in Places
      BY <1>0, <3>1 DEF Places
    <3>3. QED
      BY <1>2, <2>2, <3>2
  <2>5. c # NUL
    BY Distinct
  <2>6. Scan(e)[w] = From(e, Scan(e), w)
    BY <2>1, ScanIs
  <2>7. From(e, Scan(e), w) = Kept(e, w) \o Scan(e)[w + 1]
    BY <1>1, <2>1, <2>4, <2>5 DEF From
  <2>8. Kept(e, w) = Char(c)
    BY <1>0, <1>1 DEF Kept, Char
  <2>9. Char(c) \o <<>> = Char(c)
    BY CharIs, ConcatEmptySeq
  <2>10. QED
    BY <2>3, <2>6, <2>7, <2>8, <2>9
<1>6. s \o <<>> = s
  BY ConcatEmptySeq
<1>7. QED
  BY <1>e, <1>3, <1>4, <1>5, <1>6

LEMMA FormatSame ==
  ASSUME NEW b, NEW d, NEW p \in 0..LEN, Alike(b, d, p), Scan(b)[p] = <<>>, Scan(d)[p] = <<>>
  PROVE  Format(d) = Format(b)
<1>1. p \in 0..LEN + 1
  BY Sizes
<1>2. Extends(b, d, p)
  BY <1>1, ScanPrefix
<1>3. QED
  BY <1>2 DEF Extends

\* The characters of an arrow key are skipped, and nothing follows them.
LEMMA ScanArrow ==
  ASSUME Typist, NEW b, NEW p \in 0..LEN - 1, b[p] = ESC, b[p + 1] = LB,
         \A i \in Places : i >= p + 3 => b[i] = NUL
  PROVE  Scan(b)[p] = <<>>
<1>1. p + 4 \in 0..LEN + 4 /\ p \in 0..LEN + 4 /\ ~ (p > LEN) /\ p + 3 \in Nat /\ p < LEN
  BY Sizes
<1>2. Scan(b)[p + 4] = <<>>
  <2>1. p + 4 \in Places => b[p + 4] = NUL
    <3>1. p + 4 >= p + 3
      BY <1>1
    <3>2. QED
      BY <3>1
  <2>2. QED
    BY <1>1, <2>1, ScanEnd
<1>3. Kept(b, p + 3) = <<>>
  <2>1. SUFFICES ASSUME p + 3 <= LEN, b[p + 3] \in Valid PROVE FALSE
    BY DEF Kept
  <2>2. p + 3 \in Places /\ p + 3 >= p + 3
    BY <1>1, <2>1 DEF Places
  <2>3. b[p + 3] = NUL
    BY <2>2
  <2>4. NUL \notin Valid
    BY Distinct
  <2>5. QED
    BY <2>1, <2>3, <2>4
<1>4. Scan(b)[p] = Kept(b, p + 3) \o Scan(b)[p + 4]
  <2>1. Sequence(b, p)
    BY <1>1 DEF Sequence
  <2>2. Scan(b)[p] = From(b, Scan(b), p)
    BY <1>1, ScanIs
  <2>3. b[p] # NUL
    BY DEF ESC, NUL
  <2>4. QED
    BY <1>1, <2>1, <2>2, <2>3 DEF From
<1>5. QED
  BY <1>2, <1>3, <1>4, ConcatEmptySeq

LEMMA FormatBracket ==
  ASSUME Typist, NEW b \in Buffers, NEW p \in 0..LEN - 1,
         Filled(b, p + 1), NoBracket(b, p), b[p] = ESC
  PROVE  Format([b EXCEPT ![p + 1] = LB]) = Format(b)
<1>1. PICK d : d = [b EXCEPT ![p + 1] = LB]
  OBVIOUS
<1>2. p \in 0..LEN /\ p + 1 \in Places /\ p \in Places /\ p # p + 1
  BY Sizes DEF Places
<1>3. d[p + 1] = LB /\ \A i \in Places : i # p + 1 => d[i] = b[i]
  BY <1>1, <1>2 DEF Buffers
<1>4. Alike(b, d, p)
  <2>1. \A i \in Places : i < p => b[i] = d[i] /\ b[i] # NUL /\ b[i] # LB
    BY <1>2, <1>3 DEF Filled, NoBracket, Places
  <2>2. b[p] # LB /\ d[p] # LB
    BY <1>2, <1>3 DEF ESC, LB
  <2>3. QED
    BY <2>1, <2>2 DEF Alike
<1>5. Scan(d)[p] = <<>>
  <2>1. d[p] = ESC
    BY <1>2, <1>3
  <2>2. \A i \in Places : i >= p + 3 => d[i] = NUL
    BY <1>2, <1>3 DEF Filled, Places
  <2>3. QED
    BY <1>3, <2>1, <2>2, ScanArrow
<1>6. Scan(b)[p] = <<>>
  <2>1. p + 1 \in 0..LEN + 4 /\ p \in 0..LEN + 4 /\ ~ (p > LEN)
    BY Sizes
  <2>2. b[p + 1] = NUL
    BY <1>2 DEF Filled, Places
  <2>3. Scan(b)[p + 1] = <<>>
    BY <2>1, <2>2, ScanEnd
  <2>4. ~ Sequence(b, p) /\ b[p] # NUL /\ b[p] \notin Valid
    BY <2>2, Distinct DEF Sequence, NUL, LB, ESC
  <2>5. Scan(b)[p] = Kept(b, p) \o Scan(b)[p + 1]
    BY <2>1, <2>4, ScanIs DEF From
  <2>6. Kept(b, p) = <<>>
    BY <2>4 DEF Kept
  <2>7. QED
    BY <2>3, <2>5, <2>6, ConcatEmptySeq
<1>7. QED
  BY <1>1, <1>2, <1>4, <1>5, <1>6, FormatSame

LEMMA FormatArrow ==
  ASSUME Typist, NEW b \in Buffers, NEW p \in 0..LEN - 2,
         Filled(b, p + 2), NoBracket(b, p), b[p] = ESC, b[p + 1] = LB, NEW c
  PROVE  Format([b EXCEPT ![p + 2] = c]) = Format(b)
<1>1. PICK d : d = [b EXCEPT ![p + 2] = c]
  OBVIOUS
<1>2. p \in 0..LEN /\ p \in 0..LEN - 1 /\ p + 1 \in Places /\ p \in Places /\ p # p + 2 /\ p + 1 # p + 2
  BY Sizes DEF Places
<1>3. \A i \in Places : i # p + 2 => d[i] = b[i]
  BY <1>1, <1>2 DEF Buffers
<1>4. Alike(b, d, p)
  <2>1. \A i \in Places : i < p => b[i] = d[i] /\ b[i] # NUL /\ b[i] # LB
    BY <1>2, <1>3 DEF Filled, NoBracket, Places
  <2>2. b[p] # LB /\ d[p] # LB
    BY <1>2, <1>3 DEF ESC, LB
  <2>3. QED
    BY <2>1, <2>2 DEF Alike
<1>5. d[p] = ESC /\ d[p + 1] = LB
  BY <1>2, <1>3
<1>6. /\ \A i \in Places : i >= p + 3 => d[i] = NUL
      /\ \A i \in Places : i >= p + 3 => b[i] = NUL
  BY <1>2, <1>3 DEF Filled, Places
<1>7. Scan(d)[p] = <<>> /\ Scan(b)[p] = <<>>
  BY <1>2, <1>5, <1>6, ScanArrow
<1>8. QED
  BY <1>1, <1>2, <1>4, <1>7, FormatSame

----------------------------------------------------------------------------
(* The line and nothing else.                                              *)

Formatted(b, n) ==
  /\ n \in 0..LEN - RESERVED
  /\ \A i \in Places : i < n => b[i] \in Valid
  /\ \A i \in Places : i >= n /\ i < LEN => b[i] = NUL

\* The last place may keep the Enter that has been read.
Whole(b, n) == Formatted(b, n) /\ b[LEN] = NUL

Content(b, n) == [j \in 1..n |-> b[j - 1]]

LEMMA ContentIs ==
  ASSUME NEW b, NEW n, Formatted(b, n)
  PROVE  Content(b, n) \in Seq(Valid) /\ Len(Content(b, n)) = n
<1>1. n \in Nat /\ n <= LEN
  BY Sizes DEF Formatted, RESERVED
<1>2. \A j \in 1..n : b[j - 1] \in Valid
  <2>1. SUFFICES ASSUME NEW j \in 1..n PROVE b[j - 1] \in Valid
    OBVIOUS
  <2>2. PICK i \in Places : i = j - 1 /\ i < n
    BY <1>1, Sizes DEF Places
  <2>3. QED
    BY <2>2 DEF Formatted
<1>3. Content(b, n) \in [1..n -> Valid]
  BY <1>2 DEF Content
<1>4. QED
  BY <1>1, <1>3

\* Scanning leaves it as it is.
LEMMA FormatLine ==
  ASSUME Typist, NEW b, NEW n, Whole(b, n)
  PROVE  Format(b) = Content(b, n)
<1> DEFINE Behind(k) == [j \in 1..n - k |-> b[k + j - 1]]
           T == {k \in 0..n : Scan(b)[k] = Behind(k)}
<1>1. n \in Nat /\ n < LEN /\ LEN \in Nat
  BY Sizes DEF Whole, Formatted, RESERVED
<1>2. ASSUME NEW k \in 0..n, \A j \in k + 1..n : j \in T PROVE k \in T
  <2>1. k \in 0..LEN + 4 /\ k \in Places /\ k <= LEN /\ ~ (k > LEN) /\ k + 1 \in 0..LEN + 4
    BY <1>1 DEF Places
  <2>2. CASE k = n
    <3>1. b[k] = NUL
      BY <1>1, <2>1, <2>2 DEF Whole, Formatted
    <3>2. Scan(b)[k] = <<>>
      BY <2>1, <3>1, ScanEnd
    <3>3. 1..n - k = 1..0
      BY <1>1, <2>2
    <3>4. Behind(k) = <<>>
      BY <3>3
    <3>5. QED
      BY <3>2, <3>4
  <2>3. CASE k < n
    <3>1. b[k] \in Valid
      BY <2>1, <2>3 DEF Whole, Formatted
    <3>2. b[k] # NUL /\ ~ Sequence(b, k)
      BY <3>1, Distinct DEF Sequence
    <3>3. Scan(b)[k] = Kept(b, k) \o Scan(b)[k + 1]
      BY <2>1, <3>2, ScanIs DEF From
    <3>4. Kept(b, k) = <<b[k]>>
      BY <2>1, <3>1 DEF Kept
    <3>5. Scan(b)[k + 1] = Behind(k + 1)
      <4>1. k + 1 \in k + 1..n
        BY <1>1, <2>3
      <4>2. QED
        BY <1>2, <4>1
    <3>6. <<b[k]>> \o Behind(k + 1) = Behind(k)
      <4>1. PICK V : V = Valid
        OBVIOUS
      <4>2. \A j \in 1..n - (k + 1) : b[k + 1 + j - 1] \in V
        <5>1. SUFFICES ASSUME NEW j \in 1..n - (k + 1) PROVE b[k + 1 + j - 1] \in V
          OBVIOUS
        <5>2. PICK i \in Places : i = k + 1 + j - 1 /\ i < n
          BY <1>1 DEF Places
        <5>3. b[i] \in Valid
          BY <5>2 DEF Whole, Formatted
        <5>4. QED
          BY <4>1, <5>2, <5>3
      <4>3. \A j \in 1..n - k : b[k + j - 1] \in V
        <5>1. SUFFICES ASSUME NEW j \in 1..n - k PROVE b[k + j - 1] \in V
          OBVIOUS
        <5>2. PICK i \in Places : i = k + j - 1 /\ i < n
          BY <1>1 DEF Places
        <5>3. b[i] \in Valid
          BY <5>2 DEF Whole, Formatted
        <5>4. QED
          BY <4>1, <5>2, <5>3
      <4>4. n - k \in Nat /\ n - (k + 1) \in Nat /\ n - k = n - (k + 1) + 1
        BY <1>1, <2>3
      <4>5. Behind(k + 1) \in Seq(V) /\ Len(Behind(k + 1)) = n - (k + 1)
        BY <4>2, <4>4
      <4>6. Behind(k) \in Seq(V) /\ Len(Behind(k)) = n - k
        BY <4>3, <4>4
      <4>7. PICK s \in Seq(V) : s = Behind(k + 1)
        BY <4>5
      <4>8. PICK h \in Seq(V) : h = <<b[k]>> /\ Len(h) = 1 /\ h[1] = b[k]
        <5>1. <<b[k]>> \in Seq(V)
          BY <3>1, <4>1
        <5>2. Len(<<b[k]>>) = 1 /\ <<b[k]>>[1] = b[k]
          OBVIOUS
        <5>3. QED
          BY <5>1, <5>2
      <4>9. /\ h \o s \in Seq(V) /\ Len(h \o s) = n - k
            /\ \A j \in 1..n - k : (h \o s)[j] = IF j <= 1 THEN h[j] ELSE s[j - 1]
        <5>1. Len(h) + Len(s) = n - k
          BY <4>4, <4>5, <4>7, <4>8
        <5>2. /\ h \o s \in Seq(V) /\ Len(h \o s) = Len(h) + Len(s)
              /\ \A j \in 1..Len(h) + Len(s) :
                   (h \o s)[j] = IF j <= Len(h) THEN h[j] ELSE s[j - Len(h)]
          <6>1. h \in Seq(V) /\ s \in Seq(V)
            BY <4>7, <4>8
          <6>2. h \o s \in Seq(V) /\ Len(h \o s) = Len(h) + Len(s)
            BY <6>1
          <6>3. \A j \in 1..Len(h) + Len(s) :
                  (h \o s)[j] = IF j <= Len(h) THEN h[j] ELSE s[j - Len(h)]
            BY <6>1, ConcatProperties, Zenon
          <6>4. QED
            BY <6>2, <6>3
        <5>3. QED
          BY <4>8, <5>1, <5>2
      <4>10. \A j \in 1..n - k : (h \o s)[j] = Behind(k)[j]
        <5>1. SUFFICES ASSUME NEW j \in 1..n - k PROVE (h \o s)[j] = Behind(k)[j]
          OBVIOUS
        <5>2. CASE j = 1
          BY <1>1, <4>8, <4>9, <5>2
        <5>3. CASE j > 1
          <6>1. PICK m \in 1..n - (k + 1) : m = j - 1
            BY <1>1, <4>4, <5>3
          <6>2. (h \o s)[j] = s[m]
            BY <4>4, <4>9, <5>3, <6>1
          <6>3. s[m] = b[k + 1 + m - 1]
            BY <4>7
          <6>4. k + 1 + m - 1 = k + j - 1
            BY <6>1
          <6>5. QED
            BY <6>2, <6>3, <6>4
        <5>4. j = 1 \/ j > 1
          BY <4>4
        <5>5. QED
          BY <5>2, <5>3, <5>4
      <4>11. QED
        BY <4>6, <4>7, <4>8, <4>9, <4>10, SeqEqual
    <3>7. QED
      BY <3>3, <3>4, <3>5, <3>6
  <2>4. k = n \/ k < n
    BY <1>1
  <2>5. QED
    BY <2>2, <2>3, <2>4
<1>3. 0 \in T
  <2> HIDE DEF T
  <2>1. 0..n \subseteq T
    BY <1>1, <1>2, Backward
  <2>2. QED
    BY <1>1, <2>1
<1>4. Behind(0) = Content(b, n)
  BY <1>1 DEF Content
<1>5. QED
  BY <1>3, <1>4 DEF Format

----------------------------------------------------------------------------
(* What the task saves of a line and puts back.                            *)

\* Its strings end where it ends.
LEMMA StrLine ==
  ASSUME Typist, NEW b \in Buffers, NEW n, Formatted(b, n), NEW at \in 0..n
  PROVE  /\ Str(b, at) \in Seq(Valid) /\ Len(Str(b, at)) = n - at
         /\ \A j \in 1..n - at : Str(b, at)[j] = b[at + j - 1]
<1>1. n \in Nat /\ n < LEN /\ LEN \in Nat /\ n \in Places /\ at \in Nat /\ at <= LEN /\ at \in 0..LEN + 1
  BY Sizes DEF Formatted, RESERVED, Places
<1>2. b[n] = NUL
  BY <1>1 DEF Formatted
<1>3. PICK e \in at..LEN + 1 : /\ e = End(b, at) /\ (e <= LEN => b[e] = NUL)
                               /\ \A i \in at..e - 1 : b[i] # NUL
  BY <1>1, EndIs
<1>4. ~ (e < n)
  <2>1. SUFFICES ASSUME e < n PROVE FALSE
    OBVIOUS
  <2>2. e \in Places /\ e <= LEN
    BY <1>1, <2>1 DEF Places
  <2>3. b[e] \in Valid /\ b[e] = NUL
    BY <1>3, <2>1, <2>2 DEF Formatted
  <2>4. QED
    BY <2>3, Distinct
<1>5. ~ (e > n)
  <2>1. SUFFICES ASSUME e > n PROVE FALSE
    OBVIOUS
  <2>2. n \in at..e - 1
    BY <1>1, <2>1
  <2>3. QED
    BY <1>2, <1>3, <2>2
<1>6. e = n
  BY <1>1, <1>4, <1>5
<1>7. /\ Str(b, at) \in Seq(Characters) /\ Len(Str(b, at)) = n - at
      /\ \A j \in 1..n - at : Str(b, at)[j] = b[at + j - 1]
  <2>1. End(b, at) = n
    BY <1>3, <1>6
  <2>2. /\ Str(b, at) \in Seq(Characters)
        /\ Len(Str(b, at)) = End(b, at) - at
        /\ \A j \in 1..End(b, at) - at : Str(b, at)[j] = b[at + j - 1]
    BY <1>1, StrIs
  <2>3. QED
    BY <2>1, <2>2
<1>8. PICK s \in Seq(Characters) : s = Str(b, at)
  BY <1>7
<1>9. \A j \in 1..Len(s) : s[j] \in Valid
  <2>1. SUFFICES ASSUME NEW j \in 1..Len(s) PROVE s[j] \in Valid
    OBVIOUS
  <2>2. PICK i \in Places : i = at + j - 1 /\ i < n
    BY <1>1, <1>7, <1>8 DEF Places
  <2>3. s[j] = b[i] /\ b[i] \in Valid
    BY <1>7, <1>8, <2>2 DEF Formatted
  <2>4. QED
    BY <2>3
<1>10. s \in Seq(Valid)
  BY <1>8, <1>9
<1>11. QED
  BY <1>7, <1>8, <1>10

LEMMA StrContent ==
  ASSUME Typist, NEW b \in Buffers, NEW n, Formatted(b, n)
  PROVE  Str(b, 0) = Content(b, n)
<1>1. n \in Nat /\ 0 \in 0..n
  BY Sizes DEF Formatted, RESERVED
<1>2. /\ Str(b, 0) \in Seq(Valid) /\ Len(Str(b, 0)) = n
      /\ \A j \in 1..n : Str(b, 0)[j] = b[0 + j - 1]
  BY <1>1, StrLine
<1>3. Content(b, n) \in Seq(Valid) /\ Len(Content(b, n)) = n
  BY ContentIs
<1>4. \A j \in 1..n : Str(b, 0)[j] = Content(b, n)[j]
  BY <1>1, <1>2 DEF Content
<1>5. QED
  BY <1>2, <1>3, <1>4, SeqEqual

\* What is put back ends the line where it ends.
LEMMA PutLine ==
  ASSUME Typist, NEW b \in Buffers, NEW n, Whole(b, n), NEW at \in 0..n,
         NEW s \in Seq(Valid), at + Len(s) <= LEN - RESERVED, n <= at + Len(s) + 1
  PROVE  /\ Whole(PutStr(b, at, s), at + Len(s))
         /\ Content(PutStr(b, at, s), at + Len(s)) = SubSeq(Content(b, n), 1, at) \o s
<1>1. n \in Nat /\ n < LEN /\ LEN \in Nat /\ Len(s) \in Nat /\ at \in Nat /\ LEN \in Places
  BY Sizes DEF Whole, Formatted, RESERVED, Places
<1>2. PICK m \in Nat : m = at + Len(s) /\ m <= LEN - RESERVED /\ m < LEN /\ n <= m + 1
  BY <1>1, Sizes DEF RESERVED
<1>3. PICK t \in Seq(Valid \cup {NUL}) : /\ t = Append(s, NUL) /\ Len(t) = Len(s) + 1
                                        /\ \A j \in 1..Len(s) : t[j] = s[j]
                                        /\ t[Len(s) + 1] = NUL
  <2>1. s \in Seq(Valid \cup {NUL}) /\ NUL \in Valid \cup {NUL}
    OBVIOUS
  <2>2. Append(s, NUL) \in Seq(Valid \cup {NUL}) /\ Len(Append(s, NUL)) = Len(s) + 1
    BY <2>1
  <2>3. (\A j \in 1..Len(s) : Append(s, NUL)[j] = s[j]) /\ Append(s, NUL)[Len(s) + 1] = NUL
    OBVIOUS
  <2>4. QED
    BY <2>2, <2>3
<1>4. PICK d : d = PutStr(b, at, s)
  OBVIOUS
<1>5. \A i \in Places : d[i] = IF at <= i /\ i < at + Len(t) THEN t[i - at + 1] ELSE b[i]
  BY <1>3, <1>4 DEF PutStr, Put, Places
<1>6. \A i \in Places : i < at => d[i] = b[i] /\ b[i] \in Valid
  <2>1. SUFFICES ASSUME NEW i \in Places, i < at PROVE d[i] = b[i] /\ b[i] \in Valid
    OBVIOUS
  <2>2. i < n /\ ~ (at <= i)
    BY <1>1, <2>1 DEF Places
  <2>3. QED
    BY <1>5, <2>1, <2>2 DEF Whole, Formatted
<1>7. \A i \in Places : i >= at /\ i < m => d[i] = s[i - at + 1] /\ d[i] \in Valid
  <2>1. SUFFICES ASSUME NEW i \in Places, i >= at, i < m PROVE d[i] = s[i - at + 1] /\ d[i] \in Valid
    OBVIOUS
  <2>2. PICK j \in 1..Len(s) : j = i - at + 1
    BY <1>1, <1>2, <2>1 DEF Places
  <2>3. at <= i /\ i < at + Len(t)
    BY <1>1, <1>2, <1>3, <2>1 DEF Places
  <2>4. d[i] = t[j]
    BY <1>5, <2>2, <2>3
  <2>5. t[j] = s[j] /\ s[j] \in Valid
    BY <1>3, <2>2
  <2>6. QED
    BY <2>2, <2>4, <2>5
<1>8. \A i \in Places : i >= m => d[i] = NUL
  <2>1. SUFFICES ASSUME NEW i \in Places, i >= m PROVE d[i] = NUL
    OBVIOUS
  <2>2. CASE i = m
    <3>1. at <= i /\ i < at + Len(t) /\ i - at + 1 = Len(s) + 1
      BY <1>1, <1>2, <1>3, <2>2
    <3>2. QED
      BY <1>3, <1>5, <3>1
  <2>3. CASE i > m
    <3>1. ~ (i < at + Len(t)) /\ i >= n
      BY <1>1, <1>2, <1>3, <2>3 DEF Places
    <3>2. i < LEN \/ i = LEN
      BY <1>1 DEF Places
    <3>3. QED
      BY <1>5, <3>1, <3>2 DEF Whole, Formatted
  <2>4. QED
    BY <1>1, <1>2, <2>1, <2>2, <2>3 DEF Places
<1>9. Whole(d, m)
  <2>1. \A i \in Places : i < m => d[i] \in Valid
    <3>1. SUFFICES ASSUME NEW i \in Places, i < m PROVE d[i] \in Valid
      OBVIOUS
    <3>2. i < at \/ i >= at
      BY <1>1 DEF Places
    <3>3. QED
      BY <1>6, <1>7, <3>1, <3>2
  <2>2. d[LEN] = NUL /\ m \in 0..LEN - RESERVED
    BY <1>1, <1>2, <1>8, Sizes DEF RESERVED
  <2>3. QED
    BY <1>8, <2>1, <2>2 DEF Whole, Formatted
<1>10. Content(d, m) = SubSeq(Content(b, n), 1, at) \o s
  <2>1. PICK u \in Seq(Valid) : u = Content(b, n) /\ Len(u) = n
    BY ContentIs DEF Whole
  <2>2. PICK v \in Seq(Valid) : /\ v = SubSeq(u, 1, at) /\ Len(v) = at
                                /\ \A j \in 1..at : v[j] = u[j]
    <3>1. at \in 1 - 1..Len(u) /\ 1 \in 1..Len(u) + 1
      BY <1>1, <2>1
    <3>2. SubSeq(u, 1, at) \in Seq(Valid) /\ Len(SubSeq(u, 1, at)) = at
      BY <1>1, <2>1
    <3>3. \A j \in 1..at : SubSeq(u, 1, at)[j] = u[j]
      BY <1>1, <2>1
    <3>4. QED
      BY <3>2, <3>3
  <2>3. PICK x \in Seq(Valid) : x = Content(d, m) /\ Len(x) = m
    BY <1>9, ContentIs DEF Whole
  <2>4. v \o s \in Seq(Valid) /\ Len(v \o s) = m
    BY <1>2, <2>2
  <2>5. \A j \in 1..m : (v \o s)[j] = IF j <= at THEN v[j] ELSE s[j - at]
    BY <1>1, <1>2, <2>2, ConcatProperties
  <2>6. \A j \in 1..m : x[j] = (v \o s)[j]
    <3>1. SUFFICES ASSUME NEW j \in 1..m PROVE x[j] = (v \o s)[j]
      OBVIOUS
    <3>2. PICK i \in Places : i = j - 1 /\ i < m
      BY <1>1, <1>2 DEF Places
    <3>3. x[j] = d[i]
      BY <2>3, <3>2 DEF Content
    <3>4. CASE j <= at
      <4>1. j \in 1..at /\ i < at /\ j \in 1..n
        BY <1>1, <3>2, <3>4
      <4>2. u[j] = b[i]
        BY <2>1, <3>2, <4>1 DEF Content
      <4>3. QED
        BY <1>6, <2>2, <2>5, <3>3, <4>1, <4>2, <3>4
    <3>5. CASE j > at
      <4>1. i >= at /\ i - at + 1 = j - at /\ ~ (j <= at)
        BY <1>1, <3>2, <3>5
      <4>2. d[i] = s[j - at]
        BY <1>7, <3>2, <4>1
      <4>3. QED
        BY <2>5, <3>3, <4>1, <4>2
    <3>6. j <= at \/ j > at
      BY <1>1, <1>2
    <3>7. QED
      BY <3>4, <3>5, <3>6
  <2>7. QED
    BY <2>1, <2>2, <2>3, <2>4, <2>6, SeqEqual
<1>11. QED
  BY <1>2, <1>4, <1>9, <1>10

\* A line that is copied into an empty buffer; the copy of the formatted one leaves
\* the last place alone.
LEMMA CopyLine ==
  ASSUME Typist, NEW s \in Seq(Valid), Len(s) <= LEN - RESERVED, NEW c \in Characters \cup {NUL}
  PROVE  /\ Whole(Put(Blank, 0, s), Len(s)) /\ Content(Put(Blank, 0, s), Len(s)) = s
         /\ Formatted([Put(Blank, 0, s) EXCEPT ![LEN] = c], Len(s))
         /\ Content([Put(Blank, 0, s) EXCEPT ![LEN] = c], Len(s)) = s
         /\ [Put(Blank, 0, s) EXCEPT ![LEN] = c][LEN] = c
<1>1. PICK n \in Nat : n = Len(s) /\ n <= LEN - RESERVED /\ n < LEN /\ LEN \in Nat /\ LEN \in Places
  <2>1. Len(s) \in Nat
    OBVIOUS
  <2>2. LEN \in Nat /\ LEN \in Places
    BY Sizes DEF Places
  <2>3. Len(s) < LEN
    BY <2>1, <2>2 DEF RESERVED
  <2>4. QED
    BY <2>1, <2>2, <2>3
<1>2. PICK d : d = Put(Blank, 0, s)
           /\ d = [i \in Places |-> IF 0 <= i /\ i < 0 + Len(s) THEN s[i - 0 + 1] ELSE Blank[i]]
  BY DEF Put, Places
<1>3. \A i \in Places : i < n => d[i] = s[i + 1] /\ d[i] \in Valid
  <2>1. SUFFICES ASSUME NEW i \in Places, i < n PROVE d[i] = s[i + 1] /\ d[i] \in Valid
    OBVIOUS
  <2>2. PICK j \in 1..n : j = i + 1 /\ j = i - 0 + 1 /\ 0 <= i /\ i < 0 + Len(s)
    BY <1>1, <2>1 DEF Places
  <2>3. d[i] = s[j]
    BY <1>2, <2>2
  <2>4. s[j] \in Valid
    BY <1>1, <2>2
  <2>5. QED
    BY <2>2, <2>3, <2>4
<1>4. \A i \in Places : i >= n => d[i] = NUL
  BY <1>1, <1>2 DEF Blank, Places
<1>5. Whole(d, n)
  <2>1. n \in 0..LEN - RESERVED /\ LEN \in Places /\ LEN >= n
    BY <1>1, Sizes DEF Places, RESERVED
  <2>2. Formatted(d, n)
    BY <1>3, <1>4, <2>1 DEF Formatted
  <2>3. d[LEN] = NUL
    BY <1>4, <2>1
  <2>4. QED
    BY <2>2, <2>3 DEF Whole
<1>6. PICK e : /\ e = [Put(Blank, 0, s) EXCEPT ![LEN] = c] /\ e[LEN] = c
               /\ \A i \in Places : i # LEN => e[i] = d[i]
  <2>1. PICK e : e = [d EXCEPT ![LEN] = c]
    OBVIOUS
  <2>2. QED
    BY <1>1, <1>2, <2>1
<1>7. Formatted(e, n)
  BY <1>1, <1>3, <1>4, <1>6 DEF Formatted, Places
<1>8. Content(d, n) = s
  <2>1. Content(d, n) \in Seq(Valid) /\ Len(Content(d, n)) = n
    BY <1>5, ContentIs DEF Whole
  <2>2. \A j \in 1..n : Content(d, n)[j] = s[j]
    <3>1. SUFFICES ASSUME NEW j \in 1..n PROVE d[j - 1] = s[j]
      BY DEF Content
    <3>2. PICK i \in Places : i = j - 1 /\ i < n /\ i + 1 = j
      BY <1>1 DEF Places
    <3>3. QED
      BY <1>3, <3>2
  <2>3. QED
    BY <1>1, <2>1, <2>2, SeqEqual
<1>9. Content(e, n) = Content(d, n)
  <2>1. \A j \in 1..n : e[j - 1] = d[j - 1]
    <3>1. SUFFICES ASSUME NEW j \in 1..n PROVE e[j - 1] = d[j - 1]
      OBVIOUS
    <3>2. PICK i \in Places : i = j - 1 /\ i # LEN
      BY <1>1 DEF Places
    <3>3. QED
      BY <1>6, <3>2
  <2>2. QED
    BY <2>1 DEF Content
<1>10. QED
  BY <1>1, <1>2, <1>5, <1>6, <1>7, <1>8, <1>9

----------------------------------------------------------------------------
(* The editor while a key is on its way.                                   *)

Counts(n) == Len(Format(buff)) = n /\ n <= LEN - RESERVED

\* Characters below write, none of them a bracket, and none above.
Stored == Filled(buff, write) /\ NoBracket(buff, write)

\* Nothing is left to read.  In the last places is only what finds the cursor at 0.
Settled ==
  /\ read = write /\ Stored /\ Counts(len) /\ len <= write
  /\ write > LEN - RESERVED => cursor = 0

Resting == pc \in {"idle", "escape"} /\ pending = <<>> /\ Settled

Pressed ==
  /\ pc = "idle" /\ Settled
  /\ \E c \in Characters : c \notin {LB, SKIP} /\ pending = <<c>> /\ (c = ESC => write = 0)

Unread ==
  /\ pc = "idle" /\ pending = <<>> /\ read \in 0..LEN /\ write = read + 1
  /\ buff[read] # SKIP
  /\ buff[read] \notin {BS, CR} => write <= LEN - RESERVED
  /\ Stored /\ len <= read
  /\ Counts(IF buff[read] \in Valid THEN len + 1 ELSE len)
  /\ read > LEN - RESERVED => cursor = 0

\* An arrow key: r of its characters, from place p on, are received and t of them read.
ToCome(x, r) ==
  IF r = 0 THEN <<ESC, LB, x>> ELSE IF r = 1 THEN <<LB, x>> ELSE IF r = 2 THEN <<x>> ELSE <<>>

Sent(x, p, r, t) ==
  /\ write = p + r /\ read = p + t /\ pending = ToCome(x, r)
  /\ pc = IF t = 0 THEN "idle" ELSE IF t = 1 THEN "escape" ELSE "direction"
  /\ r >= 1 => buff[p] = ESC
  /\ r >= 2 => buff[p + 1] = LB
  /\ r = 3 => buff[p + 2] = x
  /\ x = "A" => hread > 0
  /\ Filled(buff, write) /\ NoBracket(buff, p) /\ Counts(len) /\ len <= p

Arriving ==
  \E x \in {"A", "C", "D"}, p \in 0..LEN - 2 * RESERVED, r \in 0..3, t \in 0..2 :
    t <= r /\ Sent(x, p, r, t)

\* The length of the line that is being formatted.
Goal == IF next = "insert" THEN len + 1 ELSE len

Formatting ==
  /\ pc \in {"format", "formatLock", "formatCopy", "formatEnd"}
  /\ next = "run" \/ buff[LEN] = NUL
  /\ next = "delete" => cursor > 0
  /\ next = "insert" => cursor < len /\ ch \in Valid
  /\ pc = "format" => buff[0] # NUL /\ Counts(Goal)
  /\ pc # "format" => tmp \in Seq(Valid) /\ Len(tmp) = Goal /\ Goal <= LEN - RESERVED
  /\ pc = "formatEnd" => Formatted(buff, Goal) /\ write = Goal

LineIs(n) == Whole(buff, n) /\ write = n

Rest == tmp \in Seq(Valid) /\ Len(tmp) = len - cursor

Moving == pc \in {"left", "right"} /\ LineIs(len) /\ read = len

Inserting ==
  /\ pc \in {"insert", "insertCopy", "insertEnd"}
  /\ LineIs(len + 1) /\ read = len + 1
  /\ cursor < len /\ ch \in Valid
  /\ pc # "insert" => Rest

Deleting ==
  /\ pc \in {"delete", "deleteLock", "deleteCopy", "deleteEnd"}
  /\ LineIs(IF pc = "deleteEnd" THEN len - 1 ELSE len) /\ read = len
  /\ cursor > 0
  /\ pc # "delete" => Rest

Running ==
  \/ pc = "run" /\ Formatted(buff, len)
  \/ pc \in {"recall", "clear"}
  \/ pc = "rewind" /\ buff = Blank
  \/ pc \in {"recallLock", "recallCopy"} /\ buff = Blank /\ read = 0 /\ write = 0
  \/ pc = "recallEnd" /\ LineIs(write)

Working == pending = <<>> /\ (Formatting \/ Moving \/ Inserting \/ Deleting \/ Running)

\* The lines that can be recalled.
HistoryKept ==
  /\ \A h \in 0..HIST - 1 : hist[h] \in Seq(Valid) /\ Len(hist[h]) <= LEN - RESERVED
  /\ IF pc \in {"recallCopy", "recallEnd"} THEN Entries > 0 ELSE hread > 0 <=> Entries > 0

Sane ==
  /\ cursor <= len /\ ~ skip /\ ~ key_flag
  /\ lock = IF pc \in {"formatCopy", "deleteCopy", "recallCopy"} THEN 0 ELSE 1
  /\ HistoryKept

Counted == Typed /\ Sane /\ (Resting \/ Pressed \/ Unread \/ Arriving \/ Working)

----------------------------------------------------------------------------

\* Nobody disturbs the task but while it reads.
LEMMA Phases ==
  ASSUME Counted
  PROVE  /\ pc = "idle" => Resting \/ Pressed \/ Unread \/ Arriving
         /\ pc = "escape" => Resting \/ Arriving
         /\ pc = "direction" => Arriving
         /\ pc \notin {"idle", "escape", "direction"} => Working
BY DEF Counted, Resting, Pressed, Unread, Arriving, Sent, Working, Formatting, Moving, Inserting, Deleting,
       Running

LEMMA NothingToRead ==
  ASSUME Counted
  PROVE  /\ Resting \/ Pressed => ~ Readable
         /\ Unread => Readable
<1>1. ASSUME Resting \/ Pressed PROVE ~ Readable
  <2>1. read = write /\ write \in 0..LEN + 1
    BY <1>1 DEF Resting, Pressed, Settled, Stored, Filled
  <2>2. QED
    BY <2>1, Sizes DEF Readable
<1>2. ASSUME Unread PROVE Readable
  <2>1. read \in 0..LEN /\ write = read + 1 /\ Filled(buff, write)
    BY <1>2 DEF Unread, Stored
  <2>2. read \in Places /\ ~ (read >= write) /\ read < write
    BY <2>1, Sizes DEF Places
  <2>3. buff[read] # NUL
    BY <2>1, <2>2 DEF Filled
  <2>4. QED
    BY <2>1, <2>2, <2>3 DEF Readable
<1>3. QED
  BY <1>1, <1>2

\* As long as not all of an arrow key's characters are read there is one to read,
\* or one to come.
LEMMA ArrivingReads ==
  ASSUME Counted, NEW x \in {"A", "C", "D"}, NEW p \in 0..LEN - 2 * RESERVED, NEW r \in 0..3, NEW t \in 0..2,
         t <= r, Sent(x, p, r, t)
  PROVE  /\ Readable <=> t < r
         /\ pending = <<>> <=> r = 3
         /\ t < r => buff[read] = IF t = 0 THEN ESC ELSE IF t = 1 THEN LB ELSE x
<1>1. LEN \in Nat /\ p \in Nat /\ p + 6 <= LEN
  BY Sizes DEF RESERVED
<1>2. write = p + r /\ read = p + t /\ Filled(buff, write)
  BY DEF Sent
<1>3. read \in 0..LEN /\ read \in Places /\ write \in 0..LEN
  BY <1>1, <1>2 DEF Places
<1>4. buff[read] # NUL <=> read < write
  BY <1>1, <1>2, <1>3 DEF Filled
<1>5. Readable <=> t < r
  BY <1>1, <1>2, <1>3, <1>4 DEF Readable
<1>6. pending = <<>> <=> r = 3
  BY DEF Sent, ToCome
<1>7. t < r => buff[read] = IF t = 0 THEN ESC ELSE IF t = 1 THEN LB ELSE x
  <2>1. CASE t = 0
    BY <1>1, <1>2, <2>1 DEF Sent
  <2>2. CASE t = 1
    BY <1>1, <1>2, <2>2 DEF Sent
  <2>3. CASE t = 2
    BY <1>1, <1>2, <2>3 DEF Sent
  <2>4. QED
    BY <2>1, <2>2, <2>3
<1>8. QED
  BY <1>5, <1>6, <1>7

LEMMA QuietRests ==
  ASSUME Counted, Quiet
  PROVE  Resting /\ pc = "idle"
<1>1. pc = "idle" /\ pending = <<>> /\ ~ Readable
  BY DEF Quiet
<1>2. ~ Pressed
  BY <1>1 DEF Pressed
<1>3. ~ Unread
  BY <1>1, NothingToRead
<1>4. ~ Arriving
  <2>1. SUFFICES ASSUME NEW x \in {"A", "C", "D"}, NEW p \in 0..LEN - 2 * RESERVED, NEW r \in 0..3,
                        NEW t \in 0..2, t <= r, Sent(x, p, r, t)
                 PROVE FALSE
    BY DEF Arriving
  <2>2. r = 3 /\ ~ (t < r)
    BY <1>1, <2>1, ArrivingReads
  <2>3. QED
    BY <2>2
<1>5. QED
  BY <1>1, <1>2, <1>3, <1>4, Phases

----------------------------------------------------------------------------
(* Init, and the keys.                                                     *)

LEMMA CountedInit ==
  ASSUME Typist, Init
  PROVE  Counted
<1>1. Typed
  BY TypedInit
<1>2. Filled(buff, 0) /\ NoBracket(buff, 0)
  BY Sizes DEF Init, Blank, Filled, NoBracket, Places
<1>3. Whole(buff, 0)
  BY Sizes DEF Init, Blank, Whole, Formatted, Places, RESERVED
<1>4. Format(buff) = <<>>
  <2>1. Format(buff) = Content(buff, 0) /\ Content(buff, 0) \in Seq(Valid) /\ Len(Content(buff, 0)) = 0
    BY <1>3, FormatLine, ContentIs DEF Whole
  <2>2. QED
    BY <2>1
<1>5. Settled
  BY <1>2, <1>4, Sizes DEF Init, Settled, Stored, Counts, RESERVED
<1>6. HistoryKept
  BY Sizes DEF Init, HistoryKept, Entries, RESERVED
<1>7. QED
  BY <1>1, <1>5, <1>6, Sizes DEF Init, Counted, Sane, Resting

\* What the keys send.
LEMMA CharsSent ==
  ASSUME Typist, NEW k \in DOMAIN Chars
  PROVE  \/ k = "Recall" /\ Chars[k] = <<ESC, LB, "A">>
         \/ k = "Right" /\ Chars[k] = <<ESC, LB, "C">>
         \/ k = "Left" /\ Chars[k] = <<ESC, LB, "D">>
         \/ k = "Enter" /\ Chars[k] = <<CR>>
         \/ k = "Backspace" /\ Chars[k] = <<BS>>
         \/ /\ k \notin {"Recall", "Right", "Left"} /\ Chars[k] = <<k>>
            /\ k \in Letters \/ k \in Others
<1>1. k \in Letters \cup Others \cup Keys
  BY DEF Chars
<1>2. Chars[k] = CASE k = "Enter" -> <<CR>>
                   [] k = "Backspace" -> <<BS>>
                   [] k = "Recall" -> <<ESC, LB, "A">>
                   [] k = "Right" -> <<ESC, LB, "C">>
                   [] k = "Left" -> <<ESC, LB, "D">>
                   [] OTHER -> <<k>>
  BY <1>1 DEF Chars
<1>3. CASE k \in {"Enter", "Backspace", "Recall", "Right", "Left"}
  BY <1>2, <1>3
<1>4. CASE k \notin {"Enter", "Backspace", "Recall", "Right", "Left"}
  <2>1. k \in Letters \cup Others /\ Chars[k] = <<k>>
    BY <1>1, <1>2, <1>4, TerminalAssumption
  <2>2. QED
    BY <1>4, <2>1
<1>5. QED
  BY <1>3, <1>4

LEMMA CountedPress ==
  ASSUME Typist, Counted, NEW k \in DOMAIN Chars, Press(k)
  PROVE  Counted'
<1>1. Quiet /\ pending' = Chars[k]
      /\ UNCHANGED <<buff, read, write, lock, cursor, len, skip, key_flag, hist, hwrite, hread, full, pc>>
  BY DEF Press, Typist, line, shown, history, local
<1>2. pc = "idle" /\ Settled
  BY <1>1, QuietRests DEF Resting
<1>3. Typed'
  BY TypedPress DEF Counted
<1>4. Sane'
  BY <1>1 DEF Counted, Sane, HistoryKept, Entries
<1>5. Settled'
  BY <1>1, <1>2 DEF Settled, Stored, Counts
<1>6. CASE k \in {"Recall", "Right", "Left"}
  <2>1. PICK x \in {"A", "C", "D"} : Chars[k] = <<ESC, LB, x>> /\ (x = "A" => k = "Recall")
    BY <1>6, CharsSent
  <2>2. LEN - write >= 2 * RESERVED /\ (k = "Recall" => Entries > 0)
    BY <1>6 DEF Press, Typist
  <2>3. PICK p \in 0..LEN - 2 * RESERVED : p = write
    BY <1>2, <2>2, Sizes DEF Settled, Stored, Filled, RESERVED
  <2>4. x = "A" => hread > 0
    BY <1>2, <2>1, <2>2 DEF Counted, Sane, HistoryKept
  <2>5. Sent(x, p, 0, 0)'
    <3>1. write' = p + 0 /\ read' = p + 0
      BY <1>1, <1>2, <2>3, Sizes DEF Settled
    <3>2. pending' = ToCome(x, 0) /\ pc' = "idle" /\ (x = "A" => hread' > 0)
      BY <1>1, <1>2, <2>1, <2>4 DEF ToCome
    <3>3. Filled(buff, write)' /\ NoBracket(buff', p) /\ Counts(len)' /\ len' <= p
      BY <1>1, <1>2, <1>5, <2>3 DEF Settled, Stored
    <3>4. QED
      BY <1>1, <3>1, <3>2, <3>3 DEF Sent
  <2>6. Arriving'
    BY <2>3, <2>5 DEF Arriving
  <2>7. QED
    BY <1>3, <1>4, <2>6 DEF Counted
<1>7. CASE k \notin {"Recall", "Right", "Left"}
  <2>1. PICK c \in Characters : c \notin {LB, SKIP} /\ pending' = <<c>> /\ (c = ESC => write = 0)
    <3>1. CR \notin {LB, SKIP, ESC} /\ BS \notin {LB, SKIP, ESC}
      BY DEF CR, LB, SKIP, BS, ESC
    <3>2. CASE Chars[k] = <<CR>> \/ Chars[k] = <<BS>>
      BY <1>1, <3>1, <3>2, Distinct
    <3>3. CASE Chars[k] = <<k>> /\ k \in Letters
      <4>1. k \in Characters /\ k \notin {LB, SKIP, ESC}
        BY <3>3 DEF Typist, Characters, Valid
      <4>2. QED
        BY <1>1, <3>3, <4>1
    <3>4. CASE Chars[k] = <<k>> /\ k \in Others
      <4>1. k \in Characters /\ k \notin {LB, SKIP} /\ write = 0
        BY <3>4 DEF Press, Typist, Characters
      <4>2. QED
        BY <1>1, <3>4, <4>1
    <3>5. QED
      BY <1>7, <3>2, <3>3, <3>4, CharsSent
  <2>2. Pressed'
    BY <1>1, <1>2, <1>5, <2>1 DEF Pressed
  <2>3. QED
    BY <1>3, <1>4, <2>2 DEF Counted
<1>8. QED
  BY <1>6, <1>7

----------------------------------------------------------------------------
(* The handler.                                                            *)

\* d is b with a character more behind the others.
More(b, w, c, d) ==
  /\ Put(b, w, [i \in 1..1 |-> c]) = d
  /\ d[w] = c
  /\ \A i \in Places : i # w => d[i] = b[i]
  /\ Filled(d, w + 1)

With(b, w, c) == [b EXCEPT ![w] = c]

LEMMA Placed ==
  ASSUME Typist, NEW b \in Buffers, NEW w \in 0..LEN, Filled(b, w), NEW c \in Characters
  PROVE  More(b, w, c, With(b, w, c))
<1>0. PICK d : d = [b EXCEPT ![w] = c]
  OBVIOUS
<1>1. w \in Places /\ LEN \in Nat /\ w + 1 \in 0..LEN + 1
  BY Sizes DEF Places
<1>3. d[w] = c /\ (\A i \in Places : i # w => d[i] = b[i]) /\ d \in [Places -> Characters \cup {NUL}]
  BY <1>0, <1>1 DEF Buffers
<1>4. Filled(d, w + 1)
  <2>1. \A i \in Places : d[i] = NUL <=> i >= w + 1
    <3>1. SUFFICES ASSUME NEW i \in Places PROVE d[i] = NUL <=> i >= w + 1
      OBVIOUS
    <3>2. CASE i = w
      BY <1>1, <1>3, <3>2, Distinct
    <3>3. CASE i # w
      <4>1. d[i] = b[i] /\ (b[i] = NUL <=> i >= w)
        BY <1>3, <3>3 DEF Filled
      <4>2. i >= w <=> i >= w + 1
        BY <3>3, Sizes DEF Places
      <4>3. QED
        BY <4>1, <4>2
    <3>4. QED
      BY <3>2, <3>3
  <2>2. QED
    BY <1>1, <2>1 DEF Filled
<1>5. Put(b, w, [i \in 1..1 |-> c]) = d
  <2>1. Len([i \in 1..1 |-> c]) = 1 /\ [i \in 1..1 |-> c][1] = c
    OBVIOUS
  <2>2. Put(b, w, [i \in 1..1 |-> c])
        = [i \in Places |-> IF w <= i /\ i < w + 1 THEN [j \in 1..1 |-> c][i - w + 1] ELSE b[i]]
    BY <2>1 DEF Put, Places
  <2>3. \A i \in Places : (IF w <= i /\ i < w + 1 THEN [j \in 1..1 |-> c][i - w + 1] ELSE b[i]) = d[i]
    <3>1. SUFFICES ASSUME NEW i \in Places
                   PROVE (IF w <= i /\ i < w + 1 THEN [j \in 1..1 |-> c][i - w + 1] ELSE b[i]) = d[i]
      OBVIOUS
    <3>2. CASE i = w
      <4>1. i - w + 1 = 1 /\ w <= i /\ i < w + 1
        BY <3>2
      <4>2. QED
        BY <1>3, <2>1, <3>2, <4>1
    <3>3. CASE i # w
      <4>1. ~ (w <= i /\ i < w + 1)
        BY <3>3, Sizes DEF Places
      <4>2. QED
        BY <1>3, <3>3, <4>1
    <3>4. QED
      BY <3>2, <3>3
  <2>4. d = [i \in Places |-> d[i]]
    BY <1>3
  <2>5. QED
    BY <2>2, <2>3, <2>4
<1>6. QED
  BY <1>0, <1>3, <1>4, <1>5 DEF More, With

\* The handler's step, as long as the buffer is open and key_flag is not set: a
\* character is stored once or not at all.
LEMMA Received ==
  ASSUME Typist, Counted, Uart, pending # <<>>, Filled(buff, write), pc \in {"idle", "escape", "direction"},
         NEW c, c = Head(pending), c = ESC => write < LEN - RESERVED
  PROVE  /\ ~ key_flag'
         /\ \/ /\ write \in 0..LEN /\ (write < LEN - RESERVED \/ c \in {BS, CR})
               /\ Store(c, 1)
            \/ ~ (write < LEN - RESERVED) /\ buff' = buff /\ write' = write
<1>1. lock = 1 /\ ~ key_flag /\ key_flag \in BOOLEAN
  BY DEF Counted, Sane, Typed, TypeOK
<1>2. write \in 0..LEN + 1 /\ LEN \in Nat
  BY Sizes DEF Filled
<1>3. write \in 0..LEN => Free
  BY <1>2 DEF Filled, Free, Places
<1>4. CASE RecvChar
  <2>1. write \in 0..LEN
    BY <1>2, <1>4, Sizes DEF RecvChar, RESERVED
  <2>2. Store(c, 1) /\ key_flag' = key_flag
    BY <1>1, <1>3, <1>4, <2>1 DEF RecvChar
  <2>3. QED
    BY <1>1, <1>4, <2>1, <2>2 DEF RecvChar
<1>5. CASE RecvControl
  <2>1. write >= LEN - RESERVED /\ ~ (write < LEN - RESERVED) /\ c # ESC
    BY <1>2, <1>5, Sizes DEF RecvControl, RESERVED
  <2>2. CASE ~ Free
    BY <1>1, <1>5, <2>1, <2>2 DEF RecvControl
  <2>3. CASE Free /\ c \in {BS, CR}
    <3>1. Store(c, 1) /\ key_flag' = FALSE
      BY <1>1, <1>5, <2>1, <2>3 DEF RecvControl
    <3>2. QED
      BY <2>3, <3>1 DEF Free
  <2>4. CASE Free /\ c \notin {BS, CR}
    <3>1. Store(c, 0) /\ key_flag' = FALSE
      BY <1>1, <1>5, <2>1, <2>4 DEF RecvControl
    <3>2. write' = write
      BY <1>2, <3>1 DEF Store
    <3>3. buff' = buff
      <4>1. buff \in [Places -> Characters \cup {NUL}]
        BY DEF Counted, Typed, TypeOK, Places
      <4>2. Len([i \in 1..0 |-> c]) = 0
        OBVIOUS
      <4>3. \A i \in Places : ~ (write <= i /\ i < write + 0)
        BY <1>2 DEF Places
      <4>4. buff' = [i \in Places |-> buff[i]]
        BY <3>1, <4>2, <4>3 DEF Store, Put, Places
      <4>5. QED
        BY <4>1, <4>4
    <3>4. QED
      BY <2>1, <3>1, <3>2, <3>3
  <2>5. QED
    BY <2>2, <2>3, <2>4
<1>6. QED
  BY <1>4, <1>5 DEF Uart

LEMMA UartFrame ==
  ASSUME Uart
  PROVE  /\ UNCHANGED <<read, lock, cursor, len, skip, hist, hwrite, hread, full, pc, next, ch, tmp, key, seen>>
         /\ pending # <<>> /\ pending' = Tail(pending)
BY DEF Uart, RecvChar, RecvControl, shown, history, local, ghost

\* The key's character is stored, or there is no room for it.
Stores(c) == Unread' /\ pending = <<c>> /\ buff'[read'] = c /\ Format(buff') = Format(buff) \o Char(c)
Drops == Resting' /\ ~ (write < LEN - RESERVED) /\ buff' = buff /\ write' = write

LEMMA ReceivesPressed ==
  ASSUME Typist, Counted, Uart, Pressed
  PROVE  Drops \/ \E c \in Characters : Stores(c)
<1>1. PICK c \in Characters : c \notin {LB, SKIP} /\ pending = <<c>> /\ (c = ESC => write = 0)
  BY DEF Pressed
<1>2. pending' = <<>> /\ c = Head(pending) /\ pending # <<>>
  BY <1>1, UartFrame
<1>3. pc = "idle" /\ Settled
  BY DEF Pressed
<1>4. Filled(buff, write) /\ buff \in Buffers /\ write \in 0..LEN + 1 /\ len \in Nat
  BY <1>3, TypedIs DEF Settled, Stored, Filled, Counted
<1>5. c = ESC => write < LEN - RESERVED
  BY <1>1, Sizes DEF RESERVED
<1>6. \/ /\ write \in 0..LEN /\ (write < LEN - RESERVED \/ c \in {BS, CR})
         /\ Store(c, 1)
      \/ ~ (write < LEN - RESERVED) /\ buff' = buff /\ write' = write
  BY <1>2, <1>3, <1>4, <1>5, Received
<1>7. CASE ~ (write < LEN - RESERVED) /\ buff' = buff /\ write' = write
  BY <1>2, <1>3, <1>7, UartFrame DEF Drops, Resting, Settled, Stored, Counts
<1>8. CASE write \in 0..LEN /\ (write < LEN - RESERVED \/ c \in {BS, CR}) /\ Store(c, 1)
  <2>1. PICK d : d = [buff EXCEPT ![write] = c]
    OBVIOUS
  <2>2. /\ buff' = d /\ write' = write + 1 /\ d[write] = c
        /\ \A i \in Places : i # write => d[i] = buff[i]
        /\ Filled(d, write + 1)
    <3>0. PICK b \in Buffers, w \in 0..LEN : b = buff /\ w = write /\ Filled(b, w)
      BY <1>4, <1>8, <2>1
    <3>a. More(b, w, c, With(b, w, c))
      BY <3>0, Placed
    <3>b. With(b, w, c) = d
      BY <3>0, <2>1 DEF With
    <3>1. Put(buff, write, [i \in 1..1 |-> c]) = d
      BY <3>0, <3>a, <3>b DEF More
    <3>2. d[write] = c /\ (\A i \in Places : i # write => d[i] = buff[i]) /\ Filled(d, write + 1)
      BY <3>0, <3>a, <3>b DEF More
    <3>3. buff' = Put(buff, write, [i \in 1..1 |-> c]) /\ write' = write + 1
      BY <1>8 DEF Store
    <3>4. QED
      BY <3>1, <3>2, <3>3
  <2>3. NoBracket(d, write + 1)
    <3>1. SUFFICES ASSUME NEW i \in Places, i < write + 1 PROVE d[i] # LB
      BY DEF NoBracket
    <3>2. CASE i = write
      BY <1>1, <2>2, <3>2
    <3>3. CASE i # write
      <4>1. i < write
        BY <1>8, <3>1, <3>3, Sizes DEF Places
      <4>2. QED
        BY <1>3, <2>2, <3>3, <4>1 DEF Settled, Stored, NoBracket
    <3>4. QED
      BY <3>2, <3>3
  <2>4. Format(d) = Format(buff) \o Char(c)
    BY <1>1, <1>3, <1>4, <1>8, <2>1, FormatStored DEF Settled, Stored
  <2>5. Len(Format(d)) = len + (IF c \in Valid THEN 1 ELSE 0)
    <3>1. PICK s \in Seq(Valid) : s = Format(buff)
      BY FormatIs
    <3>2. PICK u \in Seq(Valid) : u = Char(c) /\ Len(u) = IF c \in Valid THEN 1 ELSE 0
      BY CharIs
    <3>3. Len(s \o u) = Len(s) + Len(u)
      BY <3>1, <3>2, ConcatProperties
    <3>4. QED
      BY <1>3, <2>4, <3>1, <3>2, <3>3 DEF Settled, Counts
  <2>6. len <= LEN - RESERVED /\ len <= write /\ read = write
    BY <1>3 DEF Settled, Counts
  <2>7. c \in Valid => c \notin {BS, CR}
    BY Distinct
  <2>8. /\ Len(Format(d)) = (IF c \in Valid THEN len + 1 ELSE len)
        /\ (IF c \in Valid THEN len + 1 ELSE len) <= LEN - RESERVED
    BY <1>4, <1>8, <2>5, <2>6, <2>7, Sizes DEF RESERVED
  <2>9. c \notin {BS, CR} => write + 1 <= LEN - RESERVED
    BY <1>8, Sizes DEF RESERVED
  <2>10. read' = read /\ pc' = "idle" /\ len' = len /\ cursor' = cursor /\ buff'[read'] = c
    BY <1>3, <2>2, <2>6, UartFrame
  <2>11. Counts(IF buff[read] \in Valid THEN len + 1 ELSE len)'
    BY <2>2, <2>8, <2>10 DEF Counts
  <2>12. Stored'
    BY <2>2, <2>3 DEF Stored
  <2>13. read' > LEN - RESERVED => cursor' = 0
    BY <1>3, <2>6, <2>10 DEF Settled
  <2>14. Unread'
    BY <1>1, <1>2, <1>8, <2>2, <2>6, <2>9, <2>10, <2>11, <2>12, <2>13 DEF Unread
  <2>15. QED
    BY <1>1, <2>2, <2>4, <2>10, <2>14 DEF Stores
<1>9. QED
  BY <1>6, <1>7, <1>8

\* One more of an arrow key's characters is received.
LEMMA ReceivesArriving ==
  ASSUME Typist, Counted, Uart, NEW x \in {"A", "C", "D"}, NEW p \in 0..LEN - 2 * RESERVED, NEW r \in 0..3,
         NEW t \in 0..2, Sent(x, p, r, t), NEW q, q = r + 1
  PROVE  r < 3 /\ Sent(x, p, q, t)' /\ Format(buff') = Format(buff)
<1>1. Sent(x, p, r, t)
  OBVIOUS
<1>2. LEN \in Nat /\ p \in Nat /\ p + 6 <= LEN
  BY Sizes DEF RESERVED
<1>3. r \in 0..2 /\ write = p + r /\ write \in 0..LEN /\ write < LEN - RESERVED
  BY <1>1, <1>2, UartFrame DEF Sent, ToCome, RESERVED
<1>4. PICK c \in Characters : /\ c = IF r = 0 THEN ESC ELSE IF r = 1 THEN LB ELSE x
                              /\ c = Head(pending) /\ pending' = ToCome(x, r + 1)
  <2>1. {ESC, LB, x} \subseteq Characters
    BY Distinct
  <2>2. pending = ToCome(x, r) /\ pending' = Tail(pending)
    BY <1>1, UartFrame DEF Sent
  <2>3. CASE r = 0
    BY <2>1, <2>2, <2>3 DEF ToCome
  <2>4. CASE r = 1
    BY <2>1, <2>2, <2>4 DEF ToCome
  <2>5. CASE r = 2
    BY <2>1, <2>2, <2>5 DEF ToCome
  <2>6. QED
    BY <1>3, <2>3, <2>4, <2>5
<1>5. buff \in Buffers /\ Filled(buff, write) /\ NoBracket(buff, p)
  BY <1>1, TypedIs DEF Sent, Counted
<1>6. Store(c, 1)
  <2>1. pc \in {"idle", "escape", "direction"} /\ pending # <<>>
    BY <1>1, UartFrame DEF Sent
  <2>2. QED
    BY <1>3, <1>4, <1>5, <2>1, Received
<1>7. PICK d : d = [buff EXCEPT ![write] = c]
  OBVIOUS
<1>8. /\ buff' = d /\ write' = write + 1 /\ d[write] = c
      /\ \A i \in Places : i # write => d[i] = buff[i]
      /\ Filled(d, write + 1)
  <2>0. PICK b \in Buffers, w \in 0..LEN : b = buff /\ w = write /\ Filled(b, w)
    BY <1>3, <1>5, <1>7
  <2>a. More(b, w, c, With(b, w, c))
    BY <2>0, Placed
  <2>b. With(b, w, c) = d
    BY <2>0, <1>7 DEF With
  <2>1. Put(buff, write, [i \in 1..1 |-> c]) = d
    BY <2>0, <2>a, <2>b DEF More
  <2>2. d[write] = c /\ (\A i \in Places : i # write => d[i] = buff[i]) /\ Filled(d, write + 1)
    BY <2>0, <2>a, <2>b DEF More
  <2>3. buff' = Put(buff, write, [i \in 1..1 |-> c]) /\ write' = write + 1
    BY <1>6 DEF Store
  <2>4. QED
    BY <2>1, <2>2, <2>3
<1>9. NoBracket(d, p)
  <2>1. \A i \in Places : i < p => i # write
    BY <1>2, <1>3 DEF Places
  <2>2. QED
    BY <1>5, <1>8, <2>1 DEF NoBracket
<1>10. Format(d) = Format(buff)
  <2>1. CASE r = 0
    <3>1. Char(c) = <<>> /\ c # LB /\ NoBracket(buff, write)
      BY <1>2, <1>3, <1>4, <1>5, <2>1, Distinct DEF Char
    <3>2. Format(d) = Format(buff) \o Char(c)
      BY <1>3, <1>5, <1>7, <3>1, FormatStored
    <3>3. QED
      BY <3>1, <3>2, FormatIs, ConcatEmptySeq
  <2>2. CASE r = 1
    <3>1. p \in 0..LEN - 1 /\ write = p + 1 /\ buff[p] = ESC /\ c = LB
      BY <1>1, <1>2, <1>3, <1>4, <2>2 DEF Sent
    <3>2. QED
      BY <1>5, <1>7, <3>1, FormatBracket
  <2>3. CASE r = 2
    <3>1. p \in 0..LEN - 2 /\ write = p + 2 /\ buff[p] = ESC /\ buff[p + 1] = LB
      BY <1>1, <1>2, <1>3, <2>3 DEF Sent
    <3>2. QED
      BY <1>5, <1>7, <3>1, FormatArrow
  <2>4. QED
    BY <1>3, <2>1, <2>2, <2>3
<1>11. Sent(x, p, r + 1, t)'
  <2>1. read' = p + t /\ pc' = (IF t = 0 THEN "idle" ELSE IF t = 1 THEN "escape" ELSE "direction")
        /\ (x = "A" => hread' > 0) /\ len' = len /\ len' <= p
    BY <1>1, UartFrame DEF Sent
  <2>2. write' = p + (r + 1)
    BY <1>2, <1>3, <1>8
  <2>3. Counts(len)'
    BY <1>1, <1>8, <1>10, <2>1 DEF Sent, Counts
  <2>4. Filled(buff', write') /\ NoBracket(buff', p)
    BY <1>8, <1>9
  <2>5. p \in Places /\ p + 1 \in Places /\ p + 2 \in Places
    BY <1>2 DEF Places
  <2>6. r + 1 >= 1 => d[p] = ESC
    <3>1. CASE r = 0
      BY <1>3, <1>4, <1>8, <3>1
    <3>2. CASE r # 0
      <4>1. buff[p] = ESC /\ p # write
        BY <1>1, <1>2, <1>3, <3>2 DEF Sent
      <4>2. QED
        BY <1>8, <2>5, <4>1
    <3>3. QED
      BY <3>1, <3>2
  <2>7. r + 1 >= 2 => d[p + 1] = LB
    <3>1. CASE r = 0
      BY <3>1
    <3>2. CASE r = 1
      BY <1>3, <1>4, <1>8, <3>2
    <3>3. CASE r = 2
      <4>1. buff[p + 1] = LB /\ p + 1 # write
        BY <1>1, <1>2, <1>3, <3>3 DEF Sent
      <4>2. QED
        BY <1>8, <2>5, <4>1
    <3>4. QED
      BY <1>3, <3>1, <3>2, <3>3
  <2>8. r + 1 = 3 => d[p + 2] = x
    <3>1. SUFFICES ASSUME r = 2 PROVE d[p + 2] = x
      BY <1>3
    <3>2. write = p + 2 /\ c = x
      BY <1>3, <1>4, <3>1
    <3>3. QED
      BY <1>8, <3>2
  <2>9. QED
    BY <1>4, <1>8, <2>1, <2>2, <2>3, <2>4, <2>6, <2>7, <2>8 DEF Sent
<1>12. Sent(x, p, q, t)'
  BY <1>11
<1>13. QED
  BY <1>3, <1>8, <1>10, <1>12

LEMMA CountedUart ==
  ASSUME Typist, Counted, Uart
  PROVE  Counted'
<1>1. Typed'
  BY TypedUart DEF Counted
<1>2. Pressed \/ Arriving
  BY UartFrame DEF Counted, Resting, Unread, Working
<1>3. Resting' \/ Unread' \/ Arriving'
  <2>1. CASE Pressed
    BY <2>1, ReceivesPressed DEF Drops, Stores
  <2>2. CASE Arriving
    <3>1. PICK x \in {"A", "C", "D"}, p \in 0..LEN - 2 * RESERVED, r \in 0..3, t \in 0..2 :
            t <= r /\ Sent(x, p, r, t)
      BY <2>2 DEF Arriving
    <3>2. PICK q \in 0..4 : q = r + 1
      OBVIOUS
    <3>3. r < 3 /\ Sent(x, p, q, t)'
      BY <3>1, <3>2, ReceivesArriving
    <3>4. q \in 0..3 /\ t <= q
      BY <3>1, <3>2, <3>3
    <3>5. QED
      BY <3>3, <3>4 DEF Arriving
  <2>3. QED
    BY <1>2, <2>1, <2>2
<1>4. ~ key_flag'
  <2>1. CASE Pressed
    <3>1. PICK c \in Characters : pending = <<c>> /\ (c = ESC => write = 0)
      BY <2>1 DEF Pressed
    <3>2. c = Head(pending) /\ pending # <<>> /\ (c = ESC => write < LEN - RESERVED)
      BY <3>1, Sizes DEF RESERVED
    <3>3. Filled(buff, write) /\ pc \in {"idle", "escape", "direction"}
      BY <2>1 DEF Pressed, Settled, Stored
    <3>4. QED
      BY <3>2, <3>3, Received
  <2>2. CASE Arriving
    <3>1. PICK x \in {"A", "C", "D"}, p \in 0..LEN - 2 * RESERVED, r \in 0..3, t \in 0..2 :
               t <= r /\ Sent(x, p, r, t)
      BY <2>2 DEF Arriving
    <3>2. pending # <<>> /\ Filled(buff, write) /\ pc \in {"idle", "escape", "direction"}
      BY <3>1, UartFrame DEF Sent
    <3>3. write < LEN - RESERVED
      BY <3>1, <3>2, Sizes DEF Sent, ToCome, RESERVED
    <3>4. QED
      BY <3>2, <3>3, Received
  <2>3. QED
    BY <1>2, <2>1, <2>2
<1>5. Sane'
  BY <1>4, UartFrame DEF Counted, Sane, HistoryKept, Entries
<1>6. QED
  BY <1>1, <1>3, <1>5 DEF Counted

----------------------------------------------------------------------------
(* The task reads.                                                         *)

Recalls == {"recallCopy", "recallEnd"}

LEMMA HistoryStays ==
  ASSUME HistoryKept, UNCHANGED history, pc \in Recalls <=> pc' \in Recalls
  PROVE  HistoryKept'
BY DEF HistoryKept, Entries, history, Recalls

\* What the idle task finds.
LEMMA Found ==
  ASSUME Typist, Counted, Readable
  PROVE  /\ pc = "idle" =>
              \/ Unread
              \/ /\ buff[read] = ESC
                 /\ \E x \in {"A", "C", "D"}, p \in 0..LEN - 2 * RESERVED, r \in 1..3 : Sent(x, p, r, 0)
         /\ pc = "escape" =>
              /\ buff[read] = LB
              /\ \E x \in {"A", "C", "D"}, p \in 0..LEN - 2 * RESERVED, r \in 2..3 : Sent(x, p, r, 1)
         /\ pc = "direction" =>
              \E x \in {"A", "C", "D"}, p \in 0..LEN - 2 * RESERVED : buff[read] = x /\ Sent(x, p, 3, 2)
<1>1. ~ Resting /\ ~ Pressed
  BY NothingToRead
<1>2. CASE Arriving
  <2>1. PICK x \in {"A", "C", "D"}, p \in 0..LEN - 2 * RESERVED, r \in 0..3, t \in 0..2 :
               t <= r /\ Sent(x, p, r, t)
    BY <1>2 DEF Arriving
  <2>2. t < r /\ buff[read] = IF t = 0 THEN ESC ELSE IF t = 1 THEN LB ELSE x
    BY <2>1, ArrivingReads
  <2>3. pc = IF t = 0 THEN "idle" ELSE IF t = 1 THEN "escape" ELSE "direction"
    BY <2>1 DEF Sent
  <2>4. CASE t = 0
    BY <2>1, <2>2, <2>3, <2>4
  <2>5. CASE t = 1
    BY <2>1, <2>2, <2>3, <2>5
  <2>6. CASE t = 2
    BY <2>1, <2>2, <2>3, <2>6
  <2>7. QED
    BY <2>4, <2>5, <2>6
<1>3. QED
  BY <1>1, <1>2, Phases

\* What a read leaves alone.
LEMMA ReadFrame ==
  ASSUME Readable, KeepsLine, read' = read + 1
  PROVE  UNCHANGED <<buff, write, lock, key_flag, hist, hwrite, hread, full, pending, history>>
BY DEF KeepsLine, history

\* Before the line is formatted.
LEMMA ToFormat ==
  ASSUME Typist, Counted, UNCHANGED <<buff, cursor, len>>,
         NEW n \in {"run", "delete", "insert", "right", "left", "recall"}, NEW c, FormatThen(n, c),
         Filled(buff, write), write > 0, pending' = <<>>,
         n # "run" => write <= LEN,
         n = "delete" => cursor > 0,
         n = "insert" => cursor < len /\ c \in Valid,
         Counts(IF n = "insert" THEN len + 1 ELSE len)
  PROVE  Working'
<1>1. pc' = "format" /\ next' = n /\ ch' = c
  BY DEF FormatThen
<1>2. 0 \in Places /\ LEN \in Places
  BY Sizes DEF Places
<1>3. write \in 0..LEN + 1
  BY DEF Filled
<1>4. buff[0] # NUL
  BY <1>2, <1>3 DEF Filled
<1>5. write <= LEN => buff[LEN] = NUL
  BY <1>2, <1>3, Sizes DEF Filled
<1>6. Counts(Goal)'
  BY <1>1 DEF Counts, Goal
<1>7. Formatting'
  BY <1>1, <1>4, <1>5, <1>6 DEF Formatting
<1>8. QED
  BY <1>7 DEF Working

LEMMA StillSane ==
  ASSUME Sane, UNCHANGED <<lock, key_flag, history>>, ~ skip', cursor' <= len',
         pc \notin {"formatCopy", "deleteCopy", "recallCopy", "recallEnd"},
         pc' \notin {"formatCopy", "deleteCopy", "recallCopy", "recallEnd"}
  PROVE  Sane'
<1>1. HistoryKept'
  BY HistoryStays DEF Sane, Recalls
<1>2. QED
  BY <1>1 DEF Sane

LEMMA CountedReadEnter ==
  ASSUME Typist, Counted, ReadEnter
  PROVE  Counted'
<1>1. Typed'
  BY TypedRead DEF Counted
<1>2. Readable /\ pc = "idle" /\ buff[read] = CR /\ read' = read + 1
  BY DEF ReadEnter, Take
<1>3. FormatThen("run", NUL) /\ UNCHANGED <<buff, write, lock, key_flag, history, pending, cursor, len, skip>>
  BY DEF ReadEnter, shown, KeepsLine
<1>4. Unread
  BY <1>2, Found, Distinct
<1>5. Working'
  <2>1. Filled(buff, write) /\ write > 0 /\ pending' = <<>>
    BY <1>3, <1>4, Sizes DEF Unread, Stored
  <2>2. Counts(len)
    BY <1>2, <1>4, Distinct DEF Unread
  <2>3. QED
    BY <1>3, <2>1, <2>2, ToFormat
<1>6. Sane'
  <2>1. pc' = "format"
    BY <1>3 DEF FormatThen
  <2>2. Sane
    BY DEF Counted
  <2>3. cursor' <= len' /\ ~ skip'
    BY <1>3, <2>2 DEF Sane
  <2>4. QED
    BY <1>2, <1>3, <2>1, <2>2, <2>3, StillSane
<1>7. QED
  BY <1>1, <1>5, <1>6 DEF Counted

\* Nothing more to read.
LEMMA ToRest ==
  ASSUME Typist, Counted, Unread, UNCHANGED <<buff, write, pending>>, read' = read + 1,
         pc' \in {"idle", "escape"},
         read > LEN - RESERVED => cursor' = 0,
         buff[read] \notin {BS, CR} \/ cursor' = 0,
         len' \in Nat, len' <= len + 1, Counts(len')
  PROVE  Resting'
<1>1. read' = write' /\ Stored' /\ pending' = <<>>
  BY DEF Unread, Stored
<1>2. Counts(len)'
  BY DEF Counts
<1>3. len' <= write'
  BY TypedIs, Sizes DEF Unread, Counted
<1>4. write' > LEN - RESERVED => cursor' = 0
  <2>1. CASE buff[read] \notin {BS, CR}
    <3>1. write' <= LEN - RESERVED /\ write' = read + 1 /\ read \in 0..LEN
      BY <2>1 DEF Unread
    <3>2. QED
      BY <3>1, Sizes DEF RESERVED
  <2>2. QED
    BY <2>1
<1>5. QED
  BY <1>1, <1>2, <1>3, <1>4 DEF Resting, Settled

LEMMA CountedReadBackspace ==
  ASSUME Typist, Counted, ReadBackspace
  PROVE  Counted'
<1>1. Typed'
  BY TypedRead DEF Counted
<1>2. Readable /\ pc = "idle" /\ buff[read] = BS /\ read' = read + 1
  BY DEF ReadBackspace, Take
<1>3. UNCHANGED <<buff, write, lock, key_flag, history, pending, cursor, len, skip>>
  BY DEF ReadBackspace, shown, KeepsLine
<1>4. Unread
  BY <1>2, Found, Distinct
<1>5. Filled(buff, write) /\ write > 0 /\ pending' = <<>> /\ write = read + 1 /\ read \in 0..LEN
  BY <1>3, <1>4, Sizes DEF Unread, Stored
<1>6. Counts(len) /\ len \in Nat /\ cursor \in Nat
  BY <1>2, <1>4, TypedIs, Distinct DEF Unread, Counted
<1>7. Sane /\ cursor' <= len' /\ ~ skip'
  BY <1>3 DEF Counted, Sane
<1>8. CASE cursor > 0
  <2>1. FormatThen("delete", NUL)
    BY <1>8 DEF ReadBackspace
  <2>2. ~ (read > LEN - RESERVED)
    BY <1>4, <1>8 DEF Unread
  <2>3. write <= LEN
    BY <1>5, <2>2, Sizes DEF RESERVED
  <2>4. Working'
    BY <1>3, <1>5, <1>6, <1>8, <2>1, <2>3, ToFormat
  <2>5. pc' = "format"
    BY <2>1 DEF FormatThen
  <2>6. Sane'
    BY <1>2, <1>3, <1>7, <2>5, StillSane
  <2>7. QED
    BY <1>1, <2>4, <2>6 DEF Counted
<1>9. CASE ~ (cursor > 0)
  <2>1. pc' = "idle" /\ cursor' = 0
    BY <1>3, <1>6, <1>9 DEF ReadBackspace, Go
  <2>2. Counts(len') /\ len' \in Nat /\ len' <= len + 1
    BY <1>3, <1>6
  <2>3. Resting'
    BY <1>2, <1>3, <1>4, <2>1, <2>2, ToRest
  <2>4. Sane'
    BY <1>2, <1>3, <1>7, <2>1, StillSane
  <2>5. QED
    BY <1>1, <2>3, <2>4 DEF Counted
<1>10. QED
  BY <1>8, <1>9

\* The task takes one more character of an arrow key.
LEMMA TakesOne ==
  ASSUME NEW x, NEW p \in 0..LEN - 2 * RESERVED, NEW r \in 1..3, NEW t \in 0..1,
         Sent(x, p, r, t), read' = read + 1,
         UNCHANGED <<buff, write, pending, len, hread>>,
         pc' = IF t = 0 THEN "escape" ELSE "direction",
         NEW q \in 1..2, q = t + 1
  PROVE  Sent(x, p, r, q)'
<1>1. read' = p + q
  BY Sizes DEF Sent, RESERVED
<1>2. pc' = IF q = 0 THEN "idle" ELSE IF q = 1 THEN "escape" ELSE "direction"
  OBVIOUS
<1>3. Counts(len)'
  BY DEF Sent, Counts
<1>4. QED
  BY <1>1, <1>2, <1>3 DEF Sent

LEMMA TakesNext ==
  ASSUME Typist, Counted, NEW x \in {"A", "C", "D"}, NEW p \in 0..LEN - 2 * RESERVED, NEW r \in 1..3,
         NEW t \in 0..1,
         t < r, Sent(x, p, r, t), read' = read + 1,
         UNCHANGED <<buff, write, pending, len, hread>>,
         pc' = IF t = 0 THEN "escape" ELSE "direction"
  PROVE  Arriving'
<1>1. PICK q \in 1..2 : q = t + 1
  OBVIOUS
<1>2. q <= r /\ r \in 0..3 /\ q \in 0..2
  BY <1>1
<1>3. Sent(x, p, r, q)'
  BY <1>1, TakesOne
<1>4. QED
  BY <1>2, <1>3 DEF Arriving

LEMMA CountedReadEscape ==
  ASSUME Typist, Counted, ReadEscape
  PROVE  Counted'
<1>1. Typed'
  BY TypedRead DEF Counted
<1>2. Readable /\ pc = "idle" /\ buff[read] = ESC /\ read' = read + 1 /\ pc' = "escape"
  BY DEF ReadEscape, Take, Go
<1>3. UNCHANGED <<buff, write, lock, key_flag, history, pending, cursor, len, skip>>
  BY DEF ReadEscape, shown, KeepsLine
<1>4. hread' = hread
  BY <1>3 DEF history
<1>5. Sane'
  <2>1. Sane /\ cursor' <= len' /\ ~ skip'
    BY <1>3 DEF Counted, Sane
  <2>2. QED
    BY <1>2, <1>3, <2>1, StillSane
<1>6. CASE Unread
  <2>1. Counts(len') /\ len' \in Nat /\ len' <= len + 1
    BY <1>2, <1>3, <1>6, TypedIs, Distinct DEF Unread, Counted
  <2>2. buff[read] \notin {BS, CR} /\ (read > LEN - RESERVED => cursor' = 0)
    BY <1>2, <1>3, <1>6, Distinct DEF Unread
  <2>3. Resting'
    BY <1>2, <1>3, <1>6, <2>1, <2>2, ToRest
  <2>4. QED
    BY <1>1, <1>5, <2>3 DEF Counted
<1>7. ASSUME NEW x \in {"A", "C", "D"}, NEW p \in 0..LEN - 2 * RESERVED, NEW r \in 1..3, Sent(x, p, r, 0)
      PROVE  Counted'
  <2>1. PICK t \in 0..1 : t = 0 /\ t < r
    OBVIOUS
  <2>2. Sent(x, p, r, t) /\ pc' = IF t = 0 THEN "escape" ELSE "direction"
    BY <1>2, <1>7, <2>1
  <2>3. Arriving'
    BY <1>2, <1>3, <1>4, <2>1, <2>2, TakesNext
  <2>4. QED
    BY <1>1, <1>5, <2>3 DEF Counted
<1>8. QED
  BY <1>2, <1>6, <1>7, Found

LEMMA CountedEscapeNext ==
  ASSUME Typist, Counted, EscapeNext
  PROVE  Counted'
<1>1. Typed'
  BY TypedRead DEF Counted
<1>2. Readable /\ pc = "escape" /\ read' = read + 1
  BY DEF EscapeNext
<1>3. UNCHANGED <<buff, write, lock, key_flag, history, pending, cursor, len, skip>>
  BY DEF EscapeNext, shown, KeepsLine
<1>4. hread' = hread
  BY <1>3 DEF history
<1>5. PICK x \in {"A", "C", "D"}, p \in 0..LEN - 2 * RESERVED, r \in 2..3 : Sent(x, p, r, 1)
  BY <1>2, Found
<1>6. pc' = "direction"
  <2>1. buff[read] = LB
    BY <1>2, Found
  <2>2. QED
    BY <2>1 DEF EscapeNext, Go
<1>7. Sane'
  <2>1. Sane /\ cursor' <= len' /\ ~ skip'
    BY <1>3 DEF Counted, Sane
  <2>2. QED
    BY <1>2, <1>3, <1>6, <2>1, StillSane
<1>8. PICK t \in 0..1 : t = 1 /\ t < r
  OBVIOUS
<1>9. Sent(x, p, r, t) /\ r \in 1..3 /\ pc' = IF t = 0 THEN "escape" ELSE "direction"
  BY <1>5, <1>6, <1>8
<1>10. Arriving'
  BY <1>2, <1>3, <1>4, <1>8, <1>9, TakesNext
<1>11. QED
  BY <1>1, <1>7, <1>10 DEF Counted

LEMMA CountedDirectionNext ==
  ASSUME Typist, Counted, DirectionNext
  PROVE  Counted'
<1>1. Typed'
  BY TypedRead DEF Counted
<1>2. Readable /\ pc = "direction" /\ read' = read + 1
  BY DEF DirectionNext
<1>3. UNCHANGED <<buff, write, lock, key_flag, history, pending, cursor, len, skip>>
  BY DEF DirectionNext, shown, KeepsLine
<1>4. PICK x \in {"A", "C", "D"}, p \in 0..LEN - 2 * RESERVED : buff[read] = x /\ Sent(x, p, 3, 2)
  BY <1>2, Found
<1>5. PICK n \in {"right", "left", "recall"} : FormatThen(n, NUL)
  <2>1. CASE x = "A"
    BY <1>4, <2>1 DEF DirectionNext, Sent
  <2>2. CASE x = "C"
    BY <1>4, <2>2 DEF DirectionNext
  <2>3. CASE x = "D"
    BY <1>4, <2>3 DEF DirectionNext
  <2>4. QED
    BY <2>1, <2>2, <2>3
<1>6. Filled(buff, write) /\ write > 0 /\ write <= LEN /\ pending' = <<>> /\ Counts(len)
  BY <1>3, <1>4, Sizes DEF Sent, ToCome, RESERVED
<1>7. Working'
  BY <1>3, <1>5, <1>6, ToFormat
<1>8. Sane'
  <2>1. Sane /\ cursor' <= len' /\ ~ skip' /\ pc' = "format"
    BY <1>3, <1>5 DEF Counted, Sane, FormatThen
  <2>2. QED
    BY <1>2, <1>3, <2>1, StillSane
<1>9. QED
  BY <1>1, <1>7, <1>8 DEF Counted

LEMMA CountedWaitEnds ==
  ASSUME Typist, Counted, WaitEnds
  PROVE  Counted'
<1>1. Typed'
  BY TypedFormat DEF Counted
<1>2. ~ Readable /\ pc \in {"escape", "direction"} /\ pending = <<>> /\ pc' = "idle"
  BY DEF WaitEnds, Go
<1>3. UNCHANGED <<buff, read, write, lock, key_flag, history, pending, cursor, len, skip>>
  BY DEF WaitEnds, line, shown
<1>4. ~ Arriving
  <2>1. SUFFICES ASSUME NEW x \in {"A", "C", "D"}, NEW p \in 0..LEN - 2 * RESERVED, NEW r \in 0..3,
                        NEW t \in 0..2, t <= r, Sent(x, p, r, t)
                 PROVE FALSE
    BY DEF Arriving
  <2>2. r = 3 /\ ~ (t < r)
    BY <1>2, <2>1, ArrivingReads
  <2>3. QED
    BY <2>2
<1>5. Settled
  BY <1>2, <1>4, Phases DEF Resting
<1>6. Resting'
  BY <1>2, <1>3, <1>5 DEF Resting, Settled, Stored, Counts
<1>7. Sane'
  <2>1. Sane /\ cursor' <= len' /\ ~ skip'
    BY <1>3 DEF Counted, Sane
  <2>2. QED
    BY <1>2, <1>3, <2>1, StillSane
<1>8. QED
  BY <1>1, <1>6, <1>7 DEF Counted

LEMMA CountedReadChar ==
  ASSUME Typist, Counted, ReadChar
  PROVE  Counted'
<1>1. Typed'
  BY TypedRead DEF Counted
<1>2. Readable /\ pc = "idle" /\ buff[read] \notin {CR, BS, ESC} /\ read' = read + 1
  BY DEF ReadChar
<1>3. UNCHANGED <<buff, write, lock, key_flag, history, pending>>
  BY DEF ReadChar, KeepsLine
<1>4. Unread
  BY <1>2, Found
<1>5. ~ skip' /\ Sane /\ cursor <= len
  BY <1>4 DEF ReadChar, Unread, Counted, Sane
<1>6. write = read + 1 /\ read \in 0..LEN /\ write <= LEN - RESERVED /\ Filled(buff, write) /\ pending' = <<>>
      /\ write > 0 /\ write <= LEN /\ ~ (read > LEN - RESERVED)
  BY <1>2, <1>3, <1>4, Sizes DEF Unread, Stored, RESERVED
<1>7. len \in Nat /\ cursor \in Nat
  BY TypedIs DEF Counted
<1>8. CASE buff[read] \in Valid /\ cursor < len
  <2>1. FormatThen("insert", buff[read]) /\ cursor' = cursor /\ len' = len
    BY <1>5, <1>8 DEF ReadChar
  <2>2. Counts(len + 1)
    BY <1>4, <1>8 DEF Unread
  <2>3. Working'
    BY <1>3, <1>6, <1>8, <2>1, <2>2, ToFormat
  <2>4. pc' = "format" /\ cursor' <= len'
    BY <1>5, <2>1 DEF FormatThen
  <2>5. Sane'
    BY <1>2, <1>3, <1>5, <2>4, StillSane
  <2>6. QED
    BY <1>1, <2>3, <2>5 DEF Counted
<1>9. CASE ~ (buff[read] \in Valid /\ cursor < len)
  <2>1. pc' = "idle" /\ cursor' <= len' /\ len' \in Nat /\ len' <= len + 1 /\ Counts(len')
    <3>1. CASE buff[read] \in Valid
      <4>1. cursor' = cursor + 1 /\ len' = len + 1 /\ pc' = "idle"
        BY <1>5, <1>9, <3>1 DEF ReadChar, Go
      <4>2. Counts(len + 1)
        BY <1>4, <3>1 DEF Unread
      <4>3. QED
        BY <1>5, <1>7, <4>1, <4>2
    <3>2. CASE buff[read] \notin Valid
      <4>1. cursor' = cursor /\ len' = len /\ pc' = "idle"
        BY <1>5, <3>2 DEF ReadChar, Go
      <4>2. Counts(len)
        BY <1>4, <3>2 DEF Unread
      <4>3. QED
        BY <1>5, <1>7, <4>1, <4>2
    <3>3. QED
      BY <3>1, <3>2
  <2>2. Resting'
    BY <1>2, <1>3, <1>4, <1>6, <2>1, ToRest
  <2>3. Sane'
    BY <1>2, <1>3, <1>5, <2>1, StillSane
  <2>4. QED
    BY <1>1, <2>2, <2>3 DEF Counted
<1>10. QED
  BY <1>8, <1>9

----------------------------------------------------------------------------
(* The task formats the buffer.                                            *)

\* The phases in which the handler is locked out.
LEMMA SaneOn ==
  ASSUME Sane, UNCHANGED <<key_flag, history>>, ~ skip', cursor' <= len',
         pc \notin Recalls, pc' \notin Recalls,
         lock' = IF pc' \in {"formatCopy", "deleteCopy", "recallCopy"} THEN 0 ELSE 1
  PROVE  Sane'
<1>1. HistoryKept'
  BY HistoryStays DEF Sane
<1>2. QED
  BY <1>1 DEF Sane

LEMMA FormatPhase ==
  ASSUME Counted, pc \in {"format", "formatLock", "formatCopy", "formatEnd"}
  PROVE  /\ Formatting /\ pending = <<>> /\ Sane /\ len \in Nat
         /\ next \in {"run", "delete", "insert", "right", "left", "recall"}
<1>1. Working /\ Typed
  BY Phases DEF Counted
<1>2. Formatting /\ pending = <<>>
  BY <1>1 DEF Working, Moving, Inserting, Deleting, Running
<1>3. QED
  BY <1>1, <1>2, TypedIs DEF Counted, Typed

LEMMA CountedFormatScan ==
  ASSUME Typist, Counted, FormatScan
  PROVE  Counted'
<1>1. Typed'
  BY TypedFormat DEF Counted
<1>2. pc = "format"
  BY DEF FormatScan
<1>3. Formatting /\ pending = <<>> /\ Sane
  BY <1>2, FormatPhase
<1>4. buff[0] # NUL /\ Counts(Goal)
  BY <1>2, <1>3 DEF Formatting
<1>5. /\ UNCHANGED <<buff, read, write, lock, cursor, len, skip, key_flag, history, pending, next, ch>>
      /\ pc' = "formatLock" /\ tmp' = Format(buff)
  BY <1>4 DEF FormatScan, Keeps, line, shown
<1>6. tmp' \in Seq(Valid) /\ Len(tmp') = Goal /\ Goal <= LEN - RESERVED
  BY <1>4, <1>5, FormatIs DEF Counts
<1>7. Goal' = Goal
  BY <1>5 DEF Goal
<1>8. Formatting'
  BY <1>2, <1>3, <1>5, <1>6, <1>7 DEF Formatting
<1>9. Sane'
  BY <1>2, <1>3, <1>5, SaneOn DEF Sane, Recalls
<1>10. QED
  BY <1>1, <1>3, <1>5, <1>8, <1>9 DEF Counted, Working

LEMMA CountedFormatLock ==
  ASSUME Typist, Counted, FormatLock
  PROVE  Counted'
<1>1. Typed'
  BY TypedFormat DEF Counted
<1>2. pc = "formatLock"
  BY DEF FormatLock
<1>3. Formatting /\ pending = <<>> /\ Sane
  BY <1>2, FormatPhase
<1>4. /\ UNCHANGED <<buff, cursor, len, skip, key_flag, history, pending, next, ch, tmp>>
      /\ pc' = "formatCopy" /\ lock' = 0
  BY DEF FormatLock, Keeps, shown, Go
<1>5. Formatting'
  BY <1>2, <1>3, <1>4 DEF Formatting, Goal
<1>6. Sane'
  BY <1>2, <1>3, <1>4, SaneOn DEF Sane, Recalls
<1>7. QED
  BY <1>1, <1>3, <1>4, <1>5, <1>6 DEF Counted, Working

LEMMA CountedFormatCopy ==
  ASSUME Typist, Counted, FormatCopy
  PROVE  Counted'
<1>1. Typed'
  BY TypedFormat DEF Counted
<1>2. pc = "formatCopy"
  BY DEF FormatCopy
<1>3. Formatting /\ pending = <<>> /\ Sane
  BY <1>2, FormatPhase
<1>4. /\ UNCHANGED <<cursor, len, skip, key_flag, history, pending, next, ch, tmp>>
      /\ pc' = "formatEnd" /\ lock' = 1 /\ write' = Len(tmp)
      /\ buff' = [Put(Blank, 0, tmp) EXCEPT ![LEN] = buff[LEN]]
  BY DEF FormatCopy, Keeps, shown, Go, history
<1>5. tmp \in Seq(Valid) /\ Len(tmp) = Goal /\ Goal <= LEN - RESERVED
  BY <1>2, <1>3 DEF Formatting
<1>6. Formatted(buff', Goal) /\ buff'[LEN] = buff[LEN]
  <2>1. PICK c \in Characters \cup {NUL} : c = buff[LEN]
    BY TypedIs, Sizes DEF Counted, Buffers, Places
  <2>2. Formatted([Put(Blank, 0, tmp) EXCEPT ![LEN] = c], Len(tmp))
        /\ [Put(Blank, 0, tmp) EXCEPT ![LEN] = c][LEN] = c
    BY <1>5, <2>1, CopyLine
  <2>3. QED
    BY <1>4, <1>5, <2>1, <2>2
<1>7. Goal' = Goal
  BY <1>4 DEF Goal
<1>8. Formatting'
  BY <1>2, <1>3, <1>4, <1>5, <1>6, <1>7 DEF Formatting
<1>9. Sane'
  BY <1>2, <1>3, <1>4, SaneOn DEF Sane, Recalls
<1>10. QED
  BY <1>1, <1>3, <1>4, <1>8, <1>9 DEF Counted, Working

LEMMA CountedFormatEnd ==
  ASSUME Typist, Counted, FormatEnd
  PROVE  Counted'
<1>1. Typed'
  BY TypedFormat DEF Counted
<1>2. pc = "formatEnd"
  BY DEF FormatEnd
<1>3. Formatting /\ pending = <<>> /\ Sane /\ next \in {"run", "delete", "insert", "right", "left", "recall"}
  BY <1>2, FormatPhase
<1>4. /\ UNCHANGED <<buff, write, lock, cursor, len, skip, key_flag, history, pending, next, ch>>
      /\ pc' = next /\ read' = Len(tmp)
  BY DEF FormatEnd, Keeps, shown
<1>5. Len(tmp) = Goal /\ Formatted(buff, Goal) /\ write = Goal
  BY <1>2, <1>3 DEF Formatting
<1>6. Working'
  <2>1. CASE next = "run"
    BY <1>3, <1>4, <1>5, <2>1 DEF Working, Running, Goal
  <2>2. CASE next = "recall"
    BY <1>3, <1>4, <2>2 DEF Working, Running
  <2>3. CASE next \in {"left", "right"}
    <3>1. Whole(buff, len) /\ write = len /\ read' = len
      BY <1>3, <1>4, <1>5, <2>3 DEF Formatting, Whole, Goal
    <3>2. Moving'
      BY <1>4, <2>3, <3>1 DEF Moving, LineIs
    <3>3. QED
      BY <1>3, <1>4, <3>2 DEF Working
  <2>4. CASE next = "insert"
    <3>1. Whole(buff, len + 1) /\ write = len + 1 /\ read' = len + 1
      BY <1>3, <1>4, <1>5, <2>4 DEF Formatting, Whole, Goal
    <3>2. cursor < len /\ ch \in Valid
      BY <1>3, <2>4 DEF Formatting
    <3>3. Inserting'
      BY <1>4, <2>4, <3>1, <3>2 DEF Inserting, LineIs
    <3>4. QED
      BY <1>3, <1>4, <3>3 DEF Working
  <2>5. CASE next = "delete"
    <3>1. Whole(buff, len) /\ write = len /\ read' = len
      BY <1>3, <1>4, <1>5, <2>5 DEF Formatting, Whole, Goal
    <3>2. cursor > 0
      BY <1>3, <2>5 DEF Formatting
    <3>3. Deleting'
      BY <1>4, <2>5, <3>1, <3>2 DEF Deleting, LineIs
    <3>4. QED
      BY <1>3, <1>4, <3>3 DEF Working
  <2>6. QED
    BY <1>3, <2>1, <2>2, <2>3, <2>4, <2>5
<1>7. Sane'
  <2>1. lock = 1 /\ ~ skip /\ cursor <= len
    BY <1>2, <1>3 DEF Sane
  <2>2. pc \notin Recalls /\ pc' \notin Recalls \cup {"formatCopy", "deleteCopy", "recallCopy"}
    BY <1>2, <1>3, <1>4 DEF Recalls
  <2>3. QED
    BY <1>3, <1>4, <2>1, <2>2, SaneOn
<1>8. QED
  BY <1>1, <1>6, <1>7 DEF Counted

----------------------------------------------------------------------------
(* The task moves the cursor, inserts and deletes.                         *)

\* Between two keys the buffer is the line and the pointers are at its end.
LEMMA WholeRests ==
  ASSUME Typist, NEW b \in Buffers, NEW n, Whole(b, n)
  PROVE  /\ n \in Nat /\ n <= LEN - RESERVED
         /\ Filled(b, n) /\ NoBracket(b, n) /\ Len(Format(b)) = n
<1>1. n \in Nat /\ n <= LEN - RESERVED /\ n \in 0..LEN + 1
  BY Sizes DEF Whole, Formatted, RESERVED
<1>2. Filled(b, n)
  <2>1. SUFFICES ASSUME NEW i \in Places PROVE b[i] = NUL <=> i >= n
    BY <1>1 DEF Filled
  <2>2. CASE i < n
    BY <1>1, <2>2, Distinct DEF Whole, Formatted, Places
  <2>3. CASE i >= n
    <3>1. i < LEN \/ i = LEN
      BY Sizes DEF Places
    <3>2. b[i] = NUL
      BY <2>3, <3>1 DEF Whole, Formatted
    <3>3. QED
      BY <2>3, <3>2
  <2>4. QED
    BY <1>1, <2>2, <2>3 DEF Places
<1>3. NoBracket(b, n)
  BY Distinct DEF Whole, Formatted, NoBracket
<1>4. Len(Format(b)) = n
  BY FormatLine, ContentIs DEF Whole
<1>5. QED
  BY <1>1, <1>2, <1>3, <1>4

LEMMA LineRests ==
  ASSUME Typist, NEW b \in Buffers, NEW n, Whole(b, n), buff' = b, write' = n, read' = n, len' = n,
         pc' = "idle", pending' = <<>>
  PROVE  Resting'
<1>1. n \in Nat /\ n <= LEN - RESERVED /\ Filled(b, n) /\ NoBracket(b, n) /\ Len(Format(b)) = n
  BY WholeRests
<1>2. Stored' /\ Counts(len)' /\ read' = write' /\ len' <= write'
  BY <1>1 DEF Stored, Counts
<1>3. ~ (write' > LEN - RESERVED)
  BY <1>1, Sizes DEF RESERVED
<1>4. QED
  BY <1>2, <1>3 DEF Resting, Settled

LEMMA WorkPhase ==
  ASSUME Counted
  PROVE  /\ pc \in {"left", "right"} => Moving
         /\ pc \in {"insert", "insertCopy", "insertEnd"} => Inserting
         /\ pc \in {"delete", "deleteLock", "deleteCopy", "deleteEnd"} => Deleting
         /\ pc \in {"run", "recall", "clear", "rewind", "recallLock", "recallCopy", "recallEnd"} => Running
         /\ pc \notin {"idle", "escape", "direction"} => pending = <<>>
         /\ Sane /\ Typed /\ cursor \in Nat /\ len \in Nat /\ cursor <= len /\ ~ skip /\ buff \in Buffers
<1>1. pc \notin {"idle", "escape", "direction"} => Working
  BY Phases
<1>2. Sane /\ Typed /\ cursor \in Nat /\ len \in Nat /\ cursor <= len /\ ~ skip /\ buff \in Buffers
  BY TypedIs DEF Counted, Sane
<1>3. QED
  BY <1>1, <1>2 DEF Working, Formatting, Moving, Inserting, Deleting, Running

LEMMA CountedMove ==
  ASSUME Typist, Counted, MoveRight \/ MoveLeft
  PROVE  Counted'
<1>1. Typed'
  BY TypedEdit DEF Counted
<1>2. pc \in {"left", "right"} /\ pc' = "idle"
      /\ UNCHANGED <<buff, read, write, lock, len, skip, key_flag, history, pending>>
  BY DEF MoveRight, MoveLeft, Go, line, Keeps
<1>3. Moving /\ pending = <<>> /\ Sane /\ cursor \in Nat /\ len \in Nat /\ cursor <= len /\ ~ skip
      /\ buff \in Buffers
  BY <1>2, WorkPhase
<1>4. Resting'
  BY <1>2, <1>3, LineRests DEF Moving, LineIs
<1>5. cursor' <= len'
  BY <1>2, <1>3 DEF MoveRight, MoveLeft
<1>6. Sane'
  BY <1>2, <1>3, <1>5, SaneOn DEF Sane, Recalls
<1>7. QED
  BY <1>1, <1>4, <1>6 DEF Counted

LEMMA CountedInsertSave ==
  ASSUME Typist, Counted, InsertSave
  PROVE  Counted'
<1>1. Typed'
  BY TypedEdit DEF Counted
<1>2. pc = "insert" /\ pc' = "insertCopy"
      /\ UNCHANGED <<buff, read, write, lock, cursor, len, skip, key_flag, history, pending, ch>>
  BY DEF InsertSave, line, shown, Keeps
<1>3. Inserting /\ pending = <<>> /\ Sane /\ cursor \in Nat /\ len \in Nat /\ buff \in Buffers
  BY <1>2, WorkPhase
<1>4. cursor < len /\ Formatted(buff, len + 1) /\ cursor \in 0..len + 1
  BY <1>3 DEF Inserting, LineIs, Whole
<1>5. PICK s \in Seq(Valid) : s = Str(buff, cursor) /\ Len(s) = len + 1 - cursor
  BY <1>3, <1>4, StrLine
<1>6. tmp' = SubSeq(s, 1, len - cursor)
  <2>1. ~ (Len(s) < len - cursor)
    BY <1>3, <1>5
  <2>2. QED
    BY <1>5, <2>1 DEF InsertSave
<1>7. tmp' \in Seq(Valid) /\ Len(tmp') = len - cursor
  <2>1. PICK m \in Nat : m = len - cursor /\ m <= Len(s)
    BY <1>3, <1>4, <1>5
  <2>2. QED
    BY <1>6, <2>1
<1>8. Rest'
  BY <1>2, <1>7 DEF Rest
<1>9. Inserting'
  BY <1>2, <1>3, <1>8 DEF Inserting, LineIs
<1>10. Sane'
  BY <1>2, <1>3, SaneOn DEF Sane, Recalls
<1>11. QED
  BY <1>1, <1>2, <1>3, <1>9, <1>10 DEF Counted, Working

LEMMA CountedInsertCopy ==
  ASSUME Typist, Counted, InsertCopy
  PROVE  Counted'
<1>1. Typed'
  BY TypedEdit DEF Counted
<1>2. pc = "insertCopy" /\ pc' = "insertEnd" /\ buff' = PutStr(buff, cursor, <<ch>> \o tmp)
      /\ UNCHANGED <<read, write, lock, cursor, len, skip, key_flag, history, pending, ch, tmp>>
  BY DEF InsertCopy, shown, Keeps, Go, history
<1>3. Inserting /\ pending = <<>> /\ Sane /\ cursor \in Nat /\ len \in Nat /\ buff \in Buffers
  BY <1>2, WorkPhase
<1>4. cursor < len /\ Whole(buff, len + 1) /\ ch \in Valid /\ tmp \in Seq(Valid) /\ Len(tmp) = len - cursor
  BY <1>2, <1>3 DEF Inserting, LineIs, Rest
<1>5. PICK s \in Seq(Valid) : s = <<ch>> \o tmp /\ Len(s) = 1 + (len - cursor)
  <2>1. <<ch>> \in Seq(Valid) /\ Len(<<ch>>) = 1
    BY <1>4
  <2>2. <<ch>> \o tmp \in Seq(Valid) /\ Len(<<ch>> \o tmp) = Len(<<ch>>) + Len(tmp)
    BY <1>4, <2>1, ConcatProperties
  <2>3. QED
    BY <1>4, <2>1, <2>2
<1>6. cursor + Len(s) = len + 1 /\ len + 1 <= LEN - RESERVED /\ cursor \in 0..len + 1
  BY <1>3, <1>4, <1>5, Sizes DEF Whole, Formatted, RESERVED
<1>7. Whole(buff', len + 1)
  <2>1. PICK n \in Nat : n = len + 1 /\ Whole(buff, n)
    BY <1>3, <1>4
  <2>2. PICK at \in 0..n : at = cursor /\ at + Len(s) = n /\ at + Len(s) <= LEN - RESERVED
    BY <1>6, <2>1
  <2>3. n <= at + Len(s) + 1
    BY <2>1, <2>2
  <2>4. Whole(PutStr(buff, at, s), at + Len(s))
    BY <1>3, <1>5, <2>1, <2>2, <2>3, PutLine
  <2>5. QED
    BY <1>2, <1>5, <2>1, <2>2, <2>4
<1>8. Inserting'
  BY <1>2, <1>3, <1>7 DEF Inserting, LineIs, Rest
<1>9. Sane'
  BY <1>2, <1>3, SaneOn DEF Sane, Recalls
<1>10. QED
  BY <1>1, <1>2, <1>3, <1>8, <1>9 DEF Counted, Working

LEMMA CountedInsertEnd ==
  ASSUME Typist, Counted, InsertEnd
  PROVE  Counted'
<1>1. Typed'
  BY TypedEdit DEF Counted
<1>2. pc = "insertEnd" /\ pc' = "idle" /\ cursor' = LeftBy(Len(Str(buff, 0)), Len(tmp)) /\ len' = len + 1
      /\ UNCHANGED <<buff, read, write, lock, skip, key_flag, history, pending>>
  BY DEF InsertEnd, line, Keeps, Done
<1>3. Inserting /\ pending = <<>> /\ Sane /\ cursor \in Nat /\ len \in Nat /\ buff \in Buffers
  BY <1>2, WorkPhase
<1>4. cursor < len /\ Whole(buff, len + 1) /\ write = len + 1 /\ read = len + 1 /\ Len(tmp) = len - cursor
  BY <1>2, <1>3 DEF Inserting, LineIs, Rest
<1>5. Resting'
  BY <1>2, <1>3, <1>4, LineRests
<1>6. Len(Str(buff, 0)) = len + 1
  BY <1>3, <1>4, StrLine DEF Whole
<1>7. cursor' <= len'
  BY <1>2, <1>3, <1>4, <1>6 DEF LeftBy
<1>8. Sane'
  BY <1>2, <1>3, <1>7, SaneOn DEF Sane, Recalls
<1>9. QED
  BY <1>1, <1>5, <1>8 DEF Counted

LEMMA CountedDeleteSave ==
  ASSUME Typist, Counted, DeleteSave
  PROVE  Counted'
<1>1. Typed'
  BY TypedDelete DEF Counted
<1>2. pc = "delete" /\ pc' = "deleteLock" /\ tmp' = Str(buff, cursor)
      /\ UNCHANGED <<buff, read, write, lock, cursor, len, skip, key_flag, history, pending>>
  BY DEF DeleteSave, line, shown, Keeps
<1>3. Deleting /\ pending = <<>> /\ Sane /\ cursor \in Nat /\ len \in Nat /\ cursor <= len /\ buff \in Buffers
  BY <1>2, WorkPhase
<1>4. Formatted(buff, len) /\ cursor \in 0..len
  BY <1>2, <1>3 DEF Deleting, LineIs, Whole
<1>5. tmp' \in Seq(Valid) /\ Len(tmp') = len - cursor
  BY <1>2, <1>3, <1>4, StrLine
<1>6. Deleting'
  BY <1>2, <1>3, <1>5 DEF Deleting, LineIs, Rest
<1>7. Sane'
  BY <1>2, <1>3, SaneOn DEF Sane, Recalls
<1>8. QED
  BY <1>1, <1>2, <1>3, <1>6, <1>7 DEF Counted, Working

LEMMA CountedDeleteLock ==
  ASSUME Typist, Counted, DeleteLock
  PROVE  Counted'
<1>1. Typed'
  BY TypedDelete DEF Counted
<1>2. pc = "deleteLock" /\ pc' = "deleteCopy" /\ lock' = 0
      /\ UNCHANGED <<buff, read, write, cursor, len, skip, key_flag, history, pending, tmp>>
  BY DEF DeleteLock, shown, Keeps, Go
<1>3. Deleting /\ pending = <<>> /\ Sane
  BY <1>2, WorkPhase
<1>4. Deleting'
  BY <1>2, <1>3 DEF Deleting, LineIs, Rest
<1>5. Sane'
  BY <1>2, <1>3, SaneOn DEF Sane, Recalls
<1>6. QED
  BY <1>1, <1>2, <1>3, <1>4, <1>5 DEF Counted, Working

LEMMA CountedDeleteCopy ==
  ASSUME Typist, Counted, DeleteCopy
  PROVE  Counted'
<1>1. Typed'
  BY TypedDelete DEF Counted
<1>2. pc = "deleteCopy" /\ pc' = "deleteEnd" /\ lock' = 1 /\ write' = write - 1
      /\ buff' = PutStr(buff, cursor - 1, tmp)
      /\ UNCHANGED <<read, cursor, len, skip, key_flag, history, pending, tmp>>
  BY DEF DeleteCopy, shown, Keeps, Go, history
<1>3. Deleting /\ pending = <<>> /\ Sane /\ cursor \in Nat /\ len \in Nat /\ cursor <= len /\ buff \in Buffers
  BY <1>2, WorkPhase
<1>4. Whole(buff, len) /\ write = len /\ read = len /\ cursor > 0 /\ tmp \in Seq(Valid)
      /\ Len(tmp) = len - cursor
  BY <1>2, <1>3 DEF Deleting, LineIs, Rest
<1>5. PICK at \in 0..len : at = cursor - 1 /\ at + Len(tmp) = len - 1
  BY <1>3, <1>4
<1>6. len - 1 <= LEN - RESERVED /\ len <= len - 1 + 1
  BY <1>3, <1>4, Sizes DEF Whole, Formatted, RESERVED
<1>7. Whole(PutStr(buff, at, tmp), at + Len(tmp))
  BY <1>3, <1>4, <1>5, <1>6, PutLine
<1>8. Whole(buff', len - 1)
  BY <1>2, <1>5, <1>7
<1>9. Deleting'
  BY <1>2, <1>4, <1>8 DEF Deleting, LineIs, Rest
<1>10. Sane'
  BY <1>2, <1>3, SaneOn DEF Sane, Recalls
<1>11. QED
  BY <1>1, <1>2, <1>3, <1>9, <1>10 DEF Counted, Working

LEMMA CountedDeleteEnd ==
  ASSUME Typist, Counted, DeleteEnd
  PROVE  Counted'
<1>1. Typed'
  BY TypedDelete DEF Counted
<1>2. pc = "deleteEnd" /\ pc' = "idle" /\ read' = read - 1 /\ len' = Len(Str(buff, 0))
      /\ cursor' = LeftBy(len', Len(tmp))
      /\ UNCHANGED <<buff, write, lock, skip, key_flag, history, pending>>
  BY DEF DeleteEnd, Keeps, Done
<1>3. Deleting /\ pending = <<>> /\ Sane /\ cursor \in Nat /\ len \in Nat /\ cursor <= len /\ buff \in Buffers
  BY <1>2, WorkPhase
<1>4. Whole(buff, len - 1) /\ write = len - 1 /\ read = len /\ cursor > 0 /\ Len(tmp) = len - cursor
  BY <1>2, <1>3 DEF Deleting, LineIs, Rest
<1>5. PICK n \in Nat : n = len - 1
  BY <1>3, <1>4
<1>6. Len(Str(buff, 0)) = n
  BY <1>3, <1>4, <1>5, StrLine DEF Whole
<1>7. Resting'
  BY <1>2, <1>3, <1>4, <1>5, <1>6, LineRests
<1>8. cursor' <= len'
  BY <1>2, <1>3, <1>4, <1>5, <1>6 DEF LeftBy
<1>9. Sane'
  BY <1>2, <1>3, <1>8, SaneOn DEF Sane, Recalls
<1>10. QED
  BY <1>1, <1>7, <1>9 DEF Counted

----------------------------------------------------------------------------
(* The task runs a line, or recalls one.                                   *)

LEMMA BlankIs ==
  ASSUME Typist
  PROVE  Blank \in Buffers /\ Whole(Blank, 0)
BY Sizes DEF Blank, Buffers, Places, Whole, Formatted, RESERVED

\* The line is the history's newest entry.
LEMMA HistorySaved ==
  ASSUME Typist, Counted, Run, buff[0] # NUL
  PROVE  HistoryKept'
<1>1. pc = "run" /\ pc' = "clear" /\ hist' = [hist EXCEPT ![hwrite] = Str(buff, 0)]
      /\ hread' = hwrite + 1 /\ hwrite' = (hwrite + 1) % HIST /\ full' = (full \/ hwrite + 1 >= HIST)
  BY DEF Run
<1>2. Running /\ Sane /\ Typed /\ buff \in Buffers /\ len \in Nat
  BY <1>1, WorkPhase
<1>3. hwrite \in 0..HIST - 1 /\ HIST \in Nat /\ HIST > 0 /\ hist \in [0..HIST - 1 -> Texts]
  BY <1>2, TypedIs, Sizes DEF Typed
<1>4. Formatted(buff, len) /\ len <= LEN - RESERVED
  BY <1>1, <1>2, Sizes DEF Running, Formatted, RESERVED
<1>5. Str(buff, 0) \in Seq(Valid) /\ Len(Str(buff, 0)) = len - 0
  <2>1. 0 \in 0..len
    BY <1>2
  <2>2. QED
    BY <1>2, <1>4, <2>1, StrLine
<1>6. \A h \in 0..HIST - 1 : hist'[h] \in Seq(Valid) /\ Len(hist'[h]) <= LEN - RESERVED
  <2>1. SUFFICES ASSUME NEW h \in 0..HIST - 1
                 PROVE hist'[h] \in Seq(Valid) /\ Len(hist'[h]) <= LEN - RESERVED
    OBVIOUS
  <2>2. CASE h = hwrite
    <3>1. hist'[h] = Str(buff, 0)
      BY <1>1, <1>3, <2>2
    <3>2. QED
      BY <1>2, <1>4, <1>5, <3>1
  <2>3. CASE h # hwrite
    <3>1. hist'[h] = hist[h]
      BY <1>1, <1>3, <2>3
    <3>2. QED
      BY <1>2, <3>1 DEF Sane, HistoryKept
  <2>4. QED
    BY <2>2, <2>3
<1>7. hread' > 0
  BY <1>1, <1>3
<1>8. Entries' > 0
  <2>1. CASE full'
    BY <1>3, <2>1 DEF Entries
  <2>2. CASE ~ full'
    <3>0. ~ (hwrite + 1 >= HIST)
      BY <1>1, <2>2, Zenon
    <3>1. hwrite + 1 \in 1..HIST - 1
      BY <1>3, <3>0
    <3>2. hwrite' = hwrite + 1
      BY <1>1, <1>3, <3>1
    <3>3. QED
      BY <1>3, <2>2, <3>2 DEF Entries
  <2>3. QED
    BY <2>1, <2>2
<1>9. QED
  BY <1>1, <1>6, <1>7, <1>8 DEF HistoryKept

LEMMA CountedRun ==
  ASSUME Typist, Counted, Run
  PROVE  Counted'
<1>1. Typed'
  BY TypedRun DEF Counted
<1>2. pc = "run" /\ pc' = "clear" /\ UNCHANGED <<buff, read, write, lock, cursor, len, skip, key_flag, pending>>
  BY DEF Run, line, shown, Keeps
<1>3. Sane /\ pending = <<>>
  BY <1>2, WorkPhase
<1>4. HistoryKept'
  <2>1. CASE buff[0] = NUL
    <3>1. UNCHANGED history
      BY <2>1 DEF Run
    <3>2. QED
      BY <1>2, <1>3, <3>1, HistoryStays DEF Sane, Recalls
  <2>2. QED
    BY <2>1, HistorySaved
<1>5. Sane'
  BY <1>2, <1>3, <1>4 DEF Sane
<1>6. Working'
  BY <1>2, <1>3 DEF Working, Running
<1>7. QED
  BY <1>1, <1>5, <1>6 DEF Counted

LEMMA CountedRecall ==
  ASSUME Typist, Counted, Recall
  PROVE  Counted'
<1>1. Typed'
  BY TypedRun DEF Counted
<1>2. pc = "recall" /\ pc' = "clear" /\ UNCHANGED <<lock, cursor, len, skip, key_flag, pending, history>>
  BY DEF Recall, line, shown, Keeps
<1>3. Sane /\ pending = <<>>
  BY <1>2, WorkPhase
<1>4. Sane'
  BY <1>2, <1>3, SaneOn DEF Sane, Recalls
<1>5. Working'
  BY <1>2, <1>3 DEF Working, Running
<1>6. QED
  BY <1>1, <1>4, <1>5 DEF Counted

LEMMA CountedClear ==
  ASSUME Typist, Counted, Clear
  PROVE  Counted'
<1>1. Typed'
  BY TypedRun DEF Counted
<1>2. pc = "clear" /\ pc' = "rewind" /\ buff' = Blank
      /\ UNCHANGED <<lock, cursor, len, skip, key_flag, pending, history>>
  BY DEF Clear, shown, Keeps, Go
<1>3. Sane /\ pending = <<>>
  BY <1>2, WorkPhase
<1>4. Sane'
  BY <1>2, <1>3, SaneOn DEF Sane, Recalls
<1>5. Working'
  BY <1>2, <1>3 DEF Working, Running
<1>6. QED
  BY <1>1, <1>4, <1>5 DEF Counted

LEMMA CountedRewind ==
  ASSUME Typist, Counted, Rewind
  PROVE  Counted'
<1>1. Typed'
  BY TypedRun DEF Counted
<1>2. /\ pc = "rewind" /\ pc' = next /\ read' = 0 /\ write' = 0 /\ cursor' = 0 /\ len' = 0 /\ skip' = FALSE
      /\ UNCHANGED <<buff, lock, key_flag, pending, history>>
  BY DEF Rewind, Keeps
<1>3. Running /\ Sane /\ pending = <<>> /\ Typed
  BY <1>2, WorkPhase
<1>4. buff = Blank /\ next \in {"idle", "recallLock"}
  BY <1>2, <1>3 DEF Running, Typed
<1>5. Sane'
  BY <1>2, <1>3, <1>4, SaneOn DEF Sane, Recalls
<1>6. CASE next = "idle"
  <2>1. Resting'
    BY <1>2, <1>3, <1>4, <1>6, BlankIs, LineRests
  <2>2. QED
    BY <1>1, <1>5, <2>1 DEF Counted
<1>7. CASE next = "recallLock"
  <2>1. Working'
    BY <1>2, <1>3, <1>4, <1>7 DEF Working, Running
  <2>2. QED
    BY <1>1, <1>5, <2>1 DEF Counted
<1>8. QED
  BY <1>4, <1>6, <1>7

LEMMA CountedRecallLock ==
  ASSUME Typist, Counted, RecallLock
  PROVE  Counted'
<1>1. Typed'
  BY TypedRun DEF Counted
<1>2. /\ pc = "recallLock" /\ pc' = "recallCopy" /\ lock' = 0
      /\ UNCHANGED <<buff, read, write, cursor, len, skip, key_flag, pending, hist, hwrite, full>>
  BY DEF RecallLock, Keeps, Go, shown
<1>3. Running /\ Sane /\ pending = <<>> /\ Typed
  BY <1>2, WorkPhase
<1>4. Working'
  BY <1>2, <1>3 DEF Working, Running
<1>5. HistoryKept'
  <2>1. hread > 0
    BY <1>2, <1>3 DEF Typed
  <2>2. Entries > 0
    BY <1>2, <1>3, <2>1 DEF Sane, HistoryKept
  <2>3. QED
    BY <1>2, <1>3, <2>2 DEF Sane, HistoryKept, Entries
<1>6. Sane'
  BY <1>2, <1>3, <1>5 DEF Sane
<1>7. QED
  BY <1>1, <1>4, <1>6 DEF Counted

LEMMA CountedRecallCopy ==
  ASSUME Typist, Counted, RecallCopy
  PROVE  Counted'
<1>1. Typed'
  BY TypedRun DEF Counted
<1>2. /\ pc = "recallCopy" /\ pc' = "recallEnd" /\ lock' = 1
      /\ buff' = Put(buff, 0, hist[hread]) /\ write' = Len(Str(buff', 0))
      /\ UNCHANGED <<read, cursor, len, skip, key_flag, pending, hist, hwrite, hread, full>>
  BY DEF RecallCopy, Keeps, Go, shown, history
<1>3. Running /\ Sane /\ pending = <<>> /\ Typed
  BY <1>2, WorkPhase
<1>4. buff = Blank
  BY <1>2, <1>3 DEF Running
<1>5. PICK s \in Seq(Valid) : s = hist[hread] /\ Len(s) <= LEN - RESERVED
  <2>1. hread \in 0..HIST - 1
    BY <1>2, <1>3, TypedIs, Sizes DEF Typed
  <2>2. QED
    BY <1>3, <2>1 DEF Sane, HistoryKept
<1>6. Whole(buff', Len(s))
  BY <1>2, <1>4, <1>5, CopyLine
<1>7. Len(Str(buff', 0)) = Len(s)
  <2>1. PICK b \in Buffers : b = buff'
    BY <1>1, TypedIs DEF Typed, TypeOK, Buffers, Places
  <2>2. 0 \in 0..Len(s) /\ Formatted(b, Len(s))
    BY <1>5, <1>6, <2>1 DEF Whole
  <2>3. Len(Str(b, 0)) = Len(s) - 0
    BY <2>2, StrLine
  <2>4. QED
    BY <1>5, <2>1, <2>3
<1>8. Working'
  BY <1>2, <1>3, <1>6, <1>7 DEF Working, Running, LineIs
<1>9. HistoryKept'
  BY <1>2, <1>3 DEF Sane, HistoryKept, Entries
<1>10. Sane'
  BY <1>2, <1>3, <1>9 DEF Sane
<1>11. QED
  BY <1>1, <1>8, <1>10 DEF Counted

LEMMA CountedRecallEnd ==
  ASSUME Typist, Counted, RecallEnd
  PROVE  Counted'
<1>1. Typed'
  BY TypedRun DEF Counted
<1>2. /\ pc = "recallEnd" /\ pc' = "idle" /\ read' = Len(Str(buff, 0)) /\ len' = read' /\ cursor' = read'
      /\ hread' = IF hread = 0 THEN Entries ELSE hread
      /\ UNCHANGED <<buff, write, lock, skip, key_flag, pending, hist, hwrite, full>>
  BY DEF RecallEnd, Keeps, Done
<1>3. Running /\ Sane /\ pending = <<>> /\ Typed /\ buff \in Buffers
  BY <1>2, WorkPhase
<1>4. Whole(buff, write) /\ write \in Nat
  BY <1>2, <1>3, WholeRests DEF Running, LineIs
<1>5. Len(Str(buff, 0)) = write - 0
  <2>1. 0 \in 0..write
    BY <1>4
  <2>2. QED
    BY <1>3, <1>4, <2>1, StrLine DEF Whole
<1>6. read' = write /\ len' = write /\ cursor' = write
  BY <1>2, <1>4, <1>5
<1>7. Resting'
  BY <1>2, <1>3, <1>4, <1>6, LineRests
<1>8. HistoryKept'
  <2>1. hread \in 0..HIST /\ Entries > 0
    BY <1>2, <1>3, TypedIs DEF Sane, HistoryKept
  <2>2. hread' > 0
    BY <1>2, <2>1
  <2>3. Entries' = Entries
    BY <1>2 DEF Entries
  <2>4. QED
    BY <1>2, <1>3, <2>1, <2>2, <2>3 DEF Sane, HistoryKept
<1>9. Sane'
  BY <1>2, <1>3, <1>4, <1>6, <1>8 DEF Sane
<1>10. QED
  BY <1>1, <1>7, <1>9 DEF Counted

LEMMA CountedNext ==
  ASSUME Typist, Counted, [Next]_vars
  PROVE  Counted'
<1>1. CASE UNCHANGED vars
  <2>1. UNCHANGED <<buff, read, write, lock, cursor, len, skip, key_flag, hist, hwrite, hread, full,
                  pc, next, ch, tmp, pending>>
    BY <1>1 DEF vars, line, shown, history, local
  <2>2. Typed'
    BY <1>1, TypedNext DEF Counted
  <2>3. Sane'
    BY <2>1 DEF Counted, Sane, HistoryKept, Entries
  <2>4. Resting' \/ Pressed' \/ Unread' \/ Arriving' \/ Working'
    <3>1. Resting => Resting'
      BY <2>1 DEF Resting, Settled, Stored, Counts
    <3>2. Pressed => Pressed'
      BY <2>1 DEF Pressed, Settled, Stored, Counts
    <3>3. Unread => Unread'
      BY <2>1 DEF Unread, Stored, Counts
    <3>4. Arriving => Arriving'
      BY <2>1 DEF Arriving, Sent, Counts
    <3>5. Working => Working'
      BY <2>1 DEF Working, Formatting, Goal, Counts, Moving, Inserting, Deleting, Running, LineIs, Rest
    <3>6. QED
      BY <3>1, <3>2, <3>3, <3>4, <3>5 DEF Counted
  <2>5. QED
    BY <2>2, <2>3, <2>4 DEF Counted
<1>2. CASE \E k \in DOMAIN Chars : Press(k)
  BY <1>2, CountedPress
<1>3. CASE Uart
  BY <1>3, CountedUart
<1>4. CASE Event
  <2>1. CASE ReadEnter \/ ReadBackspace \/ ReadEscape \/ ReadChar \/ EscapeNext \/ DirectionNext \/ WaitEnds
    BY <2>1, CountedReadEnter, CountedReadBackspace, CountedReadEscape, CountedReadChar, CountedEscapeNext,
       CountedDirectionNext, CountedWaitEnds
  <2>2. CASE FormatScan \/ FormatLock \/ FormatCopy \/ FormatEnd
    BY <2>2, CountedFormatScan, CountedFormatLock, CountedFormatCopy, CountedFormatEnd
  <2>3. CASE MoveRight \/ MoveLeft \/ InsertSave \/ InsertCopy \/ InsertEnd
    BY <2>3, CountedMove, CountedInsertSave, CountedInsertCopy, CountedInsertEnd
  <2>4. CASE DeleteSave \/ DeleteLock \/ DeleteCopy \/ DeleteEnd
    BY <2>4, CountedDeleteSave, CountedDeleteLock, CountedDeleteCopy, CountedDeleteEnd
  <2>5. CASE Run \/ Recall \/ Clear \/ Rewind \/ RecallLock \/ RecallCopy \/ RecallEnd
    BY <2>5, CountedRun, CountedRecall, CountedClear, CountedRewind, CountedRecallLock, CountedRecallCopy,
       CountedRecallEnd
  <2>6. QED
    BY <1>4, <2>1, <2>2, <2>3, <2>4, <2>5 DEF Event
<1>5. QED
  BY <1>1, <1>2, <1>3, <1>4 DEF Next

----------------------------------------------------------------------------
\* On a terminal that is given time, with keys as on the run's instance, the editor's
\* count of the line is the number of characters the formatted buffer has
\* (terminal.c:166-209, 276-349), and the cursor is within it, whatever the keys
\* and however often the line is edited, run and recalled.
THEOREM LinesCounted ==
  ASSUME Typist
  PROVE  Spec => []LineCounted
<1>1. Init => Counted
  BY CountedInit
<1>2. Counted /\ [Next]_vars => Counted'
  BY CountedNext
<1>3. Counted => LineCounted
  <2>1. SUFFICES ASSUME Counted, Quiet PROVE len = Len(Format(buff)) /\ cursor <= len
    BY DEF LineCounted
  <2>2. Counts(len)
    BY <2>1, QuietRests DEF Resting, Settled
  <2>3. QED
    BY <2>1, <2>2 DEF Counts, Counted, Sane
<1>4. QED
  BY <1>1, <1>2, <1>3, PTL DEF Spec

----------------------------------------------------------------------------
(* What the editor shows of the history.                                   *)

Saved == [i \in 1..Entries |-> hist[(Newest - (i - 1)) % Entries]]
Back == IF Entries = 0 THEN 0 ELSE (Newest - (hread - 1)) % Entries
Spare == IF write > LEN THEN 0 ELSE LEN - write

LEMMA ViewIs ==
  /\ View.line = Format(buff) /\ View.cur = cursor /\ View.spare = Spare
  /\ View.saved = Saved /\ View.back = Back
BY DEF View, Saved, Back, Spare

\* A remainder that is at most one turn away.
LEMMA Wrap ==
  ASSUME NEW e \in Nat, e > 0, NEW a \in Int, -e <= a, a < 2 * e
  PROVE  a % e = IF a < 0 THEN a + e ELSE IF a < e THEN a ELSE a - e
<1>1. CASE a < 0
  BY <1>1
<1>2. CASE a >= 0 /\ a < e
  BY <1>2
<1>3. CASE a >= e
  BY <1>3
<1>4. QED
  BY <1>1, <1>2, <1>3

\* The entry i - 1 places before n, in a ring of e.
Slot(n, e, i) == IF i <= n + 1 THEN n - i + 1 ELSE n - i + 1 + e

LEMMA SlotIs ==
  ASSUME NEW e \in Nat, NEW n \in 0..e - 1, NEW i \in 1..e
  PROVE  (n - (i - 1)) % e = Slot(n, e, i) /\ Slot(n, e, i) \in 0..e - 1
<1>1. PICK a \in Int : a = n - (i - 1) /\ -e <= a /\ a < 2 * e /\ a < e /\ e > 0
  OBVIOUS
<1>2. a % e = IF a < 0 THEN a + e ELSE a
  BY <1>1, Wrap
<1>3. QED
  BY <1>1, <1>2 DEF Slot

LEMMA RingIs ==
  ASSUME Typed
  PROVE  /\ hwrite \in 0..HIST - 1 /\ HIST \in Nat /\ HIST > 0
         /\ Entries \in 0..HIST /\ (full => Entries = HIST) /\ (~ full => Entries = hwrite)
         /\ Entries > 0 => Newest \in 0..Entries - 1
         /\ Newest = IF hwrite = 0 THEN HIST - 1 ELSE hwrite - 1
BY TypedIs, Sizes DEF Entries, Newest

LEMMA SavedIs ==
  ASSUME Typed, HistoryKept
  PROVE  /\ Saved \in Seq(Seq(Valid)) /\ Len(Saved) = Entries
         /\ \A i \in 1..Entries : Saved[i] = hist[Slot(Newest, Entries, i)] /\ Len(Saved[i]) <= LEN - RESERVED
<1>1. PICK e \in Nat : e = Entries /\ e <= HIST /\ (e > 0 => Newest \in 0..e - 1)
  BY RingIs
<1>2. ASSUME NEW i \in 1..e
      PROVE  /\ Saved[i] = hist[Slot(Newest, e, i)]
             /\ hist[Slot(Newest, e, i)] \in Seq(Valid) /\ Len(hist[Slot(Newest, e, i)]) <= LEN - RESERVED
  <2>1. PICK n \in 0..e - 1 : n = Newest
    BY <1>1
  <2>2. (n - (i - 1)) % e = Slot(n, e, i) /\ Slot(n, e, i) \in 0..e - 1
    BY SlotIs
  <2>3. Slot(n, e, i) \in 0..HIST - 1
    BY <1>1, <2>2, RingIs
  <2>4. Saved[i] = hist[(Newest - (i - 1)) % e]
    BY <1>1 DEF Saved
  <2>5. QED
    BY <2>1, <2>2, <2>3, <2>4 DEF HistoryKept
<1>3. Saved = [i \in 1..e |-> Saved[i]]
  BY <1>1 DEF Saved
<1>4. PICK s : s = Saved
  OBVIOUS
<1>5. s = [i \in 1..e |-> s[i]] /\ \A i \in 1..e : s[i] \in Seq(Valid)
  BY <1>2, <1>3, <1>4
<1>6. s \in Seq(Seq(Valid)) /\ Len(s) = e
  <2>1. s \in [1..e -> Seq(Valid)]
    BY <1>5
  <2>2. QED
    BY <2>1
<1>7. QED
  BY <1>1, <1>2, <1>4, <1>6

\* What is seen of the history is what the variables of the ring say.
LEMMA HistoryUnmoved ==
  ASSUME UNCHANGED <<hist, hwrite, full>>
  PROVE  Saved' = Saved /\ Entries' = Entries /\ Newest' = Newest /\ (hread' = hread => Back' = Back)
BY DEF Saved, Entries, Newest, Back

LEMMA Prepended ==
  ASSUME NEW S, NEW x \in S, NEW b \in Seq(S)
  PROVE  /\ <<x>> \o b \in Seq(S) /\ Len(<<x>> \o b) = Len(b) + 1 /\ (<<x>> \o b)[1] = x
         /\ \A i \in 2..Len(b) + 1 : (<<x>> \o b)[i] = b[i - 1]
<1>0. <<x>> \in Seq(S) /\ Len(<<x>>) = 1 /\ <<x>>[1] = x
  OBVIOUS
<1>1. PICK a \in Seq(S) : a = <<x>> /\ Len(a) = 1 /\ a[1] = x
  BY <1>0
<1>2. a \o b \in Seq(S)
  BY ConcatProperties
<1>3. Len(a \o b) = Len(a) + Len(b)
  BY ConcatProperties
<1>4. \A i \in 1..Len(a) + Len(b) : (a \o b)[i] = IF i <= Len(a) THEN a[i] ELSE b[i - Len(a)]
  BY ConcatProperties
<1>5. QED
  BY <1>1, <1>2, <1>3, <1>4

\* An entry is the newest one, and the oldest is lost when the ring is full.
LEMMA Entering ==
  ASSUME Typed, HistoryKept, NEW s \in Seq(Valid),
         hist' = [hist EXCEPT ![hwrite] = s], hwrite' = (hwrite + 1) % HIST,
         full' = (full \/ hwrite + 1 >= HIST), hread' = hwrite + 1
  PROVE  /\ Saved' = SubSeq(<<s>> \o Saved, 1, IF Len(Saved) < HIST THEN Len(Saved) + 1 ELSE HIST)
         /\ Back' = 0 /\ hread' <= Entries'
<1>1. PICK w \in Nat, h \in Nat : w = hwrite /\ h = HIST /\ w < h
  BY RingIs
<1>2. PICK e \in 0..h : e = Entries
  BY <1>1, RingIs
<1>3. PICK d \in 1..h : d = (IF e < h THEN e + 1 ELSE h)
  BY <1>1
<1>4. hist \in [0..h - 1 -> Texts]
  BY <1>1 DEF Typed
<1>5. hwrite' = IF w + 1 = h THEN 0 ELSE w + 1
  BY <1>1
<1>6. Newest' = w
  BY <1>1, <1>5 DEF Newest
<1>7. Entries' = d
  <2>1. CASE full
    <3>1. full' /\ e = h
      BY <1>1, <1>2, <2>1, RingIs
    <3>2. QED
      BY <1>1, <1>3, <3>1 DEF Entries
  <2>2. CASE ~ full
    <3>1. e = w
      BY <1>1, <1>2, <2>2, RingIs
    <3>2. CASE w + 1 >= h
      <4>1. full'
        BY <1>1, <3>2
      <4>2. QED
        BY <1>1, <1>3, <3>1, <3>2, <4>1 DEF Entries
    <3>3. CASE ~ (w + 1 >= h)
      <4>1. ~ full'
        BY <1>1, <2>2, <3>3, Zenon
      <4>2. hwrite' = w + 1
        BY <1>1, <1>5, <3>3
      <4>3. QED
        BY <1>1, <1>3, <3>1, <4>1, <4>2 DEF Entries
    <3>4. QED
      BY <3>2, <3>3
  <2>3. QED
    BY <2>1, <2>2
<1>8. w < d
  <2>1. CASE full
    BY <1>1, <1>2, <1>3, <2>1, RingIs
  <2>2. CASE ~ full
    BY <1>1, <1>2, <1>3, <2>2, RingIs
  <2>3. QED
    BY <2>1, <2>2
<1>9. Saved \in Seq(Seq(Valid)) /\ Len(Saved) = e
      /\ \A i \in 1..e : Saved[i] = hist[Slot(Newest, e, i)]
  BY <1>2, SavedIs
<1>10. PICK q \in Seq(Seq(Valid)) : /\ q = <<s>> \o Saved /\ Len(q) = e + 1 /\ q[1] = s
                                   /\ \A i \in 2..e + 1 : q[i] = Saved[i - 1]
  <2>1. PICK S : S = Seq(Valid)
    OBVIOUS
  <2>2. s \in S /\ Saved \in Seq(S)
    BY <1>9, <2>1
  <2>3. /\ <<s>> \o Saved \in Seq(S) /\ Len(<<s>> \o Saved) = Len(Saved) + 1 /\ (<<s>> \o Saved)[1] = s
        /\ \A i \in 2..Len(Saved) + 1 : (<<s>> \o Saved)[i] = Saved[i - 1]
    BY <2>2, Prepended
  <2>4. QED
    BY <1>9, <2>1, <2>3
<1>11. ASSUME NEW i \in 1..d
       PROVE  hist'[(w - (i - 1)) % d] = q[i]
  <2>1. (w - (i - 1)) % d = Slot(w, d, i) /\ Slot(w, d, i) \in 0..d - 1
    BY <1>8, SlotIs
  <2>2. CASE i = 1
    <3>1. Slot(w, d, i) = w
      BY <2>2 DEF Slot
    <3>2. hist'[w] = s
      BY <1>1, <1>4
    <3>3. QED
      BY <1>10, <2>1, <2>2, <3>1, <3>2
  <2>3. CASE i # 1
    <3>1. PICK j \in 1..e : j = i - 1
      BY <1>3, <2>3
    <3>2. q[i] = hist[Slot(Newest, e, j)]
      BY <1>9, <1>10, <3>1
    <3>3. Slot(w, d, i) = Slot(Newest, e, j) /\ Slot(w, d, i) # w
      <4>1. Newest = IF w = 0 THEN h - 1 ELSE w - 1
        BY <1>1, RingIs
      <4>2. CASE full
        <5>1. e = h /\ d = h
          BY <1>1, <1>2, <1>3, <4>2, RingIs
        <5>2. QED
          BY <1>1, <3>1, <4>1, <5>1 DEF Slot
      <4>3. CASE ~ full
        <5>1. e = w /\ d = w + 1
          BY <1>1, <1>2, <1>3, <4>3, RingIs
        <5>2. QED
          BY <1>1, <3>1, <4>1, <5>1 DEF Slot
      <4>4. QED
        BY <4>2, <4>3
    <3>4. Slot(w, d, i) \in 0..h - 1
      BY <1>3, <2>1
    <3>5. hist'[Slot(w, d, i)] = hist[Slot(w, d, i)]
      BY <1>1, <1>4, <3>3, <3>4
    <3>6. QED
      BY <2>1, <3>2, <3>3, <3>5
  <2>4. QED
    BY <2>2, <2>3
<1>12. Saved' = [i \in 1..d |-> q[i]]
  <2>1. Saved' = [i \in 1..d |-> hist'[(w - (i - 1)) % d]]
    BY <1>6, <1>7 DEF Saved
  <2>2. QED
    BY <1>11, <2>1
<1>13. SubSeq(q, 1, d) = [i \in 1..d |-> q[i]]
  <2>1. d <= Len(q) /\ d \in Nat
    BY <1>3, <1>10
  <2>2. SubSeq(q, 1, d) \in Seq(Seq(Valid)) /\ Len(SubSeq(q, 1, d)) = d
        /\ \A i \in 1..d : SubSeq(q, 1, d)[i] = q[i]
    BY <1>10, <2>1
  <2>3. QED
    BY <2>2
<1>14. d = IF Len(Saved) < HIST THEN Len(Saved) + 1 ELSE HIST
  BY <1>1, <1>3, <1>9
<1>15. Back' = 0
  <2>1. Back' = (w - (w + 1 - 1)) % d
    BY <1>1, <1>6, <1>7 DEF Back
  <2>2. (w - (w + 1 - 1)) = 0 /\ 0 % d = 0
    BY <1>1, <1>3
  <2>3. QED
    BY <2>1, <2>2
<1>16. hread' <= Entries'
  BY <1>1, <1>7, <1>8
<1>17. QED
  BY <1>10, <1>12, <1>13, <1>14, <1>15, <1>16

\* Going back by one entry: hread counts down.

LEMMA GoingBack ==
  ASSUME Typed, HistoryKept, hread > 0, hread <= Entries
  PROVE  /\ Back + 1 \in 1..Entries /\ Back + 1 \in 1..Len(Saved)
         /\ Saved[Back + 1] = hist[hread - 1]
         /\ (Newest - (hread - 1 - 1)) % Entries = (Back + 1) % Len(Saved)
<1>1. PICK e \in Nat, n \in Nat, r \in Nat : e = Entries /\ n = Newest /\ r = hread - 1 /\ n < e /\ r < e
  BY RingIs, TypedIs
<1>2. Back = IF n < r THEN n - r + e ELSE n - r
  <2>1. PICK a \in Int : a = n - r /\ -e <= a /\ a < e /\ a < 2 * e /\ e > 0
    BY <1>1
  <2>2. a % e = IF a < 0 THEN a + e ELSE a
    BY <2>1, Wrap
  <2>3. QED
    BY <1>1, <2>1, <2>2 DEF Back
<1>3. PICK b \in 0..e - 1 : b = Back
  BY <1>1, <1>2
<1>4. Len(Saved) = e /\ \A i \in 1..e : Saved[i] = hist[Slot(n, e, i)]
  BY <1>1, SavedIs
<1>5. Slot(n, e, b + 1) = r
  BY <1>1, <1>2, <1>3 DEF Slot
<1>6. (n - (r - 1)) % e = (b + 1) % e
  <2>1. PICK a \in Int, c \in Int : a = n - (r - 1) /\ c = b + 1 /\ -e <= a /\ a < 2 * e /\ -e <= c
             /\ c < 2 * e /\ e > 0
    BY <1>1, <1>3
  <2>2. a % e = IF a < 0 THEN a + e ELSE IF a < e THEN a ELSE a - e
    BY <2>1, Wrap
  <2>3. c % e = IF c < 0 THEN c + e ELSE IF c < e THEN c ELSE c - e
    BY <2>1, Wrap
  <2>4. QED
    BY <1>1, <1>2, <1>3, <2>1, <2>2, <2>3
<1>7. b + 1 \in 1..e
  BY <1>3
<1>8. QED
  BY <1>1, <1>3, <1>4, <1>5, <1>6, <1>7

\* Behind the last one it starts over.
LEMMA StartingOver ==
  ASSUME Typed, Entries > 0
  PROVE  (Newest - (Entries - 1)) % Entries = (Newest - (0 - 1)) % Entries
<1>1. PICK e \in Nat, n \in Nat : e = Entries /\ n = Newest /\ n < e
  BY RingIs
<1>2. PICK a \in Int, c \in Int : a = n - (e - 1) /\ c = n + 1 /\ -e <= a /\ a < 2 * e /\ -e <= c
           /\ c < 2 * e /\ e > 0
  BY <1>1
<1>3. a % e = IF a < 0 THEN a + e ELSE IF a < e THEN a ELSE a - e
  BY <1>2, Wrap
<1>4. c % e = IF c < 0 THEN c + e ELSE IF c < e THEN c ELSE c - e
  BY <1>2, Wrap
<1>5. n - (0 - 1) = c
  BY <1>2
<1>6. QED
  BY <1>1, <1>2, <1>3, <1>4, <1>5

----------------------------------------------------------------------------
(* The editor's steps.                                                     *)

\* No key is called like another one, and only letters go into the line.
Distinguished ==
  /\ Letters \cap Editor!Control = {}
  /\ Others \cap (Editor!Control \cup Valid \cup {BS, CR}) = {}
  /\ Editor!NoKey \notin Letters \cup Others

\* A step of the terminal is one of the editor or changes nothing that is seen.
Implements == [Editor!Next]_(Editor!vars)

\* Nothing is seen of a step of the terminal in the middle of a key.
LEMMA NothingSeen ==
  ASSUME ~ Quiet, ~ Quiet', UNCHANGED <<seen, key>>
  PROVE  Implements
BY DEF Implements, Editor!vars, Shown

\* A key that is pressed is seen.
LEMMA PressSeen ==
  ASSUME Quiet, ~ Quiet', NEW k \in DOMAIN Chars, key' = k, seen' = View
  PROVE  Implements
<1>1. k \in Letters \cup Others \cup Editor!Control
  BY TerminalAssumption DEF Chars, Editor!Control
<1>2. Shown' = Shown
  BY DEF Shown
<1>3. Editor!Press(k)
  BY <1>2 DEF Editor!Press, Editor!NoKey
<1>4. QED
  BY <1>1, <1>3 DEF Editor!Next, Implements

\* The terminal comes to rest with the key's effect on the line.
Rests(l, c, s, b) ==
  /\ ~ Quiet /\ Quiet'
  /\ Format(buff') = l /\ cursor' = c /\ Saved' = s /\ Back' = b

LEMMA RestsIs ==
  ASSUME Counted', NEW l, NEW c, NEW s, NEW b, Rests(l, c, s, b)
  PROVE  /\ Shown = seen /\ Shown'.line = l /\ Shown'.cur = c /\ Shown'.saved = s /\ Shown'.back = b
         /\ Editor!Handled
<1>1. Shown = seen /\ Shown' = View'
  BY DEF Rests, Shown
<1>2. View'.line = l /\ View'.cur = c /\ View'.saved = s /\ View'.back = b
  BY DEF Rests, View, Saved, Back
<1>3. write' \in -1..LEN + 2 /\ pc' = "idle"
  BY DEF Rests, Quiet, Counted, Typed, TypeOK
<1>4. View'.spare \in 0..LEN
  <2>1. Filled(buff', write')
    <3>1. ~ Working'
      BY <1>3 DEF Working, Formatting, Moving, Inserting, Deleting, Running
    <3>2. QED
      BY <3>1 DEF Counted, Resting, Pressed, Unread, Arriving, Settled, Stored, Sent
  <2>2. View'.spare = IF write' > LEN THEN 0 ELSE LEN - write'
    BY DEF View
  <2>3. PICK w \in 0..LEN + 1 : w = write'
    BY <2>1 DEF Filled
  <2>4. (IF w > LEN THEN 0 ELSE LEN - w) \in 0..LEN
    BY Sizes
  <2>5. QED
    BY <2>2, <2>3, <2>4
<1>5. Editor!Handled
  BY <1>1, <1>4 DEF Editor!Handled, Editor!NoKey, Rests
<1>6. QED
  BY <1>1, <1>2, <1>5

\* How the line is cut at the cursor.
Before(p) == SubSeq(seen.line, 1, p)
After(p) == SubSeq(seen.line, p + 1, Len(seen.line))

LEMMA Inserts ==
  ASSUME Counted', key \in Letters, NEW n \in Nat, n = seen.cur,
         Rests(Before(n) \o <<key>> \o After(n), n + 1, seen.saved, seen.back)
  PROVE  Implements
<1>1. Editor!Handled
  BY RestsIs
<1>2. /\ Shown = seen /\ Shown'.line = Before(n) \o <<key>> \o After(n) /\ Shown'.cur = n + 1
      /\ Shown'.saved = seen.saved /\ Shown'.back = seen.back
  BY RestsIs
<1>3. (IF Quiet THEN "none" ELSE key) = key
  BY DEF Rests
<1>4. Editor!InsertAt(Shown.line, Shown.cur + 1, key) = Before(n) \o <<key>> \o After(n)
  <2>1. (n + 1) - 1 = n
    OBVIOUS
  <2>2. QED
    BY <1>2, <2>1 DEF Editor!InsertAt, Before, After
<1>5. Editor!Insert
  BY <1>2, <1>3, <1>4 DEF Editor!Insert
<1>6. QED
  BY <1>1, <1>5 DEF Implements, Editor!Next, Editor!Handle

LEMMA Backspaces ==
  ASSUME Counted', key = "Backspace", NEW n \in Nat, n = seen.cur, n > 0, NEW m, m = n - 1,
         Rests(Before(m) \o After(n), m, seen.saved, seen.back)
  PROVE  Implements
<1>1. Editor!Handled
  BY RestsIs
<1>2. /\ Shown = seen /\ Shown'.line = Before(m) \o After(n) /\ Shown'.cur = m
      /\ Shown'.saved = seen.saved /\ Shown'.back = seen.back
  BY RestsIs
<1>3. (IF Quiet THEN "none" ELSE key) = key
  BY DEF Rests
<1>4. Editor!RemoveAt(Shown.line, Shown.cur) = Before(m) \o After(n)
  BY <1>2 DEF Editor!RemoveAt, Before, After
<1>5. Editor!Backspace
  BY <1>2, <1>3, <1>4 DEF Editor!Backspace
<1>6. QED
  BY <1>1, <1>5 DEF Implements, Editor!Next, Editor!Handle

LEMMA Moves ==
  ASSUME Counted', NEW n \in Nat, NEW m, n = seen.cur,
         \/ key = "Left" /\ n > 0 /\ m = n - 1
         \/ key = "Right" /\ n < Len(seen.line) /\ m = n + 1,
         Rests(seen.line, m, seen.saved, seen.back)
  PROVE  Implements
<1>1. Editor!Handled
  BY RestsIs
<1>2. /\ Shown = seen /\ Shown'.line = seen.line /\ Shown'.cur = m
      /\ Shown'.saved = seen.saved /\ Shown'.back = seen.back
  BY RestsIs
<1>3. (IF Quiet THEN "none" ELSE key) = key
  BY DEF Rests
<1>4. Editor!Move
  BY <1>2, <1>3 DEF Editor!Move
<1>5. QED
  BY <1>1, <1>4 DEF Implements, Editor!Next, Editor!Handle

\* The history when the line is run.
EnteredLine(l, s, saved, back) ==
  IF l = <<>> THEN saved = s.saved /\ back = s.back
  ELSE /\ saved = SubSeq(<<l>> \o s.saved, 1, IF Len(s.saved) < HIST THEN Len(s.saved) + 1 ELSE HIST)
       /\ back = 0

LEMMA Enters ==
  ASSUME Counted', key = "Enter", NEW s, NEW b, EnteredLine(seen.line, seen, s, b), Rests(<<>>, 0, s, b)
  PROVE  Implements
<1>1. Editor!Handled
  BY RestsIs
<1>2. /\ Shown = seen /\ Shown'.line = <<>> /\ Shown'.cur = 0
      /\ Shown'.saved = s /\ Shown'.back = b
  BY RestsIs
<1>3. (IF Quiet THEN "none" ELSE key) = key
  BY DEF Rests
<1>4. Editor!Enter
  BY <1>2, <1>3 DEF Editor!Enter, EnteredLine
<1>5. QED
  BY <1>1, <1>4 DEF Implements, Editor!Next, Editor!Handle

LEMMA RecallsLine ==
  ASSUME Counted', key = "Recall", seen.saved # <<>>, NEW l, NEW n, l = seen.saved[seen.back + 1], n = Len(l),
         Rests(l, n, seen.saved, (seen.back + 1) % Len(seen.saved))
  PROVE  Implements
<1>1. Editor!Handled
  BY RestsIs
<1>2. /\ Shown = seen /\ Shown'.line = l /\ Shown'.cur = n
      /\ Shown'.saved = seen.saved /\ Shown'.back = (seen.back + 1) % Len(seen.saved)
  BY RestsIs
<1>3. (IF Quiet THEN "none" ELSE key) = key
  BY DEF Rests
<1>4. Editor!Recall
  BY <1>2, <1>3 DEF Editor!Recall
<1>5. QED
  BY <1>1, <1>4 DEF Implements, Editor!Next, Editor!Handle

LEMMA Idles ==
  ASSUME Counted', NEW n, n = seen.cur, key # "none",
         \/ key = "Backspace" /\ n = 0
         \/ key = "Left" /\ n = 0
         \/ key = "Right" /\ n = Len(seen.line)
         \/ key \in Others
         \/ seen.spare <= RESERVED,
         Rests(seen.line, n, seen.saved, seen.back)
  PROVE  Implements
<1>1. Editor!Handled
  BY RestsIs
<1>2. /\ Shown = seen /\ Shown'.line = seen.line /\ Shown'.cur = n
      /\ Shown'.saved = seen.saved /\ Shown'.back = seen.back
  BY RestsIs
<1>3. (IF Quiet THEN "none" ELSE key) = key
  BY DEF Rests
<1>4. Editor!Idle
  BY <1>2, <1>3 DEF Editor!Idle, Editor!NoKey
<1>5. QED
  BY <1>1, <1>4 DEF Implements, Editor!Next, Editor!Handle

----------------------------------------------------------------------------
(* What has become of a key, seen from the line when it was pressed.       *)

\* Nothing has come of it yet.
Unmoved == seen.cur = cursor /\ seen.saved = Saved /\ seen.back = Back

\* The key whose last character is x, and the one whose work begins at p.
KeyName(x) == IF x = "A" THEN "Recall" ELSE IF x = "C" THEN "Right" ELSE "Left"

KeyFor(p) ==
  CASE p = "run" -> "Enter"
    [] p = "delete" -> "Backspace"
    [] p = "left" -> "Left"
    [] p = "right" -> "Right"
    [] p = "recall" -> "Recall"
    [] OTHER -> ch

\* The phases of Counted, with the key that is on its way.
PressedKey ==
  /\ Pressed /\ Unmoved /\ seen.line = Format(buff) /\ seen.spare = Spare
  /\ key \in DOMAIN Chars /\ pending = Chars[key]

UnreadKey ==
  /\ Unread /\ Unmoved /\ Format(buff) = seen.line \o Char(buff[read])
  /\ key \in DOMAIN Chars /\ Chars[key] = <<buff[read]>>

ArrivingKey ==
  /\ Unmoved /\ seen.line = Format(buff)
  /\ \E x \in {"A", "C", "D"}, p \in 0..LEN - 2 * RESERVED, r \in 0..3, t \in 0..2 :
       t <= r /\ Sent(x, p, r, t) /\ key = KeyName(x)

EscapedKey == Resting /\ pc = "escape" /\ Unmoved /\ seen.line = Format(buff) /\ key \in Others

\* The line that is formatted has an inserted character at its end.
Line == IF next = "insert" THEN Append(seen.line, ch) ELSE seen.line

FormattingKey ==
  /\ Formatting /\ Unmoved /\ key = KeyFor(next)
  /\ next = "insert" => key \in Letters
  /\ pc = "format" => Format(buff) = Line
  /\ pc \in {"formatLock", "formatCopy"} => tmp = Line
  /\ pc = "formatEnd" => Content(buff, Goal) = Line

MovingKey == Moving /\ Unmoved /\ key = KeyFor(pc) /\ Content(buff, len) = seen.line

InsertingKey ==
  /\ Inserting /\ Unmoved /\ key = ch /\ key \in Letters
  /\ Content(buff, len + 1) = IF pc = "insertEnd" THEN Before(cursor) \o (<<ch>> \o After(cursor))
                              ELSE Append(seen.line, ch)
  /\ pc # "insert" => tmp = After(cursor)

DeletingKey ==
  /\ Deleting /\ Unmoved /\ key = "Backspace"
  /\ IF pc = "deleteEnd" THEN Content(buff, len - 1) = Before(cursor - 1) \o After(cursor)
     ELSE Content(buff, len) = seen.line
  /\ pc # "delete" => tmp = After(cursor)

\* The history's part of Enter and of Recall.
Entered == EnteredLine(seen.line, seen, Saved, Back)
Remembers == Saved = seen.saved /\ Back = seen.back
Recalled == Saved = seen.saved /\ Back = (seen.back + 1) % Len(seen.saved)

RunningKey ==
  /\ Running
  /\ \/ pc = "run" /\ key = "Enter" /\ Unmoved /\ Content(buff, len) = seen.line
     \/ pc \in {"clear", "rewind"} /\ next = "idle" /\ key = "Enter" /\ Entered
     \/ pc \in {"clear", "rewind"} /\ next = "recallLock" /\ key = "Recall" /\ Remembers
     \/ pc \in {"recall", "recallLock"} /\ key = "Recall" /\ Remembers
     \/ pc = "recallCopy" /\ key = "Recall" /\ Recalled /\ hist[hread] = seen.saved[seen.back + 1]
     \/ pc = "recallEnd" /\ key = "Recall" /\ Recalled /\ Content(buff, write) = seen.saved[seen.back + 1]

WorkingKey == FormattingKey \/ MovingKey \/ InsertingKey \/ DeletingKey \/ RunningKey

\* The line that is shown is made of valid characters, and a key is on its way unless
\* the terminal is quiet.
Followed ==
  /\ hread <= Entries /\ seen.line \in Seq(Valid)
  /\ Quiet \/ PressedKey \/ UnreadKey \/ ArrivingKey \/ EscapedKey \/ WorkingKey

\* The phases, with the key.
LEMMA FollowedPhases ==
  ASSUME Counted, Followed, ~ Quiet
  PROVE  /\ pc = "idle" => PressedKey \/ UnreadKey \/ ArrivingKey
         /\ pc = "escape" => EscapedKey \/ ArrivingKey
         /\ pc = "direction" => ArrivingKey
         /\ pc \in {"format", "formatLock", "formatCopy", "formatEnd"} => FormattingKey
         /\ pc \in {"left", "right"} => MovingKey
         /\ pc \in {"insert", "insertCopy", "insertEnd"} => InsertingKey
         /\ pc \in {"delete", "deleteLock", "deleteCopy", "deleteEnd"} => DeletingKey
         /\ pc \in {"run", "recall", "clear", "rewind", "recallLock", "recallCopy", "recallEnd"} => RunningKey
<1>1. PressedKey => pc = "idle"
  BY DEF PressedKey, Pressed
<1>2. UnreadKey => pc = "idle"
  BY DEF UnreadKey, Unread
<1>3. ArrivingKey => pc \in {"idle", "escape", "direction"}
  BY DEF ArrivingKey, Sent
<1>4. EscapedKey => pc = "escape"
  BY DEF EscapedKey
<1>5. FormattingKey => pc \in {"format", "formatLock", "formatCopy", "formatEnd"}
  BY DEF FormattingKey, Formatting
<1>6. MovingKey => pc \in {"left", "right"}
  BY DEF MovingKey, Moving
<1>7. InsertingKey => pc \in {"insert", "insertCopy", "insertEnd"}
  BY DEF InsertingKey, Inserting
<1>8. DeletingKey => pc \in {"delete", "deleteLock", "deleteCopy", "deleteEnd"}
  BY DEF DeletingKey, Deleting
<1>9. RunningKey => pc \in {"run", "recall", "clear", "rewind", "recallLock", "recallCopy", "recallEnd"}
  BY DEF RunningKey
<1>10. QED
  BY <1>1, <1>2, <1>3, <1>4, <1>5, <1>6, <1>7, <1>8, <1>9 DEF Followed, WorkingKey

LEMMA HistoryShown ==
  ASSUME UNCHANGED history
  PROVE  Saved' = Saved /\ Back' = Back /\ Entries' = Entries /\ hread' = hread
BY DEF history, Saved, Back, Entries, Newest

LEMMA StaysUnmoved ==
  ASSUME Unmoved, UNCHANGED <<history, cursor, seen>>
  PROVE  Unmoved'
BY HistoryShown DEF Unmoved

\* A step in the middle of a key.
LEMMA Follows ==
  ASSUME Followed, ~ Quiet, ~ Quiet', UNCHANGED <<seen, key, history>>,
         PressedKey' \/ UnreadKey' \/ ArrivingKey' \/ EscapedKey' \/ WorkingKey'
  PROVE  Followed' /\ Implements
<1>1. Implements
  BY NothingSeen
<1>2. hread' <= Entries'
  BY HistoryShown DEF Followed
<1>3. seen'.line \in Seq(Valid)
  BY DEF Followed
<1>4. QED
  BY <1>1, <1>2, <1>3 DEF Followed

\* A step at the end of one.
LEMMA FollowsQuiet ==
  ASSUME Followed, Quiet', UNCHANGED <<seen, history>>
  PROVE  Followed'
<1>1. hread' <= Entries'
  BY HistoryShown DEF Followed
<1>2. QED
  BY <1>1 DEF Followed

\* Where a key is on its way the terminal is not quiet.
LEMMA UnreadBusy == Unread => ~ Quiet
<1>1. SUFFICES ASSUME Unread PROVE Readable
  BY DEF Quiet
<1>2. read \in 0..LEN /\ write = read + 1 /\ Filled(buff, write)
  BY <1>1 DEF Unread, Stored
<1>3. read \in Places /\ ~ (read >= write) /\ read < write
  BY <1>2, Sizes DEF Places
<1>4. buff[read] # NUL
  BY <1>2, <1>3 DEF Filled
<1>5. QED
  BY <1>2, <1>3, <1>4 DEF Readable

LEMMA SentBusy ==
  \A x \in {"A", "C", "D"}, p \in 0..LEN - 2 * RESERVED, r \in 0..3, t \in 0..2 :
    t <= r /\ Sent(x, p, r, t) => ~ Quiet
<1>1. SUFFICES ASSUME NEW x \in {"A", "C", "D"}, NEW p \in 0..LEN - 2 * RESERVED, NEW r \in 0..3,
                      NEW t \in 0..2,
                      t <= r, Sent(x, p, r, t), pc = "idle", pending = <<>>
               PROVE  Readable
  BY DEF Quiet
<1>2. t = 0 /\ r = 3
  BY <1>1 DEF Sent, ToCome
<1>3. LEN \in Nat /\ p \in Nat /\ p + 6 <= LEN
  BY Sizes DEF RESERVED
<1>4. read = p /\ write = p + 3 /\ Filled(buff, write) /\ p \in Places
  BY <1>1, <1>2, <1>3 DEF Sent, Places
<1>5. buff[p] # NUL /\ read \in 0..LEN /\ read < write
  BY <1>3, <1>4 DEF Filled
<1>6. QED
  BY <1>4, <1>5 DEF Readable

LEMMA RestingQuiet == Resting /\ pc = "idle" => Quiet
<1>1. SUFFICES ASSUME Resting, pc = "idle", Readable PROVE FALSE
  BY DEF Quiet, Resting
<1>2. read = write /\ write \in 0..LEN + 1
  BY <1>1 DEF Resting, Settled, Stored, Filled
<1>3. QED
  BY <1>1, <1>2, Sizes DEF Readable

\* The names of the keys and the characters they send.
LEMMA KeysAre ==
  ASSUME Typist, Distinguished, NEW k \in DOMAIN Chars, NEW c, Chars[k] = <<c>>
  PROVE  /\ k # "none"
         /\ c = CR => k = "Enter"
         /\ c = BS => k = "Backspace"
         /\ c \in Valid => k \in Letters /\ k = c
         /\ c \notin Valid \cup {CR, BS} => k \in Others
<1>1. \/ k = "Enter" /\ c = CR
      \/ k = "Backspace" /\ c = BS
      \/ c = k /\ k \in Letters \cup Others
  <2>1. Chars[k] # <<ESC, LB, "A">> /\ Chars[k] # <<ESC, LB, "C">> /\ Chars[k] # <<ESC, LB, "D">>
    <3>1. Len(<<c>>) = 1 /\ Len(<<ESC, LB, "A">>) = 3 /\ Len(<<ESC, LB, "C">>) = 3 /\ Len(<<ESC, LB, "D">>) = 3
      OBVIOUS
    <3>2. QED
      BY <3>1
  <2>2. \A d : <<c>> = <<d>> => c = d
    OBVIOUS
  <2>3. QED
    BY <2>1, <2>2, CharsSent
<1>2. k # "none"
  BY <1>1 DEF Distinguished, Editor!NoKey
<1>3. Letters \subseteq Valid /\ CR \notin Valid /\ BS \notin Valid /\ CR # BS
  BY Distinct DEF Valid
<1>4. QED
  BY <1>1, <1>2, <1>3 DEF Distinguished

----------------------------------------------------------------------------
(* Init, the keys and the handler, with the key.                          *)

LEMMA FollowedInit ==
  ASSUME Typist, Init
  PROVE  Followed /\ Editor!Init
<1>1. Quiet
  BY Sizes DEF Init, Quiet, Readable
<1>2. Entries = 0 /\ hread = 0
  BY DEF Init, Entries
<1>3. seen = View /\ seen.line \in Seq(Valid)
  BY FormatIs, ViewIs DEF Init
<1>4. Followed
  BY <1>1, <1>2, <1>3 DEF Followed
<1>5. Format(buff) = <<>>
  <2>1. Resting
    BY <1>1, CountedInit, QuietRests
  <2>2. Len(Format(buff)) = 0
    BY <2>1 DEF Init, Resting, Settled, Counts
  <2>3. QED
    BY <2>2, FormatIs
<1>6. Shown.line = <<>> /\ Shown.cur = 0 /\ Shown.back = 0 /\ Shown.spare = LEN /\ Shown.saved = <<>>
  <2>1. Shown = View
    BY <1>1 DEF Shown
  <2>2. Saved = <<>>
    BY <1>2 DEF Saved
  <2>3. QED
    BY <1>2, <1>5, <2>1, <2>2, ViewIs, Sizes DEF Init, Back, Spare
<1>7. Editor!Init
  BY <1>1, <1>6 DEF Editor!Init, Editor!NoKey
<1>8. QED
  BY <1>4, <1>7

LEMMA FollowedPress ==
  ASSUME Typist, Distinguished, Counted, Followed, NEW k \in DOMAIN Chars, Press(k), Counted'
  PROVE  Followed' /\ Implements
<1>1. Quiet /\ pending' = Chars[k] /\ key' = k /\ seen' = View
      /\ UNCHANGED <<buff, read, write, cursor, pc, history>>
  BY DEF Press, Typist, line, shown, local
<1>2. Resting /\ pc = "idle"
  BY <1>1, QuietRests
<1>3. pending' # <<>>
  BY <1>1, CharsSent
<1>4. ~ Quiet'
  BY <1>3 DEF Quiet
<1>5. Implements
  BY <1>1, <1>4, PressSeen
<1>6. hread' <= Entries' /\ seen'.line \in Seq(Valid)
  BY <1>1, HistoryShown, FormatIs, ViewIs DEF Followed
<1>7. Unmoved' /\ seen'.line = Format(buff') /\ seen'.spare = Spare'
  BY <1>1, HistoryShown, ViewIs DEF Unmoved, Spare
<1>8. Pressed' \/ Arriving'
  BY <1>3 DEF Counted, Resting, Unread, Working
<1>9. CASE Pressed'
  <2>1. PressedKey'
    BY <1>1, <1>7, <1>9 DEF PressedKey
  <2>2. QED
    BY <1>5, <1>6, <2>1 DEF Followed
<1>10. CASE Arriving'
  <2>1. PICK x \in {"A", "C", "D"}, p \in 0..LEN - 2 * RESERVED, r \in 0..3, t \in 0..2 : t <= r
             /\ Sent(x, p, r, t)'
    BY <1>10 DEF Arriving
  <2>2. read = write
    BY <1>2 DEF Resting, Settled
  <2>3. r = 0 /\ t = 0
    <3>1. p + r = p + t
      BY <1>1, <2>1, <2>2 DEF Sent
    <3>2. t = 0
      BY <1>1, <1>2, <2>1 DEF Sent
    <3>3. QED
      BY <3>1, <3>2, Sizes DEF RESERVED
  <2>4. Chars[k] = <<ESC, LB, x>>
    BY <1>1, <2>1, <2>3 DEF Sent, ToCome
  <2>5. k = KeyName(x)
    <3>1. \A c : <<ESC, LB, x>> # <<c>>
      <4>1. SUFFICES ASSUME NEW c PROVE <<ESC, LB, x>> # <<c>>
        OBVIOUS
      <4>2. Len(<<ESC, LB, x>>) = 3 /\ Len(<<c>>) = 1
        OBVIOUS
      <4>3. QED
        BY <4>2
    <3>2. <<ESC, LB, x>>[3] = x /\ \A y : <<ESC, LB, y>>[3] = y
      OBVIOUS
    <3>3. QED
      BY <2>4, <3>1, <3>2, CharsSent DEF KeyName
  <2>6. ArrivingKey'
    BY <1>1, <1>7, <2>1, <2>5 DEF ArrivingKey
  <2>7. QED
    BY <1>5, <1>6, <2>6 DEF Followed
<1>11. QED
  BY <1>8, <1>9, <1>10

\* UnreadBusy, SentBusy and RestingQuiet of the state behind a step.
LEMMA BehindStep ==
  /\ Unread' => ~ Quiet'
  /\ \A x \in {"A", "C", "D"}, p \in 0..LEN - 2 * RESERVED, r \in 0..3, t \in 0..2 :
       t <= r /\ Sent(x, p, r, t)' => ~ Quiet'
  /\ Resting' /\ pc' = "idle" => Quiet'
<1>1. Unread' => ~ Quiet'
  BY UnreadBusy, PTL
<1>2. \A x \in {"A", "C", "D"}, p \in 0..LEN - 2 * RESERVED, r \in 0..3, t \in 0..2 :
       t <= r /\ Sent(x, p, r, t)' => ~ Quiet'
  <2>1. (\A x \in {"A", "C", "D"}, p \in 0..LEN - 2 * RESERVED, r \in 0..3, t \in 0..2 :
         t <= r /\ Sent(x, p, r, t) => ~ Quiet)'
    BY SentBusy, PTL
  <2>2. QED
    BY <2>1
<1>3. Resting' /\ pc' = "idle" => Quiet'
  <2>1. (Resting /\ pc = "idle" => Quiet)'
    BY RestingQuiet, PTL
  <2>2. QED
    BY <2>1, Zenon
<1>4. QED
  BY <1>1, <1>2, <1>3

LEMMA FollowedUart ==
  ASSUME Typist, Distinguished, Counted, Followed, Uart, Counted'
  PROVE  Followed' /\ Implements
<1>1. UNCHANGED <<read, cursor, seen, key, history, pc>> /\ pending # <<>>
  BY UartFrame DEF history
<1>2. ~ Quiet
  BY <1>1 DEF Quiet
<1>3. Pressed \/ Arriving
  BY <1>1 DEF Counted, Resting, Unread, Working
<1>4. PressedKey \/ ArrivingKey
  <2>1. pc \in {"idle", "escape", "direction"}
    BY <1>3 DEF Pressed, Arriving, Sent
  <2>2. ~ UnreadKey /\ ~ EscapedKey
    BY <1>1 DEF UnreadKey, Unread, EscapedKey, Resting
  <2>3. QED
    BY <1>2, <2>1, <2>2, FollowedPhases
<1>5. CASE PressedKey
  <2>1. Pressed /\ key \in DOMAIN Chars /\ pending = Chars[key] /\ seen.line = Format(buff)
        /\ seen.spare = Spare
        /\ Unmoved
    BY <1>5 DEF PressedKey
  <2>2. CASE Drops
    <3>1. Resting' /\ pc' = "idle" /\ buff' = buff /\ ~ (write < LEN - RESERVED)
      BY <1>1, <2>1, <2>2 DEF Drops, Pressed
    <3>2. Quiet'
      BY <3>1, BehindStep
    <3>3. Rests(seen.line, cursor, seen.saved, seen.back)
      BY <1>1, <1>2, <2>1, <3>1, <3>2, HistoryShown DEF Rests, Unmoved
    <3>4. seen.spare <= RESERVED
      <4>1. PICK w \in 0..LEN + 1 : w = write
        BY <2>1 DEF Pressed, Settled, Stored, Filled
      <4>2. QED
        BY <2>1, <3>1, <4>1, Sizes DEF Spare, RESERVED
    <3>5. key # "none"
      <4>1. PICK c : pending = <<c>>
        BY <2>1 DEF Pressed
      <4>2. QED
        BY <2>1, <4>1, KeysAre
    <3>6. seen.cur = cursor
      BY <2>1 DEF Unmoved
    <3>7. Implements
      BY <3>3, <3>4, <3>5, <3>6, Idles
    <3>8. QED
      BY <1>1, <3>2, <3>7, FollowsQuiet
  <2>3. ASSUME NEW c \in Characters, Stores(c)
        PROVE  Followed' /\ Implements
    <3>1. Unread' /\ pending = <<c>> /\ buff'[read'] = c /\ Format(buff') = Format(buff) \o Char(c)
      BY <2>3 DEF Stores
    <3>2. ~ Quiet'
      BY <3>1, BehindStep
    <3>3. Unmoved'
      BY <1>1, <2>1, StaysUnmoved
    <3>4. UnreadKey'
      BY <1>1, <2>1, <3>1, <3>3 DEF UnreadKey
    <3>5. QED
      BY <1>1, <1>2, <3>2, <3>4, Follows
  <2>4. QED
    BY <2>1, <2>2, <2>3, ReceivesPressed
<1>6. CASE ArrivingKey
  <2>1. PICK x \in {"A", "C", "D"}, p \in 0..LEN - 2 * RESERVED, r \in 0..3, t \in 0..2 :
          t <= r /\ Sent(x, p, r, t) /\ key = KeyName(x)
    BY <1>6 DEF ArrivingKey
  <2>2. PICK q \in 0..4 : q = r + 1
    OBVIOUS
  <2>3. r < 3 /\ Sent(x, p, q, t)' /\ Format(buff') = Format(buff)
    BY <2>1, <2>2, ReceivesArriving
  <2>4. q \in 0..3 /\ t <= q
    BY <2>1, <2>2, <2>3
  <2>5. ~ Quiet'
    BY <2>3, <2>4, BehindStep
  <2>6. Unmoved'
    BY <1>1, <1>6, StaysUnmoved DEF ArrivingKey
  <2>7. ArrivingKey'
    BY <1>1, <1>6, <2>1, <2>3, <2>4, <2>6 DEF ArrivingKey
  <2>8. QED
    BY <1>1, <1>2, <2>5, <2>7, Follows
<1>7. QED
  BY <1>4, <1>5, <1>6

----------------------------------------------------------------------------
(* The task reads, with the key.                                           *)

\* What it reads, and of which key.
LEMMA FoundKey ==
  ASSUME Typist, Counted, Followed, Readable
  PROVE  /\ ~ Quiet
         /\ pc = "idle" =>
              \/ UnreadKey
              \/ /\ buff[read] = ESC /\ Unmoved /\ seen.line = Format(buff)
                 /\ \E x \in {"A", "C", "D"}, p \in 0..LEN - 2 * RESERVED, r \in 1..3 : Sent(x, p, r, 0)
                    /\ key = KeyName(x)
         /\ pc = "escape" =>
              /\ buff[read] = LB /\ Unmoved /\ seen.line = Format(buff)
              /\ \E x \in {"A", "C", "D"}, p \in 0..LEN - 2 * RESERVED, r \in 2..3 : Sent(x, p, r, 1)
                 /\ key = KeyName(x)
         /\ pc = "direction" =>
              /\ Unmoved /\ seen.line = Format(buff)
              /\ \E x \in {"A", "C", "D"}, p \in 0..LEN - 2 * RESERVED :
                   buff[read] = x /\ Sent(x, p, 3, 2) /\ key = KeyName(x)
<1>1. ~ Quiet
  BY DEF Quiet
<1>2. ~ PressedKey /\ ~ EscapedKey
  BY NothingToRead DEF PressedKey, EscapedKey
<1>3. CASE ArrivingKey
  <2>1. PICK x \in {"A", "C", "D"}, p \in 0..LEN - 2 * RESERVED, r \in 0..3, t \in 0..2 :
          t <= r /\ Sent(x, p, r, t) /\ key = KeyName(x)
    BY <1>3 DEF ArrivingKey
  <2>2. t < r /\ buff[read] = IF t = 0 THEN ESC ELSE IF t = 1 THEN LB ELSE x
    BY <2>1, ArrivingReads
  <2>3. pc = IF t = 0 THEN "idle" ELSE IF t = 1 THEN "escape" ELSE "direction"
    BY <2>1 DEF Sent
  <2>4. Unmoved /\ seen.line = Format(buff)
    BY <1>3 DEF ArrivingKey
  <2>5. CASE t = 0
    BY <1>1, <2>1, <2>2, <2>3, <2>4, <2>5
  <2>6. CASE t = 1
    BY <1>1, <2>1, <2>2, <2>3, <2>4, <2>6
  <2>7. CASE t = 2
    BY <1>1, <2>1, <2>2, <2>3, <2>4, <2>7
  <2>8. QED
    BY <2>5, <2>6, <2>7
<1>4. QED
  BY <1>1, <1>2, <1>3, FollowedPhases

\* The key is recognised, and the buffer is to be formatted first.
LEMMA ToFormatKey ==
  ASSUME Counted, Unmoved, Followed, ~ Quiet,
         NEW n \in {"run", "delete", "insert", "right", "left", "recall"}, NEW c, FormatThen(n, c), Working',
         UNCHANGED <<buff, cursor, len, history, seen, key>>,
         key = IF n = "insert" THEN c ELSE KeyFor(n), n = "insert" => key \in Letters,
         Format(buff) = IF n = "insert" THEN Append(seen.line, c) ELSE seen.line
  PROVE  Followed' /\ Implements
<1>1. pc' = "format" /\ next' = n /\ ch' = c
  BY DEF FormatThen
<1>2. Formatting'
  BY <1>1 DEF Working, Formatting, Moving, Inserting, Deleting, Running
<1>3. Unmoved'
  BY StaysUnmoved
<1>4. key' = KeyFor(next)'
  BY <1>1 DEF KeyFor
<1>5. Format(buff') = Line'
  BY <1>1 DEF Line
<1>6. FormattingKey'
  BY <1>1, <1>2, <1>3, <1>4, <1>5 DEF FormattingKey
<1>7. ~ Quiet'
  BY <1>1 DEF Quiet
<1>8. QED
  BY <1>6, <1>7, Follows DEF WorkingKey

LEMMA NoChar ==
  ASSUME Typist, Followed, NEW c, c \notin Valid
  PROVE  seen.line \o Char(c) = seen.line
BY ConcatEmptySeq DEF Followed, Char

LEMMA FollowedReadEnter ==
  ASSUME Typist, Distinguished, Counted, Followed, ReadEnter, Counted'
  PROVE  Followed' /\ Implements
<1>1. Readable /\ pc = "idle" /\ buff[read] = CR /\ FormatThen("run", NUL)
      /\ UNCHANGED <<buff, cursor, len, history, seen, key>>
  BY DEF ReadEnter, Take, shown, KeepsLine, ghost
<1>2. UnreadKey /\ ~ Quiet
  BY <1>1, FoundKey, Distinct
<1>3. Format(buff) = seen.line /\ Unmoved /\ key = KeyFor("run")
  BY <1>1, <1>2, NoChar, KeysAre, Distinct DEF UnreadKey, KeyFor
<1>4. Working'
  BY <1>1 DEF FormatThen, Counted, Resting, Pressed, Unread, Arriving, Sent
<1>5. QED
  BY <1>1, <1>2, <1>3, <1>4, ToFormatKey

LEMMA FollowedReadBackspace ==
  ASSUME Typist, Distinguished, Counted, Followed, ReadBackspace, Counted'
  PROVE  Followed' /\ Implements
<1>1. Readable /\ pc = "idle" /\ buff[read] = BS /\ read' = read + 1
      /\ UNCHANGED <<buff, cursor, len, history, seen, key, write, pending>>
  BY DEF ReadBackspace, Take, shown, KeepsLine, ghost
<1>2. UnreadKey /\ ~ Quiet
  BY <1>1, FoundKey, Distinct
<1>3. Format(buff) = seen.line /\ Unmoved /\ key = "Backspace"
  BY <1>1, <1>2, NoChar, KeysAre, Distinct DEF UnreadKey
<1>4. CASE cursor > 0
  <2>1. FormatThen("delete", NUL)
    BY <1>4 DEF ReadBackspace
  <2>2. Working'
    BY <2>1 DEF FormatThen, Counted, Resting, Pressed, Unread, Arriving, Sent
  <2>3. key = KeyFor("delete")
    BY <1>3 DEF KeyFor
  <2>4. QED
    BY <1>1, <1>2, <1>3, <2>1, <2>2, <2>3, ToFormatKey
<1>5. CASE ~ (cursor > 0)
  <2>1. pc' = "idle" /\ cursor = 0
    BY <1>5, TypedIs DEF ReadBackspace, Go, Counted
  <2>2. Quiet'
    <3>1. read' = write' /\ pending' = <<>> /\ write' \in 0..LEN + 1
      BY <1>1, <1>2, Sizes DEF UnreadKey, Unread
    <3>2. ~ Readable'
      BY <3>1, Sizes DEF Readable
    <3>3. QED
      BY <2>1, <3>1, <3>2 DEF Quiet
  <2>3. Rests(seen.line, cursor, seen.saved, seen.back)
    BY <1>1, <1>2, <1>3, <2>2, HistoryShown DEF Rests, Unmoved
  <2>4. Implements
    BY <1>3, <2>1, <2>3, Idles DEF Unmoved
  <2>5. QED
    BY <1>1, <2>2, <2>4, FollowsQuiet
<1>6. QED
  BY <1>4, <1>5

LEMMA FollowedReadEscape ==
  ASSUME Typist, Distinguished, Counted, Followed, ReadEscape, Counted'
  PROVE  Followed' /\ Implements
<1>1. Readable /\ pc = "idle" /\ buff[read] = ESC /\ read' = read + 1 /\ pc' = "escape"
      /\ UNCHANGED <<buff, write, cursor, len, history, seen, key, pending>>
  BY DEF ReadEscape, Take, shown, KeepsLine, ghost, Go
<1>2. ~ Quiet /\ ~ Quiet'
  BY <1>1, FoundKey DEF Quiet
<1>3. CASE UnreadKey
  <2>1. Format(buff) = seen.line /\ Unmoved /\ key \in Others
    BY <1>1, <1>3, NoChar, KeysAre, Distinct DEF UnreadKey
  <2>2. Unmoved'
    BY <1>1, <2>1, StaysUnmoved
  <2>3. read' = write'
    BY <1>1, <1>3 DEF UnreadKey, Unread
  <2>4. Resting'
    <3>1. ~ Arriving'
      <4>1. SUFFICES ASSUME NEW x \in {"A", "C", "D"}, NEW p \in 0..LEN - 2 * RESERVED, NEW r \in 0..3,
                            NEW t \in 0..2,
                            t <= r, Sent(x, p, r, t)'
                     PROVE FALSE
        BY DEF Arriving
      <4>2. t = 1 /\ p + r = p + t /\ pending' = ToCome(x, r)
        BY <1>1, <2>3, <4>1 DEF Sent
      <4>3. r = 1
        BY <4>2, Sizes DEF RESERVED
      <4>4. pending' # <<>>
        BY <4>2, <4>3 DEF ToCome
      <4>5. QED
        BY <1>1, <1>3, <4>4 DEF UnreadKey, Unread
    <3>2. QED
      BY <1>1, <3>1 DEF Counted, Pressed, Unread, Working, Formatting, Moving, Inserting, Deleting, Running
  <2>5. EscapedKey'
    BY <1>1, <2>1, <2>2, <2>4 DEF EscapedKey
  <2>6. QED
    BY <1>1, <1>2, <2>5, Follows
<1>4. ASSUME Unmoved, seen.line = Format(buff),
             NEW x \in {"A", "C", "D"}, NEW p \in 0..LEN - 2 * RESERVED, NEW r \in 1..3, Sent(x, p, r, 0),
             key = KeyName(x)
      PROVE  Followed' /\ Implements
  <2>1. PICK t \in 0..1, q \in 1..2 : t = 0 /\ q = t + 1 /\ q <= r /\ r \in 0..3
    OBVIOUS
  <2>2. Sent(x, p, r, t) /\ pc' = IF t = 0 THEN "escape" ELSE "direction"
    BY <1>1, <1>4, <2>1
  <2>3. hread' = hread
    BY <1>1 DEF history
  <2>4. Sent(x, p, r, q)'
    BY <1>1, <2>1, <2>2, <2>3, TakesOne
  <2>5. Unmoved'
    BY <1>1, <1>4, StaysUnmoved
  <2>6. ArrivingKey'
    BY <1>1, <1>4, <2>1, <2>4, <2>5 DEF ArrivingKey
  <2>7. QED
    BY <1>1, <1>2, <2>6, Follows
<1>5. QED
  BY <1>1, <1>3, <1>4, FoundKey

LEMMA FollowedEscapeNext ==
  ASSUME Typist, Distinguished, Counted, Followed, EscapeNext, Counted'
  PROVE  Followed' /\ Implements
<1>1. Readable /\ pc = "escape" /\ read' = read + 1
      /\ UNCHANGED <<buff, write, cursor, len, history, seen, key, pending>>
  BY DEF EscapeNext, shown, KeepsLine, ghost
<1>2. ~ Quiet /\ buff[read] = LB /\ Unmoved /\ seen.line = Format(buff)
  BY <1>1, FoundKey
<1>3. pc' = "direction" /\ ~ Quiet'
  BY <1>2 DEF EscapeNext, Go, Quiet
<1>4. PICK x \in {"A", "C", "D"}, p \in 0..LEN - 2 * RESERVED, r \in 2..3 : Sent(x, p, r, 1) /\ key = KeyName(x)
  BY <1>1, FoundKey
<1>5. PICK t \in 0..1, q \in 1..2 : t = 1 /\ q = t + 1 /\ q <= r /\ r \in 0..3 /\ r \in 1..3
  OBVIOUS
<1>6. Sent(x, p, r, t) /\ pc' = IF t = 0 THEN "escape" ELSE "direction"
  BY <1>3, <1>4, <1>5
<1>7. hread' = hread
  BY <1>1 DEF history
<1>8. Sent(x, p, r, q)'
  BY <1>1, <1>5, <1>6, <1>7, TakesOne
<1>9. Unmoved'
  BY <1>1, <1>2, StaysUnmoved
<1>10. ArrivingKey'
  BY <1>1, <1>2, <1>4, <1>5, <1>8, <1>9 DEF ArrivingKey
<1>11. QED
  BY <1>1, <1>2, <1>3, <1>10, Follows

LEMMA FollowedDirectionNext ==
  ASSUME Typist, Distinguished, Counted, Followed, DirectionNext, Counted'
  PROVE  Followed' /\ Implements
<1>1. Readable /\ pc = "direction" /\ UNCHANGED <<buff, cursor, len, history, seen, key>>
  BY DEF DirectionNext, shown, KeepsLine, ghost
<1>2. ~ Quiet /\ Unmoved /\ seen.line = Format(buff)
  BY <1>1, FoundKey
<1>3. PICK x \in {"A", "C", "D"}, p \in 0..LEN - 2 * RESERVED : buff[read] = x /\ Sent(x, p, 3, 2)
           /\ key = KeyName(x)
  BY <1>1, FoundKey
<1>4. PICK n \in {"right", "left", "recall"} : FormatThen(n, NUL) /\ key = KeyFor(n)
  <2>1. CASE x = "A"
    BY <1>3, <2>1 DEF DirectionNext, Sent, KeyName, KeyFor
  <2>2. CASE x = "C"
    BY <1>3, <2>2 DEF DirectionNext, KeyName, KeyFor
  <2>3. CASE x = "D"
    BY <1>3, <2>3 DEF DirectionNext, KeyName, KeyFor
  <2>4. QED
    BY <2>1, <2>2, <2>3
<1>5. Working'
  BY <1>4 DEF FormatThen, Counted, Resting, Pressed, Unread, Arriving, Sent
<1>6. QED
  BY <1>1, <1>2, <1>4, <1>5, ToFormatKey

LEMMA FollowedWaitEnds ==
  ASSUME Typist, Distinguished, Counted, Followed, WaitEnds, Counted'
  PROVE  Followed' /\ Implements
<1>1. ~ Readable /\ pc \in {"escape", "direction"} /\ pending = <<>> /\ pc' = "idle"
      /\ UNCHANGED <<buff, read, write, cursor, history, seen, key, pending>>
  BY DEF WaitEnds, Go, line, shown, ghost
<1>2. ~ Quiet /\ Quiet'
  BY <1>1 DEF Quiet, Readable
<1>3. ~ ArrivingKey
  <2>1. SUFFICES ASSUME NEW x \in {"A", "C", "D"}, NEW p \in 0..LEN - 2 * RESERVED, NEW r \in 0..3,
                        NEW t \in 0..2, t <= r, Sent(x, p, r, t)
                 PROVE FALSE
    BY DEF ArrivingKey
  <2>2. r = 3 /\ ~ (t < r)
    BY <1>1, <2>1, ArrivingReads
  <2>3. QED
    BY <2>2
<1>4. EscapedKey
  BY <1>1, <1>2, <1>3, FollowedPhases
<1>5. Rests(seen.line, cursor, seen.saved, seen.back)
  BY <1>1, <1>2, <1>4, HistoryShown DEF Rests, Unmoved, EscapedKey
<1>6. key \in Others /\ key # "none" /\ cursor = seen.cur
  BY <1>4 DEF EscapedKey, Unmoved, Distinguished, Editor!NoKey
<1>7. Implements
  BY <1>5, <1>6, Idles
<1>8. QED
  BY <1>1, <1>2, <1>7, FollowsQuiet

LEMMA FollowedReadChar ==
  ASSUME Typist, Distinguished, Counted, Followed, ReadChar, Counted'
  PROVE  Followed' /\ Implements
<1>1. Readable /\ pc = "idle" /\ buff[read] \notin {CR, BS, ESC} /\ read' = read + 1
      /\ UNCHANGED <<buff, write, history, seen, key, pending>>
  BY DEF ReadChar, KeepsLine, ghost
<1>2. UnreadKey /\ ~ Quiet
  BY <1>1, FoundKey
<1>3. PICK c : c = buff[read]
  OBVIOUS
<1>4. Unmoved /\ Format(buff) = seen.line \o Char(c) /\ key # "none"
      /\ (c \in Valid => key \in Letters /\ key = c) /\ (c \notin Valid => key \in Others)
  BY <1>1, <1>2, <1>3, KeysAre DEF UnreadKey
<1>5. ~ skip' /\ cursor <= len /\ len \in Nat /\ cursor \in Nat
  BY <1>2, TypedIs DEF ReadChar, UnreadKey, Unread, Counted, Sane
<1>6. pc' = "idle" => Quiet'
  <2>1. read' = write' /\ pending' = <<>> /\ write' \in 0..LEN + 1
    BY <1>1, <1>2, Sizes DEF UnreadKey, Unread
  <2>2. ~ Readable'
    BY <2>1, Sizes DEF Readable
  <2>3. QED
    BY <2>1, <2>2 DEF Quiet
<1>7. seen.line \in Seq(Valid)
  BY DEF Followed
<1>8. CASE c \in Valid /\ cursor < len
  <2>1. FormatThen("insert", c) /\ UNCHANGED <<cursor, len>>
    BY <1>3, <1>5, <1>8 DEF ReadChar
  <2>2. Working'
    BY <2>1 DEF FormatThen, Counted, Resting, Pressed, Unread, Arriving, Sent
  <2>3. Format(buff) = Append(seen.line, c)
    <3>1. PICK s \in Seq(Valid) : s = seen.line
      BY <1>7
    <3>2. s \o <<c>> = Append(s, c)
      BY <1>8, AppendIsConcat
    <3>3. QED
      BY <1>4, <1>8, <3>1, <3>2 DEF Char
  <2>4. QED
    BY <1>1, <1>2, <1>4, <1>8, <2>1, <2>2, <2>3, ToFormatKey
<1>9. CASE c \in Valid /\ ~ (cursor < len)
  <2>1. cursor' = cursor + 1 /\ pc' = "idle" /\ cursor = len
    BY <1>3, <1>5, <1>9 DEF ReadChar, Go
  <2>2. PICK s \in Seq(Valid) : s = seen.line
    BY <1>7
  <2>3. Len(s) = len
    <3>1. Len(Format(buff)) = len + 1
      BY <1>2, <1>3, <1>9 DEF UnreadKey, Unread, Counts
    <3>2. Len(s \o Char(c)) = Len(s) + 1
      BY <1>9, CharIs, ConcatProperties
    <3>3. QED
      BY <1>4, <1>5, <2>2, <3>1, <3>2
  <2>4. SubSeq(s, 1, len) \o <<c>> \o SubSeq(s, len + 1, Len(s)) = s \o <<c>>
    <3>1. SubSeq(s, 1, Len(s)) = s
      OBVIOUS
    <3>2. SubSeq(s, len + 1, Len(s)) = <<>>
      BY <1>5, <2>3
    <3>3. s \o <<c>> \in Seq(Valid)
      BY <1>9, ConcatProperties
    <3>4. (s \o <<c>>) \o <<>> = s \o <<c>>
      BY <3>3, ConcatEmptySeq
    <3>5. QED
      BY <2>3, <3>1, <3>2, <3>4
  <2>5. Format(buff') = Before(cursor) \o <<key>> \o After(cursor)
    BY <1>1, <1>4, <1>9, <2>1, <2>2, <2>4 DEF Before, After, Char
  <2>6. Rests(Before(cursor) \o <<key>> \o After(cursor), cursor + 1, seen.saved, seen.back)
    BY <1>1, <1>2, <1>4, <1>6, <2>1, <2>5, HistoryShown DEF Rests, Unmoved
  <2>7. Implements
    BY <1>4, <1>5, <1>9, <2>6, Inserts DEF Unmoved
  <2>8. QED
    BY <1>1, <1>6, <2>1, <2>7, FollowsQuiet
<1>10. CASE c \notin Valid
  <2>1. cursor' = cursor /\ pc' = "idle"
    BY <1>3, <1>5, <1>10 DEF ReadChar, Go
  <2>2. Format(buff') = seen.line
    BY <1>1, <1>4, <1>10, NoChar
  <2>3. Rests(seen.line, cursor, seen.saved, seen.back)
    BY <1>1, <1>2, <1>4, <1>6, <2>1, <2>2, HistoryShown DEF Rests, Unmoved
  <2>4. Implements
    BY <1>4, <1>10, <2>3, Idles DEF Unmoved
  <2>5. QED
    BY <1>1, <1>6, <2>1, <2>4, FollowsQuiet
<1>11. QED
  BY <1>8, <1>9, <1>10

----------------------------------------------------------------------------
(* A key that the task is at work on.                                      *)

\* The phase behind a step.
LEMMA NextPhase ==
  Counted' =>
    /\ pc' \in {"format", "formatLock", "formatCopy", "formatEnd"} => Formatting'
    /\ pc' \in {"left", "right"} => Moving'
    /\ pc' \in {"insert", "insertCopy", "insertEnd"} => Inserting'
    /\ pc' \in {"delete", "deleteLock", "deleteCopy", "deleteEnd"} => Deleting'
    /\ pc' \in {"run", "recall", "clear", "rewind", "recallLock", "recallCopy", "recallEnd"} => Running'
<1>1. Counted =>
        /\ pc \in {"format", "formatLock", "formatCopy", "formatEnd"} => Formatting
        /\ pc \in {"left", "right"} => Moving
        /\ pc \in {"insert", "insertCopy", "insertEnd"} => Inserting
        /\ pc \in {"delete", "deleteLock", "deleteCopy", "deleteEnd"} => Deleting
        /\ pc \in {"run", "recall", "clear", "rewind", "recallLock", "recallCopy", "recallEnd"} => Running
  BY FormatPhase, WorkPhase
<1>2. (Counted =>
        /\ pc \in {"format", "formatLock", "formatCopy", "formatEnd"} => Formatting
        /\ pc \in {"left", "right"} => Moving
        /\ pc \in {"insert", "insertCopy", "insertEnd"} => Inserting
        /\ pc \in {"delete", "deleteLock", "deleteCopy", "deleteEnd"} => Deleting
        /\ pc \in {"run", "recall", "clear", "rewind", "recallLock", "recallCopy", "recallEnd"} => Running)'
  BY <1>1, PTL
<1>3. QED
  BY <1>2, Zenon

LEMMA FormattingIs ==
  ASSUME Counted, Followed, pc \in {"format", "formatLock", "formatCopy", "formatEnd"}
  PROVE  ~ Quiet /\ FormattingKey
<1>1. ~ Quiet
  BY DEF Quiet
<1>2. QED
  BY <1>1, FollowedPhases

LEMMA FollowedFormat ==
  ASSUME Typist, Counted, Followed, FormatScan \/ FormatLock \/ FormatCopy, Counted'
  PROVE  Followed' /\ Implements
<1>1. pc \in {"format", "formatLock", "formatCopy"} /\ UNCHANGED <<cursor, len, next, ch, seen, key, history>>
  BY DEF FormatScan, FormatLock, FormatCopy, Go, Keeps, shown, ghost
<1>2. ~ Quiet /\ FormattingKey /\ Formatting
  BY <1>1, FormattingIs DEF FormattingKey
<1>3. Unmoved' /\ Line' = Line /\ KeyFor(next)' = KeyFor(next) /\ Goal' = Goal
  BY <1>1, <1>2, StaysUnmoved DEF FormattingKey, Line, KeyFor, Goal
<1>4. /\ pc' \in {"formatLock", "formatCopy", "formatEnd"}
      /\ pc' \in {"formatLock", "formatCopy"} => tmp' = Line
      /\ pc' = "formatEnd" => Content(buff', Goal) = Line
  <2>1. CASE FormatScan
    BY <1>2, <2>1 DEF FormatScan, FormattingKey, Formatting
  <2>2. CASE FormatLock
    BY <1>2, <2>2 DEF FormatLock, FormattingKey, Go
  <2>3. CASE FormatCopy
    <3>1. pc = "formatCopy" /\ tmp = Line /\ tmp \in Seq(Valid) /\ Len(tmp) = Goal /\ Goal <= LEN - RESERVED
      BY <1>2, <2>3 DEF FormatCopy, FormattingKey, Formatting
    <3>2. PICK c \in Characters \cup {NUL} : c = buff[LEN]
      BY TypedIs, Sizes DEF Counted, Buffers, Places
    <3>3. Content([Put(Blank, 0, tmp) EXCEPT ![LEN] = c], Len(tmp)) = tmp
      BY <3>1, CopyLine
    <3>4. QED
      BY <2>3, <3>1, <3>2, <3>3 DEF FormatCopy, Go
  <2>4. QED
    BY <2>1, <2>2, <2>3
<1>5. Formatting' /\ ~ Quiet'
  BY <1>4, NextPhase DEF Quiet
<1>6. FormattingKey'
  <2>1. key' = KeyFor(next)' /\ (next' = "insert" => key' \in Letters) /\ pc' # "format"
    BY <1>1, <1>2, <1>3, <1>4 DEF FormattingKey
  <2>2. QED
    BY <1>3, <1>4, <1>5, <2>1 DEF FormattingKey
<1>7. QED
  BY <1>1, <1>2, <1>5, <1>6, Follows DEF WorkingKey

LEMMA FollowedFormatEnd ==
  ASSUME Typist, Counted, Followed, FormatEnd, Counted'
  PROVE  Followed' /\ Implements
<1>1. pc = "formatEnd" /\ pc' = next /\ UNCHANGED <<buff, cursor, len, next, ch, seen, key, history>>
  BY DEF FormatEnd, Keeps, shown, ghost
<1>2. ~ Quiet /\ FormattingKey /\ next \in {"run", "delete", "insert", "right", "left", "recall"}
  BY <1>1, FormattingIs, FormatPhase
<1>3. Unmoved' /\ key' = KeyFor(next) /\ Content(buff', Goal) = Line /\ (next = "insert" => key' \in Letters)
  BY <1>1, <1>2, StaysUnmoved DEF FormattingKey
<1>4. ~ Quiet'
  BY <1>1, <1>2 DEF Quiet
<1>5. WorkingKey'
  <2>1. CASE next = "run"
    <3>1. Running'
      BY <1>1, <2>1, NextPhase
    <3>2. key' = "Enter" /\ Content(buff', len') = seen'.line
      BY <1>1, <1>3, <2>1 DEF KeyFor, Goal, Line
    <3>3. QED
      BY <1>1, <1>3, <2>1, <3>1, <3>2 DEF RunningKey, WorkingKey
  <2>2. CASE next = "recall"
    <3>1. Running'
      BY <1>1, <2>2, NextPhase
    <3>2. key' = "Recall" /\ Remembers'
      BY <1>3, <2>2 DEF KeyFor, Unmoved, Remembers
    <3>3. QED
      BY <1>1, <2>2, <3>1, <3>2 DEF RunningKey, WorkingKey
  <2>3. CASE next \in {"left", "right"}
    <3>1. Moving'
      BY <1>1, <2>3, NextPhase
    <3>2. key' = KeyFor(pc)' /\ Content(buff', len') = seen'.line
      BY <1>1, <1>3, <2>3 DEF KeyFor, Goal, Line
    <3>3. QED
      BY <1>3, <3>1, <3>2 DEF MovingKey, WorkingKey
  <2>4. CASE next = "insert"
    <3>1. Inserting'
      BY <1>1, <2>4, NextPhase
    <3>2. key' = ch' /\ key' \in Letters /\ Content(buff', len' + 1) = Append(seen'.line, ch')
      BY <1>1, <1>3, <2>4 DEF KeyFor, Goal, Line
    <3>3. QED
      BY <1>1, <1>3, <2>4, <3>1, <3>2 DEF InsertingKey, WorkingKey
  <2>5. CASE next = "delete"
    <3>1. Deleting'
      BY <1>1, <2>5, NextPhase
    <3>2. key' = "Backspace" /\ Content(buff', len') = seen'.line
      BY <1>1, <1>3, <2>5 DEF KeyFor, Goal, Line
    <3>3. QED
      BY <1>1, <1>3, <2>5, <3>1, <3>2 DEF DeletingKey, WorkingKey
  <2>6. QED
    BY <1>2, <2>1, <2>2, <2>3, <2>4, <2>5
<1>6. QED
  BY <1>1, <1>2, <1>4, <1>5, Follows

\* The end of the work on a line that is in the buffer.
LEMMA ComesToRest ==
  ASSUME Typist, Counted, pc \notin {"idle", "escape", "direction"}, NEW b \in Buffers, NEW n, Whole(b, n),
         buff' = b, write' = n, read' = n, len' = n, pc' = "idle", UNCHANGED pending
  PROVE  ~ Quiet /\ Quiet' /\ Format(buff') = Content(b, n)
<1>1. pending' = <<>> /\ ~ Quiet
  BY WorkPhase DEF Quiet
<1>2. Resting'
  BY <1>1, LineRests
<1>3. Quiet'
  BY <1>2, BehindStep
<1>4. QED
  BY <1>1, <1>3, FormatLine

LEMMA FollowedMove ==
  ASSUME Typist, Counted, Followed, MoveRight \/ MoveLeft, Counted'
  PROVE  Followed' /\ Implements
<1>1. pc \in {"left", "right"} /\ pc' = "idle"
      /\ UNCHANGED <<buff, read, write, len, history, pending, seen, key>>
  BY DEF MoveRight, MoveLeft, Go, line, Keeps, ghost
<1>2. Moving /\ cursor \in Nat /\ len \in Nat /\ cursor <= len /\ buff \in Buffers
  BY <1>1, WorkPhase
<1>3. Whole(buff, len) /\ write = len /\ read = len
  BY <1>2 DEF Moving, LineIs
<1>4. ~ Quiet /\ Quiet' /\ Format(buff') = Content(buff, len)
  BY <1>1, <1>2, <1>3, ComesToRest
<1>5. MovingKey
  BY <1>1, <1>4, FollowedPhases
<1>6. seen.cur = cursor /\ Content(buff, len) = seen.line /\ Len(seen.line) = len
  BY <1>3, <1>5, ContentIs DEF MovingKey, Unmoved, Whole
<1>7. Rests(seen.line, cursor', seen.saved, seen.back)
  BY <1>1, <1>4, <1>5, <1>6, HistoryShown DEF Rests, MovingKey, Unmoved
<1>8. Implements
  <2>1. CASE pc = "left"
    <3>1. key = "Left"
      BY <1>5, <2>1 DEF MovingKey, KeyFor
    <3>2. cursor' = IF cursor > 0 THEN cursor - 1 ELSE cursor
      BY <2>1 DEF MoveLeft, MoveRight
    <3>3. CASE cursor > 0
      BY <1>2, <1>6, <1>7, <3>1, <3>2, <3>3, Moves
    <3>4. CASE ~ (cursor > 0)
      <4>1. cursor = 0 /\ cursor' = cursor
        BY <1>2, <3>2, <3>4
      <4>2. QED
        BY <1>6, <1>7, <3>1, <4>1, Idles
    <3>5. QED
      BY <3>3, <3>4
  <2>2. CASE pc = "right"
    <3>1. key = "Right"
      BY <1>5, <2>2 DEF MovingKey, KeyFor
    <3>2. cursor' = IF cursor < len THEN cursor + 1 ELSE cursor
      BY <2>2 DEF MoveLeft, MoveRight
    <3>3. CASE cursor < len
      BY <1>2, <1>6, <1>7, <3>1, <3>2, <3>3, Moves
    <3>4. CASE ~ (cursor < len)
      <4>1. cursor = len /\ cursor' = cursor
        BY <1>2, <3>2, <3>4
      <4>2. QED
        BY <1>6, <1>7, <3>1, <4>1, Idles
    <3>5. QED
      BY <3>3, <3>4
  <2>3. QED
    BY <1>1, <2>1, <2>2
<1>9. QED
  BY <1>1, <1>4, <1>8, FollowsQuiet

----------------------------------------------------------------------------
(* A key that changes the line.                                            *)

\* The characters that stand in the buffer from a place on.
Reads(b, at, s) == \A j \in 1..Len(s) : s[j] = b[at + j - 1]
LEMMA StrReads ==
  ASSUME Typist, NEW b \in Buffers, NEW n, Formatted(b, n), NEW at \in 0..n
  PROVE  Reads(b, at, Str(b, at))
<1>1. PICK s : s = Str(b, at)
  OBVIOUS
<1>2. Len(s) = n - at
  BY <1>1, StrLine
<1>3. \A j \in 1..n - at : s[j] = b[at + j - 1]
  BY <1>1, StrLine
<1>4. QED
  BY <1>1, <1>2, <1>3 DEF Reads

LEMMA Behind ==
  ASSUME NEW b, NEW l \in Seq(Valid), Reads(b, 0, l), NEW at \in 0..Len(l), NEW s \in Seq(Valid),
         Len(s) = Len(l) - at, Reads(b, at, s)
  PROVE  s = SubSeq(l, at + 1, Len(l))
<1>0. PICK m \in Nat : m = Len(l)
  OBVIOUS
<1>1. SubSeq(l, at + 1, m) \in Seq(Valid) /\ Len(SubSeq(l, at + 1, m)) = m - at
      /\ \A j \in 1..m - at : SubSeq(l, at + 1, m)[j] = l[at + j]
  BY <1>0
<1>2. ASSUME NEW j \in 1..m - at
      PROVE  s[j] = SubSeq(l, at + 1, m)[j]
  <2>1. PICK i \in 1..m : i = at + j /\ i - 1 = at + j - 1 /\ 0 + i - 1 = i - 1
    BY <1>0
  <2>2. s[j] = b[at + j - 1]
    BY <1>0 DEF Reads
  <2>3. l[i] = b[0 + i - 1]
    BY <1>0 DEF Reads
  <2>4. QED
    BY <1>1, <2>1, <2>2, <2>3
<1>3. QED
  BY <1>0, <1>1, <1>2

\* What holds while a character is inserted.
LEMMA InsertingIs ==
  ASSUME Counted, Followed, pc \in {"insert", "insertCopy", "insertEnd"}
  PROVE  /\ ~ Quiet /\ InsertingKey /\ Inserting /\ seen.cur = cursor
         /\ cursor \in Nat /\ len \in Nat /\ cursor < len /\ buff \in Buffers
         /\ Whole(buff, len + 1) /\ write = len + 1 /\ read = len + 1 /\ ch \in Valid
         /\ seen.line \in Seq(Valid)
<1>1. ~ Quiet
  BY DEF Quiet
<1>2. InsertingKey
  BY <1>1, FollowedPhases
<1>3. QED
  BY <1>1, <1>2, WorkPhase DEF InsertingKey, Inserting, LineIs, Unmoved, Followed

LEMMA FollowedInsertSave ==
  ASSUME Typist, Counted, Followed, InsertSave, Counted'
  PROVE  Followed' /\ Implements
<1>1. pc = "insert" /\ pc' = "insertCopy" /\ UNCHANGED <<buff, cursor, len, ch, history, seen, key>>
  BY DEF InsertSave, line, shown, Keeps, ghost
<1>2. /\ ~ Quiet /\ InsertingKey /\ seen.cur = cursor
      /\ cursor \in Nat /\ len \in Nat /\ cursor < len /\ buff \in Buffers
      /\ Whole(buff, len + 1) /\ ch \in Valid /\ seen.line \in Seq(Valid)
  BY <1>1, InsertingIs
<1>3. PICK n \in Nat : n = len + 1
  BY <1>2
<1>4. PICK l \in Seq(Valid) : l = seen.line
  BY <1>2
<1>5. Content(buff, n) = Append(l, ch)
  BY <1>1, <1>2, <1>3, <1>4 DEF InsertingKey
<1>6. Len(l) = len /\ Reads(buff, 0, l)
  <2>1. Len(Content(buff, n)) = n
    BY <1>2, <1>3, ContentIs DEF Whole
  <2>2. Len(Append(l, ch)) = Len(l) + 1 /\ \A i \in 1..Len(l) : Append(l, ch)[i] = l[i]
    BY <1>2
  <2>3. Len(l) = len
    BY <1>2, <1>3, <1>5, <2>1, <2>2
  <2>4. ASSUME NEW i \in 1..Len(l)
        PROVE  l[i] = buff[0 + i - 1]
    <3>1. i \in 1..n /\ 0 + i - 1 = i - 1
      BY <1>2, <1>3, <2>3
    <3>2. Content(buff, n)[i] = buff[i - 1]
      BY <3>1 DEF Content
    <3>3. QED
      BY <1>5, <2>2, <3>1, <3>2
  <2>5. QED
    BY <2>3, <2>4 DEF Reads
<1>7. PICK s \in Seq(Valid) : s = Str(buff, cursor) /\ Len(s) = n - cursor /\ Reads(buff, cursor, s)
  <2>1. PICK at \in 0..n : at = cursor
    BY <1>2, <1>3
  <2>2. Formatted(buff, n)
    BY <1>2, <1>3 DEF Whole
  <2>3. Str(buff, at) \in Seq(Valid) /\ Len(Str(buff, at)) = n - at
    BY <1>2, <2>2, StrLine
  <2>4. Reads(buff, at, Str(buff, at))
    BY <1>2, <2>2, StrReads
  <2>5. QED
    BY <2>1, <2>3, <2>4
<1>8. PICK m \in Nat : m = len - cursor /\ m <= Len(s)
  BY <1>2, <1>3, <1>7
<1>9. tmp' = SubSeq(s, 1, m)
  <2>1. ~ (Len(s) < m)
    BY <1>7, <1>8
  <2>2. QED
    BY <1>7, <1>8, <2>1 DEF InsertSave
<1>10. PICK t \in Seq(Valid) : t = SubSeq(s, 1, m) /\ Len(t) = m /\ Reads(buff, cursor, t)
  <2>1. SubSeq(s, 1, m) \in Seq(Valid) /\ Len(SubSeq(s, 1, m)) = m /\ \A j \in 1..m : SubSeq(s, 1, m)[j] = s[j]
    BY <1>8
  <2>2. PICK t \in Seq(Valid) : t = SubSeq(s, 1, m) /\ Len(t) = m /\ \A j \in 1..m : t[j] = s[j]
    BY <2>1
  <2>3. ASSUME NEW j \in 1..Len(t)
        PROVE  t[j] = buff[cursor + j - 1]
    <3>1. j \in 1..Len(s) /\ j \in 1..m
      BY <1>8, <2>2
    <3>2. s[j] = buff[cursor + j - 1]
      BY <1>7, <3>1 DEF Reads
    <3>3. QED
      BY <2>2, <3>1, <3>2
  <2>4. Reads(buff, cursor, t)
    BY <2>3 DEF Reads
  <2>5. QED
    BY <2>2, <2>4
<1>11. tmp' = SubSeq(l, cursor + 1, len)
  <2>1. PICK at \in 0..Len(l) : at = cursor /\ Len(t) = Len(l) - at
    BY <1>2, <1>6, <1>8, <1>10
  <2>2. t = SubSeq(l, at + 1, Len(l))
    BY <1>6, <1>10, <2>1, Behind
  <2>3. QED
    BY <1>6, <1>9, <1>10, <2>1, <2>2
<1>12. tmp' = After(cursor)'
  BY <1>1, <1>4, <1>6, <1>11 DEF After
<1>13. Inserting' /\ ~ Quiet' /\ Unmoved'
  BY <1>1, <1>2, NextPhase, StaysUnmoved DEF Quiet, InsertingKey
<1>14. InsertingKey'
  BY <1>1, <1>2, <1>12, <1>13 DEF InsertingKey
<1>15. QED
  BY <1>1, <1>2, <1>13, <1>14, Follows DEF WorkingKey

LEMMA FollowedInsertCopy ==
  ASSUME Typist, Counted, Followed, InsertCopy, Counted'
  PROVE  Followed' /\ Implements
<1>1. pc = "insertCopy" /\ pc' = "insertEnd" /\ buff' = PutStr(buff, cursor, <<ch>> \o tmp)
      /\ UNCHANGED <<cursor, len, ch, tmp, history, seen, key>>
  BY DEF InsertCopy, shown, Keeps, ghost, Go
<1>2. /\ ~ Quiet /\ InsertingKey /\ seen.cur = cursor
      /\ cursor \in Nat /\ len \in Nat /\ cursor < len /\ buff \in Buffers
      /\ Whole(buff, len + 1) /\ ch \in Valid /\ seen.line \in Seq(Valid)
      /\ tmp \in Seq(Valid) /\ Len(tmp) = len - cursor
  BY <1>1, InsertingIs DEF Inserting, Rest
<1>3. PICK n \in Nat : n = len + 1
  BY <1>2
<1>4. PICK l \in Seq(Valid) : l = seen.line
  BY <1>2
<1>5. Content(buff, n) = Append(l, ch)
  BY <1>1, <1>2, <1>3, <1>4 DEF InsertingKey
<1>6. Len(l) = len
  <2>1. Len(Content(buff, n)) = n
    BY <1>2, <1>3, ContentIs DEF Whole
  <2>2. Len(Append(l, ch)) = Len(l) + 1
    BY <1>2
  <2>3. QED
    BY <1>2, <1>3, <1>5, <2>1, <2>2
<1>7. PICK s \in Seq(Valid) : s = <<ch>> \o tmp /\ Len(s) = 1 + (len - cursor)
  <2>1. <<ch>> \in Seq(Valid) /\ Len(<<ch>>) = 1
    BY <1>2
  <2>2. <<ch>> \o tmp \in Seq(Valid) /\ Len(<<ch>> \o tmp) = Len(<<ch>>) + Len(tmp)
    BY <1>2, <2>1, ConcatProperties
  <2>3. QED
    BY <1>2, <2>1, <2>2
<1>8. PICK at \in 0..n : at = cursor /\ at + Len(s) = n /\ at + Len(s) <= LEN - RESERVED /\ n <= at + Len(s) + 1
  BY <1>2, <1>3, <1>7, Sizes DEF Whole, Formatted, RESERVED
<1>9. Content(PutStr(buff, at, s), at + Len(s)) = SubSeq(Content(buff, n), 1, at) \o s
  BY <1>2, <1>3, <1>7, <1>8, PutLine
<1>10. SubSeq(Append(l, ch), 1, at) = SubSeq(l, 1, at)
  <2>1. at \in 0..Len(l)
    BY <1>2, <1>6, <1>8
  <2>2. QED
    BY <1>2, <2>1
<1>11. Content(buff', n) = SubSeq(l, 1, at) \o s
  BY <1>1, <1>5, <1>7, <1>8, <1>9, <1>10
<1>12. tmp = After(cursor)
  BY <1>1, <1>2 DEF InsertingKey
<1>13. Content(buff', len' + 1) = Before(cursor)' \o (<<ch'>> \o After(cursor)')
  BY <1>1, <1>3, <1>4, <1>7, <1>8, <1>11, <1>12 DEF Before, After
<1>14. Inserting' /\ ~ Quiet' /\ Unmoved' /\ tmp' = After(cursor)'
  BY <1>1, <1>2, <1>12, NextPhase, StaysUnmoved DEF Quiet, InsertingKey, After
<1>15. InsertingKey'
  BY <1>1, <1>2, <1>13, <1>14 DEF InsertingKey
<1>16. QED
  BY <1>1, <1>2, <1>14, <1>15, Follows DEF WorkingKey

LEMMA FollowedInsertEnd ==
  ASSUME Typist, Counted, Followed, InsertEnd, Counted'
  PROVE  Followed' /\ Implements
<1>1. pc = "insertEnd" /\ pc' = "idle" /\ cursor' = LeftBy(Len(Str(buff, 0)), Len(tmp)) /\ len' = len + 1
      /\ UNCHANGED <<buff, read, write, history, pending, seen, key>>
  BY DEF InsertEnd, line, Keeps, Done, ghost
<1>2. /\ ~ Quiet /\ InsertingKey /\ seen.cur = cursor
      /\ cursor \in Nat /\ len \in Nat /\ cursor < len /\ buff \in Buffers
      /\ Whole(buff, len + 1) /\ write = len + 1 /\ read = len + 1 /\ ch \in Valid /\ seen.line \in Seq(Valid)
      /\ tmp \in Seq(Valid) /\ Len(tmp) = len - cursor
  BY <1>1, InsertingIs DEF Inserting, Rest
<1>3. PICK n \in Nat : n = len + 1 /\ Whole(buff, n) /\ read = n /\ write = n
  BY <1>2
<1>4. Quiet' /\ Format(buff') = Content(buff, n)
  BY <1>1, <1>2, <1>3, ComesToRest
<1>5. Len(Str(buff, 0)) = n
  BY <1>2, <1>3, StrLine DEF Whole
<1>6. cursor' = cursor + 1
  BY <1>1, <1>2, <1>3, <1>5 DEF LeftBy
<1>7. Content(buff, n) = Before(cursor) \o (<<key>> \o After(cursor)) /\ key \in Letters
  BY <1>1, <1>2, <1>3 DEF InsertingKey
<1>8. Before(cursor) \o (<<key>> \o After(cursor)) = Before(cursor) \o <<key>> \o After(cursor)
  <2>1. key \in Valid
    BY <1>7 DEF Valid
  <2>2. After(cursor) \in Seq(Valid)
    BY <1>1, <1>2 DEF InsertingKey
  <2>3. PICK l \in Seq(Valid) : l = seen.line
    BY <1>2
  <2>4. cursor \in 0..Len(l)
    <3>1. SubSeq(l, cursor + 1, Len(l)) = tmp
      BY <1>1, <1>2, <2>3 DEF InsertingKey, After
    <3>2. PICK k \in Nat, p \in Nat : k = Len(l) /\ p = cursor
      BY <1>2
    <3>3. ASSUME p > k
          PROVE  FALSE
      <4>1. Len(SubSeq(l, p + 1, k)) = 0
        BY <3>2, <3>3
      <4>2. Len(tmp) > 0
        BY <1>2
      <4>3. QED
        BY <3>1, <3>2, <4>1, <4>2
    <3>4. QED
      BY <1>2, <3>2, <3>3
  <2>5. SubSeq(l, 1, cursor) \in Seq(Valid)
    BY <2>4
  <2>6. PICK p \in Seq(Valid), q \in Seq(Valid), r \in Seq(Valid) :
          p = Before(cursor) /\ q = <<key>> /\ r = After(cursor)
    <3>1. <<key>> \in Seq(Valid)
      BY <2>1
    <3>2. Before(cursor) \in Seq(Valid)
      BY <2>3, <2>5 DEF Before
    <3>3. QED
      BY <2>2, <3>1, <3>2
  <2>7. p \o (q \o r) = (p \o q) \o r
    BY Joined
  <2>8. QED
    BY <2>6, <2>7
<1>9. Rests(Before(cursor) \o <<key>> \o After(cursor), cursor + 1, seen.saved, seen.back)
  BY <1>1, <1>2, <1>4, <1>6, <1>7, <1>8, HistoryShown DEF Rests, InsertingKey, Unmoved
<1>10. Implements
  BY <1>2, <1>7, <1>9, Inserts
<1>11. QED
  BY <1>1, <1>4, <1>10, FollowsQuiet

\* What holds while one is deleted.
LEMMA DeletingIs ==
  ASSUME Counted, Followed, pc \in {"delete", "deleteLock", "deleteCopy", "deleteEnd"}
  PROVE  /\ ~ Quiet /\ DeletingKey /\ Deleting /\ seen.cur = cursor /\ key = "Backspace"
         /\ cursor \in Nat /\ len \in Nat /\ cursor > 0 /\ cursor <= len /\ buff \in Buffers
         /\ seen.line \in Seq(Valid) /\ read = len
<1>1. ~ Quiet
  BY DEF Quiet
<1>2. DeletingKey
  BY <1>1, FollowedPhases
<1>3. QED
  BY <1>1, <1>2, WorkPhase DEF DeletingKey, Deleting, Unmoved, Followed

LEMMA FollowedDeleteSave ==
  ASSUME Typist, Counted, Followed, DeleteSave, Counted'
  PROVE  Followed' /\ Implements
<1>1. pc = "delete" /\ pc' = "deleteLock" /\ tmp' = Str(buff, cursor)
      /\ UNCHANGED <<buff, cursor, len, history, seen, key>>
  BY DEF DeleteSave, line, shown, Keeps, ghost
<1>2. /\ ~ Quiet /\ DeletingKey /\ Deleting
      /\ cursor \in Nat /\ len \in Nat /\ cursor > 0 /\ cursor <= len /\ buff \in Buffers
         /\ seen.line \in Seq(Valid)
  BY <1>1, DeletingIs
<1>3. Formatted(buff, len)
  BY <1>1, <1>2 DEF Deleting, LineIs, Whole
<1>4. PICK l \in Seq(Valid) : l = seen.line /\ l = Content(buff, len) /\ Len(l) = len
  BY <1>1, <1>2, <1>3, ContentIs DEF DeletingKey
<1>5. Reads(buff, 0, l)
  <2>1. ASSUME NEW i \in 1..len
        PROVE  l[i] = buff[0 + i - 1]
    <3>1. 0 + i - 1 = i - 1
      BY <1>2
    <3>2. QED
      BY <1>4, <3>1 DEF Content
  <2>2. QED
    BY <1>4, <2>1 DEF Reads
<1>6. tmp' = SubSeq(l, cursor + 1, len)
  <2>1. PICK at \in 0..len : at = cursor /\ at \in 0..Len(l)
    BY <1>2, <1>4
  <2>2. Str(buff, at) \in Seq(Valid) /\ Len(Str(buff, at)) = len - at
    BY <1>2, <1>3, StrLine
  <2>3. Reads(buff, at, Str(buff, at))
    BY <1>2, <1>3, StrReads
  <2>4. PICK t \in Seq(Valid) : t = Str(buff, at) /\ Len(t) = Len(l) - at /\ Reads(buff, at, t)
    BY <1>4, <2>2, <2>3
  <2>5. t = SubSeq(l, at + 1, Len(l))
    BY <1>5, <2>1, <2>4, Behind
  <2>6. QED
    BY <1>1, <1>4, <2>1, <2>4, <2>5
<1>7. tmp' = After(cursor)'
  BY <1>1, <1>4, <1>6 DEF After
<1>8. Deleting' /\ ~ Quiet' /\ Unmoved'
  BY <1>1, <1>2, NextPhase, StaysUnmoved DEF Quiet, DeletingKey
<1>9. DeletingKey'
  BY <1>1, <1>2, <1>7, <1>8 DEF DeletingKey
<1>10. QED
  BY <1>1, <1>2, <1>8, <1>9, Follows DEF WorkingKey

LEMMA FollowedDeleteLock ==
  ASSUME Typist, Counted, Followed, DeleteLock, Counted'
  PROVE  Followed' /\ Implements
<1>1. pc = "deleteLock" /\ pc' = "deleteCopy" /\ UNCHANGED <<buff, cursor, len, tmp, history, seen, key>>
  BY DEF DeleteLock, Go, shown, Keeps, ghost
<1>2. ~ Quiet /\ DeletingKey
  BY <1>1, DeletingIs
<1>3. Deleting' /\ ~ Quiet' /\ Unmoved'
  BY <1>1, <1>2, NextPhase, StaysUnmoved DEF Quiet, DeletingKey
<1>4. DeletingKey'
  BY <1>1, <1>2, <1>3 DEF DeletingKey, After
<1>5. QED
  BY <1>1, <1>2, <1>3, <1>4, Follows DEF WorkingKey

LEMMA FollowedDeleteCopy ==
  ASSUME Typist, Counted, Followed, DeleteCopy, Counted'
  PROVE  Followed' /\ Implements
<1>1. pc = "deleteCopy" /\ pc' = "deleteEnd" /\ buff' = PutStr(buff, cursor - 1, tmp)
      /\ UNCHANGED <<cursor, len, tmp, history, seen, key>>
  BY DEF DeleteCopy, Go, shown, Keeps, ghost, history
<1>2. /\ ~ Quiet /\ DeletingKey /\ Deleting
      /\ cursor \in Nat /\ len \in Nat /\ cursor > 0 /\ cursor <= len /\ buff \in Buffers
         /\ seen.line \in Seq(Valid)
  BY <1>1, DeletingIs
<1>3. Whole(buff, len) /\ tmp \in Seq(Valid) /\ Len(tmp) = len - cursor
  BY <1>1, <1>2 DEF Deleting, LineIs, Rest
<1>4. PICK at \in 0..len : at = cursor - 1 /\ at + Len(tmp) = len - 1
  BY <1>2, <1>3
<1>5. len - 1 <= LEN - RESERVED /\ len <= len - 1 + 1
  BY <1>2, <1>3, Sizes DEF Whole, Formatted, RESERVED
<1>6. Content(PutStr(buff, at, tmp), at + Len(tmp)) = SubSeq(Content(buff, len), 1, at) \o tmp
  BY <1>2, <1>3, <1>4, <1>5, PutLine
<1>7. Content(buff, len) = seen.line /\ tmp = After(cursor)
  BY <1>1, <1>2 DEF DeletingKey
<1>8. Content(buff', len' - 1) = Before(cursor - 1)' \o After(cursor)'
  BY <1>1, <1>4, <1>6, <1>7 DEF Before, After
<1>9. Deleting' /\ ~ Quiet' /\ Unmoved' /\ tmp' = After(cursor)'
  BY <1>1, <1>2, <1>7, NextPhase, StaysUnmoved DEF Quiet, DeletingKey, After
<1>10. DeletingKey'
  BY <1>1, <1>2, <1>8, <1>9 DEF DeletingKey
<1>11. QED
  BY <1>1, <1>2, <1>9, <1>10, Follows DEF WorkingKey

LEMMA FollowedDeleteEnd ==
  ASSUME Typist, Counted, Followed, DeleteEnd, Counted'
  PROVE  Followed' /\ Implements
<1>1. pc = "deleteEnd" /\ pc' = "idle" /\ read' = read - 1 /\ len' = Len(Str(buff, 0))
      /\ cursor' = LeftBy(len', Len(tmp))
      /\ UNCHANGED <<buff, write, history, pending, seen, key>>
  BY DEF DeleteEnd, Keeps, Done, ghost
<1>2. /\ ~ Quiet /\ DeletingKey /\ Deleting /\ seen.cur = cursor /\ key = "Backspace"
      /\ cursor \in Nat /\ len \in Nat /\ cursor > 0 /\ cursor <= len /\ buff \in Buffers /\ read = len
  BY <1>1, DeletingIs
<1>3. Whole(buff, len - 1) /\ write = len - 1 /\ Len(tmp) = len - cursor
  BY <1>1, <1>2 DEF Deleting, LineIs, Rest
<1>4. PICK n \in Nat : n = len - 1 /\ Whole(buff, n) /\ write = n
  BY <1>2, <1>3
<1>5. Len(Str(buff, 0)) = n
  BY <1>2, <1>4, StrLine DEF Whole
<1>6. Quiet' /\ Format(buff') = Content(buff, n)
  BY <1>1, <1>2, <1>4, <1>5, ComesToRest
<1>7. PICK m : m = cursor - 1
  OBVIOUS
<1>8. cursor' = m
  BY <1>1, <1>2, <1>3, <1>4, <1>5, <1>7 DEF LeftBy
<1>9. Content(buff, n) = Before(m) \o After(cursor)
  BY <1>1, <1>2, <1>4, <1>7 DEF DeletingKey
<1>10. Rests(Before(m) \o After(cursor), m, seen.saved, seen.back)
  BY <1>1, <1>2, <1>6, <1>8, <1>9, HistoryShown DEF Rests, DeletingKey, Unmoved
<1>11. Implements
  BY <1>2, <1>7, <1>10, Backspaces
<1>12. QED
  BY <1>1, <1>6, <1>11, FollowsQuiet

----------------------------------------------------------------------------
(* A key that runs the line or recalls one.                                *)

\* What holds while a line is run or recalled.
LEMMA RunningIs ==
  ASSUME Counted, Followed, pc \in {"run", "recall", "clear", "rewind", "recallLock", "recallCopy", "recallEnd"}
  PROVE  /\ ~ Quiet /\ RunningKey /\ Running /\ Typed /\ Sane /\ HistoryKept /\ hread <= Entries
         /\ buff \in Buffers /\ len \in Nat
<1>1. ~ Quiet
  BY DEF Quiet
<1>2. RunningKey
  BY <1>1, FollowedPhases
<1>3. QED
  BY <1>1, <1>2, WorkPhase DEF Sane, Followed

\* A step that leaves the key at work, with a change of the history or without.
LEMMA FollowsRunning ==
  ASSUME Followed, ~ Quiet, ~ Quiet', UNCHANGED <<seen, key>>, RunningKey', hread' <= Entries'
  PROVE  Followed' /\ Implements
<1>1. Implements
  BY NothingSeen
<1>2. QED
  BY <1>1 DEF Followed, WorkingKey

LEMMA FollowedRun ==
  ASSUME Typist, Counted, Followed, Run, Counted'
  PROVE  Followed' /\ Implements
<1>1. pc = "run" /\ pc' = "clear" /\ next' = "idle" /\ UNCHANGED <<seen, key>>
  BY DEF Run, Keeps, ghost
<1>2. ~ Quiet /\ RunningKey /\ Running /\ Typed /\ HistoryKept /\ hread <= Entries /\ buff \in Buffers
      /\ len \in Nat
  BY <1>1, RunningIs
<1>3. key = "Enter" /\ Unmoved /\ Content(buff, len) = seen.line /\ Formatted(buff, len)
  BY <1>1, <1>2 DEF RunningKey, Running
<1>4. seen.line \in Seq(Valid) /\ Len(seen.line) = len
  BY <1>3, ContentIs
<1>5. Running' /\ ~ Quiet'
  BY <1>1, NextPhase DEF Quiet
<1>6. Entered' /\ hread' <= Entries'
  <2>1. CASE buff[0] = NUL
    <3>1. UNCHANGED history
      BY <2>1 DEF Run
    <3>2. ~ (len > 0)
      BY <1>3, <2>1, Sizes, Distinct DEF Formatted, Places
    <3>3. seen.line = <<>>
      BY <1>2, <1>4, <3>2
    <3>4. QED
      BY <1>1, <1>2, <1>3, <3>1, <3>3, HistoryShown DEF Entered, EnteredLine, Unmoved
  <2>2. CASE buff[0] # NUL
    <3>1. /\ hist' = [hist EXCEPT ![hwrite] = Str(buff, 0)] /\ hwrite' = (hwrite + 1) % HIST
          /\ full' = (full \/ hwrite + 1 >= HIST) /\ hread' = hwrite + 1
      BY <2>2 DEF Run
    <3>2. len # 0
      BY <1>3, <2>2, Sizes DEF Formatted, Places
    <3>3. seen.line # <<>>
      BY <1>4, <3>2
    <3>4. PICK s \in Seq(Valid) : s = seen.line /\ s = Str(buff, 0)
      BY <1>2, <1>3, <1>4, StrContent
    <3>5. hist' = [hist EXCEPT ![hwrite] = s]
      BY <3>1, <3>4
    <3>6. /\ Saved' = SubSeq(<<s>> \o Saved, 1, IF Len(Saved) < HIST THEN Len(Saved) + 1 ELSE HIST)
          /\ Back' = 0 /\ hread' <= Entries'
      BY <1>2, <3>1, <3>5, Entering
    <3>7. QED
      BY <1>1, <1>3, <3>3, <3>4, <3>6 DEF Entered, EnteredLine, Unmoved
  <2>3. QED
    BY <2>1, <2>2
<1>7. RunningKey'
  BY <1>1, <1>3, <1>5, <1>6 DEF RunningKey
<1>8. QED
  BY <1>1, <1>2, <1>5, <1>6, <1>7, FollowsRunning

LEMMA FollowedRecallOrClear ==
  ASSUME Typist, Counted, Followed, Recall \/ Clear, Counted'
  PROVE  Followed' /\ Implements
<1>1. pc \in {"recall", "clear"} /\ UNCHANGED <<seen, key, history>>
  BY DEF Recall, Clear, Keeps, ghost
<1>2. ~ Quiet /\ RunningKey /\ hread <= Entries
  BY <1>1, RunningIs
<1>3. pc' \in {"clear", "rewind"}
  BY DEF Recall, Clear, Go
<1>4. Running' /\ ~ Quiet'
  BY <1>3, NextPhase DEF Quiet
<1>5. Saved' = Saved /\ Back' = Back /\ hread' <= Entries'
  BY <1>1, <1>2, HistoryShown
<1>6. (Entered => Entered') /\ (Remembers => Remembers')
  BY <1>1, <1>5 DEF Entered, Remembers, EnteredLine
<1>7. CASE Recall
  <2>1. pc = "recall" /\ pc' = "clear" /\ next' = "recallLock"
    BY <1>7 DEF Recall
  <2>2. key = "Recall" /\ Remembers
    BY <1>2, <2>1 DEF RunningKey
  <2>3. RunningKey'
    BY <1>1, <1>4, <1>6, <2>1, <2>2 DEF RunningKey
  <2>4. QED
    BY <1>1, <1>2, <1>4, <1>5, <2>3, FollowsRunning
<1>8. CASE Clear
  <2>1. pc = "clear" /\ pc' = "rewind" /\ next' = next
    BY <1>8 DEF Clear, Go
  <2>2. \/ next = "idle" /\ key = "Enter" /\ Entered
        \/ next = "recallLock" /\ key = "Recall" /\ Remembers
    BY <1>2, <2>1 DEF RunningKey
  <2>3. RunningKey'
    BY <1>1, <1>4, <1>6, <2>1, <2>2 DEF RunningKey
  <2>4. QED
    BY <1>1, <1>2, <1>4, <1>5, <2>3, FollowsRunning
<1>9. QED
  BY <1>7, <1>8

LEMMA FollowedRewind ==
  ASSUME Typist, Counted, Followed, Rewind, Counted'
  PROVE  Followed' /\ Implements
<1>1. /\ pc = "rewind" /\ pc' = next /\ read' = 0 /\ write' = 0 /\ cursor' = 0 /\ len' = 0
      /\ UNCHANGED <<buff, history, pending, seen, key>>
  BY DEF Rewind, Keeps, ghost
<1>2. ~ Quiet /\ RunningKey /\ Running /\ hread <= Entries
  BY <1>1, RunningIs
<1>3. \/ next = "idle" /\ key = "Enter" /\ Entered
      \/ next = "recallLock" /\ key = "Recall" /\ Remembers
  BY <1>1, <1>2 DEF RunningKey
<1>4. buff = Blank
  BY <1>1, <1>2 DEF Running
<1>5. Saved' = Saved /\ Back' = Back /\ hread' <= Entries'
  BY <1>1, <1>2, HistoryShown
<1>6. CASE next = "idle"
  <2>1. key = "Enter" /\ EnteredLine(seen.line, seen, Saved, Back)
    BY <1>3, <1>6 DEF Entered
  <2>2. PICK b \in Buffers : b = Blank /\ Whole(b, 0)
    BY BlankIs
  <2>3. Quiet' /\ Format(buff') = Content(b, 0)
    BY <1>1, <1>4, <1>6, <2>2, ComesToRest
  <2>4. Content(b, 0) = <<>>
    <3>1. Content(b, 0) \in Seq(Valid) /\ Len(Content(b, 0)) = 0
      BY <2>2, ContentIs DEF Whole
    <3>2. QED
      BY <3>1
  <2>5. Rests(<<>>, 0, Saved, Back)
    BY <1>1, <1>2, <1>5, <2>3, <2>4 DEF Rests
  <2>6. Implements
    BY <2>1, <2>5, Enters
  <2>7. QED
    BY <1>1, <2>3, <2>6, FollowsQuiet
<1>7. CASE next = "recallLock"
  <2>1. key = "Recall" /\ Remembers'
    BY <1>1, <1>3, <1>5, <1>7 DEF Remembers
  <2>2. Running' /\ ~ Quiet'
    BY <1>1, <1>7, NextPhase DEF Quiet
  <2>3. RunningKey'
    BY <1>1, <1>7, <2>1, <2>2 DEF RunningKey
  <2>4. QED
    BY <1>1, <1>2, <1>5, <2>2, <2>3, FollowsRunning
<1>8. QED
  BY <1>3, <1>6, <1>7

LEMMA FollowedRecallLock ==
  ASSUME Typist, Counted, Followed, RecallLock, Counted'
  PROVE  Followed' /\ Implements
<1>1. pc = "recallLock" /\ pc' = "recallCopy" /\ hread' = hread - 1
      /\ UNCHANGED <<hist, hwrite, full, seen, key>>
  BY DEF RecallLock, Keeps, Go, ghost
<1>2. ~ Quiet /\ RunningKey /\ Typed /\ HistoryKept /\ hread <= Entries
  BY <1>1, RunningIs
<1>3. key = "Recall" /\ Saved = seen.saved /\ Back = seen.back
  BY <1>1, <1>2 DEF RunningKey, Remembers
<1>4. hread > 0
  BY <1>1, <1>2 DEF Typed
<1>5. /\ Saved[Back + 1] = hist[hread - 1]
      /\ (Newest - (hread - 1 - 1)) % Entries = (Back + 1) % Len(Saved)
  BY <1>2, <1>4, GoingBack
<1>6. Saved' = Saved /\ Entries' = Entries /\ Newest' = Newest
  BY <1>1, HistoryUnmoved
<1>7. PICK e \in Nat, r \in Nat : e = Entries /\ r = hread /\ r > 0 /\ r <= e
  BY <1>2, <1>4, TypedIs
<1>8. hread' <= Entries' /\ Entries # 0
  BY <1>1, <1>6, <1>7
<1>9. Back' = (Back + 1) % Len(Saved)
  BY <1>1, <1>5, <1>6, <1>8 DEF Back
<1>10. Recalled' /\ hist'[hread'] = seen'.saved[seen'.back + 1]
  BY <1>1, <1>3, <1>5, <1>6, <1>9 DEF Recalled
<1>11. Running' /\ ~ Quiet'
  BY <1>1, NextPhase DEF Quiet
<1>12. RunningKey'
  BY <1>1, <1>3, <1>10, <1>11 DEF RunningKey
<1>13. QED
  BY <1>1, <1>2, <1>8, <1>11, <1>12, FollowsRunning

LEMMA FollowedRecallCopy ==
  ASSUME Typist, Counted, Followed, RecallCopy, Counted'
  PROVE  Followed' /\ Implements
<1>1. /\ pc = "recallCopy" /\ pc' = "recallEnd" /\ buff' = Put(buff, 0, hist[hread])
         /\ write' = Len(Str(buff', 0))
      /\ UNCHANGED <<history, seen, key>>
  BY DEF RecallCopy, Keeps, Go, ghost
<1>2. ~ Quiet /\ RunningKey /\ Running /\ Typed /\ HistoryKept /\ hread <= Entries
  BY <1>1, RunningIs
<1>3. key = "Recall" /\ Recalled /\ hist[hread] = seen.saved[seen.back + 1] /\ buff = Blank
  BY <1>1, <1>2 DEF RunningKey, Running
<1>4. PICK s \in Seq(Valid) : s = hist[hread] /\ Len(s) <= LEN - RESERVED
  <2>1. hread \in 0..HIST - 1
    BY <1>1, <1>2, TypedIs, Sizes DEF Typed
  <2>2. QED
    BY <1>2, <2>1 DEF HistoryKept
<1>5. Whole(buff', Len(s)) /\ Content(buff', Len(s)) = s
  BY <1>1, <1>3, <1>4, CopyLine
<1>6. Str(buff', 0) = s
  <2>1. PICK b \in Buffers : b = buff'
    BY TypedIs DEF Counted, Typed, TypeOK, Buffers, Places
  <2>2. Formatted(b, Len(s))
    BY <1>5, <2>1 DEF Whole
  <2>3. Str(b, 0) = Content(b, Len(s))
    BY <2>2, StrContent
  <2>4. QED
    BY <1>5, <2>1, <2>3
<1>7. Content(buff', write') = seen'.saved[seen'.back + 1]
  BY <1>1, <1>3, <1>4, <1>5, <1>6
<1>8. Recalled' /\ hread' <= Entries'
  BY <1>1, <1>2, <1>3, HistoryShown DEF Recalled
<1>9. Running' /\ ~ Quiet'
  BY <1>1, NextPhase DEF Quiet
<1>10. RunningKey'
  BY <1>1, <1>3, <1>7, <1>8, <1>9 DEF RunningKey
<1>11. QED
  BY <1>1, <1>2, <1>8, <1>9, <1>10, FollowsRunning

LEMMA FollowedRecallEnd ==
  ASSUME Typist, Counted, Followed, RecallEnd, Counted'
  PROVE  Followed' /\ Implements
<1>1. /\ pc = "recallEnd" /\ pc' = "idle" /\ read' = Len(Str(buff, 0)) /\ len' = read' /\ cursor' = read'
      /\ hread' = IF hread = 0 THEN Entries ELSE hread
      /\ UNCHANGED <<buff, write, pending, hist, hwrite, full, seen, key>>
  BY DEF RecallEnd, Keeps, Done, ghost
<1>2. ~ Quiet /\ RunningKey /\ Running /\ Typed /\ HistoryKept /\ hread <= Entries /\ buff \in Buffers
  BY <1>1, RunningIs
<1>3. key = "Recall" /\ Recalled /\ Content(buff, write) = seen.saved[seen.back + 1] /\ Whole(buff, write)
  BY <1>1, <1>2 DEF RunningKey, Running, LineIs
<1>4. PICK n \in Nat : n = write /\ Whole(buff, n)
  BY <1>2, <1>3, WholeRests
<1>5. PICK l \in Seq(Valid) : l = Content(buff, n) /\ Len(l) = n /\ l = seen.saved[seen.back + 1]
  BY <1>3, <1>4, ContentIs DEF Whole
<1>6. Len(Str(buff, 0)) = n
  BY <1>2, <1>4, <1>5, StrContent DEF Whole
<1>7. Quiet' /\ Format(buff') = l
  BY <1>1, <1>2, <1>4, <1>5, <1>6, ComesToRest
<1>8. Saved' = Saved /\ Entries' = Entries /\ Newest' = Newest
  BY <1>1, HistoryUnmoved
<1>9. PICK e \in Nat : e = Entries /\ e > 0
  BY <1>1, <1>2, TypedIs DEF HistoryKept
<1>10. Back' = Back
  <2>1. CASE hread = 0
    <3>1. (Newest - (Entries - 1)) % Entries = (Newest - (0 - 1)) % Entries
      BY <1>2, <1>9, StartingOver
    <3>2. QED
      BY <1>1, <1>8, <2>1, <3>1 DEF Back
  <2>2. CASE hread # 0
    BY <1>1, <2>2, HistoryUnmoved
  <2>3. QED
    BY <2>1, <2>2
<1>11. seen.saved # <<>>
  <2>1. Len(Saved) = e
    BY <1>2, <1>9, SavedIs
  <2>2. QED
    BY <1>3, <1>9, <2>1 DEF Recalled
<1>12. Rests(l, n, seen.saved, (seen.back + 1) % Len(seen.saved))
  BY <1>1, <1>2, <1>3, <1>6, <1>7, <1>8, <1>10 DEF Rests, Recalled
<1>13. Implements
  BY <1>3, <1>5, <1>11, <1>12, RecallsLine
<1>14. hread' <= Entries'
  BY <1>1, <1>2, <1>8, <1>9
<1>15. QED
  BY <1>1, <1>7, <1>13, <1>14 DEF Followed

----------------------------------------------------------------------------
(* Every step, and the theorem.                                            *)

LEMMA FollowedStays ==
  ASSUME Followed, UNCHANGED vars
  PROVE  Followed' /\ Implements
<1>1. UNCHANGED <<buff, read, write, cursor, len, history, hist, hread, pc, next, ch, tmp, pending, seen, key>>
  BY DEF vars, line, shown, history, local, ghost
<1>2. Quiet' <=> Quiet
  BY <1>1 DEF Quiet, Readable
<1>3. Shown' = Shown /\ (IF Quiet THEN "none" ELSE key)' = IF Quiet THEN "none" ELSE key
  <2>1. View' = View
    BY <1>1, HistoryShown DEF View, Newest, history
  <2>2. QED
    BY <1>1, <1>2, <2>1 DEF Shown
<1>4. Implements
  BY <1>3 DEF Implements, Editor!vars
<1>5. Unmoved' = Unmoved
  BY <1>1, HistoryShown DEF Unmoved
<1>6. PressedKey => PressedKey'
  BY <1>1, <1>5 DEF PressedKey, Pressed, Settled, Stored, Counts, Spare
<1>7. UnreadKey => UnreadKey'
  BY <1>1, <1>5 DEF UnreadKey, Unread, Stored, Counts
<1>8. ArrivingKey => ArrivingKey'
  BY <1>1, <1>5 DEF ArrivingKey, Sent, Counts, history
<1>9. EscapedKey => EscapedKey'
  BY <1>1, <1>5 DEF EscapedKey, Resting, Settled, Stored, Counts
<1>10. FormattingKey => FormattingKey'
  BY <1>1, <1>5 DEF FormattingKey, Formatting, Goal, Counts, Line, KeyFor
<1>11. MovingKey => MovingKey'
  BY <1>1, <1>5 DEF MovingKey, Moving, LineIs, KeyFor
<1>12. InsertingKey => InsertingKey'
  BY <1>1, <1>5 DEF InsertingKey, Inserting, LineIs, Rest, Before, After
<1>13. DeletingKey => DeletingKey'
  BY <1>1, <1>5 DEF DeletingKey, Deleting, LineIs, Rest, Before, After
<1>14. RunningKey => RunningKey'
  BY <1>1, <1>5, HistoryShown DEF RunningKey, Running, LineIs, Entered, EnteredLine, Remembers, Recalled,
     history
<1>15. hread' <= Entries' /\ seen'.line \in Seq(Valid)
  BY <1>1, HistoryShown DEF Followed
<1>16. Quiet' \/ PressedKey' \/ UnreadKey' \/ ArrivingKey' \/ EscapedKey' \/ WorkingKey'
  BY <1>2, <1>6, <1>7, <1>8, <1>9, <1>10, <1>11, <1>12, <1>13, <1>14 DEF Followed, WorkingKey
<1>17. QED
  BY <1>4, <1>15, <1>16 DEF Followed

LEMMA FollowedNext ==
  ASSUME Typist, Distinguished, Counted, Followed, [Next]_vars
  PROVE  Followed' /\ Implements
<1>0. Counted'
  BY CountedNext
<1>1. CASE UNCHANGED vars
  BY <1>1, FollowedStays
<1>2. CASE \E k \in DOMAIN Chars : Press(k)
  BY <1>0, <1>2, FollowedPress
<1>3. CASE Uart
  BY <1>0, <1>3, FollowedUart
<1>4. CASE Event
  <2>1. CASE ReadEnter \/ ReadBackspace \/ ReadEscape \/ ReadChar \/ EscapeNext \/ DirectionNext \/ WaitEnds
    BY <1>0, <2>1, FollowedReadEnter, FollowedReadBackspace, FollowedReadEscape, FollowedReadChar,
       FollowedEscapeNext, FollowedDirectionNext, FollowedWaitEnds
  <2>2. CASE FormatScan \/ FormatLock \/ FormatCopy \/ FormatEnd
    BY <1>0, <2>2, FollowedFormat, FollowedFormatEnd
  <2>3. CASE MoveRight \/ MoveLeft \/ InsertSave \/ InsertCopy \/ InsertEnd
    BY <1>0, <2>3, FollowedMove, FollowedInsertSave, FollowedInsertCopy, FollowedInsertEnd
  <2>4. CASE DeleteSave \/ DeleteLock \/ DeleteCopy \/ DeleteEnd
    BY <1>0, <2>4, FollowedDeleteSave, FollowedDeleteLock, FollowedDeleteCopy, FollowedDeleteEnd
  <2>5. CASE Run \/ Recall \/ Clear \/ Rewind \/ RecallLock \/ RecallCopy \/ RecallEnd
    BY <1>0, <2>5, FollowedRun, FollowedRecallOrClear, FollowedRewind, FollowedRecallLock, FollowedRecallCopy,
       FollowedRecallEnd
  <2>6. QED
    BY <1>4, <2>1, <2>2, <2>3, <2>4, <2>5 DEF Event
<1>5. QED
  BY <1>1, <1>2, <1>3, <1>4 DEF Next

\* On the same terminal every key has, once it is handled, its effect on the line, the
\* cursor and the history, and only that: the steps of the handler (terminal.c:47-96) and of
\* the task (terminal.c:114-407, 646-751) are those of a line editor or are not seen.
THEOREM EditorImplemented ==
  ASSUME Typist, Distinguished
  PROVE  Spec => EditsLine
<1>1. Init => Counted /\ Followed /\ Editor!Init
  BY CountedInit, FollowedInit
<1>2. Counted /\ [Next]_vars => Counted'
  BY CountedNext
<1>3. Counted /\ Followed /\ [Next]_vars => Followed' /\ [Editor!Next]_(Editor!vars)
  BY FollowedNext DEF Implements
<1>4. QED
  BY <1>1, <1>2, <1>3, PTL DEF Spec, EditsLine, Editor!Spec

=============================================================================
