------------------------------ MODULE Terminal ------------------------------
(***************************************************************************)
(* The terminal of mcu_sal_terminal.c.  The UART handler appends received  *)
(* characters to buff, which is not a ring; the terminal task reads them,  *)
(* edits the line in the same buffer and runs it on Enter.  lock makes the *)
(* handler drop what it receives while the task moves buff and write.      *)
(*                                                                         *)
(* An action of the task is the code between two places where a received   *)
(* character makes a difference; the handler runs between any two of them. *)
(***************************************************************************)
EXTENDS Integers, Sequences

CONSTANTS
  LEN,       \* TERMINAL_BUFF_LEN
  HIST,      \* CLI_HISTORY_CMD_NUM
  Letters,   \* characters with CHECK_CHAR_VALID that are typed
  Others,    \* further characters that are typed, valid or not
  Keys,      \* the control keys that are used
  Paced,     \* TRUE: a key is pressed only when the one before is handled
  Roomy,     \* TRUE: arrow keys are pressed only with room for them in buff and,
             \* for the recall, with a history; other characters only as the first
  MaxLine,   \* bound: letters are typed into lines shorter than this
  MaxKeys    \* bound, when not Paced: the number of keys pressed

RESERVED == 3   \* places at the end of buff for control characters

ASSUME TerminalAssumption ==
  /\ LEN \in Nat /\ LEN > RESERVED
  /\ HIST \in Nat \ {0}
  /\ Keys \subseteq {"Enter", "Backspace", "Left", "Right", "Recall"}
  /\ Paced \in BOOLEAN /\ Roomy \in BOOLEAN /\ MaxLine \in Nat /\ MaxKeys \in Nat

NUL == "NUL"   BS == "BS"   CR == "CR"   ESC == "ESC"   LB == "["   SKIP == "#"

\* What a key sends.  The letters of the arrow keys are valid characters too.
Chars == [k \in Letters \cup Others \cup Keys |->
            CASE k = "Enter" -> <<CR>>
              [] k = "Backspace" -> <<BS>>
              [] k = "Recall" -> <<ESC, LB, "A">>
              [] k = "Right" -> <<ESC, LB, "C">>
              [] k = "Left" -> <<ESC, LB, "D">>
              [] OTHER -> <<k>>]

Valid == Letters \cup {"A", "C", "D", SKIP}

VARIABLES
  buff, read, write, lock, cursor, len, skip,  \* TERMINAL_STRUCT_T; lock = 1: open
  key_flag,                                    \* static in _terminal_recv_char
  hist, hwrite, hread, full,                   \* HISTORY_CMD_STRUCT_T
  pc, next, ch, tmp,    \* the task: where it is, where it goes after a helper, locals
  pending,              \* characters on the line, not yet received
  key, seen, count      \* history: the key pressed last, the editor at that time and,
                        \* when not Paced, how many keys have been pressed

line == <<buff, read, write, lock>>
shown == <<cursor, len, skip>>
history == <<hist, hwrite, hread, full>>
local == <<pc, next, ch, tmp>>
ghost == <<key, seen, count>>
vars == <<line, shown, key_flag, history, local, pending, ghost>>

----------------------------------------------------------------------------
(* Strings in the buffer.                                                  *)

Blank == [i \in 0..LEN |-> NUL]

\* The position of the first NUL from at on, or the one behind the buffer.
End(b, at) ==
  CHOOSE e \in at..LEN + 1 : /\ e <= LEN => b[e] = NUL
                            /\ \A i \in at..e - 1 : b[i] # NUL

\* The characters from position at up to there.
Str(b, at) == IF at > LEN THEN <<>> ELSE [n \in 1..End(b, at) - at |-> b[at + n - 1]]

\* b with the characters of s from position at on; what does not fit is outside.
Put(b, at, s) ==
  [i \in 0..LEN |-> IF at <= i /\ i < at + Len(s) THEN s[i - at + 1] ELSE b[i]]

PutStr(b, at, s) == Put(b, at, Append(s, NUL))

\* _terminal_format_buff's scan: the sequences of the arrow keys and the control
\* characters are left out.  After a sequence the character that follows is
\* taken without another look at what it begins.
Kept(b, i) == IF i <= LEN /\ b[i] \in Valid THEN <<b[i]>> ELSE <<>>

Sequence(b, i) == i < LEN /\ b[i] = ESC /\ b[i + 1] = LB

Scan(b) ==
  LET f[i \in 0..LEN + 4] ==
        IF i > LEN \/ b[i] = NUL THEN <<>>
        ELSE IF Sequence(b, i) THEN Kept(b, i + 3) \o f[i + 4] ELSE Kept(b, i) \o f[i + 1]
  IN f

Format(b) == Scan(b)[0]

\* A pointer may leave buff: before it by a deletion, behind it by a second
\* character past the end, which goes into the pointer read.  What the program does
\* then is undefined; here nothing is read or stored there.
Defined == read >= 0 /\ write \in 0..LEN + 1

Readable == read < write /\ read \in 0..LEN /\ buff[read] # NUL

Quiet == pc = "idle" /\ pending = <<>> /\ ~ Readable

----------------------------------------------------------------------------
(* The editor as its user sees it (LineEditor).                            *)

Entries == IF full THEN HIST ELSE hwrite
Newest == IF hwrite = 0 THEN HIST - 1 ELSE hwrite - 1

View ==
  [line |-> Format(buff), cur |-> cursor, spare |-> IF write > LEN THEN 0 ELSE LEN - write,
   saved |-> [i \in 1..Entries |-> hist[(Newest - (i - 1)) % Entries]],
   back |-> IF Entries = 0 THEN 0 ELSE (Newest - (hread - 1)) % Entries]

----------------------------------------------------------------------------
Init ==
  /\ buff = Blank /\ read = 0 /\ write = 0 /\ lock = 1
  /\ cursor = 0 /\ len = 0 /\ skip = FALSE /\ key_flag = FALSE
  /\ hist = [i \in 0..HIST - 1 |-> <<>>] /\ hwrite = 0 /\ hread = 0 /\ full = FALSE
  /\ pc = "idle" /\ next = "idle" /\ ch = NUL /\ tmp = <<>>
  /\ pending = <<>> /\ key = "none"
  /\ seen = View /\ count = 0

----------------------------------------------------------------------------
(* The line and UART0's handler.                                           *)

Press(k) ==
  /\ pending = <<>>
  /\ IF Paced THEN Quiet /\ UNCHANGED count
              ELSE count < MaxKeys /\ count' = count + 1
  /\ Roomy /\ k \in {"Left", "Right", "Recall"} => LEN - write >= 2 * RESERVED
  /\ k \in Letters => len < MaxLine
  /\ Roomy /\ k \in Others => write = 0
  /\ Roomy /\ k = "Recall" => Entries > 0
  /\ pending' = Chars[k]
  /\ key' = k
  /\ seen' = IF Paced THEN View ELSE seen
  /\ UNCHANGED <<line, shown, key_flag, history, local>>

\* The place for the next character is free.  Behind the array lies the pointer
\* read, whose first byte, the memory type, is never 0.
Free == write \in 0..LEN /\ buff[write] = NUL

Store(c, n) ==
  /\ buff' = Put(buff, write, [i \in 1..n |-> c])
  /\ write' = write + n

\* The first LEN - RESERVED places take any character.
RecvChar ==
  /\ pending # <<>> /\ write < LEN - RESERVED
  /\ Store(Head(pending), IF Free /\ lock = 1 THEN 1 ELSE 0)
  /\ pending' = Tail(pending)
  /\ UNCHANGED <<read, lock, shown, key_flag, history, local, ghost>>

\* The last ones take Enter, Backspace and, from ESC on, whatever comes.  Both
\* tests may hold, and then the character is stored twice.
RecvControl ==
  /\ pending # <<>> /\ write >= LEN - RESERVED
  /\ LET c == Head(pending)
         control == c \in {BS, CR} /\ lock = 1
         flag == key_flag \/ (~ control /\ c = ESC)
         n == (IF control THEN 1 ELSE 0) + (IF flag /\ lock = 1 THEN 1 ELSE 0)
     IN IF Free
        THEN Store(c, n) /\ key_flag' = (flag /\ write' # LEN)
        ELSE UNCHANGED <<buff, write, key_flag>>
  /\ pending' = Tail(pending)
  /\ UNCHANGED <<read, lock, shown, history, local, ghost>>

Uart == RecvChar \/ RecvControl

----------------------------------------------------------------------------
(* terminal_event_handle.                                                  *)

Go(p) == pc' = p /\ UNCHANGED <<next, ch, tmp>>

\* _terminal_format_buff first, then p.
FormatThen(p, c) == pc' = "format" /\ next' = p /\ ch' = c /\ UNCHANGED tmp

Take(C) == Readable /\ buff[read] \in C /\ read' = read + 1

KeepsLine == UNCHANGED <<buff, write, lock, key_flag, history, pending, ghost>>

ReadEnter ==
  /\ pc = "idle" /\ Take({CR})
  /\ FormatThen("run", NUL)
  /\ UNCHANGED shown /\ KeepsLine

ReadBackspace ==
  /\ pc = "idle" /\ Take({BS})
  /\ IF cursor > 0 THEN FormatThen("delete", NUL) ELSE Go("idle")
  /\ UNCHANGED shown /\ KeepsLine

ReadEscape ==
  /\ pc = "idle" /\ Take({ESC})
  /\ Go("escape")
  /\ UNCHANGED shown /\ KeepsLine

\* _terminal_insert_char up to the first change of the buffer.
ReadChar ==
  /\ pc = "idle"
  /\ Readable /\ buff[read] \notin {CR, BS, ESC} /\ read' = read + 1
  /\ skip' = (skip \/ (buff[read] = SKIP /\ cursor = 0))
  /\ IF buff[read] \in Valid /\ ~ skip'
     THEN IF cursor < len
          THEN FormatThen("insert", buff[read]) /\ UNCHANGED <<cursor, len>>
          ELSE cursor' = cursor + 1 /\ len' = len + 1 /\ Go("idle")
     ELSE Go("idle") /\ UNCHANGED <<cursor, len>>
  /\ KeepsLine

\* The second character after ESC, read with a long wait; anything but "[" is lost.
EscapeNext ==
  /\ pc = "escape" /\ Readable
  /\ read' = read + 1
  /\ Go(IF buff[read] = LB THEN "direction" ELSE "idle")
  /\ UNCHANGED shown /\ KeepsLine

\* _terminal_handle_direction_key, as far as the buffer's formatting.
DirectionNext ==
  /\ pc = "direction" /\ Readable
  /\ read' = read + 1
  /\ CASE buff[read] = "A" /\ hread > 0 -> FormatThen("recall", NUL)
       [] buff[read] = "C" -> FormatThen("right", NUL)
       [] buff[read] = "D" -> FormatThen("left", NUL)
       [] OTHER -> Go("idle")
  /\ UNCHANGED shown /\ KeepsLine

\* Nothing came within 65535 turns of the loop, many times what a character takes.
WaitEnds ==
  /\ pc \in {"escape", "direction"}
  /\ ~ Readable /\ pending = <<>>
  /\ Go("idle")
  /\ UNCHANGED <<line, shown, key_flag, history, pending, ghost>>

----------------------------------------------------------------------------
(* _terminal_format_buff: scan, then replace the buffer under the lock.    *)

Keeps == UNCHANGED <<key_flag, pending, ghost>>

FormatScan ==
  /\ pc = "format"
  /\ IF buff[0] = NUL
     THEN pc' = next /\ UNCHANGED tmp
     ELSE pc' = "formatLock" /\ tmp' = Format(buff)
  /\ UNCHANGED <<line, shown, history, next, ch>> /\ Keeps

FormatLock ==
  /\ pc = "formatLock"
  /\ lock' = 0 /\ Go("formatCopy")
  /\ UNCHANGED <<buff, read, write, shown, history>> /\ Keeps

\* The copy leaves the last place of buff alone.
FormatCopy ==
  /\ pc = "formatCopy"
  /\ buff' = [Put(Blank, 0, tmp) EXCEPT ![LEN] = buff[LEN]]
  /\ write' = Len(tmp) /\ lock' = 1
  /\ Go("formatEnd")
  /\ UNCHANGED <<read, shown, history>> /\ Keeps

FormatEnd ==
  /\ pc = "formatEnd"
  /\ read' = Len(tmp)
  /\ pc' = next /\ tmp' = <<>>
  /\ UNCHANGED <<buff, write, lock, shown, history, next, ch>> /\ Keeps

----------------------------------------------------------------------------
(* Moving, inserting, deleting.                                            *)

MoveRight ==
  /\ pc = "right" /\ Go("idle")
  /\ cursor' = IF cursor < len THEN cursor + 1 ELSE cursor
  /\ UNCHANGED <<line, len, skip, history>> /\ Keeps

MoveLeft ==
  /\ pc = "left" /\ Go("idle")
  /\ cursor' = IF cursor > 0 THEN cursor - 1 ELSE cursor
  /\ UNCHANGED <<line, len, skip, history>> /\ Keeps

Done == pc' = "idle" /\ next' = "idle" /\ ch' = NUL /\ tmp' = <<>>

\* The part of the line behind the cursor; len does not count the new character.
InsertSave ==
  /\ pc = "insert"
  /\ LET s == Str(buff, cursor)
     IN tmp' = SubSeq(s, 1, IF Len(s) < len - cursor THEN Len(s) ELSE len - cursor)
  /\ pc' = "insertCopy"
  /\ UNCHANGED <<line, shown, history, next, ch>> /\ Keeps

\* Without the lock: a character received since InsertSave may be overwritten.
InsertCopy ==
  /\ pc = "insertCopy"
  /\ buff' = PutStr(buff, cursor, <<ch>> \o tmp)
  /\ Go("insertEnd")
  /\ UNCHANGED <<read, write, lock, shown, history>> /\ Keeps

LeftBy(c, n) == IF c > n THEN c - n ELSE 0

InsertEnd ==
  /\ pc = "insertEnd" /\ Done
  /\ cursor' = LeftBy(Len(Str(buff, 0)), Len(tmp))
  /\ len' = len + 1
  /\ UNCHANGED <<line, skip, history>> /\ Keeps

DeleteSave ==
  /\ pc = "delete"
  /\ tmp' = Str(buff, cursor)
  /\ pc' = "deleteLock"
  /\ UNCHANGED <<line, shown, history, next, ch>> /\ Keeps

DeleteLock ==
  /\ pc = "deleteLock"
  /\ lock' = 0 /\ Go("deleteCopy")
  /\ UNCHANGED <<buff, read, write, shown, history>> /\ Keeps

DeleteCopy ==
  /\ pc = "deleteCopy"
  /\ buff' = PutStr(buff, cursor - 1, tmp)
  /\ write' = write - 1 /\ lock' = 1
  /\ Go("deleteEnd")
  /\ UNCHANGED <<read, shown, history>> /\ Keeps

\* Mutant of DeleteEnd: the line's length is not counted again.
DeleteEndKeepsLen ==
  /\ pc = "deleteEnd" /\ Done
  /\ read' = read - 1
  /\ cursor' = LeftBy(len, Len(tmp))
  /\ UNCHANGED <<buff, write, lock, len, skip, history>> /\ Keeps

DeleteEnd ==
  /\ pc = "deleteEnd" /\ Done
  /\ read' = read - 1
  /\ len' = Len(Str(buff, 0))
  /\ cursor' = LeftBy(len', Len(tmp))
  /\ UNCHANGED <<buff, write, lock, skip, history>> /\ Keeps

----------------------------------------------------------------------------
(* Running a line and recalling one.                                       *)

\* Mutant of Run: the history's write index does not wrap around.
RunNoWrap ==
  /\ pc = "run"
  /\ IF buff[0] = NUL
     THEN UNCHANGED history
     ELSE /\ hist' = [hist EXCEPT ![hwrite] = Str(buff, 0)]
          /\ hread' = hwrite + 1
          /\ hwrite' = hwrite + 1
          /\ full' = (full \/ hwrite + 1 >= HIST)
  /\ pc' = "clear" /\ next' = "idle"
  /\ UNCHANGED <<line, shown, ch, tmp>> /\ Keeps

\* _terminal_run_cmd: an empty line is not saved, and runs nothing.
Run ==
  /\ pc = "run"
  /\ IF buff[0] = NUL
     THEN UNCHANGED history
     ELSE /\ hist' = [hist EXCEPT ![hwrite] = Str(buff, 0)]
          /\ hread' = hwrite + 1
          /\ hwrite' = (hwrite + 1) % HIST
          /\ full' = (full \/ hwrite + 1 >= HIST)
  /\ pc' = "clear" /\ next' = "idle"
  /\ UNCHANGED <<line, shown, ch, tmp>> /\ Keeps

Recall ==
  /\ pc = "recall"
  /\ pc' = "clear" /\ next' = "recallLock"
  /\ UNCHANGED <<line, shown, history, ch, tmp>> /\ Keeps

\* _terminal_deinit: the buffer first, then the pointers, without the lock.
Clear ==
  /\ pc = "clear"
  /\ buff' = Blank /\ Go("rewind")
  /\ UNCHANGED <<read, write, lock, shown, history>> /\ Keeps

Rewind ==
  /\ pc = "rewind"
  /\ read' = 0 /\ write' = 0
  /\ cursor' = 0 /\ len' = 0 /\ skip' = FALSE
  /\ pc' = next /\ next' = "idle"
  /\ UNCHANGED <<buff, lock, history, ch, tmp>> /\ Keeps

RecallLock ==
  /\ pc = "recallLock"
  /\ hread' = hread - 1
  /\ lock' = 0 /\ Go("recallCopy")
  /\ UNCHANGED <<buff, read, write, shown, hist, hwrite, full>> /\ Keeps

RecallCopy ==
  /\ pc = "recallCopy"
  /\ buff' = Put(buff, 0, hist[hread])
  /\ write' = Len(Str(buff', 0)) /\ lock' = 1
  /\ Go("recallEnd")
  /\ UNCHANGED <<read, shown, history>> /\ Keeps

\* Mutant of RecallEnd: the recall starts over at the write index even when the
\* history is full.
RecallEndForgetsFull ==
  /\ pc = "recallEnd" /\ Done
  /\ read' = Len(Str(buff, 0)) /\ len' = read' /\ cursor' = read'
  /\ hread' = IF hread = 0 THEN hwrite ELSE hread
  /\ UNCHANGED <<buff, write, lock, skip, hist, hwrite, full>> /\ Keeps

RecallEnd ==
  /\ pc = "recallEnd" /\ Done
  /\ read' = Len(Str(buff, 0)) /\ len' = read' /\ cursor' = read'
  /\ hread' = IF hread = 0 THEN Entries ELSE hread
  /\ UNCHANGED <<buff, write, lock, skip, hist, hwrite, full>> /\ Keeps

----------------------------------------------------------------------------
Event ==
  \/ ReadEnter \/ ReadBackspace \/ ReadEscape \/ ReadChar
  \/ EscapeNext \/ DirectionNext \/ WaitEnds
  \/ FormatScan \/ FormatLock \/ FormatCopy \/ FormatEnd
  \/ MoveRight \/ MoveLeft
  \/ InsertSave \/ InsertCopy \/ InsertEnd
  \/ DeleteSave \/ DeleteLock \/ DeleteCopy \/ DeleteEnd
  \/ Run \/ Recall \/ Clear \/ Rewind
  \/ RecallLock \/ RecallCopy \/ RecallEnd

Next == (\E k \in DOMAIN Chars : Press(k)) \/ Uart \/ Event

Spec == Init /\ [][Next]_vars

----------------------------------------------------------------------------
(* Properties.                                                             *)

Characters == Valid \cup Others \cup {BS, CR, ESC, LB}
Lines == UNION {[1..n -> Characters] : n \in 0..LEN + 1}

TypeOK ==
  /\ buff \in [0..LEN -> Characters \cup {NUL}]
  /\ read \in -1..LEN + 1 /\ write \in -1..LEN + 2
  /\ lock \in {0, 1} /\ skip \in BOOLEAN /\ key_flag \in BOOLEAN
  /\ cursor \in Nat /\ len \in Nat
  /\ DOMAIN hist = 0..HIST - 1
  /\ hwrite \in 0..HIST - 1 /\ hread \in 0..HIST /\ full \in BOOLEAN

\* Between two keys that are typed slowly enough the formatted buffer is the line
\* on the screen: as long as the editor counts, the cursor within it.
LineCounted == Paced /\ Quiet => len = Len(Format(buff)) /\ cursor <= len

\* Typed slowly enough, the terminal is a line editor: every key has its effect
\* on the line, the cursor and the history, and only that.
Shown == IF Quiet THEN View ELSE seen
Editor == INSTANCE LineEditor WITH
  Ignored <- Others, Size <- LEN, line <- Shown.line, cur <- Shown.cur, saved <- Shown.saved,
  back <- Shown.back, spare <- Shown.spare, key <- IF Quiet THEN "none" ELSE key
EditsLine == Editor!Spec

\* The task never has read past what the handler has written, as buff is not a
\* ring (terminal.c:127, 382).
ReadBehindWrite == pc = "idle" /\ Defined => read <= write

============================================================================
