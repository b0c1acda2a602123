----------------------------- MODULE LineEditor -----------------------------
(***************************************************************************)
(* What mcu_sal_terminal.c promises to somebody who types at a pace it can *)
(* follow: one key after another, each handled as a whole.  There is a     *)
(* line with a cursor, and the commands entered so far, the newest first.  *)
(***************************************************************************)
EXTENDS Naturals, Sequences, SequencesExt

CONSTANTS
  Letters,   \* characters that go into the line
  Ignored,   \* characters that it takes and that do nothing
  Size,      \* characters the terminal has room for
  RESERVED,  \* of them, kept for control characters
  HIST       \* commands it remembers

VARIABLES
  line, cur,    \* the line, and how many of its characters are left of the cursor
  saved, back,  \* commands entered, how many steps back the last recall went
  spare,        \* room left
  key           \* the key being handled

vars == <<line, cur, saved, back, spare, key>>

NoKey == "none"
Control == {"Enter", "Backspace", "Left", "Right", "Recall"}

Init ==
  /\ line = <<>> /\ cur = 0
  /\ saved = <<>> /\ back = 0
  /\ spare = Size /\ key = NoKey

Press(c) ==
  /\ key = NoKey
  /\ key' = c
  /\ UNCHANGED <<line, cur, saved, back, spare>>

Handled == key' = NoKey /\ spare' \in 0..Size

Insert ==
  /\ key \in Letters
  /\ line' = InsertAt(line, cur + 1, key)
  /\ cur' = cur + 1
  /\ UNCHANGED <<saved, back>>

Backspace ==
  /\ key = "Backspace" /\ cur > 0
  /\ line' = RemoveAt(line, cur)
  /\ cur' = cur - 1
  /\ UNCHANGED <<saved, back>>

Move ==
  /\ \/ key = "Left" /\ cur > 0 /\ cur' = cur - 1
     \/ key = "Right" /\ cur < Len(line) /\ cur' = cur + 1
  /\ UNCHANGED <<line, saved, back>>

Enter ==
  /\ key = "Enter"
  /\ line' = <<>> /\ cur' = 0
  /\ IF line = <<>>
     THEN UNCHANGED <<saved, back>>
     ELSE /\ saved' = SubSeq(<<line>> \o saved, 1, IF Len(saved) < HIST THEN Len(saved) + 1
                                                   ELSE HIST)
          /\ back' = 0

Recall ==
  /\ key = "Recall" /\ saved # <<>>
  /\ line' = saved[back + 1]
  /\ cur' = Len(line')
  /\ back' = (back + 1) % Len(saved)
  /\ UNCHANGED saved

\* A key that has nothing to act on, or for which there is no room left.
Idle ==
  /\ \/ key = "Backspace" /\ cur = 0
     \/ key = "Left" /\ cur = 0
     \/ key = "Right" /\ cur = Len(line)
     \/ key = "Recall" /\ saved = <<>>
     \/ key \in Ignored
     \/ key # NoKey /\ spare <= RESERVED
  /\ UNCHANGED <<line, cur, saved, back>>

Handle == Handled /\ (Insert \/ Backspace \/ Move \/ Enter \/ Recall \/ Idle)

Next == Handle \/ \E c \in Letters \cup Ignored \cup Control : Press(c)

Spec == Init /\ [][Next]_vars
=============================================================================
