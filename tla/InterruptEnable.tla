--------------------------- MODULE InterruptEnable ---------------------------
(***************************************************************************)
(* The global interrupt enable EA.  Critical sections, the string output   *)
(* and the start-up set it; the UART's transmitter, the receiver and the   *)
(* tick need it, and uart_putchar waits for a flag that only the UART's    *)
(* handler clears.  The parts are those of Efm8lb12_uart.c, of             *)
(* mcu_sal_mdio.c, whose frames are critical sections, and of the main     *)
(* loop with the terminal's task.                                          *)
(*                                                                         *)
(* A call of the terminal's task is a sequence of operations (todo).  One  *)
(* task is posted, so the fast queue is a flag: it is empty or holds the   *)
(* task once (QueueShapeCorrect of TaskSchedulerProofs).                   *)
(***************************************************************************)
EXTENDS Naturals, Sequences

CONSTANTS
  Phy,       \* whether the PHY answers a read: what it may do, a set of Booleans
  Boot,      \* strings printed while the board starts, before EA is set
  CHARS,     \* characters of a string
  MAXKEYS    \* characters the terminal keeps

ASSUME EnableAssumption ==
  /\ Phy \subseteq BOOLEAN /\ Phy # {}
  /\ Boot \in Nat /\ CHARS \in Nat \ {0} /\ MAXKEYS \in Nat \ {0}

\* What a received character makes the terminal's task do: an ordinary one is echoed;
\* the others are the Enter after a line mdior, mdiow, or any that only prints.
String == <<"string">>
SendRegAddr == <<"lock", "unlock">>
MdioRead == SendRegAddr \o <<"lock", "turnaround", "unlock">>
AfterLine == String \o <<"clear">> \o String

Work ==
  [char  |-> <<"char">>,
   mdior |-> MdioRead \o String \o AfterLine,
   mdiow |-> SendRegAddr \o String \o AfterLine,
   text  |-> String \o AfterLine]

VARIABLES
  EA,
  busy,                \* the flag of uart_putchar
  sending,             \* SBUF0 holds a character that is on its way
  RI, TI, TF2H,        \* the UART's received and sent, TIMER2's overflow
  keys,                \* received, not read yet
  posted,              \* the fast queue holds the terminal's task
  pc,                  \* "call": operations of todo; "put", "store": uart_putchar;
                       \* "loop", "poll": task_run
  caller,              \* where todo was begun: "boot", "fast", "polled"
  todo, saved, left    \* EA_SAVE of uart_put_string; characters of this operation left

hardware == <<sending, RI, TI, TF2H>>
vars == <<EA, busy, hardware, keys, posted, pc, caller, todo, saved, left>>

Init ==
  /\ EA = 0 /\ busy = 0 /\ sending = FALSE
  /\ RI = 0 /\ TI = 0 /\ TF2H = 0
  /\ keys = <<>> /\ posted = FALSE
  /\ pc = "call" /\ caller = "boot"
  /\ todo = [n \in 1..Boot |-> "string"] /\ saved = 0 /\ left = 0

----------------------------------------------------------------------------
(* The operations.                                                         *)

At(op) == pc = "call" /\ todo # <<>> /\ Head(todo) = op

\* ENTER_CRITICAL and EXIT_CRITICAL.
Lock ==
  /\ At("lock")
  /\ EA' = 0 /\ todo' = Tail(todo)
  /\ UNCHANGED <<busy, hardware, keys, posted, pc, caller, saved, left>>

Unlock ==
  /\ At("unlock")
  /\ EA' = 1 /\ todo' = Tail(todo)
  /\ UNCHANGED <<busy, hardware, keys, posted, pc, caller, saved, left>>

\* Mutant of TurnAround: whatever the PHY does, the function returns here.
TurnAroundReturns ==
  /\ At("turnaround")
  /\ todo' = Tail(Tail(todo))
  /\ UNCHANGED <<EA, busy, hardware, keys, posted, pc, caller, saved, left>>

\* mdio_read returns from within its critical section when the PHY does not answer.
TurnAround ==
  /\ At("turnaround")
  /\ \E answers \in Phy : todo' = IF answers THEN Tail(todo) ELSE Tail(Tail(todo))
  /\ UNCHANGED <<EA, busy, hardware, keys, posted, pc, caller, saved, left>>

\* Mutant of StringBegin: EA is left as it is.
StringBeginQuiet ==
  /\ At("string")
  /\ saved' = EA /\ left' = CHARS /\ pc' = "put"
  /\ UNCHANGED <<EA, busy, hardware, keys, posted, caller, todo>>

\* uart_put_string.
StringBegin ==
  /\ At("string")
  /\ saved' = EA /\ EA' = 1 /\ left' = CHARS /\ pc' = "put"
  /\ UNCHANGED <<busy, hardware, keys, posted, caller, todo>>

\* An echo, which calls uart_putchar and not uart_put_string.
CharBegin ==
  /\ At("char")
  /\ left' = 1 /\ pc' = "put"
  /\ UNCHANGED <<EA, busy, hardware, keys, posted, caller, todo, saved>>

\* Mutant of PutWait: the string's terminator is sent as well.
PutWaitTerminator ==
  /\ pc = "put" /\ busy = 0
  /\ busy' = 1 /\ pc' = "store"
  /\ UNCHANGED <<EA, hardware, keys, posted, caller, todo, saved, left>>

\* uart_putchar: while(busy); busy = 1
PutWait ==
  /\ pc = "put" /\ left > 0 /\ busy = 0
  /\ busy' = 1 /\ pc' = "store"
  /\ UNCHANGED <<EA, hardware, keys, posted, caller, todo, saved, left>>

\* SBUF0 = ch
PutStore ==
  /\ pc = "store"
  /\ sending' = TRUE /\ left' = left - 1 /\ pc' = "put"
  /\ UNCHANGED <<EA, busy, RI, TI, TF2H, keys, posted, caller, todo, saved>>

PutEnd ==
  /\ pc = "put" /\ left = 0
  /\ EA' = IF Head(todo) = "string" THEN saved ELSE EA
  /\ todo' = Tail(todo) /\ pc' = "call"
  /\ UNCHANGED <<busy, hardware, keys, posted, caller, saved, left>>

\* _terminal_deinit, after a line was run: what was typed meanwhile is lost.
Clear ==
  /\ At("clear")
  /\ keys' = <<>> /\ todo' = Tail(todo)
  /\ UNCHANGED <<EA, busy, hardware, posted, pc, caller, saved, left>>

----------------------------------------------------------------------------
(* main and task_run.                                                      *)

\* Mutant of BootDone: EA stays as it was.
BootDoneDisabled ==
  /\ pc = "call" /\ todo = <<>> /\ caller = "boot"
  /\ pc' = "loop"
  /\ UNCHANGED <<EA, busy, hardware, keys, posted, caller, todo, saved, left>>

\* The rest of main, after the start-up.
BootDone ==
  /\ pc = "call" /\ todo = <<>> /\ caller = "boot"
  /\ EA' = 1 /\ pc' = "loop"
  /\ UNCHANGED <<busy, hardware, keys, posted, caller, todo, saved, left>>

\* terminal_event_handle reads one character.
TerminalTask(from) ==
  /\ pc' = "call" /\ caller' = from
  /\ todo' = IF keys = <<>> THEN <<>> ELSE Work[Head(keys)]
  /\ keys' = IF keys = <<>> THEN <<>> ELSE Tail(keys)
  /\ UNCHANGED <<EA, busy, hardware, posted, saved, left>>

FastCall == pc = "loop" /\ posted /\ TerminalTask("fast")

\* The inner loop of task_run finds the queue empty; a handler may still post.
Look ==
  /\ pc = "loop" /\ ~ posted
  /\ pc' = "poll"
  /\ UNCHANGED <<EA, busy, hardware, keys, posted, caller, todo, saved, left>>

PollCall == pc = "poll" /\ TerminalTask("polled")

\* The entry is removed in a critical section, which ends with EA set.
FastDone ==
  /\ pc = "call" /\ todo = <<>> /\ caller = "fast"
  /\ posted' = FALSE /\ EA' = 1 /\ pc' = "loop"
  /\ UNCHANGED <<busy, hardware, keys, caller, todo, saved, left>>

PollDone ==
  /\ pc = "call" /\ todo = <<>> /\ caller = "polled"
  /\ pc' = "loop"
  /\ UNCHANGED <<EA, busy, hardware, keys, posted, caller, todo, saved, left>>

----------------------------------------------------------------------------
(* The hardware and the handlers.                                          *)

\* A character or a tick that comes while the flag is still set goes unnoticed.
Type ==
  /\ RI' = 1
  /\ UNCHANGED <<EA, busy, sending, TI, TF2H, keys, posted, pc, caller, todo, saved, left>>

Sent ==
  /\ sending /\ sending' = FALSE /\ TI' = 1
  /\ UNCHANGED <<EA, busy, RI, TF2H, keys, posted, pc, caller, todo, saved, left>>

Tick ==
  /\ TF2H' = 1
  /\ UNCHANGED <<EA, busy, sending, RI, TI, keys, posted, pc, caller, todo, saved, left>>

\* terminal_recv_chars stores the character, if there is room, and posts the task.
Receive ==
  /\ \E key \in DOMAIN Work :
       keys' = IF Len(keys) < MAXKEYS THEN Append(keys, key) ELSE keys
  /\ posted' = TRUE

\* Mutant of UART0_ISR: busy is reset whatever the interrupt's cause.
UART0_ISRFrees ==
  /\ EA = 1 /\ (RI = 1 \/ TI = 1)
  /\ IF RI = 1 THEN Receive ELSE UNCHANGED <<keys, posted>>
  /\ RI' = 0 /\ TI' = 0 /\ busy' = 0
  /\ UNCHANGED <<EA, sending, TF2H, pc, caller, todo, saved, left>>

UART0_ISR ==
  /\ EA = 1 /\ (RI = 1 \/ TI = 1)
  /\ IF RI = 1 THEN Receive ELSE UNCHANGED <<keys, posted>>
  /\ RI' = 0 /\ TI' = 0
  /\ busy' = IF TI = 1 THEN 0 ELSE busy
  /\ UNCHANGED <<EA, sending, TF2H, pc, caller, todo, saved, left>>

TIMER2_ISR ==
  /\ EA = 1 /\ TF2H = 1 /\ TF2H' = 0
  /\ UNCHANGED <<EA, busy, sending, RI, TI, keys, posted, pc, caller, todo, saved, left>>

----------------------------------------------------------------------------
Main ==
  \/ Lock \/ Unlock \/ TurnAround \/ StringBegin \/ CharBegin \/ PutWait \/ PutStore \/ PutEnd
  \/ Clear \/ BootDone \/ FastCall \/ Look \/ PollCall \/ FastDone \/ PollDone

Next == Main \/ Type \/ Sent \/ Tick \/ UART0_ISR \/ TIMER2_ISR

Spec == Init /\ [][Next]_vars

\* The processor takes an interrupt as soon as EA allows it; the transmitter sends.
FairSpec ==
  Spec /\ WF_vars(Main) /\ WF_vars(Sent) /\ SF_vars(UART0_ISR) /\ SF_vars(TIMER2_ISR)

----------------------------------------------------------------------------
(* Properties.                                                             *)

TypeOK ==
  /\ EA \in {0, 1} /\ busy \in {0, 1} /\ sending \in BOOLEAN
  /\ RI \in {0, 1} /\ TI \in {0, 1} /\ TF2H \in {0, 1}
  /\ keys \in Seq(DOMAIN Work) /\ Len(keys) <= MAXKEYS /\ posted \in BOOLEAN
  /\ pc \in {"call", "loop", "poll", "put", "store"}
  /\ caller \in {"boot", "fast", "polled"}
  /\ todo \in Seq({"string", "char", "lock", "unlock", "turnaround", "clear"})
  /\ saved \in {0, 1} /\ left \in 0..CHARS
  /\ pc \in {"put", "store"} => todo # <<>>

\* SBUF0 is written only after the character before it has left, whatever is received
\* meanwhile (Efm8lb12_uart.c:74-76, 119-130).
NothingOverwritten == pc = "store" => ~ sending /\ TI = 0

\* Between two calls interrupts are enabled: critical sections and strings, within
\* one another or not, give them back (mcu_sal_hw_conf.h:28, Efm8lb12_uart.c:97).
EnabledInLoop == pc \in {"loop", "poll"} => EA = 1

\* The start-up and every call of the terminal's task return, although their output
\* waits for a handler (Efm8lb12_uart.c:74).
CallsReturn == pc \in {"call", "put", "store"} ~> pc = "loop"

\* No interrupt stays pending for ever (Efm8lb12_uart.c:79-83).
InterruptsServed ==
  /\ RI = 1 ~> RI = 0
  /\ TI = 1 ~> TI = 0
  /\ TF2H = 1 ~> TF2H = 0
=============================================================================
