------------------------ MODULE InterruptEnableProofs ------------------------
(***************************************************************************)
(* The handshake of the transmitter, for any strings, any number of        *)
(* characters typed at any moment and whatever the PHY does; and the       *)
(* global interrupt enable between two calls, for a PHY that answers.      *)
(***************************************************************************)
EXTENDS InterruptEnable, TLAPS

\* One character is in the transmitter at most, and busy is set as long as it is
\* there or its interrupt is pending; from the end of the wait until SBUF0 is written
\* neither holds, so the handler cannot reset busy then.
SendInv ==
  /\ sending \in BOOLEAN /\ TI \in {0, 1}
  /\ sending => TI = 0 /\ busy = 1
  /\ TI = 1 => busy = 1
  /\ pc = "store" => ~ sending /\ TI = 0 /\ busy = 1

LEMMA SendInit == Init => SendInv
  BY DEF Init, SendInv

LEMMA SendMain == SendInv /\ Main => SendInv'
<1> SUFFICES ASSUME SendInv, Main PROVE SendInv'
  OBVIOUS
<1> USE DEF SendInv, hardware
<1>1. CASE Lock \/ Unlock \/ TurnAround \/ Clear
  BY <1>1 DEF Lock, Unlock, TurnAround, Clear
<1>2. CASE StringBegin \/ CharBegin \/ PutEnd
  BY <1>2 DEF StringBegin, CharBegin, PutEnd
<1>3. CASE PutWait
  BY <1>3 DEF PutWait
<1>4. CASE PutStore
  BY <1>4 DEF PutStore
<1>5. CASE BootDone \/ Look \/ FastDone \/ PollDone
  BY <1>5 DEF BootDone, Look, FastDone, PollDone
<1>6. CASE FastCall \/ PollCall
  BY <1>6 DEF FastCall, PollCall, TerminalTask
<1>7. QED
  BY <1>1, <1>2, <1>3, <1>4, <1>5, <1>6 DEF Main

LEMMA SendNext == SendInv /\ [Next]_vars => SendInv'
<1> SUFFICES ASSUME SendInv, [Next]_vars PROVE SendInv'
  OBVIOUS
<1>1. CASE Main
  BY <1>1, SendMain
<1>2. CASE Type \/ Tick
  BY <1>2 DEF Type, Tick, SendInv
<1>3. CASE Sent
  BY <1>3 DEF Sent, SendInv
<1>4. CASE UART0_ISR
  BY <1>4 DEF UART0_ISR, SendInv
<1>5. CASE TIMER2_ISR
  BY <1>5 DEF TIMER2_ISR, SendInv
<1>6. CASE UNCHANGED vars
  BY <1>6 DEF vars, hardware, SendInv
<1>7. QED
  BY <1>1, <1>2, <1>3, <1>4, <1>5, <1>6 DEF Next

\* A character is never overwritten in SBUF0 (Efm8lb12_uart.c:74-76, 119-130).
THEOREM TransmitCorrect == Spec => []NothingOverwritten
<1>1. SendInv => NothingOverwritten
  BY DEF SendInv, NothingOverwritten
<1>2. QED
  BY <1>1, SendInit, SendNext, PTL DEF Spec

----------------------------------------------------------------------------
(* The operations a call has left: critical sections are not nested in one *)
(* another and nothing but a turnaround stands inside of one.              *)

Ops == {"string", "char", "lock", "unlock", "turnaround", "clear"}

Inner(op) == op \in {"turnaround", "unlock"}

Nested(s) ==
  \A i \in 1..Len(s) :
    /\ s[i] = "lock" => i + 1 \in 1..Len(s) /\ Inner(s[i + 1])
    /\ s[i] = "turnaround" => i + 1 \in 1..Len(s) /\ s[i + 1] = "unlock"
    /\ s[i] \notin {"lock", "turnaround"} /\ i + 1 \in 1..Len(s) => ~ Inner(s[i + 1])

\* The next operation is inside of a critical section.
Inside(s) == s # <<>> /\ Inner(Head(s))

\* What is left after an operation is well formed too, and the kind of the operation
\* decides whether it begins inside of a critical section.
LEMMA NestedTail ==
  ASSUME NEW s \in Seq(Ops), s # <<>>, Nested(s)
  PROVE  /\ Tail(s) \in Seq(Ops) /\ Nested(Tail(s))
         /\ Inside(Tail(s)) <=> Head(s) \in {"lock", "turnaround"}
         /\ Head(s) = "turnaround" => Tail(s) # <<>> /\ Head(Tail(s)) = "unlock"
<1>1. Tail(s) \in Seq(Ops) /\ Len(Tail(s)) = Len(s) - 1
  OBVIOUS
<1>2. \A i \in 1..Len(Tail(s)) : Tail(s)[i] = s[i + 1]
  OBVIOUS
<1>3. Len(s) \in Nat \ {0} /\ Head(s) = s[1]
  OBVIOUS
<1>4. Nested(Tail(s))
  <2>1. SUFFICES ASSUME NEW i \in 1..Len(Tail(s))
                 PROVE  /\ Tail(s)[i] = "lock"
                            => i + 1 \in 1..Len(Tail(s)) /\ Inner(Tail(s)[i + 1])
                        /\ Tail(s)[i] = "turnaround"
                            => i + 1 \in 1..Len(Tail(s)) /\ Tail(s)[i + 1] = "unlock"
                        /\ Tail(s)[i] \notin {"lock", "turnaround"} /\ i + 1 \in 1..Len(Tail(s))
                            => ~ Inner(Tail(s)[i + 1])
    BY DEF Nested
  <2>2. i + 1 \in 1..Len(s) /\ Tail(s)[i] = s[i + 1]
    BY <1>1, <1>2, <1>3
  <2>3. i + 1 \in 1..Len(Tail(s)) <=> (i + 1) + 1 \in 1..Len(s)
    BY <1>1, <1>3
  <2>4. i + 1 \in 1..Len(Tail(s)) => Tail(s)[i + 1] = s[(i + 1) + 1]
    BY <1>2
  <2>5. QED
    BY <2>2, <2>3, <2>4 DEF Nested
<1>5. Tail(s) # <<>> <=> 2 \in 1..Len(s)
  <2>1. \A r \in Seq(Ops) : r = <<>> <=> Len(r) = 0
    OBVIOUS
  <2>2. Tail(s) # <<>> <=> Len(Tail(s)) # 0
    BY <1>1, <2>1
  <2>3. QED
    BY <1>1, <1>3, <2>2
<1>6. Tail(s) # <<>> => Head(Tail(s)) = s[2]
  BY <1>1, <1>2, <1>3
<1>7. 1 \in 1..Len(s) /\ 1 + 1 = 2
  BY <1>3
<1>8. QED
  BY <1>1, <1>3, <1>4, <1>5, <1>6, <1>7 DEF Nested, Inside, Inner

\* The work of every key is well formed and begins outside of a critical section.
LEMMA WorkNested ==
  ASSUME NEW key \in DOMAIN Work
  PROVE  Work[key] \in Seq(Ops) /\ Nested(Work[key]) /\ ~ Inside(Work[key])
<1>1. CASE key = "char"
  <2>1. Work[key] = <<"char">>
    BY <1>1 DEF Work
  <2>2. QED
    BY <2>1 DEF Nested, Inside, Inner, Ops
<1>2. CASE key = "text"
  <2>1. Work[key] \in Seq(Ops) /\ Len(Work[key]) = 4
        /\ Work[key][1] = "string" /\ Work[key][2] = "string"
        /\ Work[key][3] = "clear" /\ Work[key][4] = "string"
    BY <1>2 DEF Work, String, AfterLine, Ops
  <2>2. QED
    BY <2>1 DEF Nested, Inside, Inner, Ops
<1>3. CASE key = "mdiow"
  <2>1. Work[key] \in Seq(Ops) /\ Len(Work[key]) = 6
        /\ Work[key][1] = "lock" /\ Work[key][2] = "unlock"
        /\ Work[key][3] = "string" /\ Work[key][4] = "string"
        /\ Work[key][5] = "clear" /\ Work[key][6] = "string"
    BY <1>3 DEF Work, String, SendRegAddr, AfterLine, Ops
  <2>2. QED
    BY <2>1 DEF Nested, Inside, Inner, Ops
<1>4. CASE key = "mdior"
  <2>1. Work[key] \in Seq(Ops) /\ Len(Work[key]) = 9
        /\ Work[key][1] = "lock" /\ Work[key][2] = "unlock" /\ Work[key][3] = "lock"
        /\ Work[key][4] = "turnaround" /\ Work[key][5] = "unlock"
        /\ Work[key][6] = "string" /\ Work[key][7] = "string"
        /\ Work[key][8] = "clear" /\ Work[key][9] = "string"
    BY <1>4 DEF Work, String, SendRegAddr, MdioRead, AfterLine, Ops
  <2>2. QED
    BY <2>1 DEF Nested, Inside, Inner, Ops
<1>5. QED
  BY <1>1, <1>2, <1>3, <1>4 DEF Work

----------------------------------------------------------------------------
(* Types, and what is left of the call.                                    *)

Typed ==
  /\ TypeOK
  /\ Nested(todo)
  /\ pc \in {"put", "store"} => Head(todo) \in {"string", "char"}
  /\ pc = "store" => left > 0

LEMMA TypedInit == Init => Typed
<1> SUFFICES ASSUME Init PROVE Typed
  OBVIOUS
<1>1. todo \in Seq(Ops) /\ Len(todo) = Boot /\ \A i \in 1..Boot : todo[i] = "string"
  BY EnableAssumption DEF Init, Ops
<1>2. Nested(todo)
  BY <1>1 DEF Nested, Inner
<1>3. keys \in Seq(DOMAIN Work) /\ Len(keys) <= MAXKEYS
  BY EnableAssumption DEF Init
<1>4. left \in 0..CHARS
  BY EnableAssumption DEF Init
<1>5. QED
  BY <1>1, <1>2, <1>3, <1>4 DEF Init, Typed, TypeOK, Ops

\* What a step of a call leaves of it.
LEMMA TypedCall ==
  ASSUME Typed, pc \in {"call", "put", "store"}, todo # <<>>
  PROVE  /\ todo \in Seq(Ops) /\ Tail(todo) \in Seq(Ops) /\ Nested(Tail(todo))
         /\ Head(todo) = "turnaround" => Tail(Tail(todo)) \in Seq(Ops) /\ Nested(Tail(Tail(todo)))
<1>1. todo \in Seq(Ops) /\ Nested(todo)
  BY DEF Typed, TypeOK, Ops
<1>2. QED
  BY <1>1, NestedTail

LEMMA TypedMain == Typed /\ Main => Typed'
<1> SUFFICES ASSUME Typed, Main PROVE Typed'
  OBVIOUS
<1> USE DEF hardware
<1>1. CASE Lock \/ Unlock \/ TurnAround
  <2>1. pc = "call" /\ todo # <<>>
    BY <1>1 DEF Lock, Unlock, TurnAround, At
  <2>2. todo' \in Seq(Ops) /\ Nested(todo')
    BY <1>1, <2>1, TypedCall DEF Lock, Unlock, TurnAround, At
  <2>3. QED
    BY <1>1, <2>1, <2>2 DEF Lock, Unlock, TurnAround, Typed, TypeOK, Ops
<1>2. CASE StringBegin \/ CharBegin
  BY <1>2, EnableAssumption DEF StringBegin, CharBegin, At, Typed, TypeOK
<1>3. CASE PutWait
  BY <1>3 DEF PutWait, Typed, TypeOK
<1>4. CASE PutStore
  BY <1>4, EnableAssumption DEF PutStore, Typed, TypeOK
<1>5. CASE PutEnd
  <2>1. todo' \in Seq(Ops) /\ Nested(todo')
    BY <1>5, TypedCall DEF PutEnd, Typed, TypeOK
  <2>2. QED
    BY <1>5, <2>1 DEF PutEnd, Typed, TypeOK, Ops
<1>6. CASE Clear
  <2>1. todo' \in Seq(Ops) /\ Nested(todo')
    BY <1>6, TypedCall DEF Clear, At
  <2>2. QED
    BY <1>6, <2>1, EnableAssumption DEF Clear, At, Typed, TypeOK, Ops
<1>7. CASE BootDone \/ Look \/ FastDone \/ PollDone
  BY <1>7 DEF BootDone, Look, FastDone, PollDone, Typed, TypeOK
<1>8. CASE FastCall \/ PollCall
  <2>1. PICK from \in {"fast", "polled"} : TerminalTask(from)
    BY <1>8 DEF FastCall, PollCall
  <2>2. keys # <<>> => Head(keys) \in DOMAIN Work /\ Tail(keys) \in Seq(DOMAIN Work)
                       /\ Len(Tail(keys)) <= MAXKEYS
    BY EnableAssumption DEF Typed, TypeOK
  <2>3. todo' \in Seq(Ops) /\ Nested(todo')
    <3>1. CASE keys = <<>>
      BY <2>1, <3>1 DEF TerminalTask, Nested
    <3>2. CASE keys # <<>>
      BY <2>1, <2>2, <3>2, WorkNested DEF TerminalTask
    <3>3. QED
      BY <3>1, <3>2
  <2>4. keys' \in Seq(DOMAIN Work) /\ Len(keys') <= MAXKEYS
    BY <2>1, <2>2 DEF TerminalTask, Typed, TypeOK
  <2>5. QED
    BY <2>1, <2>3, <2>4 DEF TerminalTask, Typed, TypeOK, Ops
<1>9. QED
  BY <1>1, <1>2, <1>3, <1>4, <1>5, <1>6, <1>7, <1>8 DEF Main

LEMMA TypedNext == Typed /\ [Next]_vars => Typed'
<1> SUFFICES ASSUME Typed, [Next]_vars PROVE Typed'
  OBVIOUS
<1>1. CASE Main
  BY <1>1, TypedMain
<1>2. CASE Type \/ Tick
  BY <1>2 DEF Type, Tick, Typed, TypeOK
<1>3. CASE Sent
  <2>1. sending' \in BOOLEAN /\ TI' \in {0, 1}
    BY <1>3 DEF Sent
  <2>2. UNCHANGED <<EA, busy, RI, TF2H, keys, posted, pc, caller, todo, saved, left>>
    BY <1>3 DEF Sent
  <2>3. QED
    BY <2>1, <2>2 DEF Typed, TypeOK
<1>4. CASE TIMER2_ISR
  BY <1>4 DEF TIMER2_ISR, Typed, TypeOK
<1>5. CASE UART0_ISR
  <2>1. keys' \in Seq(DOMAIN Work) /\ Len(keys') <= MAXKEYS /\ posted' \in BOOLEAN
    <3>1. keys \in Seq(DOMAIN Work) /\ Len(keys) <= MAXKEYS /\ posted \in BOOLEAN
      BY DEF Typed, TypeOK
    <3>2. CASE RI = 1
      BY <1>5, <3>1, <3>2, EnableAssumption DEF UART0_ISR, Receive
    <3>3. CASE RI # 1
      BY <1>5, <3>1, <3>3 DEF UART0_ISR
    <3>4. QED
      BY <3>2, <3>3
  <2>2. QED
    BY <1>5, <2>1 DEF UART0_ISR, Typed, TypeOK
<1>6. CASE UNCHANGED vars
  BY <1>6 DEF vars, hardware, Typed, TypeOK
<1>7. QED
  BY <1>1, <1>2, <1>3, <1>4, <1>5, <1>6 DEF Next

\* Every call leaves its critical sections in order (ENTER_CRITICAL and EXIT_CRITICAL nested
\* as mdio_read and uart_put_string write them), and the state is of its types.
THEOREM TypedAlways == Spec => []Typed
  BY TypedInit, TypedNext, PTL DEF Spec

\* The state stays within its types: the characters received fit their buffer and a
\* string is never sent beyond its end, whatever the PHY does (Efm8lb12_uart.c:97-113).
THEOREM TypeCorrect == Spec => []TypeOK
<1>1. Typed => TypeOK
  BY DEF Typed
<1>2. QED
  BY <1>1, TypedAlways, PTL

----------------------------------------------------------------------------
(* The global interrupt enable.                                            *)

\* The PHY answers every read, so mdio_read never returns from within its critical
\* section.
Answers == FALSE \notin Phy

\* Once the start-up is over EA is 0 exactly inside of a critical section of the
\* call, and a string has saved 1 before it was sent.
Enabled ==
  /\ pc = "call" /\ caller # "boot" => (EA = 0 <=> Inside(todo))
  /\ pc \in {"put", "store"} /\ caller # "boot" => EA = 1 /\ (Head(todo) = "string" => saved = 1)
  /\ pc \in {"loop", "poll"} => EA = 1

EnableInv == Typed /\ Enabled

LEMMA EnableInit == Init => Enabled
  BY DEF Init, Enabled

LEMMA EnableMain == ASSUME Answers PROVE EnableInv /\ Main => Enabled'
<1> SUFFICES ASSUME EnableInv, Main PROVE Enabled'
  OBVIOUS
<1> USE DEF hardware
<1>t. EA \in {0, 1} /\ todo \in Seq(Ops) /\ Nested(todo) /\ saved \in {0, 1}
  BY DEF EnableInv, Typed, TypeOK, Ops
<1>1. CASE Lock \/ Unlock \/ Clear
  <2>1. pc = "call" /\ todo # <<>> /\ (Inside(todo) <=> Inner(Head(todo)))
    BY <1>1 DEF Lock, Unlock, Clear, At, Inside
  <2>2. Inside(Tail(todo)) <=> Head(todo) \in {"lock", "turnaround"}
    BY <1>t, <2>1, NestedTail
  <2>3. pc' = pc /\ caller' = caller /\ todo' = Tail(todo)
    BY <1>1 DEF Lock, Unlock, Clear
  <2>4. caller # "boot" => (EA' = 0 <=> Inside(todo'))
    <3>1. CASE Lock
      BY <2>2, <2>3, <3>1 DEF Lock, At
    <3>2. CASE Unlock
      BY <2>2, <2>3, <3>2 DEF Unlock, At
    <3>3. CASE Clear
      BY <2>1, <2>2, <2>3, <3>3 DEF Clear, At, EnableInv, Enabled, Inner
    <3>4. QED
      BY <1>1, <3>1, <3>2, <3>3
  <2>5. QED
    BY <2>1, <2>3, <2>4 DEF Enabled
<1>2. CASE TurnAround
  <2>1. pc = "call" /\ todo # <<>> /\ Inside(todo)
    BY <1>2 DEF TurnAround, At, Inside, Inner
  <2>2. Inside(Tail(todo))
    BY <1>2, <1>t, <2>1, NestedTail DEF TurnAround, At
  <2>3. todo' = Tail(todo)
    BY <1>2, EnableAssumption DEF TurnAround, Answers
  <2>4. QED
    BY <1>2, <2>1, <2>2, <2>3 DEF TurnAround, EnableInv, Enabled
<1>3. CASE StringBegin \/ CharBegin
  <2>1. pc = "call" /\ todo # <<>> /\ ~ Inside(todo)
    BY <1>3 DEF StringBegin, CharBegin, At, Inside, Inner
  <2>2. QED
    BY <1>3, <1>t, <2>1 DEF StringBegin, CharBegin, At, EnableInv, Enabled
<1>4. CASE PutWait \/ PutStore
  BY <1>4 DEF PutWait, PutStore, EnableInv, Enabled
<1>5. CASE PutEnd
  <2>1. todo # <<>> /\ Head(todo) \in {"string", "char"}
    BY <1>5 DEF PutEnd, EnableInv, Typed, TypeOK
  <2>2. ~ Inside(Tail(todo))
    BY <1>t, <2>1, NestedTail
  <2>3. QED
    BY <1>5, <2>1, <2>2 DEF PutEnd, EnableInv, Enabled
<1>6. CASE BootDone \/ Look \/ FastDone
  BY <1>6 DEF BootDone, Look, FastDone, EnableInv, Enabled
<1>7. CASE PollDone
  BY <1>7, <1>t DEF PollDone, EnableInv, Enabled, Inside
<1>8. CASE FastCall \/ PollCall
  <2>1. PICK from \in {"fast", "polled"} : TerminalTask(from)
    BY <1>8 DEF FastCall, PollCall
  <2>2. ~ Inside(todo')
    <3>1. CASE keys = <<>>
      BY <2>1, <3>1 DEF TerminalTask, Inside
    <3>2. CASE keys # <<>>
      <4>1. Head(keys) \in DOMAIN Work
        BY <3>2 DEF EnableInv, Typed, TypeOK
      <4>2. QED
        BY <2>1, <3>2, <4>1, WorkNested DEF TerminalTask
    <3>3. QED
      BY <3>1, <3>2
  <2>3. EA = 1
    BY <1>8 DEF FastCall, PollCall, EnableInv, Enabled
  <2>4. QED
    BY <2>1, <2>2, <2>3 DEF TerminalTask, Enabled
<1>9. QED
  BY <1>1, <1>2, <1>3, <1>4, <1>5, <1>6, <1>7, <1>8 DEF Main

LEMMA EnableNext == ASSUME Answers PROVE EnableInv /\ [Next]_vars => EnableInv'
<1> SUFFICES ASSUME EnableInv, [Next]_vars PROVE Enabled'
  BY TypedNext DEF EnableInv
<1>1. CASE Main
  BY <1>1, EnableMain
<1>2. CASE Type \/ Sent \/ Tick \/ UART0_ISR \/ TIMER2_ISR
  <2>1. UNCHANGED <<EA, pc, caller, todo, saved>>
    BY <1>2 DEF Type, Sent, Tick, UART0_ISR, TIMER2_ISR
  <2>2. QED
    BY <2>1 DEF EnableInv, Enabled, Inside, Inner
<1>3. CASE UNCHANGED vars
  BY <1>3 DEF vars, EnableInv, Enabled, Inside, Inner
<1>4. QED
  BY <1>1, <1>2, <1>3 DEF Next

\* Between two calls interrupts are enabled, whatever is typed: every critical section
\* and every string gives them back, also a string within the work of a poll
\* (mcu_sal_hw_conf.h:28, Efm8lb12_uart.c:97, mcu_sal_mdio.c).
THEOREM EnableCorrect == ASSUME Answers PROVE Spec => []EnabledInLoop
<1>1. Init => EnableInv
  BY TypedInit, EnableInit DEF EnableInv
<1>2. EnableInv => EnabledInLoop
  BY DEF EnableInv, Enabled, EnabledInLoop
<1>3. EnableInv /\ [Next]_vars => EnableInv'
  BY EnableNext
<1>4. QED
  BY <1>1, <1>2, <1>3, PTL DEF Spec
=============================================================================
