----------------------------- MODULE MailboxProofs -----------------------------
(***************************************************************************)
(* The promises of the mailbox for any commands, parameters, number of     *)
(* polls and callers, whatever transfers fail but those a theorem excludes. *)
(* The argument follows the command: until it is sent the module is idle   *)
(* (Handled), from then on it runs it once (Once), and what the board can   *)
(* read is the outcome of that run (Success).                              *)
(***************************************************************************)
EXTENDS Mailbox, TLAPS, SequenceTheorems

StepNames == {"select", "page", "data", "cmd", "status", "read"}

\* s comes to the transfer step.
Has(s, step) == \E i \in 1 .. Len(s) : s[i] = step

\* In s every transfer a comes before every transfer b.
Before(s, a, b) == \A i, j \in 1 .. Len(s) : s[i] = a /\ s[j] = b => i < j

\* What the proofs use of the order of the transfers.
OrderOf(s, kind) ==
  /\ s \in Seq(StepNames) /\ s # <<>> /\ Head(s) = "select"
  /\ \A i, j \in 1 .. Len(s) : s[i] = s[j] => i = j
  /\ Has(s, "cmd") /\ Has(s, "status")
  /\ Before(s, "select", "cmd") /\ Before(s, "page", "cmd")
  /\ Before(s, "select", "data") /\ Before(s, "page", "data")
  /\ Before(s, "cmd", "status") /\ Before(s, "data", "status")
  /\ kind # "late" => Before(s, "data", "cmd")
  /\ kind = "late" => Before(s, "cmd", "data")
  /\ Has(s, "page") => kind = "pass"
  /\ kind # "plain" => Has(s, "data")
  /\ \A i \in 1 .. Len(s) : s[i] = "read" => i = Len(s)
  /\ kind \notin {"fetch", "pass"} => s[Len(s)] = "status"

\* s is the rest of a script.
RestOf(s, script) ==
  /\ s \in Seq(StepNames)
  /\ Len(s) <= Len(script)
  /\ \A i \in 1 .. Len(s) : s[i] = script[Len(script) - Len(s) + i]

\* The five scripts are in that order.
LEMMA ScriptOrder ==
  ASSUME NEW kind \in DOMAIN Steps
  PROVE  OrderOf(Steps[kind], kind)
<1>1. CASE kind = "plain"
  <2>1. Steps[kind] = <<"select", "cmd", "status">>
    BY <1>1 DEF Steps, Plain
  <2>2. QED
    BY <1>1, <2>1 DEF OrderOf, Before, Has, StepNames
<1>2. CASE kind = "param"
  <2>1. Steps[kind] = <<"select", "data", "cmd", "status">>
    BY <1>2 DEF Steps, Param
  <2>2. QED
    BY <1>2, <2>1 DEF OrderOf, Before, Has, StepNames
<1>3. CASE kind = "fetch"
  <2>1. Steps[kind] = <<"select", "data", "cmd", "status", "read">>
    BY <1>3 DEF Steps, Fetch
  <2>2. QED
    BY <1>3, <2>1 DEF OrderOf, Before, Has, StepNames
<1>4. CASE kind = "pass"
  <2>1. Steps[kind] = <<"select", "page", "data", "cmd", "status", "read">>
    BY <1>4 DEF Steps, PassThrough
  <2>2. QED
    BY <1>4, <2>1 DEF OrderOf, Before, Has, StepNames
<1>5. CASE kind = "late"
  <2>1. Steps[kind] = <<"select", "cmd", "data", "status">>
    BY <1>5 DEF Steps, Late
  <2>2. QED
    BY <1>5, <2>1 DEF OrderOf, Before, Has, StepNames
<1>6. QED
  BY <1>1, <1>2, <1>3, <1>4, <1>5 DEF Steps

\* What a sequence comes to is its head or in its tail.
LEMMA HasTail ==
  ASSUME NEW s \in Seq(StepNames), s # <<>>
  PROVE  \A step : Has(s, step) <=> Head(s) = step \/ Has(Tail(s), step)
<1>1. /\ Len(s) \in Nat /\ Len(s) > 0 /\ Head(s) = s[1]
      /\ Len(Tail(s)) = Len(s) - 1
      /\ \A i \in 1 .. Len(Tail(s)) : Tail(s)[i] = s[i+1]
  BY HeadTailProperties, LenProperties, EmptySeq
<1>2. ASSUME NEW step PROVE Has(s, step) <=> Head(s) = step \/ Has(Tail(s), step)
  <2>1. ASSUME Has(s, step), Head(s) # step PROVE Has(Tail(s), step)
    <3>1. PICK i \in 1 .. Len(s) : s[i] = step
      BY <2>1 DEF Has
    <3>2. i # 1 /\ i - 1 \in 1 .. Len(Tail(s)) /\ Tail(s)[i-1] = s[i]
      BY <3>1, <2>1, <1>1
    <3>3. QED
      BY <3>1, <3>2 DEF Has
  <2>2. ASSUME Has(Tail(s), step) PROVE Has(s, step)
    BY <2>2, <1>1 DEF Has
  <2>3. ASSUME Head(s) = step PROVE Has(s, step)
    BY <2>3, <1>1 DEF Has
  <2>4. QED
    BY <2>1, <2>2, <2>3
<1>3. QED
  BY <1>2

\* What is left when a transfer is done.
LEMMA HeadOrder ==
  ASSUME NEW kind \in DOMAIN Steps, NEW s, RestOf(s, Steps[kind]), s # <<>>
  PROVE  /\ RestOf(Tail(s), Steps[kind])
         /\ Head(s) \in StepNames
         /\ Head(s) \in {"select", "page"} =>
              Has(Tail(s), "cmd") /\ (kind # "plain" => Has(Tail(s), "data"))
         /\ Head(s) = "page" => kind = "pass"
         /\ Head(s) = "data" =>
              /\ Has(Tail(s), "cmd") <=> kind # "late"
              /\ Has(Tail(s), "status") /\ ~ Has(Tail(s), "data")
         /\ Head(s) = "cmd" =>
              /\ ~ Has(Tail(s), "cmd") /\ Has(Tail(s), "status")
              /\ kind # "late" => ~ Has(Tail(s), "data")
         /\ Head(s) = "status" =>
              /\ ~ Has(Tail(s), "cmd") /\ ~ Has(Tail(s), "data") /\ ~ Has(Tail(s), "status")
              /\ kind \notin {"fetch", "pass"} => Tail(s) = <<>>
         /\ Head(s) = "read" => Tail(s) = <<>>
<1> DEFINE script == Steps[kind]
           d == Len(script) - Len(s)
<1>1. OrderOf(script, kind)
  BY ScriptOrder
<1>2. /\ s \in Seq(StepNames) /\ Len(s) \in Nat /\ Len(s) > 0 /\ Head(s) = s[1]
      /\ Head(s) \in StepNames
      /\ Tail(s) \in Seq(StepNames) /\ Len(Tail(s)) = Len(s) - 1
      /\ \A i \in 1 .. Len(Tail(s)) : Tail(s)[i] = s[i+1]
  BY HeadTailProperties, LenProperties, EmptySeq DEF RestOf
<1>3. script \in Seq(StepNames) /\ Len(script) \in Nat
  BY <1>1, LenProperties DEF OrderOf
<1> HIDE DEF script
<1>4. /\ d \in Nat /\ Len(script) = d + Len(s) /\ d+1 \in 1 .. Len(script)
      /\ Head(s) = script[d+1] /\ \A i \in 1 .. Len(Tail(s)) : Tail(s)[i] = script[d+1+i]
  BY <1>2, <1>3 DEF RestOf, script
<1>5. ASSUME NEW step
      PROVE  Has(Tail(s), step) <=> \E j \in d+2 .. Len(script) : script[j] = step
  <2>1. ASSUME Has(Tail(s), step) PROVE \E j \in d+2 .. Len(script) : script[j] = step
    <3>1. PICK i \in 1 .. Len(Tail(s)) : Tail(s)[i] = step
      BY <2>1 DEF Has
    <3>2. d+1+i \in d+2 .. Len(script) /\ script[d+1+i] = step
      BY <3>1, <1>2, <1>3, <1>4
    <3>3. QED
      BY <3>2
  <2>2. ASSUME NEW j \in d+2 .. Len(script), script[j] = step PROVE Has(Tail(s), step)
    <3>1. j - d - 1 \in 1 .. Len(Tail(s)) /\ d+1+(j-d-1) = j
      BY <1>2, <1>3, <1>4
    <3>2. Tail(s)[j-d-1] = step
      BY <3>1, <1>4, <2>2
    <3>3. QED
      BY <3>1, <3>2 DEF Has
  <2>3. QED
    BY <2>1, <2>2
<1>6. RestOf(Tail(s), script)
  BY <1>2, <1>3, <1>4 DEF RestOf
<1>7. ASSUME NEW step, Has(script, step), Before(script, Head(s), step) PROVE Has(Tail(s), step)
  <2>1. PICK i \in 1 .. Len(script) : script[i] = step
    BY <1>7 DEF Has
  <2>2. d+1 < i
    BY <2>1, <1>4, <1>7 DEF Before
  <2>3. QED
    BY <2>1, <2>2, <1>3, <1>4, <1>5
<1>8. ASSUME NEW step, Before(script, step, Head(s)) \/ step = Head(s) PROVE ~ Has(Tail(s), step)
  <2>1. SUFFICES ASSUME NEW j \in d+2 .. Len(script), script[j] = step PROVE FALSE
    BY <1>5
  <2>2. j \in 1 .. Len(script) /\ ~ (j < d+1) /\ j # d+1
    BY <1>3, <1>4
  <2>3. CASE Before(script, step, Head(s))
    BY <2>1, <2>2, <2>3, <1>4 DEF Before
  <2>4. CASE step = Head(s)
    BY <2>1, <2>2, <2>4, <1>1, <1>4 DEF OrderOf
  <2>5. QED
    BY <1>8, <2>3, <2>4
<1>9. Head(s) = "page" => kind = "pass"
  BY <1>1, <1>4 DEF OrderOf, Has
<1>10. Head(s) = "read" => Tail(s) = <<>>
  <2>1. SUFFICES ASSUME Head(s) = "read" PROVE Len(Tail(s)) = 0
    BY <1>2, EmptySeq
  <2>2. d+1 = Len(script)
    BY <2>1, <1>1, <1>4 DEF OrderOf
  <2>3. QED
    BY <2>2, <1>2, <1>3, <1>4
<1>11. Head(s) \in {"select", "page"} =>
              Has(Tail(s), "cmd") /\ (kind # "plain" => Has(Tail(s), "data"))
  BY <1>1, <1>7 DEF OrderOf
<1>12. Head(s) = "data" =>
              /\ Has(Tail(s), "cmd") <=> kind # "late"
              /\ Has(Tail(s), "status") /\ ~ Has(Tail(s), "data")
  BY <1>1, <1>7, <1>8 DEF OrderOf
<1>13. Head(s) = "status" =>
              ~ Has(Tail(s), "cmd") /\ ~ Has(Tail(s), "data") /\ ~ Has(Tail(s), "status")
  BY <1>1, <1>7, <1>8 DEF OrderOf
<1>14. Head(s) = "cmd" =>
              /\ ~ Has(Tail(s), "cmd") /\ Has(Tail(s), "status")
              /\ kind # "late" => ~ Has(Tail(s), "data")
  BY <1>1, <1>7, <1>8 DEF OrderOf
<1>15. Head(s) = "status" /\ kind \notin {"fetch", "pass"} => Tail(s) = <<>>
  <2>1. SUFFICES ASSUME Head(s) = "status", kind \notin {"fetch", "pass"} PROVE Len(Tail(s)) = 0
    BY <1>2, EmptySeq
  <2>2. Len(script) \in 1 .. Len(script)
    BY <1>3, <1>4
  <2>3. script[d+1] = script[Len(script)]
    BY <2>1, <1>1, <1>4 DEF OrderOf
  <2>4. d+1 = Len(script)
    BY <2>2, <2>3, <1>1, <1>4 DEF OrderOf
  <2>5. QED
    BY <2>4, <1>2, <1>3, <1>4
<1>16. QED
  BY <1>2, <1>6, <1>9, <1>10, <1>11, <1>12, <1>13, <1>14, <1>15 DEF script

----------------------------------------------------------------------------
\* The types, the rest of the script, and the count of the polls.
Typed ==
  /\ TypeOK
  /\ RestOf(todo, Steps[call.kind])
  /\ at = "read" => counter < POLLS

\* Every transfer leaves what is left of the script behind.
LEMMA TailTyped ==
  ASSUME RestOf(todo, Steps[call.kind]), call.kind \in DOMAIN Steps,
         (todo' = Tail(todo) /\ ~ Idle) \/ todo' = todo \/ todo' = <<>>
  PROVE  RestOf(todo', Steps[call.kind])
<1>1. CASE todo' = Tail(todo) /\ ~ Idle
  BY <1>1, HeadOrder DEF Idle
<1>2. CASE todo' = <<>>
  <2>1. Steps[call.kind] \in Seq(StepNames)
    BY ScriptOrder DEF OrderOf
  <2>2. QED
    BY <1>2, <2>1, LenProperties, EmptySeq DEF RestOf
<1>3. QED
  BY <1>1, <1>2

\* Typed holds at first.
LEMMA TypedInit == Init => Typed
<1>1. SUFFICES ASSUME Init PROVE Typed
  OBVIOUS
<1>2. call.kind \in DOMAIN Steps /\ todo = <<>>
  BY <1>1, MailboxAssumption DEF Init
<1>3. RestOf(todo, Steps[call.kind])
  <2>1. Steps[call.kind] \in Seq(StepNames)
    BY <1>2, ScriptOrder DEF OrderOf
  <2>2. QED
    BY <1>2, <2>1, LenProperties, EmptySeq DEF RestOf
<1>4. TypeOK
  BY <1>1, <1>2, MailboxAssumption DEF Init, TypeOK, Pages
<1>5. QED
  BY <1>1, <1>3, <1>4, MailboxAssumption DEF Typed, Init

\* A write to a register, carried out or not, leaves a register.
LEMMA WriteTyped ==
  ASSUME NEW S, NEW reg \in [Pages -> S], NEW v \in S, NEW ok, NEW new \in Write(reg, v, ok),
         page \in Pages
  PROVE  new \in [Pages -> S]
BY DEF Write

\* A transfer of the board preserves the types.
LEMMA TypedBoard ==
  ASSUME Typed, Board
  PROVE  Typed'
<1> USE DEF Typed, TypeOK
<1>0. /\ POLLS \in Nat /\ call' = call /\ call.kind \in DOMAIN Steps /\ call.page \in Pages
      /\ call.data \in Params /\ call.cmd \in Cmds \cup {IDLE}
      /\ (todo' = Tail(todo) /\ ~ Idle) \/ todo' = todo \/ todo' = <<>>
  BY MailboxAssumption DEF Board, SelectPage, PassPage, SendData, SendCmd, StatusRead, StatusCheck,
     StatusIdle, ReadResult, At, StatusFalse
<1>1. RestOf(todo, Steps[call.kind])'
  BY <1>0, TailTyped
<1>2. todo' \in Seq({"select", "page", "data", "cmd", "status", "read"})
  BY <1>1 DEF RestOf, StepNames
<1>3. CASE SelectPage \/ PassPage
  BY <1>0, <1>1, <1>2, <1>3 DEF SelectPage, PassPage, Status, registers, module, poll, Pages
<1>4. CASE SendData
  <2>1. data' \in [Pages -> Params]
    BY <1>0, <1>4, WriteTyped DEF SendData
  <2>2. QED
    BY <1>0, <1>1, <1>2, <1>4, <2>1 DEF SendData, Status, module, poll
<1>5. CASE SendCmd
  <2>1. cell' \in [Pages -> Cmds \cup {OK, FAILED, IDLE}]
    <3>1. call.cmd \in Cmds \cup {OK, FAILED, IDLE}
      BY <1>0
    <3>2. QED
      BY <1>5, <3>1, WriteTyped DEF SendCmd
  <2>2. QED
    BY <1>0, <1>1, <1>2, <1>5, <2>1 DEF SendCmd, Status, module, poll
<1>6. CASE StatusRead
  BY <1>0, <1>1, <1>2, <1>6 DEF StatusRead, registers, module
<1>7. CASE StatusCheck
  BY <1>0, <1>1, <1>2, <1>7 DEF StatusCheck, StatusFalse, registers, module
<1>8. CASE StatusIdle
  <2>1. cell' \in [Pages -> Cmds \cup {OK, FAILED, IDLE}]
    BY <1>8, WriteTyped DEF StatusIdle
  <2>2. QED
    BY <1>0, <1>1, <1>2, <1>8, <2>1 DEF StatusIdle, StatusFalse, module, poll
<1>9. CASE ReadResult
  BY <1>0, <1>1, <1>2, <1>9 DEF ReadResult, Status, registers, module, poll
<1>10. QED
  BY <1>3, <1>4, <1>5, <1>6, <1>7, <1>8, <1>9 DEF Board

\* A step of the module preserves the types.
LEMMA TypedModule ==
  ASSUME Typed, Module
  PROVE  Typed'
<1> USE DEF Typed, TypeOK
<1>1. CASE Take
  BY <1>1 DEF Take, registers, poll, Pages
<1>2. CASE Perform
  <2>1. ran' \in Seq([cmd : Cmds, data : Params, answer : {OK, FAILED}])
    BY <1>2 DEF Perform, Pages
  <2>2. QED
    BY <1>2, <2>1 DEF Perform, registers, poll
<1>3. CASE Answer
  BY <1>3 DEF Answer, poll
<1>4. QED
  BY <1>1, <1>2, <1>3 DEF Module

\* Typed is inductive.
LEMMA TypedNext == Typed /\ [Next]_vars => Typed'
<1> SUFFICES ASSUME Typed, [Next]_vars PROVE Typed'
  OBVIOUS
<1>1. ASSUME NEW kind \in Kinds, NEW c \in Cmds, NEW d \in Params, NEW p \in PassPages \cup {MAILBOX},
             Request(kind, c, d, p)
      PROVE  Typed'
  <2>1. kind \in DOMAIN Steps /\ p \in Pages
    BY MailboxAssumption DEF Pages
  <2>2. Steps[kind] \in Seq(StepNames)
    BY <2>1, ScriptOrder DEF OrderOf
  <2>3. RestOf(Steps[kind], Steps[kind])
    BY <2>2, LenProperties DEF RestOf
  <2>4. call'.kind = kind /\ todo' = Steps[kind]
    BY <1>1 DEF Request
  <2>5. TypeOK'
    BY <1>1, <2>1, <2>2, MailboxAssumption DEF Request, Typed, TypeOK, registers, StepNames
  <2>6. QED
    BY <1>1, <2>3, <2>4, <2>5, MailboxAssumption DEF Request, Typed
<1>2. CASE UNCHANGED vars
  BY <1>2 DEF Typed, TypeOK, RestOf, vars, registers, module, poll
<1>3. QED
  BY <1>1, <1>2, TypedBoard, TypedModule DEF Next

\* Registers, locals of the polling loop and the history keep to their types; the polls
\* are never more than POLLS (dbg_cmd_get_status, mcu_sal_dbg_cmd.c:8).
THEOREM TypeCorrect == Spec => []TypeOK
<1>1. Typed => TypeOK
  BY DEF Typed
<1>2. QED
  BY <1>1, TypedInit, TypedNext, PTL DEF Spec

----------------------------------------------------------------------------
\* The command has been sent and its status not been read yet.
Waiting == Has(todo, "status") /\ ~ Has(todo, "cmd")

\* Each poll gets through, and the module answers before the last that counts.
Answered == ~ Slow /\ "poll" \notin Lossy

\* As long as the module has something to do the board polls for it.
Handled ==
  /\ Typed
  /\ Has(todo, "cmd") \/ Has(todo, "data") => at = "read" /\ counter = 0
  /\ task # IDLE => cell[MAILBOX] = task
  /\ answer # IDLE => task # IDLE
  /\ Busy =>
       /\ Waiting /\ page = MAILBOX /\ cell[MAILBOX] = call.cmd
       /\ at = "check" => result \in Cmds
       /\ at # "idle" /\ counter + 1 < POLLS

\* HeadOrder for the call under way.
LEMMA Transfers ==
  ASSUME Typed, ~ Idle
  PROVE  /\ \A step : Has(todo, step) <=> Head(todo) = step \/ Has(Tail(todo), step)
         /\ Head(todo) \in {"select", "page"} =>
              Has(Tail(todo), "cmd") /\ (call.kind # "plain" => Has(Tail(todo), "data"))
         /\ Head(todo) = "page" => call.kind = "pass"
         /\ Head(todo) = "data" =>
              /\ Has(Tail(todo), "cmd") <=> call.kind # "late"
              /\ Has(Tail(todo), "status") /\ ~ Has(Tail(todo), "data")
         /\ Head(todo) = "cmd" =>
              /\ ~ Has(Tail(todo), "cmd") /\ Has(Tail(todo), "status")
              /\ call.kind # "late" => ~ Has(Tail(todo), "data")
         /\ Head(todo) = "status" =>
              /\ ~ Has(Tail(todo), "cmd") /\ ~ Has(Tail(todo), "data") /\ ~ Has(Tail(todo), "status")
              /\ call.kind \notin {"fetch", "pass"} => Tail(todo) = <<>>
         /\ Head(todo) = "read" => Tail(todo) = <<>>
<1>1. call.kind \in DOMAIN Steps /\ RestOf(todo, Steps[call.kind]) /\ todo \in Seq(StepNames) /\ todo # <<>>
  BY DEF Typed, TypeOK, Idle, RestOf
<1>2. \A step : Has(todo, step) <=> Head(todo) = step \/ Has(Tail(todo), step)
  BY <1>1, HasTail
<1>3. QED
  BY <1>1, <1>2, HeadOrder

\* When nothing is left, no transfer is to come.
LEMMA NothingLeft == \A step : ~ Has(<<>>, step)
BY EmptySeq DEF Has

\* Handled holds at first.
LEMMA HandledInit == Init => Handled
<1>1. Init => Typed
  BY TypedInit
<1>2. QED
  BY <1>1, NothingLeft, MailboxAssumption DEF Init, Handled, Busy, Pages, MAILBOX

\* No transfer of the board gives the module work but the command's own, and none goes
\* past the status while the module is at work.
LEMMA HandledBoard ==
  ASSUME Answered, Handled, Board
  PROVE  Handled'
<1>0. Typed'
  BY TypedBoard DEF Handled
<1>1. POLLS \in Nat /\ POLLS > 1 /\ IDLE \notin Cmds /\ OK \notin Cmds /\ FAILED \notin Cmds
  BY MailboxAssumption
<1>2. TypeOK /\ MAILBOX \in Pages
  BY DEF Handled, Typed, Pages
<1>3. ~ Idle
  BY DEF Board, SelectPage, PassPage, SendData, SendCmd, StatusRead, StatusCheck, StatusIdle, ReadResult, At
<1> USE <1>0, <1>1, <1>2, <1>3, Transfers, NothingLeft DEF Handled, Waiting, Busy
<1>4. CASE SelectPage \/ PassPage
  BY <1>4 DEF SelectPage, PassPage, At, module, poll, TypeOK
<1>5. CASE SendData
  BY <1>5 DEF SendData, At, module, poll, TypeOK
<1>6. CASE SendCmd
  <2>1. ~ Busy /\ at = "read" /\ counter = 0
    BY <1>6 DEF SendCmd, At
  <2>2. at' = at /\ counter' = counter /\ result' = result /\ task' = task /\ answer' = answer /\ call' = call
        /\ page' = page /\ todo' = Tail(todo)
    BY <1>6 DEF SendCmd, module, poll
  <2>3. Waiting'
    BY <1>6, <2>2 DEF SendCmd, At
  <2>4. cell' = cell \/ cell' = [cell EXCEPT ![page] = call.cmd]
    BY <1>6 DEF SendCmd, Write
  <2>5. Busy' => page = MAILBOX /\ cell'[MAILBOX] = call.cmd
    BY <2>1, <2>2, <2>4 DEF TypeOK
  <2>6. QED
    BY <2>1, <2>2, <2>3, <2>5
<1>7. CASE StatusRead
  <2>1. result' = cell[page] /\ counter' = counter + 1 /\ at' = "check" /\ at = "read"
        /\ (counter + 2 = POLLS => ~ Busy)
    BY <1>7 DEF StatusRead, Answered, Outcome
  <2>2. page' = page /\ cell' = cell /\ task' = task /\ answer' = answer /\ call' = call /\ todo' = todo
    BY <1>7 DEF StatusRead, module, registers
  <2>3. ~ (Has(todo, "cmd") \/ Has(todo, "data"))
    BY <1>7 DEF StatusRead, At
  <2>4. Busy => result' \in Cmds /\ counter' + 1 < POLLS
    BY <2>1, <2>2 DEF TypeOK
  <2>5. QED
    BY <2>1, <2>2, <2>3, <2>4
<1>8. CASE StatusCheck
  BY <1>8 DEF StatusCheck, StatusFalse, At, registers, module, TypeOK
<1>9. CASE StatusIdle
  BY <1>9 DEF StatusIdle, StatusFalse, At, Write, module, poll, TypeOK
<1>10. CASE ReadResult
  BY <1>10 DEF ReadResult, At, registers, module, poll, TypeOK
<1>11. QED
  BY <1>4, <1>5, <1>6, <1>7, <1>8, <1>9, <1>10 DEF Board

\* The module works on the command that is in its register.
LEMMA HandledModule ==
  ASSUME Handled, Module
  PROVE  Handled'
<1>0. Typed'
  BY TypedModule DEF Handled
<1>1. TypeOK /\ MAILBOX \in Pages /\ Cmds \cap {OK, FAILED, IDLE} = {}
  BY MailboxAssumption DEF Handled, Typed, Pages
<1> USE <1>0, <1>1 DEF Handled, Waiting, Busy
<1>2. CASE Take
  BY <1>2 DEF Take, registers, poll, TypeOK
<1>3. CASE Perform
  BY <1>3 DEF Perform, registers, poll
<1>4. CASE Answer
  BY <1>4 DEF Answer, poll, TypeOK
<1>5. QED
  BY <1>2, <1>3, <1>4 DEF Module

\* A caller starts with its whole script.
LEMMA RequestTaken ==
  ASSUME NEW kind \in Kinds, NEW c, NEW d, NEW p, Request(kind, c, d, p)
  PROVE  OrderOf(todo', kind) /\ call'.kind = kind /\ Has(todo, "cmd")'
<1>1. kind \in DOMAIN Steps /\ todo' = Steps[kind] /\ call'.kind = kind
  BY MailboxAssumption DEF Request
<1>2. QED
  BY <1>1, ScriptOrder DEF OrderOf

\* Handled is inductive if every poll gets through and the module answers in time.
LEMMA HandledNext ==
  ASSUME Answered
  PROVE  Handled /\ [Next]_vars => Handled'
<1> SUFFICES ASSUME Handled, [Next]_vars PROVE Handled'
  OBVIOUS
<1>1. ASSUME NEW kind \in Kinds, NEW c \in Cmds, NEW d \in Params, NEW p \in PassPages \cup {MAILBOX},
             Request(kind, c, d, p)
      PROVE  Handled'
  <2>1. ~ Busy
    BY <1>1, NothingLeft DEF Request, Idle, Handled, Waiting
  <2>2. Typed'
    BY TypedNext DEF Handled
  <2>3. QED
    BY <1>1, <2>1, <2>2 DEF Request, Handled, Busy, registers
<1>2. CASE UNCHANGED vars
  BY <1>2, TypedNext DEF Handled, Busy, Waiting, Has, vars, registers, module, poll
<1>3. QED
  BY <1>1, <1>2, HandledBoard, HandledModule DEF Next

\* When a caller has returned the module has nothing left to do, unless a poll failed or
\* the module was slower than the polling loop (dbg_cmd_get_status, mcu_sal_dbg_cmd.c:8).
THEOREM NothingLeftOver ==
  ASSUME Answered
  PROVE  Spec => []NothingPending
<1>1. Handled => NothingPending
  BY NothingLeft DEF Handled, Waiting, Idle, NothingPending
<1>2. QED
  BY <1>1, HandledInit, HandledNext, PTL DEF Spec

----------------------------------------------------------------------------
\* The command of the call is run at most once, and what was run is not taken again.
Once ==
  /\ Handled
  /\ Has(todo, "cmd") => ran = <<>>
  /\ Len(ran) <= 1
  /\ Busy => ran = <<>> \/ answer # IDLE
  /\ answer # IDLE => Len(ran) = 1 /\ ran[1].answer = answer
  /\ \A i \in DOMAIN ran : ran[i].cmd = call.cmd

\* Once holds at first.
LEMMA OnceInit == Init => Once
BY HandledInit DEF Init, Once, Busy, Handled

\* The board gives the module work by sending the command only.
LEMMA OnceBoard ==
  ASSUME Answered, Once, Board
  PROVE  Once'
<1>0. Handled' /\ Typed
  BY HandledBoard DEF Once, Handled
<1>1. ~ Idle /\ ran' = ran /\ answer' = answer /\ task' = task /\ call' = call
  BY DEF Board, SelectPage, PassPage, SendData, SendCmd, StatusRead, StatusCheck, StatusIdle,
         ReadResult, At, module
<1>2. todo' = Tail(todo) \/ todo' = todo \/ todo' = <<>>
  BY DEF Board, SelectPage, PassPage, SendData, SendCmd, StatusRead, StatusCheck, StatusIdle,
         ReadResult, StatusFalse
<1>3. Has(todo, "cmd")' => Has(todo, "cmd")
  BY <1>0, <1>1, <1>2, Transfers, NothingLeft
<1>4. Busy' => Busy \/ Has(todo, "cmd")
  <2>1. CASE SendCmd
    BY <1>0, <1>1, <2>1, Transfers DEF SendCmd, At
  <2>2. CASE StatusIdle
    <3>1. cell'[MAILBOX] \in {cell[MAILBOX], IDLE}
      BY <2>2, <1>0 DEF StatusIdle, Write, Typed, TypeOK, Pages
    <3>2. QED
      BY <1>1, <3>1, MailboxAssumption DEF Busy
  <2>3. CASE ~ SendCmd /\ ~ StatusIdle
    BY <1>1, <2>3 DEF Busy, Board, SelectPage, PassPage, SendData, StatusRead, StatusCheck,
       ReadResult, registers
  <2>4. QED
    BY <2>1, <2>2, <2>3
<1>5. QED
  BY <1>0, <1>1, <1>3, <1>4 DEF Once

\* The module runs a command when it has taken it, and then answers it.
LEMMA OnceModule ==
  ASSUME Once, Module
  PROVE  Once'
<1>0. Handled' /\ TypeOK /\ Cmds \cap {OK, FAILED, IDLE} = {} /\ MAILBOX \in Pages
  BY HandledModule, MailboxAssumption DEF Once, Handled, Typed, Pages
<1>1. CASE Take
  <2>1. Busy
    BY <1>0, <1>1 DEF Take, Busy, TypeOK
  <2>2. QED
    BY <1>0, <1>1, <2>1 DEF Take, Once, registers
<1>2. CASE Perform
  <2>1. Busy /\ ran = <<>> /\ ~ Has(todo, "cmd") /\ task = call.cmd
    BY <1>2 DEF Perform, Once, Handled, Busy, Waiting
  <2>2. ran' = <<[cmd |-> task, data |-> data[MAILBOX], answer |-> answer']>>
    BY <1>2, <2>1 DEF Perform
  <2>3. Len(ran') = 1 /\ ran'[1].answer = answer' /\ \A i \in DOMAIN ran' : ran'[i].cmd = call.cmd
    BY <2>1, <2>2
  <2>4. ~ Has(todo, "cmd")' /\ call' = call /\ answer' # IDLE
    BY <1>2, <2>1 DEF Perform, Has, OK, FAILED, IDLE
  <2>5. QED
    BY <1>0, <2>3, <2>4 DEF Once
<1>3. CASE Answer
  <2>1. ~ Busy'
    BY <1>0, <1>3 DEF Answer, Busy, TypeOK
  <2>2. QED
    BY <1>0, <1>3, <2>1 DEF Answer, Once
<1>4. QED
  BY <1>1, <1>2, <1>3 DEF Module

\* Once is inductive under the same hypothesis as Handled.
LEMMA OnceNext ==
  ASSUME Answered
  PROVE  Once /\ [Next]_vars => Once'
<1> SUFFICES ASSUME Once, [Next]_vars PROVE Once'
  OBVIOUS
<1>0. Handled'
  BY HandledNext DEF Once
<1>1. ASSUME NEW kind \in Kinds, NEW c \in Cmds, NEW d \in Params, NEW p \in PassPages \cup {MAILBOX},
             Request(kind, c, d, p)
      PROVE  Once'
  <2>1. ~ Busy /\ answer = IDLE
    BY <1>1, NothingLeft DEF Request, Idle, Once, Handled, Waiting, Busy
  <2>2. QED
    BY <1>0, <1>1, <2>1 DEF Request, Once
<1>2. CASE UNCHANGED vars
  BY <1>0, <1>2 DEF Once, Busy, Has, vars, registers, module, poll
<1>3. QED
  BY <1>1, <1>2, OnceBoard, OnceModule DEF Next

\* The module runs what a caller asked for at most once and nothing else, under the same
\* hypothesis (dbg_cmd_conf and dbg_cmd_handle, mcu_sal_dbg_cmd.c:41, 119).
THEOREM RunsOnce ==
  ASSUME Answered
  PROVE  Spec => []AtMostOnce
<1>1. Once => AtMostOnce
  BY DEF Once, AtMostOnce
<1>2. QED
  BY <1>1, OnceInit, OnceNext, PTL DEF Spec

----------------------------------------------------------------------------
\* The callers report the command's own outcome, and the parameters get through.
Checked == Kinds \subseteq {"plain", "param", "pass"} /\ "data" \notin Lossy

\* The status that can be read is the outcome of the command.
Success ==
  /\ Once
  /\ call.kind \in Kinds
  /\ ~ Idle => call.cmd \in Cmds
  /\ cell[0] \notin {OK, FAILED}
  /\ Has(todo, "cmd") /\ ~ Has(todo, "data") /\ WithParameters /\ page = MAILBOX
       => data[MAILBOX] = call.data
  /\ Busy /\ WithParameters => data[MAILBOX] = call.data
  /\ \A i \in DOMAIN ran : WithParameters => ran[i].data = call.data
  /\ at = "idle" => result \in {OK, FAILED}
  /\ Waiting /\ page = 0 /\ at # "read" => result \notin {OK, FAILED}
  /\ Waiting /\ ret = OK /\ page = MAILBOX =>
       /\ Busy \/ (ran # <<>> /\ cell[MAILBOX] = ran[1].answer)
       /\ at # "read" /\ result \in {OK, FAILED} => (ran # <<>> /\ ran[1].answer = result)
  /\ ~ Has(todo, "cmd") /\ ~ Has(todo, "status") =>
       /\ ~ Idle => ret = OK
       /\ ret = OK => ran # <<>> /\ ran[1].answer = OK

\* Success holds at first.
LEMMA SuccessInit == Init => Success
<1>1. SUFFICES ASSUME Init PROVE Success
  OBVIOUS
<1>2. Once /\ call.kind \in Kinds
  BY <1>1, OnceInit DEF Init
<1>3. Idle /\ cell[0] = IDLE /\ ret = FAILED /\ ran = <<>> /\ at = "read"
  BY <1>1 DEF Init, Idle, Pages
<1>4. \A step : ~ Has(todo, step)
  BY <1>3, NothingLeft DEF Idle
<1>5. ~ Busy
  BY <1>2, <1>4 DEF Once, Handled, Waiting
<1>6. QED
  BY <1>2, <1>3, <1>4, <1>5 DEF Success, Waiting, OK, FAILED, IDLE

\* What the board reads as the status is the outcome of its command.
LEMMA SuccessBoard ==
  ASSUME Answered, Checked, Success, Board
  PROVE  Success'
<1>0. Once' /\ Typed /\ TypeOK /\ Handled
  BY OnceBoard DEF Success, Once, Handled, Typed
<1>1. /\ ~ Idle /\ ran' = ran /\ answer' = answer /\ task' = task /\ call' = call
      /\ todo' = Tail(todo) \/ todo' = todo \/ todo' = <<>>
  BY DEF Board, SelectPage, PassPage, SendData, SendCmd, StatusRead, StatusCheck, StatusIdle,
         ReadResult, At, module, StatusFalse
<1>2. /\ call.kind \in Kinds /\ call.kind \in {"plain", "param", "pass"} /\ call.cmd \in Cmds
      /\ Cmds \cap {OK, FAILED, IDLE} = {} /\ WithParameters' = WithParameters
      /\ \A i \in DOMAIN ran : WithParameters => ran[i].data = call.data
  BY <1>1, MailboxAssumption DEF Success, Checked, WithParameters
<1>3. Idle' <=> todo' = <<>>
  BY DEF Idle
<1> USE <1>0, <1>1, <1>2, <1>3, Transfers, NothingLeft DEF Waiting
<1>4. CASE SelectPage \/ PassPage
  <2>1. Has(todo, "cmd") /\ ~ Busy /\ at = "read" /\ UNCHANGED <<cell, data, poll>>
    BY <1>4 DEF SelectPage, PassPage, At, Handled
  <2>2. \/ todo' = Tail(todo) /\ Has(Tail(todo), "cmd")
           /\ (call.kind # "plain" => Has(Tail(todo), "data"))
        \/ todo' = <<>> /\ ret' = FAILED
    BY <1>4 DEF SelectPage, PassPage, At, Status
  <2>3. QED
    BY <2>1, <2>2 DEF Success, Busy, poll, WithParameters, OK, FAILED
<1>5. CASE SendData
  <2>1. /\ Has(todo, "cmd") /\ ~ Busy /\ at = "read" /\ UNCHANGED <<page, cell, poll>>
        /\ todo' = Tail(todo) /\ Has(Tail(todo), "cmd") /\ call.kind # "late"
    BY <1>5 DEF SendData, At, Handled
  <2>2. data' = [data EXCEPT ![page] = call.data]
    BY <1>5 DEF SendData, Outcome, Checked, Write
  <2>3. QED
    BY <2>1, <2>2 DEF Success, Busy, poll, TypeOK
<1>6. CASE SendCmd
  <2>1. /\ Has(todo, "cmd") /\ ~ Has(todo, "data") /\ ~ Busy /\ at = "read" /\ UNCHANGED <<page, data, poll>>
        /\ todo' = Tail(todo) /\ ~ Has(Tail(todo), "cmd") /\ Has(Tail(todo), "status")
    BY <1>6 DEF SendCmd, At, Handled
  <2>2. cell' = cell \/ cell' = [cell EXCEPT ![page] = call.cmd]
    BY <1>6 DEF SendCmd, Write
  <2>3. ret' = OK => cell' = [cell EXCEPT ![page] = call.cmd]
    BY <1>6 DEF SendCmd, Write, Status, OK, FAILED
  <2>4. cell'[0] \notin {OK, FAILED}
    BY <2>2 DEF TypeOK, Success, Pages, MAILBOX
  <2>5. Busy' => page = MAILBOX
    BY <2>1, <2>2 DEF Busy, TypeOK, Pages, MAILBOX
  <2>6. ret' = OK /\ page = MAILBOX => Busy'
    BY <2>1, <2>3 DEF Busy, TypeOK
  <2>7. QED
    BY <2>1, <2>4, <2>5, <2>6 DEF Success, Busy, poll
<1>7. CASE StatusRead
  <2>1. result' = cell[page] /\ at' = "check" /\ UNCHANGED <<registers, todo, ret>>
    BY <1>7 DEF StatusRead, Answered, Outcome
  <2>2. Busy' = Busy /\ Has(todo, "cmd")' = Has(todo, "cmd") /\ Has(todo, "data")' = Has(todo, "data")
        /\ Waiting /\ Waiting'
    BY <1>7, <2>1 DEF StatusRead, At, Busy, registers
  <2>3. Busy => cell[MAILBOX] \in Cmds
    BY DEF Handled
  <2>4. QED
    BY <2>1, <2>2, <2>3 DEF Success, registers
<1>8. CASE StatusCheck
  <2>1. Waiting /\ UNCHANGED <<registers, result>>
    BY <1>8 DEF StatusCheck, At
  <2>2. Busy' = Busy
    BY <2>1 DEF Busy, registers
  <2>3. CASE counter >= POLLS
    <3>1. todo' = <<>> /\ ret' = FAILED /\ at' = at
      BY <1>8, <2>3 DEF StatusCheck, StatusFalse
    <3>2. QED
      BY <2>1, <2>2, <3>1 DEF Success, registers, OK, FAILED
  <2>4. CASE ~ counter >= POLLS
    BY <1>8, <2>1, <2>2, <2>4 DEF StatusCheck, Success, registers
  <2>5. QED
    BY <2>3, <2>4
<1>9. CASE StatusIdle
  <2>1. Waiting /\ UNCHANGED <<page, data, poll>> /\ ~ Busy /\ at = "idle"
    BY <1>9 DEF StatusIdle, At, Handled
  <2>2. page = MAILBOX
    BY <2>1 DEF Success, TypeOK, Pages
  <2>3. cell'[MAILBOX] \in {cell[MAILBOX], IDLE} /\ cell'[0] = cell[0]
    BY <1>9, <2>2 DEF StatusIdle, Write, TypeOK, Pages, MAILBOX
  <2>4. ~ Busy'
    BY <2>1, <2>3 DEF Busy
  <2>5. CASE StatusFalse
    <3>1. todo' = <<>> /\ ret' = FAILED
      BY <2>5 DEF StatusFalse
    <3>2. QED
      BY <2>1, <2>3, <2>4, <3>1 DEF Success, poll, OK, FAILED
  <2>6. CASE result = OK /\ ret' = ret
              /\ todo' = IF call.kind = "pass" /\ ret = FAILED THEN <<>> ELSE Tail(todo)
    <3>1. ~ Has(todo, "cmd")' /\ ~ Has(todo, "status")'
      BY <1>9, <2>6 DEF StatusIdle, At
    <3>2. ret = OK => ran # <<>> /\ ran[1].answer = OK
      BY <2>1, <2>2, <2>6 DEF Success
    <3>3. ~ Idle' => ret = OK
      BY <1>9, <2>6 DEF StatusIdle, At, TypeOK
    <3>4. QED
      BY <2>1, <2>3, <2>4, <2>6, <3>1, <3>2, <3>3 DEF Success, poll
  <2>7. QED
    BY <1>9, <2>1, <2>5, <2>6 DEF StatusIdle, Success
<1>10. CASE ReadResult
  BY <1>10 DEF ReadResult, At, registers, poll, Success, Handled, Busy
<1>11. QED
  BY <1>4, <1>5, <1>6, <1>7, <1>8, <1>9, <1>10 DEF Board

\* The module writes the outcome of the command into the register that is read.
LEMMA SuccessModule ==
  ASSUME Success, Module
  PROVE  Success'
<1>0. Once' /\ Once /\ Handled /\ TypeOK
  BY OnceModule DEF Success, Once, Handled, Typed
<1>1. /\ UNCHANGED <<page, data, call, todo, ret, poll>>
      /\ Has(todo, "cmd")' = Has(todo, "cmd") /\ Has(todo, "data")' = Has(todo, "data")
      /\ Waiting' = Waiting /\ Idle' = Idle /\ WithParameters' = WithParameters
  BY DEF Module, Take, Perform, Answer, registers, Waiting, Has, Idle, WithParameters
<1>2. Busy
  BY <1>0 DEF Module, Take, Perform, Answer, Busy, Handled, TypeOK, Pages, MAILBOX
<1>3. Waiting /\ page = MAILBOX /\ (at # "read" => result \in Cmds)
  BY <1>0, <1>2, <1>1 DEF Handled, Typed, TypeOK
<1>4. Cmds \cap {OK, FAILED, IDLE} = {} /\ page # 0
  BY <1>3, MailboxAssumption DEF MAILBOX
<1>5. CASE Take
  BY <1>0, <1>1, <1>2, <1>3, <1>4, <1>5 DEF Take, Success, registers, Busy, poll, Waiting, TypeOK
<1>6. CASE Perform
  <2>1. ran = <<>> /\ ran' = <<[cmd |-> task, data |-> data[MAILBOX], answer |-> answer']>>
    BY <1>2, <1>6, <1>0 DEF Perform, Once
  <2>2. \A i \in DOMAIN ran' : WithParameters => ran'[i].data = call.data
    BY <2>1, <1>2 DEF Success
  <2>3. UNCHANGED <<cell, task>>
    BY <1>6 DEF Perform, registers
  <2>4. QED
    BY <1>0, <1>1, <1>2, <1>3, <1>4, <2>2, <2>3 DEF Success, Busy, poll, Waiting
<1>7. CASE Answer
  <2>1. /\ cell'[MAILBOX] = answer /\ cell'[0] = cell[0] /\ ran' = ran
        /\ ran # <<>> /\ ran[1].answer = answer
    <3>1. cell'[MAILBOX] = answer /\ cell'[0] = cell[0] /\ ran' = ran
      BY <1>0, <1>7 DEF Answer, TypeOK, Pages, MAILBOX
    <3>2. Len(ran) = 1 /\ ran[1].answer = answer
      BY <1>0, <1>7 DEF Answer, Once
    <3>3. QED
      BY <3>1, <3>2, EmptySeq
  <2>2. ~ Busy'
    BY <1>0, <1>4, <1>7, <2>1 DEF Answer, Busy, TypeOK
  <2>3. QED
    BY <1>0, <1>1, <1>2, <1>3, <1>4, <2>1, <2>2 DEF Success, poll, Waiting
<1>8. QED
  BY <1>5, <1>6, <1>7 DEF Module

\* Success is inductive if the callers check the command's own outcome.
LEMMA SuccessNext ==
  ASSUME Answered, Checked
  PROVE  Success /\ [Next]_vars => Success'
<1> SUFFICES ASSUME Success, [Next]_vars PROVE Success'
  OBVIOUS
<1>0. Once'
  BY OnceNext DEF Success
<1>1. ASSUME NEW kind \in Kinds, NEW c \in Cmds, NEW d \in Params, NEW p \in PassPages \cup {MAILBOX},
             Request(kind, c, d, p)
      PROVE  Success'
  <2>1. ~ Busy
    BY <1>1, NothingLeft DEF Request, Idle, Success, Once, Handled, Waiting
  <2>2. Has(todo, "cmd")' /\ (kind # "plain" => Has(todo, "data")') /\ call'.kind = kind /\ call'.cmd = c
    BY <1>1, RequestTaken DEF OrderOf, Request
  <2>3. ran' = <<>> /\ at' = "read" /\ UNCHANGED <<registers, task, answer>>
    BY <1>1 DEF Request
  <2>4. QED
    BY <1>0, <2>1, <2>2, <2>3 DEF Success, Busy, registers, Waiting, WithParameters
<1>2. CASE UNCHANGED vars
  BY <1>0, <1>2 DEF Success, Busy, Has, Waiting, Idle, WithParameters, vars, registers, module, poll
<1>3. QED
  BY <1>1, <1>2, SuccessBoard, SuccessModule DEF Next

\* A caller that reports success had its command run, successfully and with its
\* parameters (dbg_cmd_conf, mcu_sal_dbg_cmd.c:41), if moreover it is one of those that
\* report the outcome of the command's transfer and its parameters get through.
THEOREM SuccessMeansRan ==
  ASSUME Answered, Checked
  PROVE  Spec => []OkMeansRan
<1>1. Success => OkMeansRan
  <2>1. SUFFICES ASSUME Success, Idle, ret = OK PROVE ran # <<>> /\ ran[1].answer = OK /\ 1 \in DOMAIN ran
    BY DEF OkMeansRan, Success, Once
  <2>2. ran # <<>> /\ ran[1].answer = OK
    BY <2>1, NothingLeft DEF Success, Idle
  <2>3. ran \in Seq([cmd : Cmds, data : Params, answer : {OK, FAILED}])
    BY <2>1 DEF Success, Once, Handled, Typed, TypeOK
  <2>4. QED
    BY <2>2, <2>3, EmptySeq, LenProperties
<1>2. QED
  BY <1>1, SuccessInit, SuccessNext, PTL DEF Spec
====
