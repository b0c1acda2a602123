--------------------------- MODULE ModulePagesProofs ---------------------------
(***************************************************************************)
(* A register is accessed only while its page is shown, for every set of   *)
(* lines and every handler whose script is WellPaged.  What WellPaged says  *)
(* of the text of a handler is shown here to carry over to its runs: all   *)
(* the failures, early returns, checks of the permission and restarts.     *)
(***************************************************************************)
EXTENDS ModulePages, TLAPS

Here == line # <<>> /\ pc <= Len(steps)

\* The page selected by step j is still there.
Holds(j) == Selects(steps[j]) /\ \A k \in j + 1 .. pc - 1 : Stays(steps[k])

\* The inductive invariant.  A step "end" is left out: an early return of the function it
\* ends may lead there from a select that failed.
PageThere ==
  /\ line \in Lines \cup {<<>>}
  /\ pc \in Nat \ {0}
  /\ line = <<>> => pc = 1 /\ sub = "begin"
  /\ sub # "begin" => Here /\ step.op = "select"
  /\ sub = "begin" /\ Here /\ step.op # "end"
       => \A j \in 1 .. pc - 1 : Holds(j) => shown = steps[j].reg.page /\ reset = 1

\* The step at pc and what it may do to the page.
Keeps ==
  \/ ~ Stays(step) /\ ~ Selects(step)
  \/ Stays(step) /\ (reset = 1 => shown' = shown /\ reset' = 1)
  \/ step.op = "select" /\ shown' = step.reg.page /\ reset' = 1

\* The next step is taken (Continue): the pages that were there are, or are forgotten.
LEMMA StepForward ==
  ASSUME PageThere, Here, sub = "begin" \/ step.op = "select", line' = line, sub' = "begin",
         Continue, Keeps
  PROVE  PageThere'
<1>1. line \in Lines /\ Len(steps) \in Nat /\ pc \in Nat \ {0} /\ pc' = pc + 1
  BY WellPaged DEF PageThere, Here, Continue, steps
<1>2. steps' = steps /\ step = steps[pc]
  BY DEF steps, step
<1>3. ASSUME Here', step'.op # "end", NEW j \in 1 .. pc' - 1, Holds(j)'
      PROVE  shown' = steps[j].reg.page /\ reset' = 1
  <2>1. Selects(steps[j]) /\ \A k \in j + 1 .. pc : Stays(steps[k])
    BY <1>1, <1>2, <1>3 DEF Holds
  <2>2. CASE j = pc
    <3>1. step.op = "select" /\ Selects(step) /\ ~ Stays(step)
      BY <2>1, <2>2, <1>2 DEF Selects, Stays
    <3>2. QED
      BY <3>1, <1>2, <2>2 DEF Keeps
  <2>3. CASE j # pc
    <3>1. j \in 1 .. pc - 1 /\ pc \in j + 1 .. pc
      BY <1>1, <1>3, <2>3
    <3>2. Stays(step) /\ step.op # "select" /\ step.op # "end"
      BY <3>1, <2>1, <1>2 DEF Stays
    <3>3. Holds(j)
      BY <2>1, <3>1, <1>1 DEF Holds
    <3>4. shown = steps[j].reg.page /\ reset = 1
      BY <3>1, <3>2, <3>3 DEF PageThere
    <3>5. QED
      BY <3>2, <3>4 DEF Keeps, Selects
  <2>4. QED
    BY <2>2, <2>3
<1>4. QED
  BY <1>1, <1>2, <1>3 DEF PageThere, Here

\* The function that runs, or the one it called, returns early.
LEMMA EarlyReturn ==
  ASSUME PageThere, Here, line' = line, sub' = "begin",
         pc' \in Nat \ {0}, pc' = Len(steps) + 1 \/ steps[pc'].op = "end"
  PROVE  PageThere'
<1>1. line \in Lines /\ Len(steps) \in Nat
  BY WellPaged DEF PageThere, Here, steps
<1>2. steps' = steps /\ step' = steps[pc'] /\ line' # <<>>
  BY DEF steps, step, Here
<1>3. ~ (Here' /\ step'.op # "end")
  BY <1>1, <1>2 DEF Here
<1>4. QED
  BY <1>1, <1>2, <1>3 DEF PageThere

\* A step fails.  If it is a select whose result counts, nothing is taken for selected.
LEMMA StepFails ==
  ASSUME PageThere, Here, sub = "begin" \/ step.op = "select", line' = line, sub' = "begin",
         NEW result, Failure(result),
         step.on \notin {"return", "leave"} => Keeps
  PROVE  PageThere'
<1>1. line \in Lines /\ Len(steps) \in Nat /\ pc \in Nat \ {0}
  BY WellPaged DEF PageThere, Here, steps
<1>2. CASE step.on = "return"
  <2>1. pc' = Len(steps) + 1
    BY <1>2 DEF Failure
  <2>2. QED
    BY <1>1, <2>1, EarlyReturn
<1>3. CASE step.on = "leave"
  <2>1. Leave
    BY <1>3 DEF Failure
  <2>2. pc' \in pc + 1 .. Len(steps) /\ steps[pc'].op = "end"
    BY <2>1 DEF Leave
  <2>3. QED
    BY <1>1, <2>2, EarlyReturn
<1>4. CASE step.on \notin {"return", "leave"}
  <2>1. Continue /\ Keeps
    BY <1>4 DEF Failure
  <2>2. QED
    BY <2>1, StepForward
<1>5. QED
  BY <1>2, <1>3, <1>4

----------------------------------------------------------------------------
\* A line begins, or is answered.
LEMMA LineBegins ==
  ASSUME PageThere, Request
  PROVE  PageThere'
<1>1. line' \in Lines /\ pc' = 1 /\ sub' = "begin"
  BY DEF PageThere, Request
<1>2. QED
  BY <1>1 DEF PageThere, Here

LEMMA LineEnds ==
  ASSUME PageThere, Forget
  PROVE  PageThere'
BY DEF PageThere, Forget, Here

\* The check of the permission changes the page while its select is under way.
LEMMA SelectKeeps ==
  ASSUME PageThere, SelectStep
  PROVE  PageThere'
<1>1. line \in Lines \cup {<<>>} /\ pc \in Nat \ {0}
  BY DEF PageThere
<1>2. CASE CheckPage \/ Mark \/ LookGood
  <2>1. Here /\ step.op = "select" /\ line' = line /\ pc' = pc /\ sub' # "begin"
    BY <1>2 DEF CheckPage, Mark, LookGood, Running, Here
  <2>2. Here' /\ step'.op = "select"
    BY <2>1 DEF Here, step, steps
  <2>3. QED
    BY <1>1, <2>1, <2>2 DEF PageThere, Here
<1>3. CASE LookBad \/ PageFails
  <2>1. Here /\ step.op = "select" /\ line' = line /\ sub' = "begin"
    BY <1>3 DEF LookBad, PageFails, AtPage, Running, Here
  <2>2. step.on \notin {"return", "leave"} => Keeps
    BY <2>1 DEF Keeps, Selects, Stays
  <2>3. Failure(NO_PERMISSION) \/ Failure(FAILED)
    BY <1>3 DEF LookBad, PageFails
  <2>4. QED
    BY <2>1, <2>2, <2>3, StepFails
<1>4. CASE PageOk
  <2>1. Here /\ step.op = "select" /\ line' = line /\ sub' = "begin" /\ Continue
    BY <1>4 DEF PageOk, AtPage, Running, Here, Success
  <2>2. shown' = step.reg.page /\ reset' = 1
    BY <1>4 DEF PageOk, Answers, target
  <2>3. Keeps
    BY <2>1, <2>2 DEF Keeps
  <2>4. QED
    BY <2>1, <2>3, StepForward
<1>5. QED
  BY <1>2, <1>3, <1>4 DEF SelectStep

\* Between the steps of a select no other step is taken.
LEMMA NotSelecting ==
  ASSUME PageThere, NEW op, Running(op), op # "select"
  PROVE  Here /\ sub = "begin" /\ step.op = op
BY DEF PageThere, Running, Here

LEMMA TransferKeeps ==
  ASSUME PageThere, TransferStep
  PROVE  PageThere'
<1>1. PICK op \in {"read", "write", "status"} : Running(op)
  BY DEF TransferStep, ReadOk, WriteOk, TransferFails, StatusOk, StatusFails
<1>2. Here /\ sub = "begin" /\ step.op = op
  BY <1>1, NotSelecting
<1>3. line' = line /\ sub' = "begin" /\ shown' = shown /\ reset' = reset
  BY <1>2 DEF TransferStep, ReadOk, WriteOk, TransferFails, StatusOk, StatusFails, module
<1>4. Keeps
  BY <1>2, <1>3 DEF Keeps, Stays
<1>5. Continue \/ Failure(FAILED)
  BY DEF TransferStep, ReadOk, WriteOk, TransferFails, StatusOk, StatusFails, Success
<1>6. QED
  BY <1>2, <1>3, <1>4, <1>5, StepForward, StepFails

\* Pins, restarts, raw accesses, the loops and the ends of inner functions.
LEMMA OtherKeeps ==
  ASSUME PageThere, OtherStep, ~ Reboot
  PROVE  PageThere'
<1>1. PICK op \in {"restart", "pin", "raw_read", "raw_write", "pass", "boot", "entries",
                   "unless", "fail", "end"} : Running(op)
  BY DEF OtherStep, Restart, Pin, RawRead, RawWrite, Pass, Boot, Entries, Unless, Fail,
         InnerEnds
<1>2. Here /\ sub = "begin" /\ step.op = op
  BY <1>1, NotSelecting
<1>3. line' = line /\ sub' = "begin"
  BY <1>2 DEF OtherStep, Restart, Pin, RawRead, RawWrite, Pass, Boot, Entries, Unless, Fail,
              InnerEnds
<1>4. Keeps
  <2>1. CASE op \in {"restart", "raw_write", "pass", "end"}
    BY <1>2, <2>1 DEF Keeps, Stays, Selects
  <2>2. CASE op \in {"raw_read", "boot", "entries", "unless", "fail"}
    <3>1. shown' = shown /\ reset' = reset
      BY <1>1, <1>2, <2>2 DEF OtherStep, Restart, Pin, RawRead, RawWrite, Pass, Boot, Entries,
         Unless, Fail, InnerEnds, Running, module
    <3>2. QED
      BY <1>2, <2>2, <3>1 DEF Keeps, Stays
  <2>3. CASE op = "pin"
    <3>1. Pin
      BY <1>2, <2>3 DEF OtherStep, Restart, Pin, RawRead, RawWrite, Pass, Boot, Entries,
         Unless, Fail, InnerEnds, Running
    <3>2. CASE ~ Stays(step)
      BY <1>2, <2>3, <3>2 DEF Keeps, Selects
    <3>3. CASE Stays(step) /\ reset = 1
      <4>1. reset' = 1
        BY <3>1, <3>3, <1>2, <2>3 DEF Pin, Stays
      <4>2. shown' = shown
        BY <3>1, <3>3, <4>1 DEF Pin
      <4>3. QED
        BY <3>3, <4>1, <4>2 DEF Keeps
    <3>4. CASE Stays(step) /\ reset # 1
      BY <3>4 DEF Keeps
    <3>5. QED
      BY <3>2, <3>3, <3>4
  <2>4. QED
    BY <2>1, <2>2, <2>3
<1>5. Continue \/ Failure(FAILED)
  BY DEF OtherStep, Restart, Pin, RawRead, RawWrite, Pass, Boot, Entries, Unless, Fail,
         InnerEnds, Success
<1>6. QED
  BY <1>2, <1>3, <1>4, <1>5, StepForward, StepFails

----------------------------------------------------------------------------
LEMMA PageThereInvariant == Spec => []PageThere
<1>1. Init => PageThere
  BY DEF Init, PageThere, Here
<1>2. PageThere /\ [Next]_vars => PageThere'
  <2>1. SUFFICES ASSUME PageThere, [Next]_vars PROVE PageThere'
    OBVIOUS
  <2>2. CASE Request
    BY <2>1, <2>2, LineBegins
  <2>3. CASE Answer
    BY <2>1, <2>3, LineEnds DEF Answer
  <2>4. CASE SelectStep
    BY <2>1, <2>4, SelectKeeps
  <2>5. CASE TransferStep
    BY <2>1, <2>5, TransferKeeps
  <2>6. CASE OtherStep
    <3>1. CASE Reboot
      BY <2>1, <3>1, LineEnds DEF Reboot
    <3>2. CASE ~ Reboot
      BY <2>1, <2>6, <3>2, OtherKeeps
    <3>3. QED
      BY <3>1, <3>2
  <2>7. CASE UNCHANGED vars
    BY <2>1, <2>7 DEF PageThere, Here, Holds, step, steps, vars, board, module
  <2>8. QED
    BY <2>1, <2>2, <2>3, <2>4, <2>5, <2>6, <2>7 DEF Next
<1>3. QED
  BY <1>1, <1>2, PTL DEF Spec

\* What relies on a page finds it there.
LEMMA PageIsThere ==
  ASSUME PageThere, Here, Relies(step)
  PROVE  shown = step.reg.page
<1>1. line \in Lines /\ pc \in 1 .. Len(steps) /\ step = steps[pc]
  BY WellPaged DEF PageThere, Here, steps, step
<1>2. step.op # "end" /\ step.op # "select"
  BY DEF Relies, Accesses
<1>3. PICK j \in 1 .. pc - 1 :
        /\ Selects(steps[j]) /\ steps[j].reg.page = step.reg.page
        /\ \A k \in j + 1 .. pc - 1 : Stays(steps[k])
  BY <1>1, WellPaged DEF steps
<1>4. Holds(j)
  BY <1>3 DEF Holds
<1>5. sub = "begin"
  BY <1>2 DEF PageThere, Here
<1>6. QED
  BY <1>2, <1>3, <1>4, <1>5 DEF PageThere

\* A register of the upper half is accessed only while its own page is shown: no failure,
\* early return or check of the permission on the way (qsfp28_select_page,
\* Efm8lb12_qsfp28.c:1300, and JUDGE_RETURN in its callers) lets another page take its
\* place, in whatever set of handlers that WellPaged holds of.
THEOREM AccessesOwnPage == Spec => []OwnPage
<1>1. PageThere => OwnPage
  BY PageIsThere DEF OwnPage, Here, Relies
<1>2. QED
  BY <1>1, PageThereInvariant, PTL

----------------------------------------------------------------------------
(* Types.                                                                  *)

\* What a step is, while one runs.
LEMMA StepIs ==
  ASSUME TypeOK, Here
  PROVE  /\ line \in Lines /\ Len(steps) \in Nat /\ pc \in 1 .. Len(steps) /\ step = steps[pc]
         /\ done \subseteq 1 .. pc - 1 /\ WellFormedStep(line, step)
<1>1. line \in Lines /\ step = steps[pc]
  BY DEF TypeOK, Here, step
<1>2. Len(steps) \in Nat /\ pc \in 1 .. Len(steps)
  BY <1>1, WellPaged DEF TypeOK, Here, steps
<1>3. QED
  BY <1>1, <1>2, WellFormed DEF TypeOK, steps

\* The next step is one of the line, or the line is over.
Ran == pc' \in pc + 1 .. Len(steps) + 1 /\ done' \subseteq 1 .. pc' - 1
       /\ ret' \in {OK, FAILED, NO_PERMISSION}

LEMMA FailureRan ==
  ASSUME TypeOK, Here, NEW result \in {FAILED, NO_PERMISSION}, Failure(result)
  PROVE  Ran /\ done' = done
<1>1. Len(steps) \in Nat /\ pc \in 1 .. Len(steps) /\ done \subseteq 1 .. pc - 1
  BY StepIs
<1>2. done' = done /\ ret' \in {ret, result}
  BY DEF Failure
<1>3. pc' \in pc + 1 .. Len(steps) + 1
  <2>1. CASE step.on = "return"
    BY <1>1, <2>1 DEF Failure
  <2>2. CASE step.on = "leave"
    BY <1>1, <2>2 DEF Failure, Leave
  <2>3. CASE step.on \notin {"return", "leave"}
    BY <1>1, <2>3 DEF Failure, Continue
  <2>4. QED
    BY <2>1, <2>2, <2>3
<1>4. ret \in {OK, FAILED, NO_PERMISSION}
  BY DEF TypeOK
<1>5. 1 .. pc - 1 \subseteq 1 .. pc' - 1
  <2>1. \A a, b \in Nat : a <= b => 1 .. a - 1 \subseteq 1 .. b - 1
    OBVIOUS
  <2>2. pc \in Nat /\ pc' \in Nat /\ pc <= pc'
    BY <1>1, <1>3
  <2>3. QED
    BY <2>1, <2>2
<1>6. QED
  BY <1>1, <1>2, <1>3, <1>4, <1>5 DEF Ran

LEMMA SuccessRan ==
  ASSUME TypeOK, Here, Success
  PROVE  Ran
<1>1. Len(steps) \in Nat /\ pc \in 1 .. Len(steps) /\ done \subseteq 1 .. pc - 1
  BY StepIs
<1>2. pc' = pc + 1 /\ done' \subseteq done \cup {pc} /\ ret' \in {ret, OK}
  BY DEF Success, Continue
<1>3. QED
  BY <1>1, <1>2 DEF Ran, TypeOK

LEMMA ContinueRan ==
  ASSUME TypeOK, Here, Continue, done' = done, ret' \in {OK, FAILED, NO_PERMISSION}
  PROVE  Ran
<1>1. Len(steps) \in Nat /\ pc \in 1 .. Len(steps) /\ done \subseteq 1 .. pc - 1
  BY StepIs
<1>2. QED
  BY <1>1 DEF Ran, Continue

\* Every step of a line but a restart of the board carries it on.
Step1 == /\ SelectStep \/ TransferStep \/ OtherStep
         /\ ~ Reboot

LEMMA EachRan ==
  ASSUME TypeOK, Step1, ~ (CheckPage \/ Mark \/ LookGood)
  PROVE  Ran /\ line' = line /\ Here
<1>1. Here /\ line' = line
  BY DEF Step1, SelectStep, TransferStep, OtherStep, LookBad, PageOk, PageFails, AtPage,
     ReadOk, WriteOk, TransferFails, StatusOk, StatusFails, Restart, Pin, RawRead, RawWrite,
     Pass, Boot, Entries, Unless, Fail, InnerEnds, Running, Here
<1>2. CASE Success
  BY <1>1, <1>2, SuccessRan
<1>3. CASE Failure(FAILED) \/ Failure(NO_PERMISSION)
  BY <1>1, <1>3, FailureRan
<1>4. CASE StatusOk \/ Pin \/ Entries \/ Unless \/ Fail \/ InnerEnds
  <2>1. Continue /\ done' = done
    BY <1>4 DEF StatusOk, Pin, Entries, Unless, Fail, InnerEnds
  <2>2. ret' \in {OK, FAILED, NO_PERMISSION}
    BY <1>4 DEF StatusOk, Pin, Entries, Unless, Fail, InnerEnds, TypeOK
  <2>3. QED
    BY <1>1, <2>1, <2>2, ContinueRan
<1>5. QED
  BY <1>2, <1>3, <1>4 DEF Step1, SelectStep, TransferStep, OtherStep, LookBad, PageOk,
     PageFails, ReadOk, WriteOk, TransferFails, StatusFails, Restart, RawRead, RawWrite, Pass,
     Boot

\* The module and the board's pins stay what they are.
LEMMA LanesTyped ==
  ASSUME TypeOK, Here, step.op = "write"
  PROVE  Stored \subseteq Channels
<1>1. step.reg = MSA_TX_ENABLE => step.arg.lanes \subseteq Channels
  BY StepIs, WellFormed DEF WellFormedStep
<1>2. QED
  BY <1>1 DEF Stored, NewLanes, TypeOK

Outside == /\ sub \in {"begin", "mark", "look", "page"}
           /\ modsel \in {0, 1} /\ reset \in {0, 1} /\ shown \in Pages
           /\ permit \in BOOLEAN /\ marked \in BOOLEAN
           /\ tx \subseteq Channels /\ tx_dis \subseteq Channels

LEMMA PagesAre == {0, 4} \subseteq Pages
  BY DEF Pages, NONE_PAGE

LEMMA OutsideTyped ==
  ASSUME TypeOK, Step1
  PROVE  Outside'
<1>1. Outside /\ line \in Lines \cup {<<>>}
  BY DEF Outside, TypeOK
<1>2. CASE CheckPage \/ Mark \/ LookGood \/ LookBad
  BY <1>1, <1>2, PagesAre DEF CheckPage, Mark, LookGood, LookBad, Outside, After, Answers, module
<1>3. CASE PageOk \/ PageFails
  <2>1. Here /\ step.op = "select"
    BY <1>3 DEF PageOk, PageFails, AtPage, Running, Here
  <2>2. target \in Pages
    BY <2>1, StepIs DEF WellFormedStep, target
  <2>3. QED
    BY <1>1, <1>3, <2>2 DEF PageOk, PageFails, Outside, After
<1>4. CASE ReadOk \/ StatusOk \/ StatusFails
  BY <1>1, <1>4 DEF ReadOk, StatusOk, StatusFails, Outside, module
<1>5. CASE WriteOk \/ TransferFails
  <2>1. tx' \subseteq Channels
    <3>1. tx' = tx \/ (step.op = "write" /\ Here /\ tx' = Stored)
      BY <1>5 DEF WriteOk, TransferFails, Running, Here
    <3>2. QED
      BY <1>1, <3>1, LanesTyped DEF Outside
  <2>2. QED
    BY <1>1, <1>5, <2>1 DEF WriteOk, TransferFails, Outside
<1>6. CASE Pin
  <2>1. Here /\ step.op = "pin"
    BY <1>6 DEF Pin, Running, Here
  <2>2. step.arg[1] \in {"MODSEL", "RESET"} => step.arg[2] \in {0, 1}
    BY <2>1, StepIs DEF WellFormedStep
  <2>3. modsel' \in {0, 1} /\ reset' \in {0, 1}
    BY <1>1, <1>6, <2>2 DEF Pin, Outside
  <2>4. shown' \in Pages /\ permit' \in BOOLEAN
    BY <1>1, <1>6, PagesAre DEF Pin, Restarted, Outside
  <2>5. QED
    BY <1>1, <1>6, <2>3, <2>4 DEF Pin, Outside
<1>7. CASE Restart \/ RawRead \/ RawWrite \/ Pass \/ Boot
  BY <1>1, <1>7, PagesAre DEF Restart, Restarted, RawRead, RawWrite, Pass, Boot, After, Outside,
     module
<1>8. CASE Entries \/ Unless \/ Fail \/ InnerEnds
  BY <1>1, <1>8 DEF Entries, Unless, Fail, InnerEnds, Outside, module
<1>9. QED
  BY <1>2, <1>3, <1>4, <1>5, <1>6, <1>7, <1>8 DEF Step1, SelectStep, TransferStep, OtherStep

LEMMA TypedInit == Init => TypeOK
<1>1. SUFFICES ASSUME Init PROVE TypeOK
  OBVIOUS
<1>2. pc \in 1 .. IF line = <<>> THEN 1 ELSE Len(steps) + 1
  BY <1>1 DEF Init
<1>3. QED
  BY <1>1, <1>2 DEF Init, TypeOK

LEMMA TypedNext == TypeOK /\ [Next]_vars => TypeOK'
<1>1. SUFFICES ASSUME TypeOK, [Next]_vars PROVE TypeOK'
  OBVIOUS
<1>2. CASE Request
  <2>1. line' \in Lines /\ Len(steps') \in Nat
    BY <1>2, WellPaged DEF Request, steps
  <2>2. tx' \subseteq Channels
    BY <1>2 DEF Request
  <2>3. pc' = 1 /\ done' = {}
    <3>1. pc \in 1 .. 1 /\ done \subseteq 1 .. pc - 1
      BY <1>1, <1>2 DEF Request, TypeOK
    <3>2. pc = 1 /\ done \subseteq 1 .. 0
      BY <3>1
    <3>3. QED
      BY <1>2, <3>2 DEF Request
  <2>4. pc' \in 1 .. IF line' = <<>> THEN 1 ELSE Len(steps') + 1
    BY <2>1, <2>3
  <2>5. QED
    BY <1>1, <1>2, <2>1, <2>2, <2>3, <2>4 DEF Request, TypeOK
<1>3. CASE Answer \/ Reboot
  <2>1. pc' \in 1 .. IF line' = <<>> THEN 1 ELSE Len(steps') + 1
    BY <1>3 DEF Answer, Reboot, Forget
  <2>2. QED
    BY <1>1, <1>3, <2>1 DEF Answer, Reboot, Forget, TypeOK
<1>4. CASE CheckPage \/ Mark \/ LookGood
  <2>1. Step1
    BY <1>4 DEF Step1, SelectStep, CheckPage, Mark, LookGood, Reboot, Running
  <2>2. Outside'
    BY <1>1, <2>1, OutsideTyped
  <2>3. UNCHANGED <<line, pc, ret, done>>
    BY <1>4 DEF CheckPage, Mark, LookGood
  <2>4. QED
    BY <1>1, <2>2, <2>3 DEF TypeOK, Outside, steps
<1>5. CASE Step1 /\ ~ (CheckPage \/ Mark \/ LookGood)
  <2>1. Outside' /\ Ran /\ line' = line /\ Here
    BY <1>1, <1>5, OutsideTyped, EachRan
  <2>2. line \in Lines /\ Len(steps) \in Nat /\ pc \in Nat \ {0} /\ steps' = steps
    BY <1>1, <2>1, StepIs DEF steps
  <2>3. pc' \in 1 .. Len(steps') + 1
    BY <2>1, <2>2 DEF Ran
  <2>4. QED
    BY <2>1, <2>2, <2>3 DEF TypeOK, Outside, Ran, Here
<1>6. CASE UNCHANGED vars
  BY <1>1, <1>6 DEF TypeOK, vars, board, module, steps
<1>7. QED
  BY <1>1, <1>2, <1>3, <1>4, <1>5, <1>6 DEF Next, Step1

\* The state stays within its types, for every set of well-formed handlers: a handler stops
\* at its end wherever failures and early returns lead it, and no lane is turned that is not
\* there (_cli_tx_config_laser, Efm8lb12_cmd.c:1047).
THEOREM TypeCorrect == Spec => []TypeOK
  BY TypedInit, TypedNext, PTL DEF Spec

----------------------------------------------------------------------------
(* What is written.                                                        *)

\* Steps that write a register they name.
Named(s) == s.op \in {"write", "status", "restart"}

\* On its own page such a register meets no parameter but those the line names.
LEMMA NamedOnlyAsked ==
  ASSUME TypeOK, OwnPage, Here, Named(step),
         NEW at \in Written, NEW r \in Parameters, Overlap(at, r)
  PROVE  Asked[line].op = "write" /\ at \in Asked[line].regs
<1>1. line \in Lines /\ pc \in 1 .. Len(Script[line]) /\ step = Script[line][pc]
  BY StepIs DEF steps
<1>2. step.reg \in [page : Nat, at : Nat, len : Nat]
  BY StepIs DEF WellFormedStep
<1>3. step.reg.page # LOWER => shown = step.reg.page
  BY DEF OwnPage, Here, Accesses, Named
<1>4. at = [step.reg EXCEPT !.page = IF @ = LOWER THEN LOWER ELSE shown]
  BY DEF Written, Named
<1>5. at = step.reg
  BY <1>2, <1>3, <1>4
<1>6. QED
  BY <1>1, <1>5, WellAimed DEF Named

\* The check's 0xCC meets one parameter, and the page select none.
LEMMA SelectOnlyStray ==
  ASSUME TypeOK, Here, step.op = "select",
         NEW at \in Written, NEW r \in Parameters, Overlap(at, r)
  PROVE  sub = "mark" /\ shown = 6 /\ r = Cali(0).rxpower
<1>1. at # SFP_PAGE_SELECT
  BY StrayWritesAssumption
<1>2. sub = "mark"
      /\ at = [SFP_MOD_SECUR_LEVEL_STATUS EXCEPT !.page = IF @ = LOWER THEN LOWER ELSE shown]
  BY <1>1 DEF Written
<1>3. at = Reg(shown, SFP_MOD_SECUR_LEVEL_STATUS.at, 1)
  BY <1>2 DEF SFP_MOD_SECUR_LEVEL_STATUS, Reg, LOWER
<1>4. shown \in 0..NONE_PAGE - 1
  BY DEF TypeOK, Pages
<1>5. QED
  BY <1>2, <1>3, <1>4, StrayWritesAssumption

\* The pass-through has page 4 there when it selects page 0, and meets one parameter.
LEMMA PassOnlyDate ==
  ASSUME TypeOK, PageThere, Here, step.op = "pass",
         NEW at \in Written, NEW r \in Parameters, Overlap(at, r)
  PROVE  at.page = 0 /\ r = Vendor.DATA_CODE
<1>1. step.reg.page = 4
  BY StepIs DEF WellFormedStep
<1>2. shown = 4
  BY <1>1, PageIsThere DEF Relies
<1>3. at # SFP_PAGE_SELECT
  BY StrayWritesAssumption
<1>4. PICK page \in After(0) : at = DebugCmd(page)
  BY <1>3 DEF Written
<1>5. page \in {0, 4}
  BY <1>2, <1>4 DEF After
<1>6. at.page = page
  BY <1>4 DEF DebugCmd, Reg
<1>7. QED
  BY <1>4, <1>5, <1>6, StrayWritesAssumption

\* What a handler writes, its own registers and those that functions it calls write on the
\* way (the 0xCC at Efm8lb12_qsfp28.c:1282, the command cell, the pass-through's mailbox),
\* changes no parameter but those its line names and the two the code does not spare:
\* channel 0's received-power calibration, when the check's select of page 4 is lost, and
\* the date code, when the pass-through is used (Efm8lb12_cmd.c:183).
THEOREM WritesOnlyAsked == Spec => []OnlyAsked
<1>1. TypeOK /\ OwnPage /\ PageThere => OnlyAsked
  <2>1. SUFFICES ASSUME TypeOK, OwnPage, PageThere, Here,
                        NEW at \in Written, NEW r \in Parameters, Overlap(at, r)
                 PROVE  \/ Asked[line].op = "write" /\ at \in Asked[line].regs
                        \/ sub = "mark" /\ shown = 6 /\ r = Cali(0).rxpower
                        \/ step.op = "pass" /\ at.page = 0 /\ r = Vendor.DATA_CODE
    BY DEF OnlyAsked, Here
  <2>2. Named(step) \/ step.op \in {"select", "pass"}
    BY <2>1 DEF Written, Named
  <2>3. QED
    BY <2>1, <2>2, NamedOnlyAsked, SelectOnlyStray, PassOnlyDate
<1>2. QED
  BY <1>1, TypeCorrect, AccessesOwnPage, PageThereInvariant, PTL

\* The inductive invariant behind OthersKept: what was read of the lasers is what the module
\* has of those the line leaves alone.
TxRead == Done("read", MSA_TX_ENABLE)

Copied ==
  /\ line = <<>> => done = {}
  /\ line # <<>> /\ TxRead
       => \A c \in Channels \ Asked[line].lanes : c \in tx_dis <=> c \in tx

\* A step that leaves tx alone and transfers no other reading of it.
LEMMA StillCopied ==
  ASSUME TypeOK, Copied, line' = line, Here, tx' = tx, tx_dis' = tx_dis,
         done' = done \/ (done' = done \cup {pc} /\ ~ (step.op = "read" /\ step.reg = MSA_TX_ENABLE))
  PROVE  Copied'
<1>1. TxRead' => TxRead
  <2>1. SUFFICES ASSUME TxRead' PROVE TxRead
    OBVIOUS
  <2>2. PICK i \in done' : steps[i].op = "read" /\ steps[i].reg = MSA_TX_ENABLE
    BY <2>1 DEF TxRead, Done, steps
  <2>3. i \in done
    BY <2>2 DEF step
  <2>4. QED
    BY <2>2, <2>3 DEF TxRead, Done
<1>2. QED
  BY <1>1 DEF Copied, Here

\* The lanes that a write may change are those of the line.
LEMMA OthersStored ==
  ASSUME TypeOK, Copied, Here, step.op = "write", TxRead, tx' \in {tx, Stored}
  PROVE  \A c \in Channels \ Asked[line].lanes : c \in tx' <=> c \in tx
<1>1. step.reg = MSA_TX_ENABLE => step.arg.lanes \subseteq Asked[line].lanes
  BY StepIs DEF WellFormedStep
<1>2. \A c \in Channels \ Asked[line].lanes : c \in tx_dis <=> c \in tx
  BY DEF Copied, Here
<1>3. QED
  BY <1>1, <1>2 DEF Stored, NewLanes

LEMMA CopiedNext == TypeOK /\ Copied /\ [Next]_vars => Copied'
<1>1. SUFFICES ASSUME TypeOK, Copied, [Next]_vars PROVE Copied'
  OBVIOUS
<1>2. CASE Request
  <2>1. done' = {}
    BY <1>1, <1>2 DEF Request, Copied
  <2>2. QED
    BY <2>1 DEF Copied, TxRead, Done
<1>3. CASE Answer \/ Reboot
  BY <1>3 DEF Answer, Reboot, Forget, Copied
<1>4. CASE ReadOk
  <2>1. Here /\ step.op = "read" /\ line' = line /\ tx' = tx
    BY <1>4 DEF ReadOk, Running, Here, module
  <2>2. CASE step.reg = MSA_TX_ENABLE
    BY <1>4, <2>1, <2>2 DEF ReadOk, Copied, Here
  <2>3. CASE step.reg # MSA_TX_ENABLE
    BY <1>1, <1>4, <2>1, <2>3, StillCopied DEF ReadOk, Success
  <2>4. QED
    BY <2>2, <2>3
<1>5. CASE WriteOk \/ (TransferFails /\ step.op = "write")
  <2>1. Here /\ step.op = "write" /\ line' = line /\ tx' \in {tx, Stored} /\ tx_dis' = tx_dis
    BY <1>5 DEF WriteOk, TransferFails, Running, Here
  <2>2. TxRead' => TxRead
    <3>1. done' = done \/ done' = done \cup {pc}
      BY <1>5 DEF WriteOk, TransferFails, Success, Failure
    <3>2. QED
      BY <2>1, <3>1 DEF TxRead, Done, steps, step
  <2>3. QED
    BY <1>1, <2>1, <2>2, OthersStored DEF Copied, Here
<1>6. CASE \/ SelectStep \/ StatusOk \/ StatusFails
           \/ (TransferFails /\ step.op # "write")
           \/ (OtherStep /\ ~ Reboot)
  <2>1. Here /\ (step.op \notin {"read", "write"} \/ TransferFails)
    BY <1>6 DEF SelectStep, CheckPage, Mark, LookGood, LookBad, PageOk, PageFails, AtPage,
       StatusOk, StatusFails, TransferFails, OtherStep, Restart, Pin, RawRead, RawWrite, Pass,
       Boot, Entries, Unless, Fail, InnerEnds, Running, Here
  <2>2. line' = line /\ tx' = tx /\ tx_dis' = tx_dis
    BY <1>6 DEF SelectStep, CheckPage, Mark, LookGood, LookBad, PageOk, PageFails,
       StatusOk, StatusFails, TransferFails, OtherStep, Restart, Pin, RawRead, RawWrite, Pass,
       Boot, Entries, Unless, Fail, InnerEnds, module
  <2>3. done' = done \/ (done' = done \cup {pc} /\ step.op \notin {"read", "write"})
    <3>1. CASE done' = done
      BY <3>1
    <3>2. CASE done' # done
      <4>1. Success
        BY <1>6, <3>2 DEF SelectStep, CheckPage, Mark, LookGood, LookBad, PageOk, PageFails,
           StatusOk, StatusFails, TransferFails, OtherStep, Restart, Pin, RawRead, RawWrite,
           Pass, Boot, Entries, Unless, Fail, InnerEnds, Failure
      <4>2. ~ TransferFails
        BY <3>2 DEF TransferFails, Failure
      <4>3. QED
        BY <2>1, <3>2, <4>1, <4>2 DEF Success
    <3>3. QED
      BY <3>1, <3>2
  <2>4. QED
    BY <1>1, <2>1, <2>2, <2>3, StillCopied
<1>7. CASE UNCHANGED vars
  BY <1>1, <1>7 DEF vars, board, module, Copied, TxRead, Done, steps
<1>8. QED
  BY <1>1, <1>2, <1>3, <1>4, <1>5, <1>6, <1>7, Zenon DEF Next, TransferStep

\* A line about some lasers leaves the others as they are: the byte that is written back
\* has them as they were read, whatever failed before or while it was written
\* (_cli_tx_config_laser, Efm8lb12_cmd.c:1047-1060), if it was read.
THEOREM OtherLasersKept == Spec => OthersKept
<1>1. Init => Copied
  BY DEF Init, Copied
<1>2. TypeOK /\ Copied /\ [Next]_vars
        => [line' = line /\ line # <<>> /\ TxRead
              => \A c \in Channels \ Asked[line].lanes : c \in tx' <=> c \in tx]_vars
  <2>1. SUFFICES ASSUME TypeOK, Copied, Next, line' = line, line # <<>>, TxRead
                 PROVE  \A c \in Channels \ Asked[line].lanes : c \in tx' <=> c \in tx
    OBVIOUS
  <2>2. CASE tx' = tx
    BY <2>2
  <2>3. CASE tx' # tx
    <3>1. Here /\ step.op = "write" /\ tx' \in {tx, Stored}
      BY <2>1, <2>3 DEF Next, Request, Answer, Forget, SelectStep, CheckPage, Mark, LookGood,
         LookBad, PageOk, PageFails, TransferStep, ReadOk, WriteOk, StatusOk, StatusFails,
         TransferFails, OtherStep, Restart, Reboot, Pin, RawRead, RawWrite, Pass, Boot, Entries,
         Unless, Fail, InnerEnds, module, Running, Here
    <3>2. QED
      BY <2>1, <3>1, OthersStored
  <2>4. QED
    BY <2>2, <2>3
<1>3. QED
  BY <1>1, <1>2, CopiedNext, TypeCorrect, PTL DEF Spec, OthersKept, TxRead

----------------------------------------------------------------------------
(* What is reported.                                                       *)

\* The inductive invariant: a step that reports on a register and lies behind has made the
\* transfer, or the line is over without OK.
Reported ==
  line # <<>> =>
    \A r \in Asked[line].regs : \A i \in 1 .. Len(steps) :
      Reports(line, r, i) /\ i < pc
        => \/ i \in done /\ steps[i].op = Asked[line].op /\ steps[i].reg = r
           \/ pc > Len(steps) /\ ret # OK

\* No step but a failing one leads past another, and one that fails and leads past others
\* ends the line or a called function.
LEMMA StepLeads ==
  ASSUME TypeOK, Step1, ~ (CheckPage \/ Mark \/ LookGood)
  PROVE  /\ done \subseteq done'
         /\ \/ pc' = pc + 1
            \/ pc' = Len(steps) + 1 /\ ret' # OK
            \/ pc' <= Len(steps) /\ steps[pc'].op = "end"
<1>1. Len(steps) \in Nat
  BY EachRan, StepIs
<1>2. CASE Success
  BY <1>2 DEF Success, Continue
<1>3. ASSUME NEW result \in {FAILED, NO_PERMISSION}, Failure(result)
      PROVE  /\ done \subseteq done'
             /\ \/ pc' = pc + 1
                \/ pc' = Len(steps) + 1 /\ ret' # OK
                \/ pc' <= Len(steps) /\ steps[pc'].op = "end"
  <2>1. CASE step.on = "return"
    BY <1>3, <2>1 DEF Failure, OK, FAILED, NO_PERMISSION
  <2>2. CASE step.on = "leave"
    BY <1>1, <1>3, <2>2, EachRan DEF Failure, Leave, Ran
  <2>3. CASE step.on \notin {"return", "leave"}
    BY <1>3, <2>3 DEF Failure, Continue
  <2>4. QED
    BY <1>3, <2>1, <2>2, <2>3
<1>4. CASE StatusOk \/ Pin \/ Entries \/ Unless \/ Fail \/ InnerEnds
  BY <1>4 DEF StatusOk, Pin, Entries, Unless, Fail, InnerEnds, Continue
<1>5. QED
  BY <1>2, <1>3, <1>4 DEF Step1, SelectStep, TransferStep, OtherStep, LookBad, PageOk,
     PageFails, ReadOk, WriteOk, TransferFails, StatusFails, Restart, RawRead, RawWrite, Pass,
     Boot

\* The reporting step itself.
LEMMA ReportMade ==
  ASSUME TypeOK, Step1, NEW r \in Asked[line].regs, Reports(line, r, pc), Here,
         step.op # "select"
  PROVE  \/ pc \in done' /\ step.op = Asked[line].op /\ step.reg = r
         \/ pc' > Len(steps) /\ ret' # OK
<1>1. line \in Lines /\ Len(steps) \in Nat /\ pc \in 1 .. Len(steps) /\ step = Script[line][pc]
  BY StepIs DEF steps
<1>2. CASE step.op = "fail"
  <2>1. pc = Len(steps)
    BY <1>1, <1>2 DEF Reports, steps
  <2>2. Fail
    BY <1>2 DEF Step1, SelectStep, CheckPage, Mark, LookGood, LookBad, PageOk, PageFails, AtPage,
       TransferStep, ReadOk, WriteOk, TransferFails, StatusOk, StatusFails, OtherStep, Restart,
       Pin, RawRead, RawWrite, Pass, Boot, Entries, Unless, InnerEnds, Running
  <2>3. pc' = pc + 1 /\ ret' = FAILED
    BY <2>2 DEF Fail, Continue
  <2>4. QED
    BY <1>1, <2>1, <2>3 DEF OK, FAILED
<1>3. CASE step.op # "fail"
  <2>1. /\ step.op = Asked[line].op /\ step.op \in {"read", "write"} /\ step.reg = r
        /\ step.on = "return" \/ (step.on = "keep" /\ pc = Len(steps))
    BY <1>1, <1>3 DEF Reports, steps
  <2>2. ReadOk \/ WriteOk \/ TransferFails
    BY <2>1 DEF Step1, SelectStep, CheckPage, Mark, LookGood, LookBad, PageOk, PageFails, AtPage,
       TransferStep, StatusOk, StatusFails, OtherStep, Restart,
       Pin, RawRead, RawWrite, Pass, Boot, Entries, Unless, Fail, InnerEnds, Running
  <2>3. CASE ReadOk \/ WriteOk
    <3>1. Success /\ Matters(step.reg)
      BY <2>1, <2>3 DEF ReadOk, WriteOk, Matters
    <3>2. QED
      BY <2>1, <3>1 DEF Success
  <2>4. CASE TransferFails
    <3>1. Failure(FAILED)
      BY <2>4 DEF TransferFails
    <3>2. pc' = Len(steps) + 1 /\ ret' = FAILED
      BY <2>1, <3>1 DEF Failure, Continue
    <3>3. QED
      BY <1>1, <3>2 DEF OK, FAILED
  <2>5. QED
    BY <2>2, <2>3, <2>4
<1>4. QED
  BY <1>2, <1>3

LEMMA ReportedNext == TypeOK /\ Reported /\ [Next]_vars => Reported'
<1>1. SUFFICES ASSUME TypeOK, Reported, [Next]_vars PROVE Reported'
  OBVIOUS
<1>2. CASE Request
  <2>1. line = <<>> /\ pc' = pc
    BY <1>2 DEF Request
  <2>2. pc' = 1
    BY <1>1, <2>1 DEF TypeOK
  <2>3. QED
    BY <2>2 DEF Reported
<1>3. CASE Answer \/ Reboot
  BY <1>3 DEF Answer, Reboot, Forget, Reported
<1>4. CASE CheckPage \/ Mark \/ LookGood
  <2>1. UNCHANGED <<line, pc, ret, done>>
    BY <1>4 DEF CheckPage, Mark, LookGood
  <2>2. QED
    BY <1>1, <2>1 DEF Reported, steps
<1>5. CASE Step1 /\ ~ (CheckPage \/ Mark \/ LookGood)
  <2>1. /\ line' = line /\ Here /\ pc' \in pc + 1 .. Len(steps) + 1 /\ steps' = steps
        /\ line \in Lines /\ Len(steps) \in Nat /\ pc \in 1 .. Len(steps) /\ step = steps[pc]
    BY <1>1, <1>5, EachRan, StepIs DEF Ran, steps
  <2>2. SUFFICES ASSUME NEW r \in Asked[line].regs, NEW i \in 1 .. Len(steps),
                        Reports(line, r, i), i < pc'
                 PROVE  \/ i \in done' /\ steps[i].op = Asked[line].op /\ steps[i].reg = r
                        \/ pc' > Len(steps) /\ ret' # OK
    BY <2>1 DEF Reported
  <2>3. CASE i < pc
    <3>1. i \in done /\ steps[i].op = Asked[line].op /\ steps[i].reg = r
      BY <1>1, <2>1, <2>2, <2>3 DEF Reported, Here
    <3>2. QED
      BY <1>1, <1>5, <3>1, StepLeads
  <2>4. CASE i = pc
    <3>1. step.op # "select"
      BY <2>1, <2>2, <2>4 DEF Reports, steps
    <3>2. QED
      BY <1>1, <1>5, <2>1, <2>2, <2>4, <3>1, ReportMade
  <2>5. CASE i > pc
    <3>1. pc' # pc + 1
      BY <2>1, <2>2, <2>5
    <3>2. ~ (pc' <= Len(steps) /\ steps[pc'].op = "end")
      <4>1. pc' <= Len(steps) => pc' \in i + 1 .. Len(Script[line])
        BY <2>1, <2>2 DEF steps
      <4>2. QED
        BY <2>2, <4>1 DEF Reports, steps
    <3>3. pc' = Len(steps) + 1 /\ ret' # OK
      BY <1>1, <1>5, <3>1, <3>2, StepLeads
    <3>4. QED
      BY <2>1, <3>3
  <2>6. QED
    BY <2>1, <2>2, <2>3, <2>4, <2>5
<1>6. CASE UNCHANGED vars
  BY <1>1, <1>6 DEF vars, board, Reported, steps
<1>7. QED
  BY <1>1, <1>2, <1>3, <1>4, <1>5, <1>6, Zenon DEF Next, Step1

\* An OK to a line means that every byte it names was read or written: JUDGE_RETURN and the
\* results kept in ret lose no failure that counts, whatever of the line's transfers fails
\* (_terminal_run_cmd, mcu_sal_terminal.c, prints what the handler returns).
THEOREM OkIsTrue == Spec => []OkMeansTransferred
<1>1. Init => Reported
  BY DEF Init, Reported
<1>2. TypeOK /\ Reported => OkMeansTransferred
  <2>1. SUFFICES ASSUME TypeOK, Reported, line # <<>>, pc > Len(steps), ret = OK,
                        NEW r \in Asked[line].regs
                 PROVE  Done(Asked[line].op, r)
    BY DEF OkMeansTransferred
  <2>2. line \in Lines /\ Len(steps) \in Nat /\ pc \in Nat
    BY <2>1, WellPaged DEF TypeOK, steps
  <2>3. PICK i \in 1 .. Len(steps) : Reports(line, r, i)
    BY <2>1, <2>2, WellReported DEF steps
  <2>4. i < pc
    BY <2>1, <2>2, <2>3
  <2>5. QED
    BY <2>1, <2>3, <2>4 DEF Reported, Done
<1>3. QED
  BY <1>1, <1>2, ReportedNext, TypeCorrect, PTL DEF Spec

=============================================================================
