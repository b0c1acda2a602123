------------------------------- MODULE Mailbox -------------------------------
(***************************************************************************)
(* Commands for the optical module.  The test board writes a command byte  *)
(* into a register of the module over the I2C bus and polls that register  *)
(* until the module has replaced the byte with a status; then it writes    *)
(* the idle value.  Parameters and results lie in the registers behind it. *)
(* The board's side is mcu_sal_dbg_cmd.c and the callers in                *)
(* Efm8lb12_qsfp28.c, the module's side dbg_cmd_handle of the same library. *)
(* The two families of callers use registers of different modules; a       *)
(* behaviour has the callers of one.                                       *)
(*                                                                         *)
(* The registers lie on a page that has to be selected first.  A transfer  *)
(* is one step and may fail.  A read that fails gives nothing; a write     *)
(* that fails may have been carried out all the same, as the master also   *)
(* reports a failure when only the STOP failed (I2cMaster).                *)
(***************************************************************************)
EXTENDS Naturals, Sequences

CONSTANTS
  Cmds,    \* commands the module knows
  Params,  \* values of the parameter registers
  POLLS,   \* 100: the turn of the polling loop that gives up
  Kinds,   \* callers: members of DOMAIN Steps
  PassPages,  \* pages that callers of the pass-through ask for
  Lossy,   \* transfers that may fail: "select", "page", "data", "cmd", "poll", "idle",
           \* "read"
  Slow     \* TRUE: the module may take longer than the polling loop waits

OK == "OK"   FAILED == "FAILED"   IDLE == "IDLE"

MAILBOX == 4        \* the page of the command register
Pages == {0, MAILBOX}

\* The order of the transfers in the callers: qsfp28_msa_page4_dbg_cmd; eep_save, the
\* log, the lookup table and the console; get_fixed_temp_point_apc_value; the opr
\* command with i2c_pass_through_read; LR4_301_set_tec_able.  Transfers that follow one
\* another to the parameter or to the result registers are one.
Plain == <<"select", "cmd", "status">>
Param == <<"select", "data", "cmd", "status">>
Fetch == <<"select", "data", "cmd", "status", "read">>
PassThrough == <<"select", "page", "data", "cmd", "status", "read">>
Late == <<"select", "cmd", "data", "status">>

Steps ==
  [plain |-> Plain, param |-> Param, fetch |-> Fetch, pass |-> PassThrough, late |-> Late]

ASSUME MailboxAssumption ==
  /\ Kinds \subseteq DOMAIN Steps
  /\ PassPages \subseteq Pages
  /\ POLLS \in Nat /\ POLLS > 1
  /\ Slow \in BOOLEAN
  /\ Cmds \cap {OK, FAILED, IDLE} = {}

\* The module whose register the caller addresses: 0xDA or 0xDB.
Register(kind) == IF kind = "pass" THEN "dbg" ELSE "qsfp28"

VARIABLES
  page,                        \* the page the module has selected
  cell, data,                  \* the registers of each page: on MAILBOX the command and
                               \* parameter registers, elsewhere others
  task, answer,                \* the module: command taken, its outcome; IDLE: none
  call, todo, ret,             \* the board: the request, transfers left, value returned
  at, result, counter,         \* locals of get_cmd_status and the place in its loop
  ran                          \* history: what the module ran since the request

module == <<task, answer, ran>>
poll == <<at, result, counter>>
registers == <<page, cell, data>>
vars == <<registers, module, call, todo, ret, poll>>

Idle == todo = <<>>
Busy == task # IDLE \/ cell[MAILBOX] \in Cmds

Init ==
  /\ page \in Pages /\ cell = [p \in Pages |-> IDLE] /\ data \in [Pages -> Params]
  /\ task = IDLE /\ answer = IDLE /\ ran = <<>>
  /\ call \in [kind : Kinds, cmd : {IDLE}, data : {data[MAILBOX]}, page : {MAILBOX}]
  /\ todo = <<>> /\ ret = FAILED
  /\ at = "read" /\ result = OK /\ counter = 0

----------------------------------------------------------------------------
(* The board.                                                              *)

\* Whether a transfer of this kind succeeds.
Outcome(transfer) == {TRUE} \cup {b \in {FALSE} : transfer \in Lossy}

Status(ok) == IF ok THEN OK ELSE FAILED

At(step) == ~ Idle /\ Head(todo) = step

\* A call of one of the callers; the variable that is polled starts as 0, RET_OK.
Request(kind, c, d, p) ==
  /\ Idle
  /\ Register(kind) = Register(call.kind)
  /\ kind # "pass" => p = MAILBOX
  /\ call' = [kind |-> kind, cmd |-> c, data |-> d, page |-> p]
  /\ todo' = Steps[kind] /\ ret' = OK
  /\ at' = "read" /\ result' = OK /\ counter' = 0
  /\ ran' = <<>>
  /\ UNCHANGED <<registers, task, answer>>

\* Write v to the register of the selected page.  A transfer that fails may have got
\* that far all the same: the STOP after it fails when the module stretches the clock.
Write(reg, v, ok) == {[reg EXCEPT ![page] = v]} \cup {r \in {reg} : ~ ok}

\* qsfp28_select_page.  Before it selects the page it looks whether the module permits
\* that, with a transfer that selects the same page.  The one failure that ends a call.
SelectPage ==
  /\ At("select")
  /\ \E ok \in Outcome("select") :
       /\ ret' = Status(ok)
       /\ page' \in IF ok THEN {MAILBOX} ELSE {page, MAILBOX}
       /\ todo' = IF ok THEN Tail(todo) ELSE <<>>
  /\ UNCHANGED <<cell, data, module, call, poll>>

\* The pass-through selects the page its caller asks for, whatever comes of it.
PassPage ==
  /\ At("page")
  /\ \E ok \in Outcome("page") : page' \in IF ok THEN {call.page} ELSE {page, call.page}
  /\ todo' = Tail(todo)
  /\ UNCHANGED <<cell, data, module, call, ret, poll>>

SendData ==
  /\ At("data")
  /\ \E ok \in Outcome("data") :
       /\ ret' = Status(ok)
       /\ data' \in Write(data, call.data, ok)
  /\ todo' = Tail(todo)
  /\ UNCHANGED <<page, cell, module, call, poll>>

\* Mutant of SendCmd: the outcome of the transfer is not kept.
SendCmdUnchecked ==
  /\ At("cmd")
  /\ \E ok \in Outcome("cmd") : cell' \in Write(cell, call.cmd, ok)
  /\ todo' = Tail(todo)
  /\ UNCHANGED <<page, data, module, call, ret, poll>>

SendCmd ==
  /\ At("cmd")
  /\ \E ok \in Outcome("cmd") :
       /\ ret' = Status(ok)
       /\ cell' \in Write(cell, call.cmd, ok)
  /\ todo' = Tail(todo)
  /\ UNCHANGED <<page, data, module, call, poll>>

\* get_cmd_status is over without success; LR4_301_set_tec_able ignores that.
StatusFalse == todo' = <<>> /\ ret' = IF call.kind = "late" THEN ret ELSE FAILED

\* Mutant of StatusRead: the turns are not counted.
StatusReadUncounted ==
  /\ At("status") /\ at = "read"
  /\ \E ok \in Outcome("poll") : result' = IF ok THEN cell[page] ELSE result
  /\ ~ Slow /\ counter + 2 = POLLS => ~ Busy
  /\ at' = "check"
  /\ UNCHANGED <<registers, module, call, todo, ret, counter>>

\* A failed read leaves result alone.  Unless the module may be slow, the last turn
\* but one comes late enough to see its answer.
StatusRead ==
  /\ At("status") /\ at = "read"
  /\ \E ok \in Outcome("poll") : result' = IF ok THEN cell[page] ELSE result
  /\ ~ Slow /\ counter + 2 = POLLS => ~ Busy
  /\ counter' = counter + 1 /\ at' = "check"
  /\ UNCHANGED <<registers, module, call, todo, ret>>

\* Mutant of StatusCheck: whatever was read ends the loop.
StatusCheckAnyAnswer ==
  /\ At("status") /\ at = "check"
  /\ IF counter >= POLLS
     THEN StatusFalse /\ UNCHANGED at
     ELSE at' = "idle" /\ UNCHANGED <<todo, ret>>
  /\ UNCHANGED <<registers, module, call, result, counter>>

\* Mutant of StatusCheck: one turn more.
StatusCheckLate ==
  /\ At("status") /\ at = "check"
  /\ IF counter > POLLS
     THEN StatusFalse /\ UNCHANGED at
     ELSE /\ at' = IF result \in {OK, FAILED} THEN "idle" ELSE "read"
          /\ UNCHANGED <<todo, ret>>
  /\ UNCHANGED <<registers, module, call, result, counter>>

\* After the delay.  The last turn gives up even when it has read an answer.
StatusCheck ==
  /\ At("status") /\ at = "check"
  /\ IF counter >= POLLS
     THEN StatusFalse /\ UNCHANGED at
     ELSE /\ at' = IF result \in {OK, FAILED} THEN "idle" ELSE "read"
          /\ UNCHANGED <<todo, ret>>
  /\ UNCHANGED <<registers, module, call, result, counter>>

\* The idle value is written, and nobody looks whether that failed.  The pass-through
\* goes on to read only if the command's transfer went well too.
StatusIdle ==
  /\ At("status") /\ at = "idle"
  /\ \E ok \in Outcome("idle") : cell' \in Write(cell, IDLE, ok)
  /\ IF result = FAILED THEN StatusFalse
     ELSE /\ todo' = IF call.kind = "pass" /\ ret = FAILED THEN <<>> ELSE Tail(todo)
          /\ UNCHANGED ret
  /\ UNCHANGED <<page, data, module, call, poll>>

ReadResult ==
  /\ At("read")
  /\ \E ok \in Outcome("read") : ret' = Status(ok)
  /\ todo' = Tail(todo)
  /\ UNCHANGED <<registers, module, call, poll>>

Board ==
  SelectPage \/ PassPage \/ SendData \/ SendCmd \/ StatusRead \/ StatusCheck \/ StatusIdle \/ ReadResult

----------------------------------------------------------------------------
(* The module: dbg_cmd_handle, called over and over.                       *)

Take ==
  /\ task = IDLE /\ cell[MAILBOX] \notin {IDLE, OK, FAILED}
  /\ task' = cell[MAILBOX]
  /\ UNCHANGED <<registers, answer, ran, call, todo, ret, poll>>

\* The parameters are read when they are used.
Perform ==
  /\ task # IDLE /\ answer = IDLE
  /\ answer' \in {OK, FAILED}
  /\ ran' = Append(ran, [cmd |-> task, data |-> data[MAILBOX], answer |-> answer'])
  /\ UNCHANGED <<registers, task, call, todo, ret, poll>>

\* Mutant of Answer: a failure is not written back.
AnswerOnlyOk ==
  /\ answer # IDLE
  /\ cell' = IF answer = OK THEN [cell EXCEPT ![MAILBOX] = OK] ELSE cell
  /\ task' = IDLE /\ answer' = IDLE
  /\ UNCHANGED <<page, data, ran, call, todo, ret, poll>>

\* The status replaces whatever is in the register by now.
Answer ==
  /\ answer # IDLE
  /\ cell' = [cell EXCEPT ![MAILBOX] = answer]
  /\ task' = IDLE /\ answer' = IDLE
  /\ UNCHANGED <<page, data, ran, call, todo, ret, poll>>

Module == Take \/ Perform \/ Answer

----------------------------------------------------------------------------
Next ==
  \/ \E kind \in Kinds, c \in Cmds, d \in Params, p \in PassPages \cup {MAILBOX} :
       Request(kind, c, d, p)
  \/ Board
  \/ Module

Spec == Init /\ [][Next]_vars

\* The callers run to their end, and the module calls its handler over and over.
FairSpec == Spec /\ WF_vars(Board) /\ WF_vars(Module)

----------------------------------------------------------------------------
(* Properties.                                                             *)

TypeOK ==
  /\ page \in Pages
  /\ cell \in [Pages -> Cmds \cup {OK, FAILED, IDLE}] /\ data \in [Pages -> Params]
  /\ task \in Cmds \cup {IDLE} /\ answer \in {OK, FAILED, IDLE}
  /\ call \in [kind : DOMAIN Steps, cmd : Cmds \cup {IDLE}, data : Params, page : Pages]
  /\ todo \in Seq({"select", "page", "data", "cmd", "status", "read"})
  /\ ret \in {OK, FAILED}
  /\ at \in {"read", "check", "idle"} /\ result \in Cmds \cup {OK, FAILED, IDLE}
  /\ counter \in 0..POLLS
  /\ ran \in Seq([cmd : Cmds, data : Params, answer : {OK, FAILED}])

\* A caller reports success only when the module has run its command, successfully
\* and with the parameters the caller meant (mcu_sal_dbg_cmd.c:6).
WithParameters == call.kind # "plain"
OkMeansRan ==
  Idle /\ ret = OK =>
    \E i \in DOMAIN ran :
      /\ ran[i].cmd = call.cmd /\ ran[i].answer = OK
      /\ WithParameters => ran[i].data = call.data

\* The module runs what a caller asked for at most once, and nothing else: a failed
\* transfer or a failed command never makes it run a command again.
AtMostOnce == Len(ran) <= 1 /\ \A i \in DOMAIN ran : ran[i].cmd = call.cmd

\* When a caller has returned the module has nothing left to do: no command of one
\* call is run, or answered, during the next.
NothingPending == Idle => ~ Busy

\* Every call returns, whatever transfers fail (mcu_sal_dbg_cmd.c:18).
CallReturns == ~ Idle ~> Idle

=============================================================================
