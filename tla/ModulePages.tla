----------------------------- MODULE ModulePages -----------------------------
(***************************************************************************)
(* Commands of the terminal that reach the module, transfer by transfer.   *)
(* The upper half of the module's addresses shows the page selected last,  *)
(* so an access means what it says only while its page is there; and pages *)
(* from 4 on are selected by qsfp28_select_page after a check of the       *)
(* module's permission that itself selects page 4.  A handler is the       *)
(* sequence of its steps (ModuleCommands).                                 *)
(*                                                                         *)
(* Every transfer may fail; one that fails may have been carried out all   *)
(* the same (I2cMaster: the STOP failed), and a module that is not selected *)
(* or held in reset takes part in none.                                    *)
(***************************************************************************)
EXTENDS ModuleRegisters, Sequences

CONSTANTS
  Lines,    \* what is typed: sequences of words
  Script,   \* Script[l]: the steps of the handler that l runs
  Asked     \* Asked[l]: what l is about: [op |-> "read" or "write", regs |-> registers,
            \* lanes |-> channels whose lasers it turns]

Pages == 0..NONE_PAGE - 1
OK == "OK"   FAILED == "FAILED"   NO_PERMISSION == "NO_PERMISSION"

VARIABLES
  line, pc, ret,      \* the line that runs (or <<>>), its next step, the result so far
  sub,                \* where qsfp28_select_page is
  done,               \* steps that transferred one of the registers the line is about
  tx_dis,             \* _cli_tx_config_laser's copy: lanes that are off
  modsel, reset,      \* the board's pins
  shown, permit,      \* the module: page in the upper half; the password was given
  marked,             \* 0xF0 of the page shown reads 0xCC
  tx                  \* lanes that are off, while a line is about them

board == <<line, pc, ret, sub, done, tx_dis>>
module == <<shown, permit, marked, tx>>
vars == <<board, modsel, reset, module>>

steps == Script[line]
step == steps[pc]
Running(op) == line # <<>> /\ pc <= Len(steps) /\ step.op = op
Answers == modsel = 0 /\ reset = 1

Init ==
  /\ line = <<>> /\ pc = 1 /\ ret = OK /\ sub = "begin" /\ done = {} /\ tx_dis = {}
  /\ modsel = 0 /\ reset = 1    \* port_init
  /\ shown \in Pages /\ permit \in BOOLEAN /\ marked = FALSE /\ tx = {}

----------------------------------------------------------------------------
(* What a step's result does.                                              *)

Continue == pc' = pc + 1

\* The early return of a called function ends at the step behind it.
Leave ==
  \E e \in pc + 1 .. Len(steps) :
    /\ steps[e].op = "end" /\ \A i \in pc + 1 .. e - 1 : steps[i].op # "end"
    /\ pc' = e

\* Mutant of Failure: the early returns are forgotten.
FailureGoesOn(result) ==
  /\ ret' = IF step.on = "drop" THEN ret ELSE result
  /\ Continue
  /\ UNCHANGED done

\* Mutant of Failure: JUDGE_RETURN returns without the result.
FailureUntold(result) ==
  /\ ret' = IF step.on = "keep" THEN result ELSE ret
  /\ CASE step.on = "return" -> pc' = Len(steps) + 1
       [] step.on = "leave" -> Leave
       [] OTHER -> Continue
  /\ UNCHANGED done

Failure(result) ==
  /\ ret' = IF step.on = "drop" THEN ret ELSE result
  /\ CASE step.on = "return" -> pc' = Len(steps) + 1
       [] step.on = "leave" -> Leave
       [] OTHER -> Continue
  /\ UNCHANGED done

\* Remembered are the transfers that somebody asks about later.
Matters(r) == r \in Asked[line].regs \cup {Vendor.MODULE_TYPE, Vendor.EEP_DATA_SIZE}

Success ==
  /\ ret' = IF step.on = "drop" THEN ret ELSE OK
  /\ Continue
  /\ done' = IF Matters(step.reg) THEN done \cup {pc} ELSE done

Done(op, r) == \E i \in done : steps[i].op = op /\ steps[i].reg = r

----------------------------------------------------------------------------
(* A line is typed and answered.                                           *)

\* The lasers may have been turned by the module meanwhile.
Request ==
  /\ line = <<>>
  /\ line' \in Lines
  /\ tx' \in IF MSA_TX_ENABLE \in Asked[line'].regs THEN SUBSET Channels ELSE {{}}
  /\ UNCHANGED <<pc, ret, sub, done, tx_dis, modsel, reset, shown, permit, marked>>

Forget ==
  line' = <<>> /\ pc' = 1 /\ ret' = OK /\ sub' = "begin" /\ done' = {} /\ tx_dis' = {}
  /\ tx' = {} /\ marked' = FALSE

Answer ==
  /\ line # <<>> /\ pc > Len(steps)
  /\ Forget
  /\ UNCHANGED <<modsel, reset, shown, permit>>

----------------------------------------------------------------------------
(* qsfp28_select_page with qsfp28_check_module_security_level.             *)

target == step.reg.page
Checked == target \in 4..NONE_PAGE - 1

\* The pages that may be there after an attempt to select p.
After(p) == IF Answers THEN {shown, p} ELSE {shown}

\* Page 4 for the check; nobody looks at the result.
CheckPage ==
  /\ Running("select") /\ sub = "begin" /\ Checked
  /\ shown' \in After(4)
  /\ sub' = "mark"
  /\ UNCHANGED <<line, pc, ret, done, tx_dis, modsel, reset, permit, marked, tx>>

\* 0xCC to 0xF0, also unseen.  On page 4 it stays only with the permission; the 0xF0 of
\* another page takes what it is given, unless it is read-only.
Mark ==
  /\ Running("select") /\ sub = "mark"
  /\ marked' \in {FALSE, Answers /\ (shown = 4 => permit)}
  /\ sub' = "look"
  /\ UNCHANGED <<line, pc, ret, done, tx_dis, modsel, reset, shown, permit, tx>>

\* value is 0 if the read fails.
LookGood ==
  /\ Running("select") /\ sub = "look" /\ marked
  /\ sub' = "page"
  /\ UNCHANGED <<line, pc, ret, done, tx_dis, modsel, reset, module>>

\* Mutant of LookBad: the caller looks for RET_FAILED alone.
LookBadUnnoticed ==
  /\ Running("select") /\ sub = "look"
  /\ sub' = "begin" /\ marked' = FALSE
  /\ Continue
  /\ UNCHANGED <<line, ret, done, tx_dis, modsel, reset, shown, permit, tx>>

LookBad ==
  /\ Running("select") /\ sub = "look"
  /\ sub' = "begin" /\ marked' = FALSE
  /\ Failure(NO_PERMISSION)
  /\ UNCHANGED <<line, tx_dis, modsel, reset, shown, permit, tx>>

AtPage == Running("select") /\ sub = (IF Checked THEN "page" ELSE "begin")

PageOk ==
  /\ AtPage /\ Answers
  /\ shown' = target /\ sub' = "begin" /\ marked' = FALSE
  /\ Success
  /\ UNCHANGED <<line, tx_dis, modsel, reset, permit, tx>>

PageFails ==
  /\ AtPage
  /\ shown' \in After(target) /\ sub' = "begin" /\ marked' = FALSE
  /\ Failure(FAILED)
  /\ UNCHANGED <<line, tx_dis, modsel, reset, permit, tx>>

----------------------------------------------------------------------------
(* i2c_master_read and i2c_master_write on the page that is there.         *)

ReadOk ==
  /\ Running("read") /\ Answers
  /\ tx_dis' = IF step.reg = MSA_TX_ENABLE THEN tx ELSE tx_dis
  /\ Success
  /\ UNCHANGED <<line, sub, modsel, reset, module>>

\* Mutant of NewLanes: nothing of what was read is kept.
NewLanesAnew == IF step.arg.enable THEN Channels \ step.arg.lanes ELSE step.arg.lanes

\* Mutant of NewLanes: the lanes counted from 1.
NewLanesFromOne ==
  LET lanes == {c + 1 : c \in step.arg.lanes} IN
  IF step.arg.enable THEN tx_dis \ lanes ELSE tx_dis \cup lanes

\* The arithmetic of _cli_tx_config_laser: the lanes named are cleared or set.
NewLanes ==
  LET lanes == step.arg.lanes IN
  IF step.arg.enable THEN tx_dis \ lanes ELSE tx_dis \cup lanes

Stored == IF step.reg = MSA_TX_ENABLE THEN NewLanes ELSE tx

WriteOk ==
  /\ Running("write") /\ Answers
  /\ tx' = Stored
  /\ Success
  /\ UNCHANGED <<line, sub, tx_dis, modsel, reset, shown, permit, marked>>

TransferFails ==
  /\ Running("read") \/ Running("write")
  /\ tx' \in IF step.op = "write" /\ Answers THEN {tx, Stored} ELSE {tx}
  /\ Failure(FAILED)
  /\ UNCHANGED <<line, sub, tx_dis, modsel, reset, shown, permit, marked>>

\* qsfp28_get_cmd_status (Mailbox): true or false, whatever its transfers do.
StatusOk ==
  /\ Running("status")
  /\ Continue
  /\ UNCHANGED <<line, ret, sub, done, tx_dis, modsel, reset, module>>

StatusFails ==
  /\ Running("status")
  /\ Failure(FAILED)
  /\ UNCHANGED <<line, sub, tx_dis, modsel, reset, module>>

----------------------------------------------------------------------------
(* The other steps.                                                        *)

\* The module restarts, at the latest before the next step.
Restarted == shown' \in {shown, 0} /\ permit' \in {permit, FALSE}

\* DBG_RESET_CMD.
Restart ==
  /\ Running("restart")
  /\ \/ Success /\ Answers
     \/ Failure(FAILED)
  /\ IF Answers THEN Restarted ELSE UNCHANGED <<shown, permit>>
  /\ UNCHANGED <<line, sub, tx_dis, modsel, reset, marked, tx>>

\* The board itself restarts and forgets the line.
Reboot ==
  /\ Running("reboot")
  /\ Forget
  /\ modsel' = 0 /\ reset' = 1
  /\ UNCHANGED <<shown, permit>>

Pin ==
  /\ Running("pin")
  /\ LET pin == step.arg[1]   value == step.arg[2] IN
     /\ modsel' = IF pin = "MODSEL" THEN value ELSE modsel
     /\ reset' = IF pin = "RESET" THEN value ELSE reset
  /\ IF reset < reset' THEN Restarted ELSE UNCHANGED <<shown, permit>>
  /\ Continue
  /\ UNCHANGED <<line, ret, sub, done, tx_dis, marked, tx>>

\* opr and opw: the module's page select and password are registers like others.
RawRead ==
  /\ Running("raw_read")
  /\ \/ Success
     \/ Failure(FAILED)
  /\ UNCHANGED <<line, sub, tx_dis, modsel, reset, module>>

RawWrite ==
  /\ Running("raw_write")
  /\ \/ Success
     \/ Failure(FAILED)
  /\ IF Answers /\ step.arg = "0xA0" THEN shown' \in Pages /\ permit' \in BOOLEAN
     ELSE UNCHANGED <<shown, permit>>
  /\ UNCHANGED <<line, sub, tx_dis, modsel, reset, marked, tx>>

\* i2c_pass_through_read and _write are given page 0 and select it.
Pass ==
  /\ Running("pass")
  /\ shown' \in After(0)
  /\ \/ Success
     \/ Failure(FAILED)
  /\ UNCHANGED <<line, sub, tx_dis, modsel, reset, permit, marked, tx>>

\* com_get_module_boot_status: reads that fail count for a module that is up.
Boot ==
  /\ Running("boot")
  /\ \/ Success
     \/ Answers /\ Failure(FAILED)
  /\ UNCHANGED <<line, sub, tx_dis, modsel, reset, module>>

\* The loop of qsfp28_eep_show; it is empty if the number of entries is 0 or unread.
Entries ==
  /\ Running("entries")
  /\ Continue
  /\ ret' \in {ret} \cup (IF Done("read", Vendor.EEP_DATA_SIZE) THEN {OK, FAILED} ELSE {})
  /\ UNCHANGED <<line, sub, done, tx_dis, modsel, reset, module>>

\* The name is UNKNOWN if the type was not read, and may be if it was.
Unless ==
  /\ Running("unless")
  /\ Continue
  /\ ret' \in {FAILED} \cup (IF Done("read", Vendor.MODULE_TYPE) THEN {ret} ELSE {})
  /\ UNCHANGED <<line, sub, done, tx_dis, modsel, reset, module>>

Fail ==
  /\ Running("fail")
  /\ Continue /\ ret' = FAILED
  /\ UNCHANGED <<line, sub, done, tx_dis, modsel, reset, module>>

\* A called function is over.
InnerEnds ==
  /\ Running("end")
  /\ Continue
  /\ ret' = CASE step.on = "keep" -> ret
              [] step.on = "failed_only" -> IF ret = FAILED THEN FAILED ELSE OK
              [] OTHER -> OK
  /\ UNCHANGED <<line, sub, done, tx_dis, modsel, reset, module>>

----------------------------------------------------------------------------
(* What the scripts must be like.                                          *)

\* Accesses to the upper half.
Accesses(s) == s.op \in {"read", "write", "status", "restart", "entries"} /\ s.reg.page # LOWER

\* A page selected, with a look at the result.
Selects(s) == s.op = "select" /\ s.on \in {"return", "leave"}

\* The page that is there stays: no step of another kind, and no inner function ends.
Stays(s) ==
  /\ s.op \notin {"select", "raw_write", "pass", "restart", "reboot", "end"}
  /\ s.op = "pin" => s.arg[1] # "RESET" \/ s.arg[2] = 1

\* The pass-through is called with the page of the commands, which it leaves.
Relies(s) == Accesses(s) \/ s.op = "pass"

\* In every handler the last step before an access that can change the page selects the
\* access's page, and a failure of it does not reach the access.
ASSUME WellPaged ==
  \A l \in Lines :
    /\ Len(Script[l]) \in Nat
    /\ \A i \in 1 .. Len(Script[l]) :
         Relies(Script[l][i])
           => \E j \in 1 .. i - 1 :
                /\ Selects(Script[l][j]) /\ Script[l][j].reg.page = Script[l][i].reg.page
                /\ \A k \in j + 1 .. i - 1 : Stays(Script[l][k])

\* Registers, pages, pins and lanes are what they are called; a line turns no lasers but
\* those it names.
WellFormedStep(l, s) ==
  /\ s.reg \in [page : Nat, at : Nat, len : Nat]
  /\ s.op = "select" => s.reg.page \in Pages
  /\ s.op = "pass" => s.reg.page = 4
  /\ s.op = "pin" /\ s.arg[1] \in {"MODSEL", "RESET"} => s.arg[2] \in {0, 1}
  /\ s.op = "write" /\ s.reg = MSA_TX_ENABLE => s.arg.lanes \subseteq Asked[l].lanes

ASSUME WellFormed ==
  \A l \in Lines :
    /\ Asked[l].lanes \subseteq Channels
    /\ \A i \in 1 .. Len(Script[l]) : WellFormedStep(l, Script[l][i])

\* A handler aims at no parameter but those its line names.
ASSUME WellAimed ==
  \A l \in Lines : \A i \in 1 .. Len(Script[l]) :
    Script[l][i].op \in {"write", "status", "restart"}
    /\ (\E r \in Parameters : Overlap(Script[l][i].reg, r))
      => Asked[l].op = "write" /\ Script[l][i].reg \in Asked[l].regs

\* Step i transfers r for l and its failure is seen: it is the last one or returns, and no
\* early return of an inner function leads past it.  Or it refuses the line.
Reports(l, r, i) ==
  /\ \/ /\ Script[l][i].op = Asked[l].op /\ Script[l][i].op \in {"read", "write"}
        /\ Script[l][i].reg = r
        /\ \/ Script[l][i].on = "return"
           \/ Script[l][i].on = "keep" /\ i = Len(Script[l])
     \/ Script[l][i].op = "fail" /\ i = Len(Script[l])
  /\ \A k \in i + 1 .. Len(Script[l]) : Script[l][k].op # "end"

\* Each register a line is about has such a step.
ASSUME WellReported ==
  \A l \in Lines : \A r \in Asked[l].regs : \E i \in 1 .. Len(Script[l]) : Reports(l, r, i)

----------------------------------------------------------------------------
SelectStep == CheckPage \/ Mark \/ LookGood \/ LookBad \/ PageOk \/ PageFails
TransferStep == ReadOk \/ WriteOk \/ TransferFails \/ StatusOk \/ StatusFails
OtherStep ==
  Restart \/ Reboot \/ Pin \/ RawRead \/ RawWrite \/ Pass \/ Boot \/ Entries \/ Unless
  \/ Fail \/ InnerEnds

Next == Request \/ Answer \/ SelectStep \/ TransferStep \/ OtherStep
Spec == Init /\ [][Next]_vars

----------------------------------------------------------------------------
TypeOK ==
  /\ line \in Lines \cup {<<>>}
  /\ pc \in 1 .. IF line = <<>> THEN 1 ELSE Len(steps) + 1
  /\ ret \in {OK, FAILED, NO_PERMISSION} /\ sub \in {"begin", "mark", "look", "page"}
  /\ done \subseteq 1 .. pc - 1
  /\ modsel \in {0, 1} /\ reset \in {0, 1} /\ shown \in Pages
  /\ permit \in BOOLEAN /\ marked \in BOOLEAN
  /\ tx \subseteq Channels /\ tx_dis \subseteq Channels

\* A register is accessed only while its own page is shown: whatever page earlier lines
\* left behind, transfers fail, an inner function returns early, or the check of the
\* permission selects meanwhile.  The callers of qsfp28_select_page in Efm8lb12_qsfp28.c
\* and Efm8lb12_cmd.c are to see to it.
OwnPage ==
  line # <<>> /\ pc <= Len(steps) /\ Accesses(step) => shown = step.reg.page

\* An OK to [get|set] of a register means that every byte it names was read or written:
\* no result of a transfer that counts is lost on the way to _terminal_run_cmd.
OkMeansTransferred ==
  line # <<>> /\ pc > Len(steps) /\ ret = OK
    => \A r \in Asked[line].regs : Done(Asked[line].op, r)

\* The registers that the next step writes, or may write, on the page that is really shown
\* then.  A raw write is left out: its line names the address.
Written ==
  LET there(r) == [r EXCEPT !.page = IF @ = LOWER THEN LOWER ELSE shown] IN
  CASE step.op \in {"write", "status", "restart"} -> {there(step.reg)}
    [] step.op = "select" -> {SFP_PAGE_SELECT} \cup
                             (IF sub = "mark" THEN {there(SFP_MOD_SECUR_LEVEL_STATUS)} ELSE {})
    [] step.op = "pass" -> {SFP_PAGE_SELECT} \cup {DebugCmd(page) : page \in After(0)}
    [] OTHER -> {}

\* What a handler writes, with whatever page is shown, changes no parameter but those its
\* line names.  The code breaks this in two ways and in no other one: the 0xCC of the check
\* changes the received-power calibration of channel 0 if the select of page 4 is lost
\* while page 6 is shown, and the pass-through of opr and opw, which is given page 0,
\* writes its command over the date code.
OnlyAsked ==
  line # <<>> /\ pc <= Len(steps) =>
    \A at \in Written, r \in Parameters :
      Overlap(at, r) =>
        \/ Asked[line].op = "write" /\ at \in Asked[line].regs
        \/ sub = "mark" /\ shown = 6 /\ r = Cali(0).rxpower
        \/ step.op = "pass" /\ at.page = 0 /\ r = Vendor.DATA_CODE

\* A line about some lasers leaves the others as they are, if the read of
\* _cli_tx_config_laser succeeded (Efm8lb12_cmd.c:1047-1060).
OthersKept ==
  [][line' = line /\ line # <<>> /\ Done("read", MSA_TX_ENABLE)
       => \A c \in Channels \ Asked[line].lanes : c \in tx' <=> c \in tx]_vars

\* Efm8lb12_qsfp28.c:1287: "Write OK indicate enter security lever".
WriteOkMeansPermitted == sub = "page" => permit
=============================================================================
