------------------------------ MODULE SoftTimer -----------------------------
(***************************************************************************)
(* The software timers of mcu_sal_timer.c.  TIMER2's handler counts        *)
(* jiffies and marks the timers that are due; the main loop runs their     *)
(* functions (timer_run), waits (timer_delay_ms) and starts and stops      *)
(* timers (the commands of Efm8lb12_cmd.c).                                *)
(*                                                                         *)
(* One iteration of a loop is one step.  The main loop moves only when the *)
(* handler is not active; the handler starts between any two of its steps. *)
(***************************************************************************)
EXTENDS Naturals

CONSTANTS
  TIMER_NUM,    \* places in the list
  ADDED,        \* timers that cmd_init adds
  JIFFIES_MAX,  \* largest value of the counter
  LOW,          \* values of the part of jiffies read by one instruction
  Timeouts,     \* timeouts of the timers
  InitialTimeout,  \* the timeout cmd_init gives each timer
  Settable,     \* timers whose timeout a command sets
  Commanded,    \* timers that a command starts and stops
  Delays,       \* delays the commands ask for
  FreeRun       \* TRUE: the counter may run over its largest value

ASSUME TimerAssumption ==
  /\ TIMER_NUM \in Nat
  /\ ADDED \in Nat
  /\ JIFFIES_MAX \in Nat /\ LOW \in Nat \ {0}
  /\ Timeouts \subseteq Nat \ {0} /\ Timeouts # {}
  /\ \A a \in Timeouts \cup Delays : 2 * a <= JIFFIES_MAX
  /\ InitialTimeout \in [1..ADDED -> Timeouts]
  /\ Settable \subseteq 1..ADDED /\ Commanded \subseteq 1..ADDED
  /\ Delays \subseteq Nat
  /\ FreeRun \in BOOLEAN

VARIABLES
  num,      \* timers in the list
  jiffies,
  timeout, expires, flag, enable,   \* the fields of each timer
  pc,       \* where the main loop is
  k,        \* its loop counter (from 1)
  save,     \* timer_enable_save
  ms, current,                      \* of timer_delay_ms
  tk,       \* the handler's loop counter; 0: not active
  started,  \* history: the last timer_start or timer_stop of each timer
  waited,   \* history: ticks each timer has spent enabled without being due
  elapsed,  \* history: ticks since timer_delay_ms read current_time, up to those asked for
  torn,     \* history: which of its reads of jiffies had a tick in it, the first or the last
  drift     \* history: ticks while timer_delay_ms prepares its wait

Timers == 1..ADDED   \* in the order in which they are added

fields == <<timeout, expires, flag, enable>>
delay == <<save, ms, current>>
history == <<started, waited, elapsed, torn, drift>>
vars == <<num, jiffies, fields, pc, k, delay, tk, history>>

Listed == {t \in Timers : t <= num}
Wrap(n) == n % (JIFFIES_MAX + 1)
LongestTimeout == CHOOSE a \in Timeouts : \A b \in Timeouts : b <= a
Capped(n) == IF n > 2 * LongestTimeout THEN 2 * LongestTimeout + 1 ELSE n
OneMore == IF elapsed < ms THEN elapsed + 1 ELSE elapsed

\* The locals of timer_delay_ms live only while it runs.
NoDelay ==
  /\ save = [t \in Timers |-> FALSE] /\ ms = 0 /\ current = 0
  /\ elapsed = 0 /\ torn = {} /\ drift = 0

ForgetDelay ==
  /\ save' = [t \in Timers |-> FALSE] /\ ms' = 0 /\ current' = 0
  /\ elapsed' = 0 /\ torn' = {} /\ drift' = 0

Init ==
  /\ num = 0 /\ jiffies = 0
  /\ timeout = InitialTimeout
  /\ expires = [t \in Timers |-> 0]
  /\ flag = [t \in Timers |-> FALSE]
  /\ enable = [t \in Timers |-> FALSE]
  /\ pc = "boot" /\ k = 1
  /\ tk = 0
  /\ started = [t \in Timers |-> FALSE]
  /\ waited = [t \in Timers |-> 0]
  /\ NoDelay

----------------------------------------------------------------------------
(* Setting up: interrupts are disabled, jiffies is still 0.                *)

\* Mutant: the end of the counter is not looked for.
NearEndNever(a) == FALSE

\* The test of _timer_jiffies_zero: the counter has come near its end.
NearEnd(a) == JIFFIES_MAX - jiffies < 2 * a

\* Mutant of TimerAdd: the list's length is not tested.
TimerAddBeyond ==
  /\ pc = "boot" /\ k \in Timers
  /\ enable' = [enable EXCEPT ![k] = FALSE]
  /\ flag' = [flag EXCEPT ![k] = FALSE]
  /\ expires' = [expires EXCEPT ![k] = timeout[k] + jiffies]
  /\ num' = num + 1
  /\ k' = k + 1
  /\ UNCHANGED <<jiffies, timeout, pc, delay, tk, history>>

TimerAdd ==
  /\ pc = "boot" /\ k \in Timers /\ num < TIMER_NUM
  /\ enable' = [enable EXCEPT ![k] = FALSE]
  /\ flag' = [flag EXCEPT ![k] = FALSE]
  /\ jiffies' = IF NearEnd(timeout[k]) THEN 0 ELSE jiffies
  /\ expires' = [t \in Timers |->
                   IF t = k THEN timeout[k] + jiffies'
                   ELSE IF NearEnd(timeout[k]) /\ t \in Listed
                        THEN timeout[t] ELSE expires[t]]
  /\ num' = num + 1
  /\ k' = k + 1
  /\ UNCHANGED <<timeout, pc, delay, tk, history>>

TimerAddFull ==
  /\ pc = "boot" /\ k \in Timers /\ num >= TIMER_NUM
  /\ k' = k + 1
  /\ UNCHANGED <<num, jiffies, fields, pc, delay, tk, history>>

Booted ==
  /\ pc = "boot" /\ k \notin Timers
  /\ pc' = "main" /\ k' = 1
  /\ UNCHANGED <<num, jiffies, fields, delay, tk, history>>

----------------------------------------------------------------------------
(* Commands of the main loop.                                              *)

\* "rssi show", "rx_prbs check enable": a new timeout, then timer_start.  The
\* timer's expiry stays as it is.
SetTimeout(t, a) ==
  /\ tk = 0 /\ pc = "main"
  /\ timeout' = [timeout EXCEPT ![t] = a]
  /\ pc' = "set" /\ k' = t
  /\ UNCHANGED <<num, jiffies, expires, flag, enable, delay, tk, history>>

TimerStart ==
  /\ tk = 0 /\ pc = "set"
  /\ enable' = [enable EXCEPT ![k] = TRUE]
  /\ started' = [started EXCEPT ![k] = TRUE]
  /\ pc' = "main" /\ k' = 1
  /\ UNCHANGED <<num, jiffies, timeout, expires, flag, delay, tk,
                 waited, elapsed, torn, drift>>

\* "intl output enable" starts a timer without a new timeout.
StartAsIs(t) ==
  /\ tk = 0 /\ pc = "main"
  /\ pc' = "set" /\ k' = t
  /\ UNCHANGED <<num, jiffies, fields, delay, tk, history>>

TimerStop(t) ==
  /\ tk = 0 /\ pc = "main"
  /\ enable' = [enable EXCEPT ![t] = FALSE]
  /\ started' = [started EXCEPT ![t] = FALSE]
  /\ UNCHANGED <<num, jiffies, timeout, expires, flag, pc, k, delay, tk,
                 waited, elapsed, torn, drift>>

----------------------------------------------------------------------------
(* timer_run.                                                              *)

RunTimers ==
  /\ tk = 0 /\ pc = "main"
  /\ pc' = "run" /\ k' = 1
  /\ UNCHANGED <<num, jiffies, fields, delay, tk, history>>

\* Mutant of RunNext: the loop ends before the last timer.
RunNextMissesLast ==
  /\ tk = 0 /\ pc = "run"
  /\ IF k < num
     THEN IF flag[k] THEN pc' = "function" /\ UNCHANGED k
                     ELSE k' = k + 1 /\ UNCHANGED pc
     ELSE pc' = "main" /\ k' = 1
  /\ UNCHANGED <<num, jiffies, fields, delay, tk, history>>

RunNext ==
  /\ tk = 0 /\ pc = "run"
  /\ IF k \in Listed
     THEN IF flag[k] THEN pc' = "function" /\ UNCHANGED k
                     ELSE k' = k + 1 /\ UNCHANGED pc
     ELSE pc' = "main" /\ k' = 1
  /\ UNCHANGED <<num, jiffies, fields, delay, tk, history>>

\* The function has returned; a tick that fell into it is forgotten.
FunctionDone ==
  /\ tk = 0 /\ pc = "function"
  /\ flag' = [flag EXCEPT ![k] = FALSE]
  /\ pc' = "run" /\ k' = k + 1
  /\ UNCHANGED <<num, jiffies, timeout, expires, enable, delay, tk, history>>

----------------------------------------------------------------------------
(* timer_delay_ms.                                                         *)

DelayCall(m) ==
  /\ tk = 0 /\ pc = "main"
  /\ ms' = m /\ k' = 1 /\ drift' = 0
  /\ IF NearEnd(m)
     THEN jiffies' = 0 /\ pc' = "zero"
     ELSE pc' = "disable" /\ UNCHANGED jiffies
  /\ UNCHANGED <<num, fields, save, current, tk, started, waited, elapsed, torn>>

DelayZero ==
  /\ tk = 0 /\ pc = "zero"
  /\ IF k \in Listed
     THEN /\ expires' = [expires EXCEPT ![k] = timeout[k]]
          /\ k' = k + 1 /\ UNCHANGED pc
     ELSE pc' = "disable" /\ k' = 1 /\ UNCHANGED expires
  /\ UNCHANGED <<num, jiffies, timeout, flag, enable, delay, tk, history>>

\* Mutant of DelayDisable: the states are saved, the timers stay enabled.
DelayDisableSavesOnly ==
  /\ tk = 0 /\ pc = "disable"
  /\ IF k \in Listed
     THEN /\ save' = [save EXCEPT ![k] = enable[k]]
          /\ k' = k + 1 /\ UNCHANGED pc
     ELSE pc' = "read" /\ UNCHANGED <<k, save>>
  /\ UNCHANGED <<num, jiffies, fields, ms, current, tk, history>>

DelayDisable ==
  /\ tk = 0 /\ pc = "disable"
  /\ IF k \in Listed
     THEN /\ save' = [save EXCEPT ![k] = enable[k]]
          /\ enable' = [enable EXCEPT ![k] = FALSE]
          /\ k' = k + 1 /\ UNCHANGED pc
     ELSE pc' = "read" /\ UNCHANGED <<k, save, enable>>
  /\ UNCHANGED <<num, jiffies, timeout, expires, flag, ms, current, tk, history>>

\* What a read of jiffies yields when a tick falls between its instructions:
\* the low part of one value with the high part of the other.
Torn ==
  {LOW * (a \div LOW) + (b % LOW) : a, b \in {jiffies, jiffies + 1}}

\* A tick during the read.  Every timer in the list is disabled here, so it only counts.
TickInRead ==
  /\ jiffies < JIFFIES_MAX /\ jiffies' = jiffies + 1
  /\ waited' = [t \in Timers |-> 0]

DelayRead ==
  /\ tk = 0 /\ pc = "read"
  /\ \/ current' = jiffies /\ UNCHANGED <<jiffies, waited, torn>>
     \/ TickInRead /\ current' \in Torn /\ torn' = {"first"}
  /\ elapsed' = 0
  /\ pc' = "wait"
  /\ UNCHANGED <<num, fields, k, save, ms, tk, started, drift>>

\* The loop that waits ends; a turn that does not end it changes nothing.
DelayDone ==
  /\ tk = 0 /\ pc = "wait"
  /\ jiffies >= Wrap(ms + current)
  /\ pc' = "restore" /\ k' = 1
  /\ UNCHANGED <<num, jiffies, fields, delay, tk, history>>

\* It ends on a torn read.
DelayDoneTorn ==
  /\ tk = 0 /\ pc = "wait"
  /\ TickInRead /\ \E v \in Torn : v >= Wrap(ms + current)
  /\ elapsed' = OneMore /\ torn' = torn \cup {"last"}
  /\ pc' = "restore" /\ k' = 1
  /\ UNCHANGED <<num, fields, delay, tk, started, drift>>

\* Mutant of DelayRestore: the loop ends before the last timer.
DelayRestoreMissesLast ==
  /\ tk = 0 /\ pc = "restore"
  /\ IF k < num
     THEN /\ enable' = [enable EXCEPT ![k] = save[k]]
          /\ k' = k + 1 /\ UNCHANGED pc
          /\ UNCHANGED <<delay, elapsed, torn, drift>>
     ELSE pc' = "main" /\ k' = 1 /\ ForgetDelay /\ UNCHANGED enable
  /\ UNCHANGED <<num, jiffies, timeout, expires, flag, tk, started, waited>>

DelayRestore ==
  /\ tk = 0 /\ pc = "restore"
  /\ IF k \in Listed
     THEN /\ enable' = [enable EXCEPT ![k] = save[k]]
          /\ k' = k + 1 /\ UNCHANGED pc
          /\ UNCHANGED <<delay, elapsed, torn, drift>>
     ELSE pc' = "main" /\ k' = 1 /\ ForgetDelay /\ UNCHANGED enable
  /\ UNCHANGED <<num, jiffies, timeout, expires, flag, tk, started, waited>>

----------------------------------------------------------------------------
(* timer_update, TIMER2's handler.                                         *)

\* The code between the test of the counter and the wait is far shorter than a
\* tick: at most one falls into it.
Preparing == pc \in {"zero", "disable", "read"}

Tick ==
  /\ tk = 0 /\ pc # "boot"
  /\ Preparing => drift = 0
  /\ drift' = IF Preparing THEN 1 ELSE drift
  /\ tk' = 1
  /\ UNCHANGED <<num, jiffies, fields, pc, k, delay, started, waited, elapsed, torn>>

Due(t) == enable[t] /\ expires[t] <= jiffies

\* Mutant of TickTimer: when the counter starts anew only the timer that is due
\* is armed again.
TickTimerArmsItself ==
  /\ tk \in Listed
  /\ IF Due(tk)
     THEN /\ flag' = [flag EXCEPT ![tk] = TRUE]
          /\ jiffies' = IF NearEnd(timeout[tk]) THEN 0 ELSE jiffies
          /\ expires' = [expires EXCEPT ![tk] = Wrap(timeout[tk] + jiffies')]
     ELSE UNCHANGED <<flag, jiffies, expires>>
  /\ waited' = [waited EXCEPT ![tk] = IF enable[tk] /\ ~ Due(tk) THEN Capped(@ + 1) ELSE 0]
  /\ tk' = tk + 1
  /\ UNCHANGED <<num, timeout, enable, pc, k, delay, started, elapsed, torn, drift>>

\* Mark the timer and arm it again; near its end the counter starts anew and
\* every timer's full timeout with it.
TickTimer ==
  /\ tk \in Listed
  /\ IF Due(tk)
     THEN /\ flag' = [flag EXCEPT ![tk] = TRUE]
          /\ IF NearEnd(timeout[tk])
             THEN /\ jiffies' = 0
                  /\ expires' = [t \in Timers |-> IF t \in Listed THEN timeout[t]
                                                  ELSE expires[t]]
             ELSE /\ expires' = [expires EXCEPT ![tk] = Wrap(timeout[tk] + jiffies)]
                  /\ UNCHANGED jiffies
     ELSE UNCHANGED <<flag, jiffies, expires>>
  /\ waited' = [waited EXCEPT ![tk] = IF enable[tk] /\ ~ Due(tk) THEN Capped(@ + 1) ELSE 0]
  /\ tk' = tk + 1
  /\ UNCHANGED <<num, timeout, enable, pc, k, delay, started, elapsed, torn, drift>>

\* The tick is counted.  Without FreeRun the behaviour ends before the counter
\* runs over (49 days without a timer or a delay that starts it anew).
TickEnd ==
  /\ tk > num
  /\ FreeRun \/ jiffies < JIFFIES_MAX
  /\ jiffies' = Wrap(jiffies + 1)
  /\ elapsed' = IF pc = "wait" THEN OneMore ELSE elapsed
  /\ tk' = 0
  /\ UNCHANGED <<num, fields, pc, k, delay, started, waited, torn, drift>>

----------------------------------------------------------------------------
Commands ==
  \/ \E t \in Settable, a \in Timeouts : SetTimeout(t, a)
  \/ \E t \in Commanded \ Settable : StartAsIs(t)
  \/ \E t \in Commanded : TimerStop(t)
  \/ \E m \in Delays : DelayCall(m)

Work ==
  \/ TimerAdd \/ TimerAddFull \/ Booted \/ TimerStart
  \/ RunNext \/ FunctionDone
  \/ DelayZero \/ DelayDisable \/ DelayRead \/ DelayDone \/ DelayRestore

Update == Tick \/ TickTimer \/ TickEnd

Next == Commands \/ RunTimers \/ Work \/ DelayDoneTorn \/ Update

Spec == Init /\ [][Next]_vars

\* The timer hardware ticks for ever; the main loop goes on between ticks and
\* the scheduler comes back to timer_run.  Nothing rests on a torn read.
FairSpec ==
  /\ Spec
  /\ WF_vars(Tick) /\ WF_vars(TickTimer) /\ WF_vars(TickEnd)
  /\ SF_vars(Work) /\ SF_vars(RunTimers)

----------------------------------------------------------------------------
(* Properties.                                                             *)

TypeOK ==
  /\ num \in 0..TIMER_NUM
  /\ jiffies \in 0..JIFFIES_MAX
  /\ timeout \in [Timers -> Timeouts]
  /\ expires \in [Timers -> 0..JIFFIES_MAX]
  /\ flag \in [Timers -> BOOLEAN] /\ enable \in [Timers -> BOOLEAN]
  /\ pc \in {"boot", "main", "set", "run", "function", "zero", "disable",
             "read", "wait", "restore"}
  /\ k \in Nat /\ tk \in Nat
  /\ save \in [Timers -> BOOLEAN] /\ ms \in Delays \cup {0} /\ current \in Nat
  /\ started \in [Timers -> BOOLEAN] /\ waited \in [Timers -> Nat]
  /\ elapsed \in Nat /\ torn \subseteq {"first", "last"} /\ drift \in {0, 1}

\* Timers that timer_delay_ms has not yet armed again after it set the counter to 0.
Unarmed == IF pc = "zero" THEN {t \in Listed : t >= k} ELSE {}

\* No timer's expiry is further away than the longest timeout: whenever jiffies
\* is set to 0 the expiries are set again (timer.c:8, 55).
ExpiryInReach ==
  \A t \in Listed \ Unarmed : expires[t] <= jiffies + LongestTimeout

\* A timer that stays enabled is due after at most two of the longest timeouts,
\* also when another timer's expiry or a delay starts the counter anew in
\* between and so gives it a second full timeout (timer.c:10-29, 135, 184-188).
DueInTime == \A t \in Timers : waited[t] <= 2 * LongestTimeout

\* A delay leaves every timer as the last command left it (timer.c:137-151).
EnablesRestored ==
  pc \in {"main", "set", "run", "function"} => \A t \in Timers : enable[t] = started[t]

\* How far a read with a tick in it may be off: the first may be behind, the last ahead.
Behind == IF "first" \in torn THEN LOW ELSE 0
Ahead == IF "last" \in torn THEN LOW - 1 ELSE 0

\* A delay lasts as long as asked for, wherever the counter stood when it was called and
\* whatever the timers do to it; only a tick between the instructions of a read of jiffies
\* ends it early, by no more than such a read can be wrong (timer.c:135-145).
DelayLongEnough ==
  pc = "restore" => elapsed + Behind + Ahead >= ms

\* A delay ends (timer.c:137: no timer sets jiffies back while it waits); the
\* only excuse is a counter that stands at the end of the behaviour.
DelayEnds == (pc = "wait") ~> (pc = "main" \/ jiffies = JIFFIES_MAX)

\* A listed timer that from some time on is enabled (no command stops it, no
\* delay holds it) goes on running its function, however often the counter is
\* started anew (timer.c:10-29, 154-168, 182-191).
TimerKeepsRunning ==
  \A t \in Timers :
    <>[](enable[t] /\ t \in Listed) => []<>(pc = "function" /\ k = t)

============================================================================
