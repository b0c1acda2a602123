---------------------------- MODULE SoftTimerProofs ---------------------------
(***************************************************************************)
(* What the software timers promise, for any number of timers, any         *)
(* timeouts and delays within TimerAssumption, commands given at any       *)
(* moment and ticks between any two steps of the main loop.                *)
(***************************************************************************)
EXTENDS SoftTimer, WellFoundedInduction, TLAPS

----------------------------------------------------------------------------
(* The constants.                                                          *)

\* The order of the numbers, as a relation.
Less == {ss \in Nat \X Nat : ss[1] < ss[2]}

\* The order of the numbers is well founded.
LEMMA LessWellFounded == IsWellFoundedOn(Less, Nat)
BY NatLessThanWellFounded, Zenon DEF OpToRel, Less

\* There is a longest timeout: what is left of the counter's range after it is least.
LEMMA LongestFacts ==
  /\ LongestTimeout \in Timeouts /\ LongestTimeout \in Nat \ {0}
  /\ \A a \in Timeouts : a \in Nat \ {0} /\ a <= LongestTimeout /\ 2 * a <= JIFFIES_MAX
<1> DEFINE Left == {JIFFIES_MAX - a : a \in Timeouts}
<1>1. \A a \in Timeouts : a \in Nat \ {0} /\ 2 * a <= JIFFIES_MAX
  BY TimerAssumption
<1>2. Left \in SUBSET Nat /\ Left # {}
  <2>1. Left # {}
    BY TimerAssumption
  <2>2. \A a \in Timeouts : JIFFIES_MAX - a \in Nat
    BY <1>1, TimerAssumption
  <2>3. QED
    BY <2>1, <2>2
<1>3. PICK x \in Left : \A y \in Left : ~ (<<y, x>> \in Less)
  <2> HIDE DEF Left
  <2> QED
    BY <1>2, LessWellFounded, WFMin
<1>4. PICK a \in Timeouts : x = JIFFIES_MAX - a
  BY <1>3
<1>5. \A b \in Timeouts : b <= a
  <2>1. SUFFICES ASSUME NEW b \in Timeouts PROVE b <= a
    OBVIOUS
  <2>2. ~ (JIFFIES_MAX - b < JIFFIES_MAX - a)
    BY <1>2, <1>3, <1>4 DEF Less
  <2>3. QED
    BY <1>1, <2>2, TimerAssumption
<1>6. LongestTimeout \in Timeouts /\ \A b \in Timeouts : b <= LongestTimeout
  BY <1>5 DEF LongestTimeout
<1>7. QED
  BY <1>1, <1>6

\* The counter's arithmetic.
LEMMA WrapFacts ==
  ASSUME NEW n \in Nat
  PROVE  /\ Wrap(n) \in 0..JIFFIES_MAX
         /\ n <= JIFFIES_MAX => Wrap(n) = n
BY TimerAssumption DEF Wrap

\* A torn read is behind the counter by less than LOW or ahead of it by LOW at most.
LEMMA TornFacts ==
  ASSUME NEW v \in Torn, jiffies \in Nat
  PROVE  v \in Nat /\ jiffies + 1 <= v + LOW /\ v <= jiffies + LOW
<1>1. LOW \in Nat \ {0}
  BY TimerAssumption
<1> DEFINE q == jiffies \div LOW
           r == jiffies % LOW
           qq == (jiffies + 1) \div LOW
           rr == (jiffies + 1) % LOW
<1>2. q \in Nat /\ r \in 0..(LOW - 1) /\ jiffies = LOW * q + r
  BY <1>1
<1>3. qq \in Nat /\ rr \in 0..(LOW - 1) /\ jiffies + 1 = LOW * qq + rr
  BY <1>1
<1>4. (qq = q /\ rr = r + 1) \/ (qq = q + 1 /\ rr = 0 /\ r = LOW - 1)
  BY <1>1
<1>5. v \in {LOW * q + r, LOW * q + rr, LOW * qq + r, LOW * qq + rr}
  BY DEF Torn
<1>6. LOW * q \in Nat /\ LOW * qq \in Nat /\ LOW * (q + 1) = LOW * q + LOW
  BY <1>1, <1>2, <1>3
<1> HIDE DEF q, r, qq, rr
<1>7. QED
  BY <1>1, <1>2, <1>3, <1>4, <1>5, <1>6

----------------------------------------------------------------------------
(* Types.                                                                  *)

Typed == TypeOK /\ k >= 1 /\ (pc = "set" => k \in Timers)

LEMMA TypedInit == Init => Typed
<1> SUFFICES ASSUME Init PROVE Typed
  OBVIOUS
<1>1. timeout \in [Timers -> Timeouts] /\ 0 \in 0..JIFFIES_MAX /\ 0 \in 0..TIMER_NUM
  BY TimerAssumption DEF Init, Timers
<1>2. QED
  BY <1>1 DEF Init, NoDelay, Typed, TypeOK

LEMMA TypedCommands == Typed /\ Commands => Typed'
<1> SUFFICES ASSUME Typed, Commands PROVE Typed'
  OBVIOUS
<1> USE DEF fields, delay, history, Typed, TypeOK
<1>1. ASSUME NEW t \in Settable, NEW a \in Timeouts, SetTimeout(t, a) PROVE Typed'
  <2>1. t \in Timers /\ t \in Nat /\ t >= 1
    BY TimerAssumption DEF Timers
  <2>2. QED
    BY <1>1, <2>1 DEF SetTimeout
<1>2. ASSUME NEW t \in Commanded \ Settable, StartAsIs(t) PROVE Typed'
  <2>1. t \in Timers /\ t \in Nat /\ t >= 1
    BY TimerAssumption DEF Timers
  <2>2. QED
    BY <1>2, <2>1 DEF StartAsIs
<1>3. ASSUME NEW t \in Commanded, TimerStop(t) PROVE Typed'
  BY <1>3 DEF TimerStop
<1>4. ASSUME NEW m \in Delays, DelayCall(m) PROVE Typed'
  <2>1. jiffies' \in 0..JIFFIES_MAX
    BY <1>4, TimerAssumption DEF DelayCall
  <2>2. pc' \in {"zero", "disable"}
    BY <1>4 DEF DelayCall
  <2>3. QED
    BY <1>4, <2>1, <2>2 DEF DelayCall
<1>5. QED
  BY <1>1, <1>2, <1>3, <1>4 DEF Commands

\* Arming a timer keeps its expiry within the counter's range.
LEMMA ArmedFits ==
  ASSUME Typed, NEW t \in Timers, ~ NearEnd(timeout[t])
  PROVE  timeout[t] + jiffies \in 0..JIFFIES_MAX
<1>1. timeout[t] \in Timeouts /\ jiffies \in 0..JIFFIES_MAX
  BY DEF Typed, TypeOK
<1>2. timeout[t] \in Nat /\ JIFFIES_MAX \in Nat
  BY <1>1, LongestFacts, TimerAssumption
<1>3. ~ (JIFFIES_MAX - jiffies < 2 * timeout[t])
  BY DEF NearEnd
<1>4. QED
  BY <1>1, <1>2, <1>3

\* A full timeout is within the counter's range.
LEMMA TimeoutFits ==
  ASSUME Typed, NEW t \in Timers
  PROVE  timeout[t] \in 0..JIFFIES_MAX /\ timeout[t] \in 1..LongestTimeout
<1>1. timeout[t] \in Timeouts
  BY DEF Typed, TypeOK
<1>2. /\ timeout[t] \in Nat \ {0} /\ timeout[t] <= LongestTimeout /\ 2 * timeout[t] <= JIFFIES_MAX
      /\ JIFFIES_MAX \in Nat /\ LongestTimeout \in Nat
  BY <1>1, LongestFacts, TimerAssumption
<1>3. QED
  BY <1>2

LEMMA TypedSetUp == Typed /\ (TimerAdd \/ TimerAddFull \/ Booted) => Typed'
<1> SUFFICES ASSUME Typed, TimerAdd \/ TimerAddFull \/ Booted PROVE Typed'
  OBVIOUS
<1> USE DEF fields, delay, history
<1>1. CASE TimerAdd
  <2>1. k \in Timers /\ num < TIMER_NUM
    BY <1>1 DEF TimerAdd
  <2>2. jiffies' \in 0..JIFFIES_MAX /\ timeout[k] + jiffies' \in 0..JIFFIES_MAX
    <3>1. CASE NearEnd(timeout[k])
      BY <1>1, <2>1, <3>1, TimeoutFits, TimerAssumption DEF TimerAdd
    <3>2. CASE ~ NearEnd(timeout[k])
      BY <1>1, <2>1, <3>2, ArmedFits DEF TimerAdd, Typed, TypeOK
    <3>3. QED
      BY <3>1, <3>2
  <2>3. expires' \in [Timers -> 0..JIFFIES_MAX]
    BY <1>1, <2>1, <2>2, TimeoutFits DEF TimerAdd, Typed, TypeOK
  <2>4. num' \in 0..TIMER_NUM
    BY <1>1, <2>1, TimerAssumption DEF TimerAdd, Typed, TypeOK
  <2>5. QED
    BY <1>1, <2>1, <2>2, <2>3, <2>4 DEF TimerAdd, Typed, TypeOK
<1>2. CASE TimerAddFull
  BY <1>2 DEF TimerAddFull, Typed, TypeOK
<1>3. CASE Booted
  BY <1>3 DEF Booted, Typed, TypeOK
<1>4. QED
  BY <1>1, <1>2, <1>3

LEMMA TypedRun == Typed /\ (TimerStart \/ RunTimers \/ RunNext \/ FunctionDone) => Typed'
<1> SUFFICES ASSUME Typed, TimerStart \/ RunTimers \/ RunNext \/ FunctionDone PROVE Typed'
  OBVIOUS
<1> USE DEF fields, delay, history, Typed, TypeOK
<1>1. CASE TimerStart
  BY <1>1 DEF TimerStart
<1>2. CASE RunTimers
  BY <1>2 DEF RunTimers
<1>3. CASE RunNext
  BY <1>3 DEF RunNext
<1>4. CASE FunctionDone
  <2>1. flag' \in [Timers -> BOOLEAN]
    BY <1>4 DEF FunctionDone
  <2>2. UNCHANGED <<num, jiffies, timeout, expires, enable, delay, tk, history>>
        /\ pc' = "run" /\ k' = k + 1
    BY <1>4 DEF FunctionDone
  <2>3. QED
    BY <2>1, <2>2
<1>5. QED
  BY <1>1, <1>2, <1>3, <1>4

\* A tick during a read of the counter.
LEMMA TypedTickInRead ==
  ASSUME Typed, TickInRead
  PROVE  jiffies' \in 0..JIFFIES_MAX /\ waited' \in [Timers -> Nat]
BY TimerAssumption DEF TickInRead, Typed, TypeOK

LEMMA TypedDelay ==
  Typed /\ (DelayZero \/ DelayDisable \/ DelayRead \/ DelayDone \/ DelayDoneTorn \/ DelayRestore)
    => Typed'
<1> SUFFICES ASSUME Typed, DelayZero \/ DelayDisable \/ DelayRead \/ DelayDone
                           \/ DelayDoneTorn \/ DelayRestore
             PROVE  Typed'
  OBVIOUS
<1> USE DEF fields, delay, history
<1>1. CASE DelayZero
  <2>1. expires' \in [Timers -> 0..JIFFIES_MAX]
    BY <1>1, TimeoutFits DEF DelayZero, Listed, Typed, TypeOK
  <2>2. QED
    BY <1>1, <2>1 DEF DelayZero, Typed, TypeOK
<1>2. CASE DelayDisable
  <2>1. save' \in [Timers -> BOOLEAN] /\ enable' \in [Timers -> BOOLEAN]
    BY <1>2 DEF DelayDisable, Listed, Typed, TypeOK
  <2>2. /\ UNCHANGED <<num, jiffies, timeout, expires, flag, ms, current, tk, history>>
        /\ pc' \in {"disable", "read"} /\ k' \in {k, k + 1}
    BY <1>2 DEF DelayDisable, Typed, TypeOK
  <2>3. QED
    BY <2>1, <2>2 DEF Typed, TypeOK
<1>3. CASE DelayRead
  <2>1. jiffies' \in 0..JIFFIES_MAX /\ current' \in Nat /\ waited' \in [Timers -> Nat]
    <3>1. CASE current' = jiffies /\ UNCHANGED <<jiffies, waited>>
      BY <3>1 DEF Typed, TypeOK
    <3>2. CASE TickInRead /\ current' \in Torn
      BY <3>2, TypedTickInRead, TornFacts DEF Typed, TypeOK
    <3>3. QED
      BY <1>3, <3>1, <3>2 DEF DelayRead
  <2>2. QED
    BY <1>3, <2>1 DEF DelayRead, Typed, TypeOK
<1>4. CASE DelayDone
  BY <1>4 DEF DelayDone, Typed, TypeOK
<1>5. CASE DelayDoneTorn
  <2>1. jiffies' \in 0..JIFFIES_MAX /\ waited' \in [Timers -> Nat]
    BY <1>5, TypedTickInRead DEF DelayDoneTorn
  <2>2. elapsed' \in Nat
    BY <1>5, TimerAssumption DEF DelayDoneTorn, OneMore, Typed, TypeOK
  <2>3. QED
    BY <1>5, <2>1, <2>2 DEF DelayDoneTorn, Typed, TypeOK
<1>6. CASE DelayRestore
  <2>1. save' \in [Timers -> BOOLEAN] /\ enable' \in [Timers -> BOOLEAN]
    BY <1>6 DEF DelayRestore, ForgetDelay, Typed, TypeOK
  <2>2. /\ ms' \in Delays \cup {0} /\ current' \in Nat /\ elapsed' \in Nat /\ drift' \in {0, 1}
        /\ torn' \subseteq {"first", "last"}
    BY <1>6 DEF DelayRestore, ForgetDelay, Typed, TypeOK
  <2>3. /\ UNCHANGED <<num, jiffies, timeout, expires, flag, tk, started, waited>>
        /\ pc' \in {"restore", "main"} /\ k' \in {1, k + 1}
    BY <1>6 DEF DelayRestore, Typed, TypeOK
  <2>4. QED
    BY <2>1, <2>2, <2>3 DEF Typed, TypeOK
<1>7. QED
  BY <1>1, <1>2, <1>3, <1>4, <1>5, <1>6

\* The handler's step over one timer changes its flag, its wait and, if the timer is
\* due, the expiries and the counter.
LEMMA TickTimerCases ==
  ASSUME Typed, TickTimer
  PROVE  /\ tk \in Timers /\ tk' = tk + 1
         /\ UNCHANGED <<num, timeout, enable, pc, k, delay, started, elapsed, torn, drift>>
         /\ waited' = [waited EXCEPT ![tk] = IF enable[tk] /\ ~ Due(tk) THEN Capped(@ + 1) ELSE 0]
         /\ flag' \in [Timers -> BOOLEAN]
         /\ \/ /\ Due(tk) /\ NearEnd(timeout[tk]) /\ jiffies' = 0
               /\ expires' = [t \in Timers |-> IF t \in Listed THEN timeout[t] ELSE expires[t]]
            \/ /\ Due(tk) /\ ~ NearEnd(timeout[tk]) /\ jiffies' = jiffies
               /\ expires' = [expires EXCEPT ![tk] = timeout[tk] + jiffies]
            \/ ~ Due(tk) /\ UNCHANGED <<jiffies, expires>>
<1>1. tk \in Timers
  BY DEF TickTimer, Listed
<1>2. flag' \in [Timers -> BOOLEAN]
  BY DEF TickTimer, Typed, TypeOK
<1>3. Due(tk) /\ ~ NearEnd(timeout[tk])
        => expires' = [expires EXCEPT ![tk] = timeout[tk] + jiffies]
  <2>1. SUFFICES ASSUME Due(tk), ~ NearEnd(timeout[tk])
                 PROVE  expires' = [expires EXCEPT ![tk] = timeout[tk] + jiffies]
    OBVIOUS
  <2>2. timeout[tk] + jiffies \in 0..JIFFIES_MAX
    BY <1>1, <2>1, ArmedFits
  <2>3. Wrap(timeout[tk] + jiffies) = timeout[tk] + jiffies
    BY <2>2, WrapFacts, TimerAssumption
  <2>4. QED
    BY <2>1, <2>3 DEF TickTimer
<1>4. QED
  BY <1>1, <1>2, <1>3 DEF TickTimer

\* The count of a wait stays a number, and is not more than what was counted.
LEMMA CappedFacts ==
  ASSUME NEW n \in Nat
  PROVE  Capped(n) \in Nat /\ Capped(n) <= n
BY LongestFacts DEF Capped

LEMMA TypedUpdate == Typed /\ Update => Typed'
<1> SUFFICES ASSUME Typed, Update PROVE Typed'
  OBVIOUS
<1> USE DEF fields, delay, history
<1>1. CASE Tick
  BY <1>1 DEF Tick, Typed, TypeOK
<1>2. CASE TickTimer
  <2>1. tk \in Timers /\ tk \in Nat
    BY <1>2, TickTimerCases DEF Typed, TypeOK
  <2>2. jiffies' \in 0..JIFFIES_MAX
    BY <1>2, TickTimerCases, TimerAssumption DEF Typed, TypeOK
  <2>3. expires' \in [Timers -> 0..JIFFIES_MAX]
    <3>1. ~ NearEnd(timeout[tk]) => timeout[tk] + jiffies \in 0..JIFFIES_MAX
      BY <2>1, ArmedFits
    <3>2. \A t \in Timers : timeout[t] \in 0..JIFFIES_MAX
      BY TimeoutFits
    <3>3. expires \in [Timers -> 0..JIFFIES_MAX]
      BY DEF Typed, TypeOK
    <3>4. QED
      BY <1>2, <2>1, <3>1, <3>2, <3>3, TickTimerCases
  <2>4. waited' \in [Timers -> Nat]
    <3>1. waited \in [Timers -> Nat] /\ Capped(waited[tk] + 1) \in Nat
      BY <2>1, CappedFacts DEF Typed, TypeOK
    <3>2. QED
      BY <1>2, <2>1, <3>1, TickTimerCases
  <2>5. /\ UNCHANGED <<num, timeout, enable, pc, k, delay, started, elapsed, torn, drift>>
        /\ tk' \in Nat /\ flag' \in [Timers -> BOOLEAN]
    BY <1>2, TickTimerCases DEF Typed, TypeOK, Timers
  <2>6. QED
    BY <2>2, <2>3, <2>4, <2>5 DEF Typed, TypeOK
<1>3. CASE TickEnd
  <2>1. jiffies' \in 0..JIFFIES_MAX
    BY <1>3, WrapFacts, TimerAssumption DEF TickEnd, Typed, TypeOK
  <2>2. elapsed' \in Nat
    BY <1>3 DEF TickEnd, OneMore, Typed, TypeOK
  <2>3. QED
    BY <1>3, <2>1, <2>2 DEF TickEnd, Typed, TypeOK
<1>4. QED
  BY <1>1, <1>2, <1>3 DEF Update

LEMMA TypedNext == Typed /\ [Next]_vars => Typed'
<1> SUFFICES ASSUME Typed, [Next]_vars PROVE Typed'
  OBVIOUS
<1>1. CASE UNCHANGED vars
  BY <1>1 DEF vars, fields, delay, history, Typed, TypeOK
<1>2. QED
  BY <1>1, TypedCommands, TypedSetUp, TypedRun, TypedDelay, TypedUpdate DEF Next, Work

\* The invariant of the types holds in every state.
THEOREM TypedAlways == Spec => []Typed
  BY TypedInit, TypedNext, PTL DEF Spec

\* The list is never longer than its array, and the expiries and the counter stay
\* within their width however it is started anew (timer.c:10-29, 57-77, 182-191).
THEOREM TypeCorrect == Spec => []TypeOK
<1>1. Typed => TypeOK
  BY DEF Typed
<1>2. QED
  BY <1>1, TypedAlways, PTL

----------------------------------------------------------------------------
(* The enables.                                                            *)

\* While the board starts the handler is not active, timers are added in the order of
\* the list and none is enabled.
SettingUp ==
  pc = "boot" =>
    /\ tk = 0 /\ (num < TIMER_NUM => k = num + 1)
    /\ \A t \in Timers : ~ enable[t] /\ ~ started[t] /\ waited[t] = 0

\* The timers that timer_delay_ms has disabled and not restored yet.
Held(t) ==
  /\ t \in Listed
  /\ \/ pc = "disable" /\ t < k
     \/ pc \in {"read", "wait"}
     \/ pc = "restore" /\ t >= k

\* A timer that is not held is as the last command left it; the state of one that is
\* held is in timer_enable_save.
Enables ==
  \A t \in Timers : IF Held(t) THEN ~ enable[t] /\ save[t] = started[t]
                              ELSE enable[t] = started[t]

EnableInv == Typed /\ SettingUp /\ Enables

LEMMA EnableInit == Init => EnableInv
<1> SUFFICES ASSUME Init PROVE SettingUp /\ Enables
  BY TypedInit DEF EnableInv
<1>1. \A t \in Timers : enable[t] = FALSE /\ started[t] = FALSE /\ waited[t] = 0
  BY DEF Init
<1>2. pc = "boot" /\ tk = 0 /\ k = num + 1
  BY DEF Init
<1>3. QED
  BY <1>1, <1>2 DEF SettingUp, Enables, Held

LEMMA SettingUpNext == Typed /\ SettingUp /\ [Next]_vars => SettingUp'
<1> SUFFICES ASSUME Typed, SettingUp, [Next]_vars PROVE SettingUp'
  OBVIOUS
<1> USE DEF fields, delay, history
<1>1. CASE TimerAdd
  <2>1. num \in Nat /\ num' = num + 1 /\ k' = k + 1 /\ UNCHANGED <<pc, tk, started, waited>>
    BY <1>1 DEF TimerAdd, Typed, TypeOK
  <2>2. \A t \in Timers : enable'[t] = IF t = k THEN FALSE ELSE enable[t]
    BY <1>1 DEF TimerAdd, Typed, TypeOK
  <2>3. pc = "boot" /\ num < TIMER_NUM
    BY <1>1 DEF TimerAdd
  <2>4. QED
    BY <2>1, <2>2, <2>3 DEF SettingUp
<1>2. CASE TimerAddFull
  BY <1>2, TimerAssumption DEF TimerAddFull, SettingUp, Typed, TypeOK
<1>3. CASE UNCHANGED vars
  BY <1>3 DEF vars, SettingUp
<1>4. CASE Tick
  BY <1>4 DEF Tick, SettingUp
<1>5. CASE TickTimer \/ TickEnd
  <2>1. pc' = pc
    BY <1>5 DEF TickTimer, TickEnd
  <2>2. pc # "boot"
    BY <1>5, TimerAssumption DEF TickTimer, TickEnd, SettingUp, Listed, Timers, Typed, TypeOK
  <2>3. QED
    BY <2>1, <2>2 DEF SettingUp
<1>6. CASE Booted \/ Commands \/ RunTimers \/ TimerStart \/ RunNext \/ FunctionDone \/ DelayZero
           \/ DelayDisable \/ DelayRead \/ DelayDone \/ DelayDoneTorn \/ DelayRestore
  <2>1. pc' # "boot"
    BY <1>6 DEF Booted, Commands, SetTimeout, StartAsIs, TimerStop, DelayCall, RunTimers,
                TimerStart, RunNext, FunctionDone, DelayZero, DelayDisable, DelayRead, DelayDone,
                DelayDoneTorn, DelayRestore
  <2>2. QED
    BY <2>1 DEF SettingUp
<1>7. QED
  BY <1>1, <1>2, <1>3, <1>4, <1>5, <1>6 DEF Next, Work, Update

\* A step that leaves the enables alone and holds the same timers.
LEMMA EnablesStutter ==
  ASSUME Enables, UNCHANGED <<enable, save, started>>, \A t \in Timers : Held(t)' <=> Held(t)
  PROVE  Enables'
BY DEF Enables

LEMMA EnablesNext == EnableInv /\ [Next]_vars => Enables'
<1> SUFFICES ASSUME EnableInv, [Next]_vars PROVE Enables'
  OBVIOUS
<1>t. Typed /\ SettingUp /\ Enables
  BY DEF EnableInv
<1>k. /\ k \in Nat \ {0} /\ num \in Nat /\ \A t \in Timers : t \in Nat \ {0}
      /\ \A t \in Listed : t \in Timers /\ t <= num
      /\ k \notin Listed => \A t \in Listed : t < k
  BY <1>t, TimerAssumption DEF Typed, TypeOK, Timers, Listed
<1>f. /\ enable \in [Timers -> BOOLEAN] /\ save \in [Timers -> BOOLEAN]
      /\ started \in [Timers -> BOOLEAN]
  BY <1>t DEF Typed, TypeOK
<1> USE DEF fields, delay, history
<1>1. CASE TimerAdd
  <2>1. pc = "boot" /\ pc' = "boot" /\ UNCHANGED <<save, started>>
    BY <1>1, <1>t DEF TimerAdd
  <2>2. \A t \in Timers : enable'[t] = FALSE /\ started[t] = FALSE
    BY <1>1, <1>t, <1>f, <2>1 DEF TimerAdd, SettingUp
  <2>3. QED
    BY <2>1, <2>2 DEF Enables, Held
<1>2. CASE TimerAddFull \/ Booted \/ RunTimers \/ RunNext \/ FunctionDone
  <2>1. UNCHANGED <<enable, save, started>>
    BY <1>2 DEF TimerAddFull, Booted, RunTimers, RunNext, FunctionDone
  <2>2. pc \in {"boot", "main", "run", "function"} /\ pc' \in {"boot", "main", "run", "function"}
    BY <1>2 DEF TimerAddFull, Booted, RunTimers, RunNext, FunctionDone
  <2>3. QED
    BY <1>t, <2>1, <2>2, EnablesStutter DEF Held
<1>3. CASE TimerStart
  <2>1. pc = "set" /\ pc' = "main" /\ save' = save
    BY <1>3 DEF TimerStart
  <2>2. \A t \in Timers : /\ enable'[t] = (IF t = k THEN TRUE ELSE enable[t])
                          /\ started'[t] = (IF t = k THEN TRUE ELSE started[t])
    BY <1>3, <1>f DEF TimerStart
  <2>3. \A t \in Timers : enable[t] = started[t]
    BY <1>t, <2>1 DEF Enables, Held
  <2>4. QED
    BY <2>1, <2>2, <2>3 DEF Enables, Held
<1>4. ASSUME NEW t \in Settable, NEW a \in Timeouts, SetTimeout(t, a) PROVE Enables'
  BY <1>4, <1>t, EnablesStutter DEF SetTimeout, Held
<1>5. ASSUME NEW t \in Commanded \ Settable, StartAsIs(t) PROVE Enables'
  BY <1>5, <1>t, EnablesStutter DEF StartAsIs, Held
<1>6. ASSUME NEW c \in Commanded, TimerStop(c) PROVE Enables'
  <2>1. pc = "main" /\ pc' = "main" /\ save' = save
    BY <1>6 DEF TimerStop
  <2>2. \A t \in Timers : /\ enable'[t] = (IF t = c THEN FALSE ELSE enable[t])
                          /\ started'[t] = (IF t = c THEN FALSE ELSE started[t])
    BY <1>6, <1>f DEF TimerStop
  <2>3. \A t \in Timers : enable[t] = started[t]
    BY <1>t, <2>1 DEF Enables, Held
  <2>4. QED
    BY <2>1, <2>2, <2>3 DEF Enables, Held
<1>7. ASSUME NEW m \in Delays, DelayCall(m) PROVE Enables'
  <2>1. UNCHANGED <<enable, save, started>> /\ pc = "main" /\ k' = 1 /\ pc' \in {"zero", "disable"}
    BY <1>7 DEF DelayCall
  <2>2. QED
    BY <1>t, <1>k, <2>1, EnablesStutter DEF Held
<1>8. CASE DelayZero
  <2>1. UNCHANGED <<enable, save, started>> /\ pc = "zero"
    BY <1>8 DEF DelayZero
  <2>2. pc' = "zero" \/ (pc' = "disable" /\ k' = 1)
    BY <1>8 DEF DelayZero
  <2>3. QED
    BY <1>t, <1>k, <2>1, <2>2, EnablesStutter DEF Held
<1>9. CASE DelayDisable
  <2>1. pc = "disable" /\ UNCHANGED <<num, started>>
    BY <1>9 DEF DelayDisable
  <2>2. CASE k \in Listed
    <3>1. pc' = "disable" /\ k' = k + 1
      BY <1>9, <2>2, <2>1 DEF DelayDisable
    <3>2. \A t \in Timers : /\ enable'[t] = (IF t = k THEN FALSE ELSE enable[t])
                            /\ save'[t] = (IF t = k THEN enable[k] ELSE save[t])
      BY <1>9, <1>f, <2>2 DEF DelayDisable
    <3>3. \A t \in Timers : Held(t)' <=> Held(t) \/ t = k
      BY <1>k, <2>1, <2>2, <3>1 DEF Held, Listed
    <3>4. ~ Held(k) /\ k \in Timers
      BY <1>k, <2>1, <2>2 DEF Held
    <3>5. QED
      BY <1>t, <2>1, <3>2, <3>3, <3>4 DEF Enables
  <2>3. CASE k \notin Listed
    <3>1. pc' = "read" /\ UNCHANGED <<enable, save, k>>
      BY <1>9, <2>3 DEF DelayDisable
    <3>2. \A t \in Timers : Held(t)' <=> Held(t)
      BY <1>k, <2>1, <2>3, <3>1 DEF Held, Listed
    <3>3. QED
      BY <1>t, <2>1, <3>1, <3>2, EnablesStutter
  <2>4. QED
    BY <2>2, <2>3
<1>10. CASE DelayRead \/ DelayDone \/ DelayDoneTorn
  <2>1. UNCHANGED <<num, enable, save, started>> /\ pc \in {"read", "wait"}
    BY <1>10 DEF DelayRead, DelayDone, DelayDoneTorn
  <2>2. pc' = "wait" \/ (pc' = "restore" /\ k' = 1)
    BY <1>10 DEF DelayRead, DelayDone, DelayDoneTorn
  <2>3. \A t \in Timers : Held(t)' <=> Held(t)
    BY <1>k, <2>1, <2>2 DEF Held, Listed
  <2>4. QED
    BY <1>t, <2>1, <2>3, EnablesStutter
<1>11. CASE DelayRestore
  <2>1. pc = "restore" /\ UNCHANGED <<num, started>>
    BY <1>11 DEF DelayRestore
  <2>2. CASE k \in Listed
    <3>1. pc' = "restore" /\ k' = k + 1 /\ save' = save
      BY <1>11, <2>2, <2>1 DEF DelayRestore
    <3>2. \A t \in Timers : enable'[t] = (IF t = k THEN save[k] ELSE enable[t])
      BY <1>11, <1>f, <2>2 DEF DelayRestore
    <3>3. \A t \in Timers : Held(t)' <=> Held(t) /\ t # k
      BY <1>k, <2>1, <2>2, <3>1 DEF Held, Listed
    <3>4. Held(k) /\ k \in Timers
      BY <1>k, <2>1, <2>2 DEF Held
    <3>5. QED
      BY <1>t, <2>1, <3>1, <3>2, <3>3, <3>4 DEF Enables
  <2>3. CASE k \notin Listed
    <3>1. pc' = "main" /\ enable' = enable
      BY <1>11, <2>3 DEF DelayRestore
    <3>2. \A t \in Timers : ~ Held(t) /\ ~ Held(t)'
      BY <1>k, <2>1, <2>3, <3>1 DEF Held
    <3>3. QED
      BY <1>t, <2>1, <3>1, <3>2 DEF Enables
  <2>4. QED
    BY <2>2, <2>3
<1>12. CASE Tick \/ TickTimer \/ TickEnd \/ UNCHANGED vars
  <2>1. UNCHANGED <<num, pc, k, enable, save, started>>
    BY <1>12 DEF Tick, TickTimer, TickEnd, vars
  <2>2. QED
    BY <1>t, <2>1, EnablesStutter DEF Held, Listed
<1>13. CASE Commands
  BY <1>4, <1>5, <1>6, <1>7, <1>13 DEF Commands
<1>14. QED
  BY <1>1, <1>2, <1>3, <1>8, <1>9, <1>10, <1>11, <1>12, <1>13 DEF Next, Work, Update

LEMMA EnableNext == EnableInv /\ [Next]_vars => EnableInv'
  BY TypedNext, SettingUpNext, EnablesNext DEF EnableInv

\* A delay leaves every timer as the last command left it, whatever the handler does
\* meanwhile (timer.c:137-151).
THEOREM EnablesGivenBack == Spec => []EnablesRestored
<1>1. EnableInv => EnablesRestored
  BY DEF EnableInv, Enables, Held, EnablesRestored
<1>2. QED
  BY <1>1, EnableInit, EnableNext, PTL DEF Spec

----------------------------------------------------------------------------
(* The length of a delay.                                                  *)

\* The tick that the handler is about to count.
Counting == IF tk > 0 THEN 1 ELSE 0

\* While the wait is prepared the counter keeps room for it (at most one tick falls in
\* between); the wait then has its end within the counter's range, unless a torn read put
\* it beyond and the wait is no longer than that read is wrong, and the counter does not run
\* ahead of the ticks by more than a torn read was behind.
Lasts ==
  /\ Preparing =>
       /\ tk > 0 => drift = 1
       /\ jiffies + 2 * ms + Counting <= JIFFIES_MAX + drift
  /\ pc = "zero" => jiffies + Counting <= drift
  /\ pc = "wait" =>
       \/ elapsed >= ms
       \/ "first" \in torn /\ ms <= LOW
       \/ ms + current <= JIFFIES_MAX /\ jiffies <= current + Behind + elapsed
  /\ DelayLongEnough

\* The numbers that the length of a delay is about.
Numbers ==
  /\ jiffies \in Nat /\ jiffies <= JIFFIES_MAX /\ current \in Nat /\ ms \in Nat /\ 2 * ms <= JIFFIES_MAX
  /\ elapsed \in Nat /\ drift \in {0, 1} /\ tk \in Nat
  /\ JIFFIES_MAX \in Nat /\ LOW \in Nat \ {0}

LEMMA NumbersHold == Typed => Numbers
<1> SUFFICES ASSUME Typed PROVE Numbers
  OBVIOUS
<1>1. ms \in Nat /\ 2 * ms <= JIFFIES_MAX
  BY TimerAssumption DEF Typed, TypeOK
<1>2. QED
  BY <1>1, TimerAssumption DEF Numbers, Typed, TypeOK

LEMMA LastsInit == Init => Lasts
  BY DEF Init, NoDelay, Lasts, Preparing, DelayLongEnough, Behind, Ahead

\* A step that stays out of the delay.
LEMMA LastsOutside ==
  ASSUME pc' \in {"boot", "main", "set", "run", "function"}
  PROVE  Lasts'
BY DEF Lasts, Preparing, DelayLongEnough

LEMMA LastsNext == Typed /\ SettingUp /\ Lasts /\ [Next]_vars => Lasts'
<1> SUFFICES ASSUME Typed, SettingUp, Lasts, [Next]_vars PROVE Lasts'
  OBVIOUS
<1>n. Numbers
  BY NumbersHold
<1> USE DEF fields, delay, history
<1>1. CASE TimerAdd \/ TimerAddFull \/ Booted \/ TimerStart \/ RunTimers \/ RunNext \/ FunctionDone
  <2>1. pc' \in {"boot", "main", "set", "run", "function"}
    BY <1>1 DEF TimerAdd, TimerAddFull, Booted, TimerStart, RunTimers, RunNext, FunctionDone
  <2>2. QED
    BY <2>1, LastsOutside
<1>2. ASSUME NEW t \in Settable, NEW a \in Timeouts, SetTimeout(t, a) PROVE Lasts'
  BY <1>2, LastsOutside DEF SetTimeout
<1>3. ASSUME NEW t \in Commanded \ Settable, StartAsIs(t) PROVE Lasts'
  BY <1>3, LastsOutside DEF StartAsIs
<1>4. ASSUME NEW t \in Commanded, TimerStop(t) PROVE Lasts'
  BY <1>4, LastsOutside DEF TimerStop
<1>5. ASSUME NEW m \in Delays, DelayCall(m) PROVE Lasts'
  <2>1. m \in Nat /\ 2 * m <= JIFFIES_MAX /\ tk' = 0 /\ drift' = 0 /\ ms' = m
    BY <1>5, TimerAssumption DEF DelayCall
  <2>2. CASE NearEnd(m)
    <3>1. jiffies' = 0 /\ pc' = "zero"
      BY <1>5, <2>2 DEF DelayCall
    <3>2. QED
      BY <1>n, <2>1, <3>1 DEF Lasts, Preparing, Counting, DelayLongEnough, Numbers
  <2>3. CASE ~ NearEnd(m)
    <3>1. jiffies' = jiffies /\ pc' = "disable" /\ ~ (JIFFIES_MAX - jiffies < 2 * m)
      BY <1>5, <2>3 DEF DelayCall, NearEnd
    <3>2. QED
      BY <1>n, <2>1, <3>1 DEF Lasts, Preparing, Counting, DelayLongEnough, Numbers
  <2>4. QED
    BY <2>2, <2>3
<1>6. CASE DelayZero \/ DelayDisable
  <2>1. UNCHANGED <<jiffies, tk, drift, ms>> /\ pc \in {"zero", "disable"}
    BY <1>6 DEF DelayZero, DelayDisable
  <2>2. pc' \in {"zero", "disable", "read"} /\ (pc' = "zero" => pc = "zero")
    BY <1>6 DEF DelayZero, DelayDisable
  <2>3. QED
    BY <2>1, <2>2 DEF Lasts, Preparing, Counting, DelayLongEnough
<1>7. CASE DelayRead
  <2>1. pc = "read" /\ pc' = "wait" /\ ms' = ms /\ elapsed' = 0
    BY <1>7 DEF DelayRead
  <2>2. jiffies + 2 * ms <= JIFFIES_MAX + 1
    BY <1>n, <2>1 DEF Lasts, Preparing, Counting, Numbers
  <2>3. CASE current' = jiffies /\ jiffies' = jiffies
    <3>1. ms = 0 \/ ms + jiffies <= JIFFIES_MAX
      BY <1>n, <2>2 DEF Numbers
    <3>2. jiffies <= jiffies + Behind' + 0
      BY <1>n DEF Numbers, Behind
    <3>3. QED
      BY <2>1, <2>3, <3>1, <3>2 DEF Lasts, Preparing, DelayLongEnough
  <2>4. CASE TickInRead /\ current' \in Torn /\ torn' = {"first"}
    <3>1. /\ jiffies' \in Nat /\ current' \in Nat
          /\ jiffies' <= current' + LOW /\ current' <= jiffies + LOW
      BY <1>n, <2>4, TornFacts DEF TickInRead, Numbers
    <3>2. Behind' = LOW /\ "first" \in torn'
      BY <2>4 DEF Behind
    <3>3. ms <= LOW \/ ms + current' <= JIFFIES_MAX
      <4>1. \A c \in Nat : c <= jiffies + LOW => ms <= LOW \/ ms + c <= JIFFIES_MAX
        BY <1>n, <2>2 DEF Numbers
      <4>2. QED
        BY <3>1, <4>1
    <3>4. jiffies' <= current' + Behind' + elapsed'
      <4>1. \A c \in Nat : c + LOW = c + LOW + 0
        BY <1>n DEF Numbers
      <4>2. QED
        BY <2>1, <3>1, <3>2, <4>1
    <3>5. QED
      BY <2>1, <3>2, <3>3, <3>4 DEF Lasts, Preparing, DelayLongEnough
  <2>5. QED
    BY <1>7, <2>3, <2>4 DEF DelayRead
<1>8. CASE DelayDone
  <2>1. /\ pc = "wait" /\ pc' = "restore" /\ UNCHANGED <<jiffies, ms, current, elapsed, torn>>
        /\ jiffies >= Wrap(ms + current)
    BY <1>8 DEF DelayDone
  <2>2. ms + current <= JIFFIES_MAX => Wrap(ms + current) = ms + current
    BY <1>n, WrapFacts DEF Numbers
  <2>3. elapsed + Behind + Ahead >= ms
    BY <1>n, <2>1, <2>2 DEF Lasts, Numbers, Behind, Ahead
  <2>4. Behind' = Behind /\ Ahead' = Ahead
    BY <2>1 DEF Behind, Ahead
  <2>5. QED
    BY <2>1, <2>3, <2>4 DEF Lasts, Preparing, DelayLongEnough
<1>9. CASE DelayDoneTorn
  <2>1. /\ pc = "wait" /\ pc' = "restore" /\ UNCHANGED <<ms, current>>
        /\ elapsed' = IF elapsed < ms THEN elapsed + 1 ELSE elapsed
    BY <1>9 DEF DelayDoneTorn, OneMore
  <2>2. PICK v \in Torn : v >= Wrap(ms + current)
    BY <1>9 DEF DelayDoneTorn
  <2>3. v \in Nat /\ v <= jiffies + LOW
    BY <1>n, TornFacts DEF Numbers
  <2>4. ms + current <= JIFFIES_MAX => Wrap(ms + current) = ms + current
    BY <1>n, WrapFacts DEF Numbers
  <2>5. Behind' = Behind /\ Ahead' = LOW - 1 /\ ("first" \in torn => Behind = LOW) /\ Behind \in Nat
    BY <1>9, <1>n DEF DelayDoneTorn, Behind, Ahead, Numbers
  <2>6. elapsed' + Behind + (LOW - 1) >= ms
    BY <1>n, <2>1, <2>2, <2>3, <2>4, <2>5 DEF Lasts, Numbers
  <2>7. QED
    BY <2>1, <2>5, <2>6 DEF Lasts, Preparing, DelayLongEnough
<1>10. CASE DelayRestore
  <2>1. pc' = "main" \/ (pc = "restore" /\ pc' = "restore" /\ UNCHANGED <<ms, elapsed, Behind, Ahead>>)
    BY <1>10 DEF DelayRestore, Behind, Ahead
  <2>2. QED
    BY <2>1, LastsOutside DEF Lasts, Preparing, DelayLongEnough
<1>11. CASE Tick
  <2>1. /\ UNCHANGED <<jiffies, pc, ms, current, elapsed, torn, Behind, Ahead>> /\ tk = 0 /\ tk' = 1
        /\ Preparing => drift = 0 /\ drift' = 1
    BY <1>11 DEF Tick, Behind, Ahead
  <2>2. QED
    BY <1>n, <2>1 DEF Lasts, Preparing, Counting, DelayLongEnough, Numbers
<1>12. CASE TickTimer
  <2>1. /\ UNCHANGED <<pc, ms, current, elapsed, torn, drift>> /\ tk' = tk + 1 /\ tk > 0
        /\ jiffies' = jiffies \/ jiffies' = 0
    BY <1>12, TickTimerCases, <1>n, TimerAssumption DEF TickTimer, Timers, Numbers
  <2>0. Behind' = Behind /\ Ahead' = Ahead /\ Behind \in Nat
    BY <1>n, <2>1 DEF Behind, Ahead, Numbers
  <2>2. jiffies' <= jiffies /\ jiffies' \in Nat
    BY <1>n, <2>1 DEF Numbers
  <2>3. Counting = 1 /\ Counting' = 1
    BY <1>n, <2>1 DEF Counting, Numbers
  <2>4. \A j \in Nat : j <= jiffies =>
          /\ Preparing => drift = 1 /\ j + 2 * ms + 1 <= JIFFIES_MAX + drift
          /\ pc = "zero" => j + 1 <= drift
          /\ pc = "wait" => \/ elapsed >= ms
                            \/ "first" \in torn /\ ms <= LOW
                            \/ ms + current <= JIFFIES_MAX /\ j <= current + Behind + elapsed
    BY <1>n, <2>0, <2>1, <2>3 DEF Lasts, Numbers
  <2>5. DelayLongEnough'
    BY <2>0, <2>1 DEF Lasts, DelayLongEnough
  <2>6. QED
    BY <2>0, <2>1, <2>2, <2>3, <2>4, <2>5 DEF Lasts, Preparing
<1>13. CASE TickEnd
  <2>1. /\ UNCHANGED <<pc, ms, current, drift>> /\ tk > num /\ tk' = 0
        /\ jiffies' = Wrap(jiffies + 1)
        /\ elapsed' = IF pc = "wait" THEN OneMore ELSE elapsed
    BY <1>13 DEF TickEnd
  <2>2. jiffies' \in Nat /\ jiffies' <= jiffies + 1 /\ tk > 0
    <3>1. Wrap(jiffies + 1) \in 0..JIFFIES_MAX
      BY <1>n, WrapFacts DEF Numbers
    <3>2. jiffies + 1 <= JIFFIES_MAX => Wrap(jiffies + 1) = jiffies + 1
      BY <1>n, WrapFacts DEF Numbers
    <3>3. num \in Nat
      BY TimerAssumption DEF Typed, TypeOK
    <3>4. QED
      BY <1>n, <2>1, <3>1, <3>2, <3>3 DEF Numbers
  <2>3. Behind' = Behind /\ Ahead' = Ahead /\ Behind \in Nat /\ torn' = torn
    BY <1>n, <1>13 DEF TickEnd, Behind, Ahead, Numbers
  <2>4. QED
    BY <1>n, <2>1, <2>2, <2>3 DEF Lasts, Preparing, Counting, DelayLongEnough, OneMore, Numbers
<1>14. CASE UNCHANGED vars
  BY <1>14 DEF vars, Lasts, Preparing, Counting, DelayLongEnough, Behind, Ahead
<1>15. CASE Commands
  BY <1>2, <1>3, <1>4, <1>5, <1>15 DEF Commands
<1>16. QED
  BY <1>1, <1>6, <1>7, <1>8, <1>9, <1>10, <1>11, <1>12, <1>13, <1>14, <1>15
  DEF Next, Work, Update

\* A delay during whose reads of jiffies no tick fell lasts as long as it was asked for; such
\* a tick takes no more from it than that read can be wrong.  It holds wherever the counter
\* stood at the call, and also when the counter may run over (timer.c:135-145).
THEOREM DelayLasts == Spec => []DelayLongEnough
<1>1. Init => Typed /\ SettingUp /\ Lasts
  BY EnableInit, LastsInit DEF EnableInv
<1>2. Lasts => DelayLongEnough
  BY DEF Lasts
<1>3. Typed /\ SettingUp /\ Lasts /\ [Next]_vars => (Typed /\ SettingUp /\ Lasts)'
  BY TypedNext, SettingUpNext, LastsNext
<1>4. QED
  BY <1>1, <1>2, <1>3, PTL DEF Spec

----------------------------------------------------------------------------
(* Expiries, as long as the counter does not run over.                     *)

\* The behaviour ends before the counter runs over.
Bounded == ~ FreeRun

ReachInv == Typed /\ SettingUp /\ ExpiryInReach

\* An expiry that was just set.
LEMMA FreshExpiry ==
  ASSUME Typed, NEW t \in Timers, NEW j \in Nat
  PROVE  timeout[t] + j <= j + LongestTimeout /\ timeout[t] <= j + LongestTimeout
<1>1. timeout[t] \in Nat /\ timeout[t] <= LongestTimeout /\ LongestTimeout \in Nat
  BY TimeoutFits, LongestFacts
<1>2. QED
  BY <1>1

\* A step after which no timer is listed anew, none waits to be armed that was armed and
\* the counter is not behind.
LEMMA ReachStutter ==
  ASSUME Typed, Typed', ExpiryInReach, expires' = expires, jiffies' >= jiffies,
         Listed' \subseteq Listed, Unarmed \subseteq Unarmed'
  PROVE  ExpiryInReach'
<1>1. SUFFICES ASSUME NEW t \in Listed' \ Unarmed'
               PROVE  expires'[t] <= jiffies' + LongestTimeout
  BY DEF ExpiryInReach
<1>2. t \in Timers /\ expires[t] <= jiffies + LongestTimeout
  BY DEF ExpiryInReach, Listed
<1>3. expires[t] \in Nat /\ jiffies \in Nat /\ jiffies' \in Nat /\ LongestTimeout \in Nat
  BY <1>2, LongestFacts, TimerAssumption DEF Typed, TypeOK
<1>4. QED
  BY <1>2, <1>3

\* Where the timers are listed and what waits to be armed, in terms of the state.
LEMMA ListedFacts ==
  ASSUME Typed
  PROVE  /\ \A t \in Timers : t \in Nat \ {0}
         /\ \A t : t \in Listed <=> t \in Timers /\ t <= num
         /\ \A t : t \in Unarmed <=> pc = "zero" /\ t \in Listed /\ t >= k
         /\ k \in Nat \ {0} /\ num \in Nat /\ tk \in Nat /\ jiffies \in Nat
         /\ pc = "zero" /\ k \notin Listed => Unarmed = {}
<1>1. /\ \A t \in Timers : t \in Nat \ {0}
      /\ k \in Nat \ {0} /\ num \in Nat /\ tk \in Nat /\ jiffies \in Nat
  BY TimerAssumption DEF Timers, Typed, TypeOK
<1>2. \A t : t \in Listed <=> t \in Timers /\ t <= num
  BY DEF Listed
<1>3. \A t : t \in Unarmed <=> pc = "zero" /\ t \in Listed /\ t >= k
  BY DEF Unarmed
<1>4. ASSUME k \notin Listed PROVE Unarmed = {}
  <2>1. \A t \in Listed : ~ (t >= k)
    BY <1>1, <1>4, TimerAssumption DEF Listed, Timers
  <2>2. QED
    BY <1>3, <2>1
<1>5. QED
  BY <1>1, <1>2, <1>3, <1>4

LEMMA ReachNext == ASSUME Bounded PROVE ReachInv /\ [Next]_vars => ExpiryInReach'
<1> SUFFICES ASSUME ReachInv, [Next]_vars PROVE ExpiryInReach'
  OBVIOUS
<1>t. Typed /\ Typed' /\ SettingUp /\ ExpiryInReach
  BY TypedNext DEF ReachInv
<1>l. /\ \A t \in Timers : t \in Nat \ {0}
      /\ \A t : t \in Listed <=> t \in Timers /\ t <= num
      /\ k \in Nat \ {0} /\ num \in Nat /\ jiffies \in Nat /\ LongestTimeout \in Nat
      /\ expires \in [Timers -> Nat] /\ timeout \in [Timers -> Nat] /\ jiffies' \in Nat
  <2>1. expires \in [Timers -> Nat] /\ jiffies' \in Nat
    BY <1>t, TimerAssumption DEF Typed, TypeOK
  <2>2. timeout \in [Timers -> Nat]
    BY <1>t, LongestFacts DEF Typed, TypeOK
  <2>3. QED
    BY <1>t, <2>1, <2>2, ListedFacts, LongestFacts
<1>u. pc # "zero" => Unarmed = {}
  BY DEF Unarmed
<1>v. pc' # "zero" => Unarmed' = {}
  BY DEF Unarmed
<1> USE DEF fields, delay, history
<1>1. CASE TimerAdd
  <2>1. k \in Timers /\ pc = "boot" /\ pc' = "boot" /\ num < TIMER_NUM /\ num' = num + 1
    BY <1>1 DEF TimerAdd
  <2>2. k = num + 1
    BY <1>t, <2>1 DEF SettingUp
  <2>3. SUFFICES ASSUME NEW t \in Listed' PROVE expires'[t] <= jiffies' + LongestTimeout
    BY DEF ExpiryInReach
  <2>4. t \in Timers /\ (t = k \/ (t # k /\ t \in Listed))
    BY <1>l, <2>1, <2>2 DEF Listed
  <2>5. CASE t = k
    BY <1>1, <1>t, <1>l, <2>5, <2>4, FreshExpiry DEF TimerAdd
  <2>6. CASE t # k /\ t \in Listed /\ NearEnd(timeout[k])
    <3>1. expires'[t] = timeout[t]
      BY <1>1, <2>4, <2>6 DEF TimerAdd
    <3>2. QED
      BY <1>t, <1>l, <2>4, <3>1, FreshExpiry
  <2>7. CASE t # k /\ t \in Listed /\ ~ NearEnd(timeout[k])
    <3>1. expires'[t] = expires[t] /\ jiffies' = jiffies
      BY <1>1, <2>4, <2>7 DEF TimerAdd
    <3>2. QED
      BY <1>t, <1>u, <2>1, <2>7, <3>1 DEF ExpiryInReach
  <2>8. QED
    BY <2>4, <2>5, <2>6, <2>7
<1>2. CASE TimerAddFull \/ Booted \/ TimerStart \/ RunTimers \/ RunNext \/ FunctionDone
           \/ DelayDisable \/ DelayDone \/ DelayRestore \/ Tick \/ UNCHANGED vars
  <2>1. UNCHANGED <<expires, jiffies, num>>
    BY <1>2 DEF TimerAddFull, Booted, TimerStart, RunTimers, RunNext, FunctionDone, DelayDisable,
                DelayDone, DelayRestore, Tick, vars
  <2>2. pc = "zero" => pc' = "zero" /\ k' = k
    BY <1>2 DEF TimerAddFull, Booted, TimerStart, RunTimers, RunNext, FunctionDone, DelayDisable,
                DelayDone, DelayRestore, Tick, vars
  <2>3. Listed' = Listed /\ Unarmed \subseteq Unarmed'
    BY <2>1, <2>2 DEF Listed, Unarmed
  <2>4. QED
    BY <1>t, <1>l, <2>1, <2>3, ReachStutter
<1>3. ASSUME NEW t \in Settable, NEW a \in Timeouts, SetTimeout(t, a) PROVE ExpiryInReach'
  <2>1. UNCHANGED <<expires, jiffies, num>> /\ pc # "zero"
    BY <1>3 DEF SetTimeout
  <2>2. QED
    BY <1>t, <1>l, <1>u, <2>1, ReachStutter DEF Listed
<1>4. ASSUME NEW t \in Commanded \ Settable, StartAsIs(t) PROVE ExpiryInReach'
  <2>1. UNCHANGED <<expires, jiffies, num>> /\ pc # "zero"
    BY <1>4 DEF StartAsIs
  <2>2. QED
    BY <1>t, <1>l, <1>u, <2>1, ReachStutter DEF Listed
<1>5. ASSUME NEW t \in Commanded, TimerStop(t) PROVE ExpiryInReach'
  <2>1. UNCHANGED <<expires, jiffies, num>> /\ pc # "zero"
    BY <1>5 DEF TimerStop
  <2>2. QED
    BY <1>t, <1>l, <1>u, <2>1, ReachStutter DEF Listed
<1>6. ASSUME NEW m \in Delays, DelayCall(m) PROVE ExpiryInReach'
  <2>1. UNCHANGED <<expires, num>> /\ pc = "main" /\ k' = 1
    BY <1>6 DEF DelayCall
  <2>2. CASE NearEnd(m)
    <3>1. pc' = "zero"
      BY <1>6, <2>2 DEF DelayCall
    <3>2. Unarmed' = Listed'
      BY <1>l, <2>1, <3>1 DEF Unarmed, Listed
    <3>3. QED
      BY <3>2 DEF ExpiryInReach
  <2>3. CASE ~ NearEnd(m)
    <3>1. jiffies' = jiffies
      BY <1>6, <2>3 DEF DelayCall
    <3>2. QED
      BY <1>t, <1>l, <1>u, <2>1, <3>1, ReachStutter DEF Listed
  <2>4. QED
    BY <2>2, <2>3
<1>7. CASE DelayZero
  <2>1. UNCHANGED <<jiffies, num, timeout>> /\ pc = "zero"
    BY <1>7 DEF DelayZero
  <2>2. CASE k \in Listed
    <3>1. expires' = [expires EXCEPT ![k] = timeout[k]] /\ k' = k + 1 /\ pc' = "zero"
      BY <1>7, <2>1, <2>2 DEF DelayZero
    <3>2. SUFFICES ASSUME NEW t \in Listed' \ Unarmed' PROVE expires'[t] <= jiffies' + LongestTimeout
      BY DEF ExpiryInReach
    <3>3. t \in Timers /\ t \in Listed
      BY <2>1 DEF Listed
    <3>4. CASE t = k
      BY <1>t, <1>l, <2>1, <3>1, <3>3, <3>4, FreshExpiry
    <3>5. CASE t # k
      <4>1. t \notin Unarmed
        BY <1>l, <2>1, <3>1, <3>2, <3>3, <3>5 DEF Unarmed, Listed
      <4>2. expires'[t] = expires[t]
        BY <1>l, <3>1, <3>3, <3>5
      <4>3. QED
        BY <1>t, <2>1, <3>3, <4>1, <4>2 DEF ExpiryInReach
    <3>6. QED
      BY <3>4, <3>5
  <2>3. CASE k \notin Listed
    <3>1. expires' = expires /\ Unarmed = {}
      BY <1>7, <1>t, <2>1, <2>3, ListedFacts DEF DelayZero
    <3>2. QED
      BY <1>t, <1>l, <2>1, <3>1, ReachStutter DEF Listed
  <2>4. QED
    BY <2>2, <2>3
<1>8. CASE DelayRead \/ DelayDoneTorn
  <2>1. UNCHANGED <<expires, num>> /\ pc # "zero"
    BY <1>8 DEF DelayRead, DelayDoneTorn
  <2>2. jiffies' = jiffies \/ jiffies' = jiffies + 1
    BY <1>8 DEF DelayRead, DelayDoneTorn, TickInRead
  <2>3. QED
    BY <1>t, <1>l, <1>u, <2>1, <2>2, ReachStutter DEF Listed
<1>9. CASE TickTimer
  <2>1. UNCHANGED <<num, timeout, pc, k>>
    BY <1>9, <1>t, TickTimerCases
  <2>2. Listed' = Listed /\ Unarmed' = Unarmed
    BY <2>1 DEF Listed, Unarmed
  <2>3. CASE ~ Due(tk) /\ UNCHANGED <<jiffies, expires>>
    BY <1>t, <1>l, <2>2, <2>3, ReachStutter
  <2>4. SUFFICES ASSUME Due(tk), NEW t \in Listed \ Unarmed
                 PROVE  expires'[t] <= jiffies' + LongestTimeout
    BY <1>9, <1>t, <2>2, <2>3, TickTimerCases DEF ExpiryInReach
  <2>5. t \in Timers /\ tk \in Timers
    BY <1>9, <1>t, TickTimerCases DEF Listed
  <2>6. CASE NearEnd(timeout[tk])
    <3>1. expires'[t] = timeout[t] /\ jiffies' = 0
      BY <1>9, <1>t, <2>4, <2>5, <2>6, TickTimerCases
    <3>2. QED
      BY <1>t, <2>5, <3>1, FreshExpiry
  <2>7. CASE ~ NearEnd(timeout[tk])
    <3>1. jiffies' = jiffies /\ expires' = [expires EXCEPT ![tk] = timeout[tk] + jiffies]
      BY <1>9, <1>t, <2>4, <2>7, TickTimerCases
    <3>2. CASE t = tk
      BY <1>t, <1>l, <2>5, <3>1, <3>2, FreshExpiry
    <3>3. CASE t # tk
      BY <1>t, <1>l, <2>5, <3>1, <3>3 DEF ExpiryInReach
    <3>4. QED
      BY <3>2, <3>3
  <2>8. QED
    BY <2>6, <2>7
<1>10. CASE TickEnd
  <2>1. UNCHANGED <<expires, num, pc, k>> /\ jiffies < JIFFIES_MAX /\ jiffies' = Wrap(jiffies + 1)
    BY <1>10 DEF TickEnd, Bounded
  <2>2. jiffies' = jiffies + 1
    BY <1>l, <2>1, WrapFacts, TimerAssumption
  <2>3. Listed' = Listed /\ Unarmed' = Unarmed
    BY <2>1 DEF Listed, Unarmed
  <2>4. QED
    BY <1>t, <1>l, <2>1, <2>2, <2>3, ReachStutter
<1>11. CASE Commands
  BY <1>3, <1>4, <1>5, <1>6, <1>11 DEF Commands
<1>12. QED
  BY <1>1, <1>2, <1>7, <1>8, <1>9, <1>10, <1>11 DEF Next, Work, Update

LEMMA ReachInit == Init => ReachInv
<1> SUFFICES ASSUME Init PROVE ReachInv
  OBVIOUS
<1>1. Typed /\ SettingUp
  BY EnableInit DEF EnableInv
<1>2. Listed = {}
  BY TimerAssumption DEF Init, Listed, Timers
<1>3. QED
  BY <1>1, <1>2 DEF ReachInv, ExpiryInReach

\* Whenever the counter is set to 0 the expiries are set again: none is out of its reach,
\* but those that timer_delay_ms is about to set (timer.c:8, 55).
THEOREM ExpiriesInReach == ASSUME Bounded PROVE Spec => []ExpiryInReach
<1>1. ReachInv /\ [Next]_vars => ReachInv'
  BY TypedNext, SettingUpNext, ReachNext DEF ReachInv
<1>2. ReachInv => ExpiryInReach
  BY DEF ReachInv
<1>3. QED
  BY <1>1, <1>2, ReachInit, PTL DEF Spec

----------------------------------------------------------------------------
(* The wait of a timer, as long as the counter does not run over.          *)

\* Before the counter comes near its end, be it for the longest of the timeouts and the
\* delays, it has counted a whole timeout.
Roomy == \A a \in Timeouts \cup Delays : 2 * a + LongestTimeout <= JIFFIES_MAX

\* The counter as a timer has seen it: the handler that has passed the timer has not
\* counted its tick yet.
Reached(t) == jiffies + (IF tk > t THEN 1 ELSE 0)

\* A timer that has waited w with the counter at r and its expiry at e.  Either this is its
\* first timeout, or the counter was started anew and has to count no more than one
\* timeout from its beginning: then it is due before the counter is started anew again.
Fits(w, e, r) ==
  /\ w = 0 \/ r <= e
  /\ \/ w + e <= LongestTimeout + r
     \/ e <= LongestTimeout /\ w + e <= 2 * LongestTimeout + r

Waits(t) ==
  IF t \in Listed
  THEN IF t \in Unarmed THEN waited[t] <= LongestTimeout + Reached(t)
                        ELSE Fits(waited[t], expires[t], Reached(t))
  ELSE waited[t] = 0

Waiting == \A t \in Timers : Waits(t)

DueInv == ReachInv /\ Lasts /\ Waiting

\* What Fits says of the wait.
LEMMA FitsBounds ==
  ASSUME NEW w \in Nat, NEW e \in Nat, NEW r \in Nat, Fits(w, e, r)
  PROVE  w <= 2 * LongestTimeout /\ (r > LongestTimeout => w <= LongestTimeout)
<1>1. LongestTimeout \in Nat
  BY LongestFacts
<1>2. QED
  BY <1>1 DEF Fits

\* A tick more is waited while the counter counts one.
LEMMA FitsTick ==
  ASSUME NEW w \in Nat, NEW e \in Nat, NEW r \in Nat, Fits(w, e, r), r < e,
         NEW ww \in Nat, ww <= w + 1
  PROVE  Fits(ww, e, r + 1)
<1>1. LongestTimeout \in Nat
  BY LongestFacts
<1>2. QED
  BY <1>1 DEF Fits

\* A full timeout, given to a timer that has not waited for more than one.
LEMMA FitsAnew ==
  ASSUME NEW w \in Nat, NEW e \in 1..LongestTimeout, NEW r \in {0, 1}, w <= LongestTimeout + r
  PROVE  Fits(w, e, r)
<1>1. LongestTimeout \in Nat
  BY LongestFacts
<1>2. QED
  BY <1>1 DEF Fits

\* The numbers of a timer.
LEMMA WaitNumbers ==
  ASSUME Typed, NEW t \in Timers
  PROVE  /\ waited[t] \in Nat /\ expires[t] \in Nat /\ Reached(t) \in Nat
         /\ Reached(t) = jiffies \/ Reached(t) = jiffies + 1
BY TimerAssumption DEF Reached, Typed, TypeOK

\* A timer that has not waited after a step.
LEMMA FreshWait ==
  ASSUME Typed', ExpiryInReach', NEW t \in Timers, waited'[t] = 0
  PROVE  Waits(t)'
<1>1. /\ expires'[t] \in Nat /\ jiffies' \in Nat /\ LongestTimeout \in Nat
      /\ Reached(t)' = jiffies' \/ Reached(t)' = jiffies' + 1
  <2>1. expires'[t] \in Nat /\ jiffies' \in Nat
    BY TimerAssumption DEF Typed, TypeOK
  <2>2. Reached(t)' = jiffies' \/ Reached(t)' = jiffies' + 1
    <3>1. \A n \in Nat : n + 0 = n
      OBVIOUS
    <3>2. QED
      BY <2>1, <3>1 DEF Reached
  <2>3. QED
    BY <2>1, <2>2, LongestFacts
<1>2. t \in Listed' \ Unarmed' => expires'[t] <= jiffies' + LongestTimeout
  BY DEF ExpiryInReach
<1>3. QED
  BY <1>1, <1>2 DEF Waits, Fits

\* When the counter has counted a whole timeout, no timer has waited for more than one.
LEMMA Rested ==
  ASSUME Typed, Waiting, jiffies > LongestTimeout, Unarmed = {}, NEW t \in Timers
  PROVE  waited[t] <= LongestTimeout
<1>1. waited[t] \in Nat /\ expires[t] \in Nat /\ Reached(t) \in Nat /\ LongestTimeout \in Nat
  BY WaitNumbers, LongestFacts
<1>2. Reached(t) > LongestTimeout
  <2>1. jiffies \in Nat /\ (Reached(t) = jiffies \/ Reached(t) = jiffies + 1)
    BY WaitNumbers DEF Typed, TypeOK
  <2>2. QED
    BY <1>1, <2>1
<1>3. t \in Listed => Fits(waited[t], expires[t], Reached(t))
  BY DEF Waiting, Waits
<1>4. t \notin Listed => waited[t] = 0
  BY DEF Waiting, Waits
<1>5. QED
  BY <1>1, <1>2, <1>3, <1>4, FitsBounds

\* A step that neither the timer nor the counter takes part in.
LEMMA WaitsStutter ==
  ASSUME NEW t \in Timers, Waits(t), waited'[t] = waited[t], expires'[t] = expires[t],
         Reached(t)' = Reached(t), t \in Listed' <=> t \in Listed, t \in Unarmed' <=> t \in Unarmed
  PROVE  Waits(t)'
BY DEF Waits, Fits

LEMMA WaitingTickTimer ==
  ASSUME Roomy, DueInv, TickTimer, Typed', ExpiryInReach', NEW t \in Timers
  PROVE  Waits(t)'
<1>t. Typed /\ Lasts /\ Waiting /\ Waits(t)
  BY DEF DueInv, ReachInv, Waiting
<1>1. tk \in Timers /\ tk' = tk + 1 /\ tk \in Listed /\ UNCHANGED <<num, timeout, pc, k>>
  BY <1>t, TickTimerCases DEF TickTimer
<1>2. Listed' = Listed /\ Unarmed' = Unarmed
  BY <1>1 DEF Listed, Unarmed
<1>3. /\ tk \in Nat \ {0} /\ t \in Nat \ {0} /\ jiffies \in Nat /\ jiffies' \in Nat
      /\ waited \in [Timers -> Nat] /\ waited' \in [Timers -> Nat]
      /\ LongestTimeout \in Nat \ {0} /\ expires \in [Timers -> Nat]
  <2>1. /\ jiffies \in Nat /\ jiffies' \in Nat /\ expires \in [Timers -> Nat]
        /\ waited \in [Timers -> Nat] /\ waited' \in [Timers -> Nat]
    BY <1>t, TimerAssumption DEF Typed, TypeOK
  <2>2. QED
    BY <1>t, <1>1, <2>1, ListedFacts, LongestFacts
<1>4. waited' = [waited EXCEPT ![tk] = IF enable[tk] /\ ~ Due(tk) THEN Capped(@ + 1) ELSE 0]
  BY <1>t, TickTimerCases
<1>5. CASE t = tk
  <2>1. CASE enable[tk] /\ ~ Due(tk)
    <3>1. UNCHANGED <<jiffies, expires>> /\ jiffies < expires[t]
      BY <1>t, <1>3, <1>5, <2>1, TickTimerCases DEF Due
    <3>2. waited'[t] \in Nat /\ waited'[t] <= waited[t] + 1
      BY <1>3, <1>4, <1>5, <2>1, CappedFacts
    <3>3. Reached(t) = jiffies /\ Reached(t)' = jiffies + 1
      BY <1>1, <1>3, <1>5, <3>1 DEF Reached
    <3>4. CASE t \in Unarmed
      BY <1>t, <1>1, <1>2, <1>3, <1>5, <3>2, <3>3, <3>4 DEF Waits
    <3>5. CASE t \notin Unarmed
      <4>1. Fits(waited[t], expires[t], jiffies)
        BY <1>t, <1>1, <1>5, <3>3, <3>5 DEF Waits
      <4>2. Fits(waited'[t], expires[t], jiffies + 1)
        BY <1>3, <3>1, <3>2, <4>1, FitsTick
      <4>3. QED
        BY <1>1, <1>2, <1>5, <3>1, <3>3, <3>5, <4>2 DEF Waits, Fits
    <3>6. QED
      BY <3>4, <3>5
  <2>2. CASE ~ (enable[tk] /\ ~ Due(tk))
    <3>1. waited'[t] = 0
      BY <1>3, <1>4, <1>5, <2>2
    <3>2. QED
      BY <3>1, FreshWait
  <2>3. QED
    BY <2>1, <2>2
<1>6. CASE t # tk
  <2>1. waited'[t] = waited[t]
    BY <1>3, <1>4, <1>6
  <2>2. tk' > t <=> tk > t
    BY <1>1, <1>3, <1>6
  <2>3. CASE Due(tk) /\ NearEnd(timeout[tk])
    <3>1. /\ jiffies' = 0
          /\ expires' = [u \in Timers |-> IF u \in Listed THEN timeout[u] ELSE expires[u]]
      BY <1>t, <2>3, TickTimerCases
    <3>2. JIFFIES_MAX - jiffies < 2 * timeout[tk] /\ 2 * timeout[tk] <= JIFFIES_MAX
          /\ timeout[tk] \in Nat /\ timeout[tk] \in Timeouts
      <4>1. timeout[tk] \in Timeouts
        BY <1>t, <1>1 DEF Typed, TypeOK
      <4>2. QED
        BY <2>3, <4>1, LongestFacts DEF NearEnd
    <3>3. Unarmed = {}
      <4>1. pc = "zero" => jiffies = 0
        BY <1>t, <1>1, <1>3 DEF Lasts, Counting, Typed, TypeOK
      <4>2. jiffies # 0
        BY <3>2, TimerAssumption
      <4>3. QED
        BY <4>1, <4>2 DEF Unarmed
    <3>4. CASE t \in Listed
      <4>1. jiffies > LongestTimeout
        <5>1. 2 * timeout[tk] + LongestTimeout <= JIFFIES_MAX
          BY <3>2 DEF Roomy
        <5>2. QED
          BY <1>3, <3>2, <5>1, TimerAssumption
      <4>2. waited[t] <= LongestTimeout
        BY <1>t, <3>3, <4>1, Rested
      <4>3. expires'[t] = timeout[t] /\ timeout[t] \in 1..LongestTimeout
        BY <1>t, <3>1, <3>4, TimeoutFits
      <4>4. Reached(t)' \in {0, 1}
        BY <3>1 DEF Reached
      <4>5. Fits(waited[t], timeout[t], Reached(t)')
        BY <1>3, <4>2, <4>3, <4>4, FitsAnew
      <4>6. QED
        BY <1>2, <2>1, <3>3, <3>4, <4>3, <4>5 DEF Waits, Fits
    <3>5. CASE t \notin Listed
      BY <1>t, <1>2, <2>1, <3>5 DEF Waits
    <3>6. QED
      BY <3>4, <3>5
  <2>4. CASE ~ (Due(tk) /\ NearEnd(timeout[tk]))
    <3>1. jiffies' = jiffies /\ expires'[t] = expires[t]
      BY <1>t, <1>1, <1>3, <1>6, <2>4, TickTimerCases
    <3>2. Reached(t)' = Reached(t)
      BY <2>2, <3>1 DEF Reached
    <3>3. QED
      BY <1>t, <1>2, <2>1, <3>1, <3>2, WaitsStutter
  <2>5. QED
    BY <2>3, <2>4
<1>7. QED
  BY <1>5, <1>6

\* A timer that is given its full timeout before it has waited for more than one.
LEMMA WaitingDelayZero ==
  ASSUME DueInv, DelayZero, NEW t \in Timers
  PROVE  Waits(t)'
<1>t. Typed /\ Lasts /\ Waits(t) /\ t \in Nat /\ k \in Nat /\ jiffies \in Nat /\ num \in Nat
  BY ListedFacts DEF DueInv, ReachInv, Waiting
<1>1. UNCHANGED <<num, jiffies, timeout, tk, waited>> /\ pc = "zero"
  BY DEF DelayZero, history
<1>2. Listed' = Listed /\ Reached(t)' = Reached(t)
  BY <1>1 DEF Listed, Reached
<1>3. CASE k \notin Listed
  <2>1. expires' = expires /\ pc' = "disable"
    BY <1>3 DEF DelayZero
  <2>2. Unarmed = {} /\ Unarmed' = {}
    BY <1>t, <1>1, <1>3, <2>1, ListedFacts DEF Unarmed
  <2>3. QED
    BY <1>t, <1>1, <1>2, <2>1, <2>2, WaitsStutter
<1>4. CASE k \in Listed
  <2>1. expires' = [expires EXCEPT ![k] = timeout[k]] /\ k' = k + 1 /\ pc' = "zero"
    BY <1>1, <1>4 DEF DelayZero
  <2>2. expires \in [Timers -> 0..JIFFIES_MAX]
    BY <1>t DEF Typed, TypeOK
  <2>3. t \in Unarmed' <=> t \in Unarmed /\ t # k
    BY <1>t, <1>1, <1>2, <1>4, <2>1 DEF Unarmed, Listed
  <2>4. CASE t = k
    <3>1. t \in Unarmed /\ t \in Listed
      BY <1>t, <1>1, <1>4, <2>4 DEF Unarmed
    <3>2. waited[t] \in Nat /\ waited[t] <= LongestTimeout + Reached(t)
      BY <1>t, <3>1, WaitNumbers DEF Waits
    <3>3. Reached(t) \in {0, 1}
      <4>1. jiffies + Counting <= drift /\ drift \in {0, 1} /\ tk \in Nat
        BY <1>t, <1>1 DEF Lasts, Typed, TypeOK
      <4>2. Reached(t) <= jiffies + Counting /\ Reached(t) \in Nat
        BY <1>t, <4>1 DEF Reached, Counting
      <4>3. Counting \in Nat
        BY DEF Counting
      <4>4. QED
        BY <1>t, <4>1, <4>2, <4>3
    <3>4. expires'[t] = timeout[t] /\ timeout[t] \in 1..LongestTimeout
      BY <1>t, <2>1, <2>2, <2>4, TimeoutFits
    <3>5. Fits(waited[t], timeout[t], Reached(t))
      BY <3>2, <3>3, <3>4, FitsAnew
    <3>6. QED
      BY <1>1, <1>2, <2>3, <2>4, <3>1, <3>4, <3>5 DEF Waits, Fits
  <2>5. CASE t # k
    <3>1. expires'[t] = expires[t]
      BY <2>1, <2>2, <2>5
    <3>2. QED
      BY <1>t, <1>1, <1>2, <2>3, <2>5, <3>1, WaitsStutter
  <2>6. QED
    BY <2>4, <2>5
<1>5. QED
  BY <1>3, <1>4

LEMMA WaitingDelayCall ==
  ASSUME Roomy, DueInv, NEW m \in Delays, DelayCall(m), NEW t \in Timers
  PROVE  Waits(t)'
<1>t. /\ Typed /\ Waiting /\ Waits(t) /\ t \in Nat \ {0} /\ jiffies \in Nat
      /\ LongestTimeout \in Nat /\ waited[t] \in Nat
  BY ListedFacts, LongestFacts, WaitNumbers DEF DueInv, ReachInv, Waiting
<1>1. UNCHANGED <<num, expires, tk, waited>> /\ tk = 0 /\ pc = "main" /\ k' = 1
  BY DEF DelayCall, fields
<1>2. Listed' = Listed /\ Unarmed = {}
  BY <1>1 DEF Listed, Unarmed
<1>3. CASE NearEnd(m)
  <2>1. jiffies' = 0 /\ pc' = "zero"
    BY <1>3 DEF DelayCall
  <2>2. jiffies > LongestTimeout
    <3>1. /\ m \in Nat /\ JIFFIES_MAX \in Nat /\ JIFFIES_MAX - jiffies < 2 * m
          /\ 2 * m + LongestTimeout <= JIFFIES_MAX
      BY <1>3, TimerAssumption DEF NearEnd, Roomy
    <3>2. QED
      BY <1>t, <3>1
  <2>3. waited[t] <= LongestTimeout
    BY <1>t, <1>2, <2>2, Rested
  <2>4. Reached(t)' = 0
    BY <1>t, <1>1, <2>1 DEF Reached
  <2>5. t \in Listed => t \in Unarmed'
    BY <1>t, <1>1, <1>2, <2>1 DEF Unarmed
  <2>6. QED
    BY <1>t, <1>1, <1>2, <2>3, <2>4, <2>5 DEF Waits
<1>4. CASE ~ NearEnd(m)
  <2>1. jiffies' = jiffies /\ pc' = "disable"
    BY <1>4 DEF DelayCall
  <2>2. Reached(t)' = Reached(t) /\ Unarmed' = {}
    BY <1>1, <2>1 DEF Reached, Unarmed
  <2>3. QED
    BY <1>t, <1>1, <1>2, <2>2, WaitsStutter
<1>5. QED
  BY <1>3, <1>4

LEMMA WaitingNext == ASSUME Bounded, Roomy PROVE DueInv /\ [Next]_vars => Waiting'
<1> SUFFICES ASSUME DueInv, [Next]_vars, NEW t \in Timers PROVE Waits(t)'
  BY DEF Waiting
<1>t. /\ Typed /\ SettingUp /\ Waits(t) /\ t \in Nat \ {0}
      /\ Typed' /\ ExpiryInReach'
  BY TypedNext, ReachNext, ListedFacts DEF DueInv, ReachInv, Waiting
<1>u. /\ pc # "zero" => Unarmed = {}
      /\ pc' # "zero" => Unarmed' = {}
  BY DEF Unarmed
<1> USE DEF fields, delay, history
<1>1. CASE TimerAdd
  <2>1. waited' = waited /\ pc = "boot"
    BY <1>1 DEF TimerAdd
  <2>2. QED
    BY <1>t, <2>1, FreshWait DEF SettingUp
<1>2. CASE TimerAddFull \/ Booted \/ TimerStart \/ RunTimers \/ RunNext \/ FunctionDone
           \/ DelayDisable \/ DelayDone \/ DelayRestore
  <2>1. UNCHANGED <<expires, jiffies, num, waited, tk>>
    BY <1>2 DEF TimerAddFull, Booted, TimerStart, RunTimers, RunNext, FunctionDone, DelayDisable,
                DelayDone, DelayRestore
  <2>2. pc # "zero" /\ pc' # "zero"
    BY <1>2 DEF TimerAddFull, Booted, TimerStart, RunTimers, RunNext, FunctionDone, DelayDisable,
                DelayDone, DelayRestore
  <2>3. Listed' = Listed /\ Reached(t)' = Reached(t)
    BY <2>1 DEF Listed, Reached
  <2>4. QED
    BY <1>t, <1>u, <2>1, <2>2, <2>3, WaitsStutter
<1>3. CASE (\E c \in Settable, a \in Timeouts : SetTimeout(c, a))
           \/ (\E c \in Commanded \ Settable : StartAsIs(c)) \/ (\E c \in Commanded : TimerStop(c))
  <2>1. UNCHANGED <<expires, jiffies, num, waited, tk>> /\ pc # "zero" /\ pc' # "zero"
    BY <1>3 DEF SetTimeout, StartAsIs, TimerStop
  <2>2. Listed' = Listed /\ Reached(t)' = Reached(t)
    BY <2>1 DEF Listed, Reached
  <2>3. QED
    BY <1>t, <1>u, <2>1, <2>2, WaitsStutter
<1>4. CASE \E m \in Delays : DelayCall(m)
  BY <1>4, WaitingDelayCall
<1>5. CASE DelayZero
  BY <1>5, WaitingDelayZero
<1>6. CASE DelayRead \/ DelayDoneTorn
  <2>1. UNCHANGED <<num, expires, tk>> /\ pc # "zero" /\ pc' # "zero"
    BY <1>6 DEF DelayRead, DelayDoneTorn
  <2>2. CASE UNCHANGED <<jiffies, waited>>
    <3>1. Listed' = Listed /\ Reached(t)' = Reached(t)
      BY <2>1, <2>2 DEF Listed, Reached
    <3>2. QED
      BY <1>t, <1>u, <2>1, <2>2, <3>1, WaitsStutter
  <2>3. CASE TickInRead
    BY <1>t, <2>3, FreshWait DEF TickInRead
  <2>4. QED
    BY <1>6, <2>2, <2>3 DEF DelayRead, DelayDoneTorn
<1>7. CASE Tick
  <2>1. UNCHANGED <<expires, jiffies, num, waited, pc, k>> /\ tk = 0 /\ tk' = 1
    BY <1>7 DEF Tick
  <2>2. Listed' = Listed /\ Unarmed' = Unarmed
    BY <2>1 DEF Listed, Unarmed
  <2>3. Reached(t)' = Reached(t)
    BY <1>t, <2>1 DEF Reached
  <2>4. QED
    BY <1>t, <2>1, <2>2, <2>3, WaitsStutter
<1>8. CASE TickTimer
  BY <1>8, <1>t, WaitingTickTimer
<1>9. CASE TickEnd
  <2>1. /\ UNCHANGED <<expires, num, waited, pc, k>> /\ tk > num /\ tk' = 0
        /\ jiffies < JIFFIES_MAX /\ jiffies' = Wrap(jiffies + 1)
    BY <1>9 DEF TickEnd, Bounded
  <2>2. jiffies' = jiffies + 1 /\ jiffies \in Nat /\ num \in Nat /\ tk \in Nat
    BY <1>t, <2>1, WrapFacts, ListedFacts, TimerAssumption
  <2>3. Listed' = Listed /\ Unarmed' = Unarmed
    BY <2>1 DEF Listed, Unarmed
  <2>4. CASE t \in Listed
    <3>1. t <= num
      BY <2>4 DEF Listed
    <3>2. Reached(t)' = Reached(t)
      BY <1>t, <2>1, <2>2, <3>1 DEF Reached
    <3>3. QED
      BY <1>t, <2>1, <2>3, <3>2, WaitsStutter
  <2>5. CASE t \notin Listed
    BY <1>t, <2>1, <2>3, <2>5 DEF Waits
  <2>6. QED
    BY <2>4, <2>5
<1>10. CASE UNCHANGED vars
  <2>1. UNCHANGED <<expires, jiffies, num, waited, tk, pc, k>>
    BY <1>10 DEF vars
  <2>2. Listed' = Listed /\ Unarmed' = Unarmed /\ Reached(t)' = Reached(t)
    BY <2>1 DEF Listed, Unarmed, Reached
  <2>3. QED
    BY <1>t, <2>1, <2>2, WaitsStutter
<1>11. QED
  BY <1>1, <1>2, <1>3, <1>4, <1>5, <1>6, <1>7, <1>8, <1>9, <1>10 DEF Next, Commands, Work, Update

LEMMA DueInit == Init => DueInv
<1> SUFFICES ASSUME Init PROVE DueInv
  OBVIOUS
<1>1. Listed = {}
  BY TimerAssumption DEF Init, Listed, Timers
<1>2. \A t \in Timers : waited[t] = 0
  BY DEF Init
<1>3. QED
  BY <1>1, <1>2, ReachInit, LastsInit DEF DueInv, Waiting, Waits

LEMMA DueNext == ASSUME Bounded, Roomy PROVE DueInv /\ [Next]_vars => DueInv'
  BY TypedNext, SettingUpNext, LastsNext, ReachNext, WaitingNext DEF DueInv, ReachInv

\* The invariant bounds the waits.
LEMMA DueBound == DueInv => DueInTime
<1> SUFFICES ASSUME DueInv, NEW t \in Timers PROVE waited[t] <= 2 * LongestTimeout
  BY DEF DueInTime
<1>1. Typed /\ Lasts /\ Waits(t)
  BY DEF DueInv, ReachInv, Waiting
<1>2. /\ waited[t] \in Nat /\ expires[t] \in Nat /\ Reached(t) \in Nat
      /\ LongestTimeout \in Nat \ {0}
  BY <1>1, WaitNumbers, LongestFacts
<1>3. CASE t \in Listed /\ t \notin Unarmed
  BY <1>1, <1>2, <1>3, FitsBounds DEF Waits
<1>4. CASE t \in Listed /\ t \in Unarmed
  <2>1. pc = "zero" /\ waited[t] <= LongestTimeout + Reached(t)
    BY <1>1, <1>4 DEF Waits, Unarmed
  <2>2. jiffies + Counting <= drift /\ drift \in {0, 1} /\ jiffies \in Nat /\ tk \in Nat /\ t \in Nat
    BY <1>1, <2>1, ListedFacts DEF Lasts, Typed, TypeOK
  <2>3. Counting \in Nat /\ Reached(t) <= jiffies + Counting
    BY <2>2 DEF Counting, Reached
  <2>4. Reached(t) <= 1
    BY <1>2, <2>2, <2>3
  <2>5. QED
    BY <1>2, <2>1, <2>4
<1>5. CASE t \notin Listed
  BY <1>1, <1>2, <1>5 DEF Waits
<1>6. QED
  BY <1>3, <1>4, <1>5

\* A timer that stays enabled is due after at most two of the longest timeouts, however
\* often another timer or a delay starts the counter anew (timer.c:10-29, 135, 184-188).
THEOREM TimersDueInTime == ASSUME Bounded, Roomy PROVE Spec => []DueInTime
  BY DueInit, DueNext, DueBound, PTL DEF Spec
=============================================================================
