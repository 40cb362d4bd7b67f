----------------------------- MODULE BootProofs -----------------------------
(***************************************************************************)
(* What holds of main.c and its tasks for every clock, watchdog period and  *)
(* delay, and however long tcpip_init takes: modbus_task gets ahead of the  *)
(* stack only when tcpip_init took as long as its delay, and then it does   *)
(* not serve. Nothing but time orders the two tasks, so the invariant ties  *)
(* the ticks that network_task spent to what is left of that delay.         *)
(***************************************************************************)
EXTENDS Boot, TLAPS

\* Before the tasks are created none of them has moved.
NotYet == main # "running" => net = "none" /\ modbus = "none" /\ wait = WaitTicks /\ spent = 0

\* While network_task is in tcpip_init both count the same ticks; afterwards the
\* stack is there.
InTime ==
    /\ main = "running" => net # "none"
    /\ net = "tcpip" => WaitTicks - wait = spent
    /\ net \in {"adin", "poll", "hung"} => stack

BootIInv == TypeOK /\ StackFirst /\ NotYet /\ InTime
-----------------------------------------------------------------------------
\* The watchdog's period and the delay before modbus_tcp_start are numbers of
\* ticks (main.c:514).
LEMMA TicksAreNumbers ==
    PeriodTicks \in Nat /\ WaitTicks \in Nat
<1>1. \A a \in Nat, b \in Nat \ {0} : a \div b \in Nat
  OBVIOUS
<1>2. \A a, b \in Nat : a * b \in Nat
  OBVIOUS
<1>3. LsiHz * TickMs \in Nat \ {0}
  BY BootAssumption DEF TickMs
<1>4. Reload * Prescaler * 1000 \in Nat
  BY <1>2, BootAssumption
<1>5. PeriodTicks \in Nat
  BY <1>1, <1>3, <1>4 DEF PeriodTicks
<1>6. WaitTicks \in Nat
  BY <1>1, BootAssumption DEF WaitTicks, TickMs
<1> QED
  BY <1>5, <1>6

\* A reset leaves the program where the invariant holds.
LEMMA InitBoot == Init => BootIInv
<1> SUFFICES ASSUME Init PROVE BootIInv
  OBVIOUS
<1>1. dog \in {Off} \cup 0..PeriodTicks
  BY DEF Init
<1>2. wait \in 0..WaitTicks /\ spent \in 0..WaitTicks
  BY TicksAreNumbers DEF Init
<1> QED
  BY <1>1, <1>2 DEF Init, BootIInv, TypeOK, StackFirst, Ahead, NotYet, InTime

\* Every step of main, of a task, of the clock and of the watchdog preserves it;
\* the step that matters is ModbusWake, at the end of the delay (main.c:514).
LEMMA NextBoot == BootIInv /\ [Next]_vars => BootIInv'
<1> SUFFICES ASSUME BootIInv, [Next]_vars PROVE BootIInv'
  OBVIOUS
<1> USE TicksAreNumbers DEF BootIInv, TypeOK, StackFirst, Ahead, NotYet, InTime
<1>1. CASE InitPeripherals
  BY <1>1 DEF InitPeripherals, tasks
<1>2. CASE StartWatchdog
  <2>1. dog' \in {Off} \cup 0..PeriodTicks
    BY <1>2 DEF StartWatchdog
  <2> QED
    BY <1>2, <2>1 DEF StartWatchdog, tasks
<1>3. CASE CreateTasks
  BY <1>3 DEF CreateTasks
<1>4. CASE DiagLoop
  BY <1>4 DEF DiagLoop
<1>5. CASE NetStack
  BY <1>5 DEF NetStack, Runs
<1>6. CASE NetAdin
  BY <1>6 DEF NetAdin, Runs
<1>7. CASE ModbusWake
  <2>1. main = "running" /\ wait = 0
    BY <1>7 DEF ModbusWake, Runs
  <2>2. stack \/ spent = WaitTicks
    BY <2>1
  <2> QED
    BY <1>7, <2>2 DEF ModbusWake, Runs
<1>8. CASE ModbusStart
  BY <1>8 DEF ModbusStart, Runs
<1>9. CASE Fault
  BY <1>9 DEF Fault, Runs, tasks
<1>10. CASE Tick
  <2>1. dog' \in {Off} \cup 0..PeriodTicks
    BY <1>10 DEF Tick, Off
  <2>2. CASE halted
    BY <1>10, <2>1, <2>2 DEF Tick
  <2>3. CASE ~halted
    <3>1. /\ Idle /\ wait' = IF wait > 0 THEN wait - 1 ELSE 0
          /\ spent' = IF net = "tcpip" /\ spent < WaitTicks THEN spent + 1 ELSE spent
      BY <1>10, <2>3 DEF Tick
    <3>2. wait' \in 0..WaitTicks /\ spent' \in 0..WaitTicks
      BY <3>1
    <3>3. net = "tcpip" => WaitTicks - wait' = spent'
      BY <3>1
    <3>4. spent = WaitTicks => spent' = WaitTicks
      BY <3>1
    <3> QED
      BY <1>10, <2>1, <2>3, <3>1, <3>2, <3>3, <3>4 DEF Tick, Idle, Runs
  <2> QED
    BY <2>2, <2>3
<1>11. CASE Reset
  <2>1. dog' \in {Off} \cup 0..PeriodTicks
    BY <1>11 DEF Reset
  <2>2. wait' \in 0..WaitTicks /\ wait' = WaitTicks /\ spent' \in 0..WaitTicks
    BY <1>11 DEF Reset
  <2> QED
    BY <1>11, <2>1, <2>2 DEF Reset
<1>12. CASE UNCHANGED vars
  BY <1>12 DEF vars, tasks
<1> QED
  BY <1>1, <1>2, <1>3, <1>4, <1>5, <1>6, <1>7, <1>8, <1>9, <1>10, <1>11, <1>12
     DEF Next, MainStep, NetStep, ModbusStep

\* For every delay and watchdog period, any number of resets, and whatever time
\* tcpip_init takes: modbus_task gets ahead of the stack only when that time is its
\* whole delay (main.c:514), and it never accepts without the stack.
THEOREM ServesAfterStack == Spec => []BootInv
<1>1. Spec => []BootIInv
  BY InitBoot, NextBoot, PTL DEF Spec
<1>2. BootIInv => BootInv
  BY DEF BootIInv, BootInv
<1> QED
  BY <1>1, <1>2, PTL
=============================================================================
