-------------------------------- MODULE Boot --------------------------------
(***************************************************************************)
(* main.c: from a reset to the three tasks it creates, and the independent  *)
(* watchdog, which counts whatever the processor does. Time passes in ticks *)
(* of 200 ms, the period of diag_task; what a task does without waiting     *)
(* takes no tick, except network_init, which may take any number of them.   *)
(* A reset clears every variable of the program.                            *)
(***************************************************************************)
EXTENDS Integers

CONSTANTS Prescaler, Reload,   \* hiwdg.Init
          LsiHz,               \* the clock of the watchdog
          WaitMs               \* the osDelay before modbus_tcp_start

TickMs == 200

ASSUME BootAssumption == {Prescaler, Reload, LsiHz, WaitMs} \subseteq Nat \ {0}

Off == -1
ShortMutant == (Reload * 4 * 1000) \div (LsiHz * TickMs)
PeriodTicks == (Reload * Prescaler * 1000) \div (LsiHz * TickMs)
WaitTicks == WaitMs \div TickMs

VARIABLES main,     \* where main is
          halted,   \* Error_Handler, a fault handler or configASSERT loops
          dog,      \* ticks until the watchdog resets the board
          diag,     \* diag_task is in its delay
          net,      \* where network_task is
          stack,    \* tcpip_init has returned
          netDone,  \* network_init_completed
          modbus,   \* where modbus_task is
          wait,     \* ticks left of its first delay
          spent     \* history: ticks that tcpip_init took, up to WaitTicks

tasks == <<diag, net, stack, netDone, modbus, wait, spent>>
vars == <<main, halted, dog, tasks>>

TypeOK ==
    /\ main \in {"peripherals", "watchdog", "create", "running"}
    /\ halted \in BOOLEAN /\ diag \in BOOLEAN /\ stack \in BOOLEAN /\ netDone \in BOOLEAN
    /\ dog \in {Off} \cup 0..PeriodTicks
    /\ net \in {"none", "tcpip", "adin", "poll", "hung"}
    /\ modbus \in {"none", "delay", "start", "accept", "returned", "asserted"}
    /\ wait \in 0..WaitTicks /\ spent \in 0..WaitTicks

Init ==
    /\ main = "peripherals" /\ halted = FALSE /\ dog = Off
    /\ diag = FALSE /\ net = "none" /\ stack = FALSE /\ netDone = FALSE
    /\ modbus = "none" /\ wait = WaitTicks /\ spent = 0
-----------------------------------------------------------------------------
(* main.                                                                    *)

\* HAL_Init to MX_USART1_UART_Init; Error_Handler when one of them fails.
InitPeripherals ==
    /\ main = "peripherals" /\ ~halted
    /\ \/ main' = "watchdog" /\ UNCHANGED halted
       \/ halted' = TRUE /\ UNCHANGED main
    /\ UNCHANGED <<dog, tasks>>

\* MX_IWDG_Init: HAL_IWDG_Init starts the counter before it waits for the
\* registers, which may time out.
NotStartedMutant ==
    /\ main = "watchdog" /\ ~halted /\ UNCHANGED dog
    /\ \/ main' = "create" /\ UNCHANGED halted
       \/ halted' = TRUE /\ UNCHANGED main
    /\ UNCHANGED tasks
StartWatchdog ==
    /\ main = "watchdog" /\ ~halted /\ dog' = PeriodTicks
    /\ \/ main' = "create" /\ UNCHANGED halted
       \/ halted' = TRUE /\ UNCHANGED main
    /\ UNCHANGED tasks

CreateTasks ==
    /\ main = "create" /\ ~halted
    /\ main' = "running" /\ net' = "tcpip" /\ modbus' = "delay"
    /\ UNCHANGED <<halted, dog, diag, stack, netDone, wait, spent>>
-----------------------------------------------------------------------------
(* The tasks.                                                               *)

Runs == main = "running" /\ ~halted

\* One round of diag_task: it waits, and does nothing else.
DiagLoop == Runs /\ ~diag /\ diag' = TRUE /\ UNCHANGED <<main, halted, dog, net, stack, netDone, modbus, wait, spent>>

NetStack ==
    /\ Runs /\ net = "tcpip" /\ net' = "adin" /\ stack' = TRUE
    /\ UNCHANGED <<main, halted, dog, diag, netDone, modbus, wait, spent>>

\* The rest of network_init: it returns, succeed or not, or waits for ever for a
\* bit of the ADIN1110.
NetAdin ==
    /\ Runs /\ net = "adin"
    /\ \/ net' = "poll" /\ netDone' = TRUE
       \/ net' = "hung" /\ UNCHANGED netDone
    /\ UNCHANGED <<main, halted, dog, diag, stack, modbus, wait, spent>>

NoDelayMutant ==
    /\ Runs /\ modbus = "delay" /\ modbus' = "start"
    /\ UNCHANGED <<main, halted, dog, diag, net, stack, netDone, wait, spent>>
ModbusWake ==
    /\ Runs /\ modbus = "delay" /\ wait = 0 /\ modbus' = "start"
    /\ UNCHANGED <<main, halted, dog, diag, net, stack, netDone, wait, spent>>

\* modbus_tcp_start: it accepts connections for ever, or gives up when it gets no
\* memory or no socket. Ahead of the stack it gets no socket from a pool that is
\* not there yet, or loops in the assertion that the core lock exists.
ModbusStart ==
    /\ Runs /\ modbus = "start"
    /\ modbus' \in {"returned", IF stack THEN "accept" ELSE "asserted"}
    /\ UNCHANGED <<main, halted, dog, diag, net, stack, netDone, wait, spent>>

\* A fault or a failed assertion anywhere in a task.
Fault == Runs /\ halted' = TRUE /\ UNCHANGED <<main, dog, tasks>>
-----------------------------------------------------------------------------
(* Time.                                                                    *)

\* Nothing has to happen before the next tick.
Idle == Runs /\ diag /\ modbus # "start" /\ (modbus = "delay" => wait > 0)

\* The expiry of a delay is a step of its own: the counter stops at 0.
Tick ==
    /\ halted \/ Idle
    /\ dog # 0 /\ dog' = IF dog = Off THEN Off ELSE dog - 1
    /\ IF halted THEN UNCHANGED <<diag, wait, spent>>
       ELSE /\ diag' = FALSE /\ wait' = IF wait > 0 THEN wait - 1 ELSE 0
            /\ spent' = IF net = "tcpip" /\ spent < WaitTicks THEN spent + 1 ELSE spent
    /\ UNCHANGED <<main, halted, net, stack, netDone, modbus>>

\* The watchdog resets the board, itself included.
Reset ==
    /\ dog = 0
    /\ main' = "peripherals" /\ halted' = FALSE /\ dog' = Off
    /\ diag' = FALSE /\ net' = "none" /\ stack' = FALSE /\ netDone' = FALSE
    /\ modbus' = "none" /\ wait' = WaitTicks /\ spent' = 0

MainStep == InitPeripherals \/ StartWatchdog \/ CreateTasks
NetStep == NetStack \/ NetAdin
ModbusStep == ModbusWake \/ ModbusStart

Next == MainStep \/ DiagLoop \/ NetStep \/ ModbusStep \/ Fault \/ Tick \/ Reset

Spec == Init /\ [][Next]_vars

\* Every ready task gets its slice, and time passes.
FairSpec == Spec /\ WF_vars(MainStep) /\ WF_vars(DiagLoop) /\ WF_vars(NetStack)
                 /\ WF_vars(ModbusStep) /\ WF_vars(Tick) /\ WF_vars(Reset)
-----------------------------------------------------------------------------
(* Properties.                                                              *)

\* modbus_task waits for a time (main.c:514) and not for network_task: it reaches
\* modbus_tcp_start ahead of the stack when tcpip_init took all of that time, and
\* only then. Without the stack it never accepts.
Ahead == modbus \notin {"none", "delay"} /\ ~stack
StackFirst == /\ Ahead => spent = WaitTicks
              /\ modbus = "accept" => stack

\* Whatever stops the program or one of its tasks from MX_IWDG_Init on ends in a
\* reset: a fault, a wait for ever in network_init (main.c:492), a
\* modbus_tcp_start that gave up or ran into an assertion (main.c:520).
Stuck == halted \/ net = "hung" \/ modbus \in {"returned", "asserted"}
Recovers == Stuck /\ main # "peripherals" ~> main = "peripherals"

\* When faults come to an end the server is back again and again (main.c:520),
\* through every reset: the watchdog's period is enough to start it.
Serves == <>[]~Stuck => []<>(modbus = "accept")

\* "do diagnosis, watchdog, led blinking, ..." (main.c:475): diag_task keeps the
\* watchdog from resetting a board on which every task runs.
NoReset == [][Reset => Stuck]_vars

\* What holds in every state: the server is ahead of the stack only when that took
\* the whole delay of modbus_task (main.c:514).
BootInv == TypeOK /\ StackFirst
=============================================================================
