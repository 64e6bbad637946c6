------------------------------ MODULE Connection ------------------------------
(***************************************************************************)
(* The connection between two nodes (entities/node.cpp): the handshakes    *)
(* that open and close it, the keep-alive that watches it, and what the    *)
(* waiting for an acknowledgment of data does to it.                       *)
(*                                                                         *)
(* Three threads of a node share its phase, its flags and one thread       *)
(* object: the command line (cli), which blocks in a command; the receive  *)
(* thread (rx), which handles one packet at a time and blocks when it      *)
(* joins the keep-alive thread; and the keep-alive thread (ka).  A handler *)
(* is cut into steps where a step of another thread in between matters.    *)
(*                                                                         *)
(* The data path is here one text that fits in a packet, DATA, with its    *)
(* acknowledgment: enough to see what the two mechanisms do to each other. *)
(* Windows and fragments are in Transfer.                                  *)
(*                                                                         *)
(* Definitions marked "mutation" are plausible slips in the code next to   *)
(* which they stand; no part of Next uses them.                            *)
(***************************************************************************)
EXTENDS Tcu, Sequences, SequencesExt

CONSTANTS
    Node,            \* the two peers
    ConfirmTimeout,  \* TCU_CONFIRM_TIMEOUT_INTERVAL, in ticks of five seconds
    AttemptInterval, \* TCU_ACTIVITY_ATTEMPT_INTERVAL
    ReceiveTimeout,  \* TCU_RECEIVE_TIMEOUT_INTERVAL, for all the attempts
    IdleInterval,    \* TCU_ACTIVITY_TIMEOUT_INTERVAL
    MaxCommands,     \* bound: commands per node
    Scenario         \* bound: what the users do and how often each fault may strike

\* What can go wrong: packets lost, duplicated or overtaken, a tick of the
\* clock while a packet is on its way, and a program that exits or crashes.
Fault == {"lose", "duplicate", "reorder", "slow", "exit"}

MaxAttempts == 3                               \* TCU_ACTIVITY_ATTEMPT_COUNT
Recent      == MaxAttempts * AttemptInterval   \* is_activity_recent

ASSUME NodeAssumption   == \E a, b \in Node : a # b /\ Node = {a, b}
\* The order of the intervals of tcu.h; a run may shorten them, not reorder them.
ASSUME TimerAssumption  ==
    /\ ConfirmTimeout \in Nat \ {0} /\ AttemptInterval \in Nat \ {0}
    /\ ReceiveTimeout \in Nat /\ ReceiveTimeout > Recent /\ ReceiveTimeout > ConfirmTimeout
    /\ IdleInterval \in Nat /\ IdleInterval > ReceiveTimeout
\* The nodes whose users connect, disconnect and send texts, and the faults.
ASSUME BoundsAssumption ==
    /\ MaxCommands \in Nat
    /\ Scenario \subseteq [connect : SUBSET Node, disconnect : SUBSET Node,
                           talk : SUBSET Node, faults : [Fault -> Nat]]

Peer(n) == CHOOSE m \in Node : m # n

\* A packet is its flags; DATA is a text in one packet.
DATA == Single("text")

CliPc == {"idle", "connect", "disconnect", "wait", "expired", "stop", "join"}
Joins == {"accept", "start", "fin_join", "closed_join"}
RxPc  == {"select", "greet", "greeted", "acked", "fin_ack", "fin_acked"} \cup Joins
KaPc  == {"none", "sleep", "probe", "await", "quit", "done"}

VARIABLES
    running,      \* whether the program of each node runs
    phase,        \* _pcb.phase
    ack_received, \* _ack_received
    ka_running,   \* _keep_alive_running
    cli,          \* where the command line thread is
    rx,           \* where the receive thread is
    ka,           \* where the thread in _keep_alive_thread is
    attempt,      \* how many probes it has sent in a row
    cli_timer,    \* ticks until the command line thread stops waiting
    ka_timer,     \* ticks until the keep-alive thread stops sleeping
    age,          \* ticks since _pcb.last_activity, up to IdleInterval
    net,          \* packets on their way to each node
    scenario,     \* which of the scenarios this behaviour is
    struck,       \* how often each fault has struck
    commands      \* commands given so far

keeper == <<ka, attempt, ka_timer>>
line   == <<cli, cli_timer>>
faults == <<scenario, struck>>
bounds == <<faults, commands>>
vars == <<running, phase, ack_received, ka_running, cli, rx, ka, attempt,
          cli_timer, ka_timer, age, net, scenario, struck, commands>>

-----------------------------------------------------------------------------
(* Helpers *)

Spend(fault) == /\ struck[fault] < scenario.faults[fault]
                /\ struck' = [struck EXCEPT ![fault] = @ + 1]
                /\ UNCHANGED scenario

CliAt(n, pc)    == running[n] /\ cli[n] = pc
RxAt(n, pc)     == running[n] /\ rx[n] = pc
KaAt(n, pc)     == running[n] /\ ka[n] = pc
CliTo(n, pc)    == cli' = [cli EXCEPT ![n] = pc] /\ UNCHANGED cli_timer
RxTo(n, pc)     == rx' = [rx EXCEPT ![n] = pc]
KaTo(n, pc)     == ka' = [ka EXCEPT ![n] = pc]

Wait(n, ticks) == /\ cli' = [cli EXCEPT ![n] = "wait"]
                  /\ cli_timer' = [cli_timer EXCEPT ![n] = ticks]

Sleep(n, pc, ticks) == KaTo(n, pc) /\ ka_timer' = [ka_timer EXCEPT ![n] = ticks]

\* A thread that has yet to end can be joined, and the joining thread waits.
Alive(n) == ka[n] \notin {"none", "done"}

new_phase(n, p)   == phase' = [phase EXCEPT ![n] = p]
send_packet(n, p) == net' = [net EXCEPT ![Peer(n)] = Append(@, p)]
update_last_activity(n) == age' = [age EXCEPT ![n] = 0]

\* Joining the keep-alive thread leaves no thread behind.
Join(n) == ~Alive(n) /\ ka' = [ka EXCEPT ![n] = "none"] /\ UNCHANGED <<attempt, ka_timer>>

-----------------------------------------------------------------------------
(* The command line thread *)

MayCommand(n) == CliAt(n, "idle") /\ commands[n] < MaxCommands
Command(n)    == commands' = [commands EXCEPT ![n] = @ + 1]

\* send_tcu_conn_req and send_tcu_disconn_req look at the phase, ...
connect(n) ==
    /\ n \in scenario.connect /\ MayCommand(n) /\ Connectable(phase[n])
    /\ CliTo(n, "connect") /\ Command(n)
    /\ UNCHANGED <<running, phase, ack_received, ka_running, rx, keeper, age, net, faults>>

disconnect(n) ==
    /\ n \in scenario.disconnect /\ MayCommand(n) /\ Active(phase[n])
    /\ CliTo(n, "disconnect") /\ Command(n)
    /\ UNCHANGED <<running, phase, ack_received, ka_running, rx, keeper, age, net, faults>>

\* ... and set it, whatever it has become meanwhile.
Request(n, pc, p, packet) ==
    /\ CliAt(n, pc)
    /\ new_phase(n, p)
    /\ ack_received' = [ack_received EXCEPT ![n] = FALSE]
    /\ send_packet(n, packet)
    /\ Wait(n, ConfirmTimeout)
    /\ UNCHANGED <<running, ka_running, rx, keeper, age, bounds>>

send_tcu_conn_req(n)    == Request(n, "connect", CONNECT, ConnReq)
send_tcu_disconn_req(n) == Request(n, "disconnect", DISCONNECT, DisconnReq)

send_text(n) ==
    /\ n \in scenario.talk /\ MayCommand(n) /\ Active(phase[n])
    /\ ack_received' = [ack_received EXCEPT ![n] = FALSE]
    /\ send_packet(n, DATA)
    /\ Wait(n, ReceiveTimeout) /\ Command(n)
    /\ UNCHANGED <<running, phase, ka_running, rx, keeper, age, faults>>

\* wait_for_conf_ack and wait_for_recv_ack: neither looks at anything but the
\* flag, whichever handler set it.
AckSeen(n) ==
    /\ CliAt(n, "wait") /\ ack_received[n]
    /\ ack_received' = [ack_received EXCEPT ![n] = FALSE]
    /\ cli' = [cli EXCEPT ![n] = "idle"]
    /\ cli_timer' = [cli_timer EXCEPT ![n] = 0]
    /\ UNCHANGED <<running, phase, ka_running, rx, keeper, age, net, bounds>>

NoAck(n) ==
    /\ CliAt(n, "wait") /\ cli_timer[n] = 0
    /\ CliTo(n, "expired")
    /\ UNCHANGED <<running, phase, ack_received, ka_running, rx, keeper, age, net, bounds>>

NoClose(n) ==                                                   \* mutation
    /\ CliAt(n, "expired") /\ CliTo(n, "idle")
    /\ UNCHANGED <<running, phase, ack_received, ka_running, rx, keeper, age, net, bounds>>

\* Without an acknowledgment the connection is closed, whichever it is by now.
Close(n) ==
    /\ CliAt(n, "expired") /\ CliTo(n, "stop")
    /\ new_phase(n, HOLDOFF)
    /\ UNCHANGED <<running, ack_received, ka_running, rx, keeper, age, net, bounds>>

JoinWithoutStopping(n) ==                                       \* mutation
    /\ CliAt(n, "stop") /\ CliTo(n, "join")
    /\ UNCHANGED <<running, phase, ack_received, ka_running, rx, keeper, age, net, bounds>>

\* stop_keep_alive, in two steps: the flag, and the join.
StopKeepAlive(n) ==
    /\ CliAt(n, "stop") /\ CliTo(n, "join")
    /\ ka_running' = [ka_running EXCEPT ![n] = FALSE]
    /\ UNCHANGED <<running, phase, ack_received, rx, keeper, age, net, bounds>>

JoinKeepAlive(n) ==
    /\ CliAt(n, "join") /\ CliTo(n, "idle")
    /\ Join(n)
    /\ UNCHANGED <<running, phase, ack_received, ka_running, rx, age, net, bounds>>

-----------------------------------------------------------------------------
(* The receive thread *)

\* Packet p is the next one, and is handled; any packet counts as activity
\* unless the phase does not call for it.
Receives(n, p) == RxAt(n, "select") /\ net[n] # <<>> /\ Head(net[n]) = p
Take(n)        == net' = [net EXCEPT ![n] = Tail(@)]
Reply(n, p)    == net' = [net EXCEPT ![n] = Tail(@), ![Peer(n)] = Append(@, p)]

process_tcu_conn_req(n) ==
    /\ Receives(n, ConnReq) /\ Connectable(phase[n])
    /\ Take(n) /\ update_last_activity(n)
    /\ new_phase(n, CONNECT)
    /\ RxTo(n, "accept")
    /\ UNCHANGED <<running, ack_received, ka_running, keeper, line, bounds>>

\* An earlier keep-alive thread is waited for, but not told to stop.
start_keep_alive(n) ==
    /\ ~Alive(n)
    /\ ka_running' = [ka_running EXCEPT ![n] = TRUE]
    /\ Sleep(n, "sleep", IdleInterval)
    /\ attempt' = [attempt EXCEPT ![n] = 0]

Accept(n) ==
    /\ RxAt(n, "accept") /\ RxTo(n, "greet")
    /\ start_keep_alive(n)
    /\ UNCHANGED <<running, phase, ack_received, line, age, net, bounds>>

\* send_tcu_conn_ack and send_tcu_disconn_ack answer in one phase only, ...
Answer(n, pc, p, packet, after) ==
    /\ RxAt(n, pc)
    /\ \/ phase[n] = p /\ send_packet(n, packet) /\ RxTo(n, after)
       \/ phase[n] # p /\ RxTo(n, "select") /\ UNCHANGED net
    /\ UNCHANGED <<running, phase, ack_received, ka_running, keeper, line, age, bounds>>

send_tcu_conn_ack(n)    == Answer(n, "greet", CONNECT, ConnAck, "greeted")
send_tcu_disconn_ack(n) == Answer(n, "fin_ack", DISCONNECT, DisconnAck, "fin_acked")

EnterWithoutNetwork(n) ==                                       \* mutation
    /\ \/ RxAt(n, "greeted")   /\ RxTo(n, "select") /\ UNCHANGED phase
       \/ RxAt(n, "fin_acked") /\ new_phase(n, HOLDOFF) /\ RxTo(n, "select")
       \/ RxAt(n, "acked")     /\ new_phase(n, NETWORK) /\ RxTo(n, "start")
    /\ UNCHANGED <<running, ack_received, ka_running, keeper, line, age, net, bounds>>

\* ... and enter the next one, whatever it has become meanwhile.
Enter(n) ==
    /\ \/ RxAt(n, "greeted")   /\ new_phase(n, NETWORK) /\ RxTo(n, "select")
       \/ RxAt(n, "fin_acked") /\ new_phase(n, HOLDOFF) /\ RxTo(n, "select")
       \/ RxAt(n, "acked")     /\ new_phase(n, NETWORK) /\ RxTo(n, "start")
    /\ UNCHANGED <<running, ack_received, ka_running, keeper, line, age, net, bounds>>

process_tcu_conn_ack(n) ==
    /\ Receives(n, ConnAck) /\ phase[n] = CONNECT
    /\ Take(n) /\ update_last_activity(n)
    /\ ack_received' = [ack_received EXCEPT ![n] = TRUE]
    /\ RxTo(n, "acked")
    /\ UNCHANGED <<running, phase, ka_running, keeper, line, bounds>>

Start(n) ==
    /\ RxAt(n, "start") /\ RxTo(n, "select")
    /\ start_keep_alive(n)
    /\ UNCHANGED <<running, phase, ack_received, line, age, net, bounds>>

process_tcu_disconn_req(n) ==
    /\ Receives(n, DisconnReq) /\ Active(phase[n])
    /\ Take(n) /\ update_last_activity(n)
    /\ new_phase(n, DISCONNECT)
    /\ ka_running' = [ka_running EXCEPT ![n] = FALSE]
    /\ RxTo(n, "fin_join")
    /\ UNCHANGED <<running, ack_received, keeper, line, bounds>>

JoinWithoutFlag(n) ==                                           \* mutation
    /\ Receives(n, DisconnAck) /\ phase[n] = DISCONNECT
    /\ Take(n) /\ update_last_activity(n)
    /\ ack_received' = [ack_received EXCEPT ![n] = TRUE]
    /\ new_phase(n, HOLDOFF)
    /\ RxTo(n, "closed_join")
    /\ UNCHANGED <<running, ka_running, keeper, line, bounds>>

process_tcu_disconn_ack(n) ==
    /\ Receives(n, DisconnAck) /\ phase[n] = DISCONNECT
    /\ Take(n) /\ update_last_activity(n)
    /\ ack_received' = [ack_received EXCEPT ![n] = TRUE]
    /\ new_phase(n, HOLDOFF)
    /\ ka_running' = [ka_running EXCEPT ![n] = FALSE]
    /\ RxTo(n, "closed_join")
    /\ UNCHANGED <<running, keeper, line, bounds>>

\* The join of stop_keep_alive in the two handlers above.
RxJoin(n) ==
    /\ \/ RxAt(n, "fin_join") /\ RxTo(n, "fin_ack")
       \/ RxAt(n, "closed_join") /\ RxTo(n, "select")
    /\ Join(n)
    /\ UNCHANGED <<running, phase, ack_received, ka_running, line, age, net, bounds>>

\* A keep-alive request counts as activity in every phase, but is answered
\* only while the connection is up.
process_tcu_ka_req(n) ==
    /\ Receives(n, KaReq)
    /\ update_last_activity(n)
    /\ IF Active(phase[n]) THEN Reply(n, KaAck) ELSE Take(n)
    /\ UNCHANGED <<running, phase, ack_received, ka_running, rx, keeper, line, bounds>>

process_tcu_ka_ack(n) ==
    /\ Receives(n, KaAck)
    /\ Take(n) /\ update_last_activity(n)
    /\ UNCHANGED <<running, phase, ack_received, ka_running, rx, keeper, line, bounds>>

process_tcu_single_text(n) ==
    /\ Receives(n, DATA) /\ Active(phase[n])
    /\ Reply(n, PositiveAck) /\ update_last_activity(n)
    /\ UNCHANGED <<running, phase, ack_received, ka_running, rx, keeper, line, bounds>>

process_tcu_positive_ack(n) ==
    /\ Receives(n, PositiveAck) /\ Active(phase[n])
    /\ Take(n) /\ update_last_activity(n)
    /\ ack_received' = [ack_received EXCEPT ![n] = TRUE]
    /\ UNCHANGED <<running, phase, ka_running, rx, keeper, line, bounds>>

Unexpected(n, p) ==
    \/ p = ConnReq    /\ ~Connectable(phase[n])
    \/ p = ConnAck    /\ phase[n] # CONNECT
    \/ p = DisconnAck /\ phase[n] # DISCONNECT
    \/ p \in {DisconnReq, DATA, PositiveAck} /\ ~Active(phase[n])

\* A packet the phase does not call for is logged and dropped; so is, by the
\* operating system, a packet to a program that does not run.
Ignore(n) ==
    /\ net[n] # <<>> /\ Take(n)
    /\ running[n] => rx[n] = "select" /\ Unexpected(n, Head(net[n]))
    /\ UNCHANGED <<running, phase, ack_received, ka_running, rx, keeper, line, age, bounds>>

-----------------------------------------------------------------------------
(* The keep-alive thread *)

\* After five minutes the loop probes, whatever it heard meanwhile.
Wake(n) ==
    /\ KaAt(n, "sleep") /\ ka_running[n] /\ ka_timer[n] = 0
    /\ KaTo(n, "probe")
    /\ UNCHANGED <<running, phase, ack_received, ka_running, rx, attempt, ka_timer, line, age,
                   net, bounds>>

send_keep_alive_req(n) ==
    /\ KaAt(n, "probe") /\ ka_running[n]
    /\ send_packet(n, KaReq)
    /\ Sleep(n, "await", AttemptInterval)
    /\ attempt' = [attempt EXCEPT ![n] = @ + 1]
    /\ UNCHANGED <<running, phase, ack_received, ka_running, rx, line, age, bounds>>

is_activity_recent(n) == age[n] < Recent

ProbeForever(n) ==                                              \* mutation
    /\ KaAt(n, "await") /\ ka_running[n] /\ ka_timer[n] = 0
    /\ \/ /\ is_activity_recent(n)
          /\ Sleep(n, "sleep", IdleInterval)
          /\ attempt' = [attempt EXCEPT ![n] = 0]
       \/ /\ ~is_activity_recent(n) /\ KaTo(n, "probe")
          /\ UNCHANGED <<attempt, ka_timer>>
    /\ UNCHANGED <<running, phase, ack_received, ka_running, rx, line, age, net, bounds>>

AttemptOver(n) ==
    /\ KaAt(n, "await") /\ ka_running[n] /\ ka_timer[n] = 0
    /\ \/ /\ is_activity_recent(n)
          /\ Sleep(n, "sleep", IdleInterval)
          /\ attempt' = [attempt EXCEPT ![n] = 0]
       \/ /\ ~is_activity_recent(n)
          /\ KaTo(n, IF attempt[n] < MaxAttempts THEN "probe" ELSE "quit")
          /\ UNCHANGED <<attempt, ka_timer>>
    /\ UNCHANGED <<running, phase, ack_received, ka_running, rx, line, age, net, bounds>>

\* Told to stop: asleep the loop just ends, but among its probes it takes the
\* missing answer for a dead peer, and closes the connection on its way out.
Stopped(n) ==
    /\ ~ka_running[n]
    /\ \/ KaAt(n, "sleep") /\ KaTo(n, "done")
       \/ (KaAt(n, "probe") \/ KaAt(n, "await")) /\ KaTo(n, "quit")
    /\ UNCHANGED <<running, phase, ack_received, ka_running, rx, attempt, ka_timer, line, age,
                   net, bounds>>

QuitKeepingPhase(n) ==                                          \* mutation
    /\ KaAt(n, "quit") /\ KaTo(n, "done")
    /\ ka_running' = [ka_running EXCEPT ![n] = FALSE]
    /\ UNCHANGED <<running, phase, ack_received, rx, attempt, ka_timer, line, age, net, bounds>>

NoAnswer(n) ==
    /\ KaAt(n, "quit") /\ KaTo(n, "done")
    /\ ka_running' = [ka_running EXCEPT ![n] = FALSE]
    /\ new_phase(n, HOLDOFF)
    /\ UNCHANGED <<running, ack_received, rx, attempt, ka_timer, line, age, net, bounds>>

-----------------------------------------------------------------------------
(* Time, the network, and programs that end *)

\* A thread of node n has something to do, other than to take in a packet.
Busy(n) ==
    /\ running[n]
    /\ \/ cli[n] \in {"connect", "disconnect", "expired", "stop"}
       \/ cli[n] = "wait" /\ (ack_received[n] \/ cli_timer[n] = 0)
       \/ cli[n] = "join" /\ ~Alive(n)
       \/ rx[n] \in RxPc \ (Joins \cup {"select"})
       \/ rx[n] \in Joins /\ ~Alive(n)
       \/ ka[n] \in {"probe", "quit"}
       \/ ka[n] \in {"sleep", "await"} /\ (~ka_running[n] \/ ka_timer[n] = 0)

\* A packet could be taken in, or has no program to go to.
Pending(n) == net[n] # <<>> /\ (running[n] => rx[n] = "select")

Down(t) == [n \in Node |-> IF t[n] > 0 THEN t[n] - 1 ELSE 0]

\* Five seconds pass.  What the threads do takes milliseconds, and they have
\* done it by then; so have packets arrived, unless they are slow.
Tick ==
    /\ \A n \in Node : ~Busy(n)
    /\ \/ (\A n \in Node : ~Pending(n)) /\ UNCHANGED faults
       \/ (\E n \in Node : Pending(n)) /\ Spend("slow")
    /\ cli_timer' = Down(cli_timer)
    /\ ka_timer' = Down(ka_timer)
    /\ age' = [n \in Node |-> IF age[n] < IdleInterval THEN age[n] + 1 ELSE age[n]]
    /\ UNCHANGED <<running, phase, ack_received, ka_running, cli, rx, ka, attempt, net, commands>>

\* The command "exit", or a crash: either way the peer is not told.
exit(n) ==
    /\ running[n] /\ Spend("exit")
    /\ running' = [running EXCEPT ![n] = FALSE]
    /\ UNCHANGED <<phase, ack_received, ka_running, rx, keeper, line, age, net, commands>>

\* Two threads join the same thread object: undefined.  It may go well, or
\* std::system_error ends the program.
JoinTwice(n) ==
    /\ CliAt(n, "join") /\ rx[n] \in Joins /\ Alive(n)
    /\ running' = [running EXCEPT ![n] = FALSE]
    /\ UNCHANGED <<phase, ack_received, ka_running, rx, keeper, line, age, net, bounds>>

\* Nothing is on its way any more when the user has set the program up again.
restart(n) ==
    /\ ~running[n] /\ \A m \in Node : net[m] = <<>>
    /\ running' = [running EXCEPT ![n] = TRUE]
    /\ phase' = [phase EXCEPT ![n] = INITIALIZE]
    /\ ack_received' = [ack_received EXCEPT ![n] = FALSE]
    /\ ka_running' = [ka_running EXCEPT ![n] = FALSE]
    /\ cli' = [cli EXCEPT ![n] = "idle"] /\ cli_timer' = [cli_timer EXCEPT ![n] = 0]
    /\ rx' = [rx EXCEPT ![n] = "select"]
    /\ ka' = [ka EXCEPT ![n] = "none"] /\ ka_timer' = [ka_timer EXCEPT ![n] = 0]
    /\ attempt' = [attempt EXCEPT ![n] = 0]
    /\ age' = [age EXCEPT ![n] = IdleInterval]
    /\ UNCHANGED <<net, bounds>>

Position(n) == 1..Len(net[n])

Lose(n) == /\ Spend("lose")
           /\ \E i \in Position(n) : net' = [net EXCEPT ![n] = RemoveAt(@, i)]

Duplicate(n) == /\ Spend("duplicate")
                /\ \E i \in Position(n) : net' = [net EXCEPT ![n] = Append(@, @[i])]

Overtake(n) == /\ Spend("reorder")
               /\ \E i \in Position(n) \ {1} :
                    net' = [net EXCEPT ![n] = <<@[i]>> \o RemoveAt(@, i)]

NetworkFault(n) ==
    /\ Lose(n) \/ Duplicate(n) \/ Overtake(n)
    /\ UNCHANGED <<running, phase, ack_received, ka_running, rx, keeper, line, age, commands>>

-----------------------------------------------------------------------------
Init ==
    /\ running = [n \in Node |-> TRUE]
    /\ phase = [n \in Node |-> INITIALIZE]
    /\ ack_received = [n \in Node |-> FALSE]
    /\ ka_running = [n \in Node |-> FALSE]
    /\ cli = [n \in Node |-> "idle"]
    /\ rx = [n \in Node |-> "select"]
    /\ ka = [n \in Node |-> "none"]
    /\ attempt = [n \in Node |-> 0]
    /\ cli_timer = [n \in Node |-> 0]
    /\ ka_timer = [n \in Node |-> 0]
    /\ age = [n \in Node |-> IdleInterval]
    /\ net = [n \in Node |-> <<>>]
    /\ scenario \in Scenario
    /\ struck = [f \in Fault |-> 0]
    /\ commands = [n \in Node |-> 0]

User(n) == connect(n) \/ disconnect(n) \/ send_text(n) \/ exit(n) \/ restart(n)

CommandLine(n) == \/ send_tcu_conn_req(n) \/ send_tcu_disconn_req(n)
                  \/ AckSeen(n)           \/ NoAck(n)
                  \/ Close(n)             \/ StopKeepAlive(n) \/ JoinKeepAlive(n)

Receiving(n) == \/ process_tcu_conn_req(n)    \/ Accept(n) \/ send_tcu_conn_ack(n)
                \/ process_tcu_conn_ack(n)    \/ Enter(n)  \/ Start(n)
                \/ process_tcu_disconn_req(n) \/ send_tcu_disconn_ack(n)
                \/ process_tcu_disconn_ack(n) \/ RxJoin(n)
                \/ process_tcu_ka_req(n)      \/ process_tcu_ka_ack(n)
                \/ process_tcu_single_text(n) \/ process_tcu_positive_ack(n)
                \/ Ignore(n)

keep_alive_loop(n) == \/ Wake(n)    \/ send_keep_alive_req(n) \/ AttemptOver(n)
                      \/ Stopped(n) \/ NoAnswer(n)

Next == \/ Tick
        \/ \E n \in Node : \/ User(n) \/ CommandLine(n) \/ Receiving(n) \/ keep_alive_loop(n)
                           \/ JoinTwice(n) \/ NetworkFault(n)

Spec == Init /\ [][Next]_vars

\* The operating system runs the three threads of a running program, and time
\* passes; no user has to do anything, and no fault has to strike.
Fairness == /\ WF_vars(Tick)
            /\ \A n \in Node : /\ WF_vars(CommandLine(n))
                               /\ WF_vars(Receiving(n))
                               /\ WF_vars(keep_alive_loop(n))
FairSpec == Spec /\ Fairness
-----------------------------------------------------------------------------
(* Properties *)

\* Every variable has its type: no thread is at a step it does not have, and
\* the keep-alive thread sends at most MaxAttempts probes in a row.
TypeOK ==
    /\ running \in [Node -> BOOLEAN]
    /\ phase \in [Node -> HOLDOFF..DISCONNECT]
    /\ ack_received \in [Node -> BOOLEAN]
    /\ ka_running \in [Node -> BOOLEAN]
    /\ cli \in [Node -> CliPc]
    /\ rx \in [Node -> RxPc]
    /\ ka \in [Node -> KaPc]
    /\ attempt \in [Node -> 0..MaxAttempts]
    /\ cli_timer \in [Node -> 0..IdleInterval]
    /\ ka_timer \in [Node -> 0..IdleInterval]
    /\ age \in [Node -> 0..IdleInterval]
    /\ net \in [Node -> Seq(ControlFlags \cup {DATA})]
    /\ scenario \in Scenario
    /\ struck \in [Fault -> Nat]
    /\ commands \in [Node -> 0..MaxCommands]

\* Every command of n has returned, every packet is handled, no thread has
\* anything left to do; and that of both nodes, with nothing on its way.
AtRest(n) == CliAt(n, "idle") /\ RxAt(n, "select") /\ ~Busy(n)
Quiet     == \A n \in Node : AtRest(n) /\ net[n] = <<>>

\* A node at rest has a keep-alive thread that is meant to go on if, and only
\* if, its connection is up: process_tcu_conn_req and process_tcu_conn_ack
\* start one, and every way out of the connection, on any of the three
\* threads, ends it.
KeepAliveFollowsConnection == \A n \in Node :
    AtRest(n) => (phase[n] = NETWORK <=> ka_running[n] /\ Alive(n))

\* When all is quiet both nodes take the connection to be up, or neither does:
\* as long as one of the users opens the connections and no fault has struck,
\* the two-way handshakes leave nobody with half a connection.
OneCaller   == \A m, n \in scenario.connect : m = n
Undisturbed == \A f \in Fault : struck[f] = 0
PeersAgree  == Quiet /\ OneCaller /\ Undisturbed
                 => \A m, n \in Node : phase[m] = NETWORK => phase[n] = NETWORK

\* Once process_tcu_disconn_req has stopped the keep-alive, it answers the FIN
\* with FIN + ACK: nothing else moves the node out of DISCONNECT before.
FinAnswered == [][\A n \in Node : RxAt(n, "fin_ack") /\ rx'[n] # "fin_ack"
                      => net'[Peer(n)] = Append(net[Peer(n)], DisconnAck)]_vars

\* The command line thread and the receive thread never wait for the same
\* keep-alive thread (stop_keep_alive and start_keep_alive both join
\* _keep_alive_thread; two joins at a time are undefined behaviour).
NoDoubleJoin == \A n \in Node : ~(CliAt(n, "join") /\ rx[n] \in Joins /\ Alive(n))

\* No command returns, and no handler ends, with the connection half open:
\* wait_for_conf_ack returns after the confirmation, or closes the connection.
ConnectSettled == \A n \in Node :
    CliAt(n, "idle") /\ RxAt(n, "select") => phase[n] \in {HOLDOFF, INITIALIZE, NETWORK}

\* Every command gives the command line back to the user: no answer is waited
\* for without end, and neither is the keep-alive thread.
CommandsReturn == \A n \in Node : cli[n] # "idle" ~> cli[n] = "idle" \/ ~running[n]

\* A node whose peer has lost the connection (it crashed, was restarted, or
\* closed it unheard) does not stay connected for ever: the keep-alive finds
\* out, or the peer connects again.
HalfOpenResolved == \A n \in Node :
    running[n] /\ phase[n] = NETWORK /\ phase[Peer(n)] # NETWORK
       ~> ~running[n] \/ phase[n] # NETWORK \/ (running[Peer(n)] /\ phase[Peer(n)] = NETWORK)
=============================================================================
