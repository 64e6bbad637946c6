-------------------------- MODULE ConnectionProofs --------------------------
(***************************************************************************)
(* What holds of the connection for any timers that keep their order, any  *)
(* users and any number of faults.                                         *)
(***************************************************************************)
EXTENDS Connection, TLAPS, SequenceTheorems

Packet == ControlFlags \cup {DATA}

\* A flag that tells a keep-alive thread to go on has such a thread behind it,
\* and a thread about to probe has a probe left.
Backed == \A n \in Node : /\ ka_running[n] => Alive(n)
                          /\ ka[n] \in {"sleep", "probe"} => attempt[n] < MaxAttempts

Inv == TypeOK /\ Backed

LEMMA PeerFacts == ASSUME NEW n \in Node
                   PROVE  Peer(n) \in Node /\ Peer(n) # n
  BY NodeAssumption DEF Peer

\* What the two programs send are packets.
LEMMA PacketFacts ==
    /\ ConnReq \in Packet /\ ConnAck \in Packet /\ DisconnReq \in Packet
    /\ DisconnAck \in Packet /\ KaReq \in Packet /\ KaAck \in Packet
    /\ PositiveAck \in Packet /\ DATA \in Packet
  BY DEF Packet, ControlFlags

\* Intervals are times, and so is what is left of one.
LEMMA TimerFacts ==
    /\ ConfirmTimeout \in 0..IdleInterval /\ AttemptInterval \in 0..IdleInterval
    /\ ReceiveTimeout \in 0..IdleInterval /\ IdleInterval \in 0..IdleInterval
    /\ 0 \in 0..IdleInterval /\ IdleInterval \in Nat
<1>1. /\ ConfirmTimeout \in Nat /\ AttemptInterval \in Nat /\ AttemptInterval > 0
      /\ ReceiveTimeout \in Nat /\ IdleInterval \in Nat
      /\ ReceiveTimeout > 3 * AttemptInterval /\ IdleInterval > ReceiveTimeout
      /\ ConfirmTimeout \in Nat /\ ReceiveTimeout > ConfirmTimeout
  BY TimerAssumption DEF Recent, MaxAttempts
<1> QED
  BY <1>1

-----------------------------------------------------------------------------
(* The channels *)

\* What a thread sends goes to the end of a channel, ...
LEMMA SendKeeps ==
    ASSUME net \in [Node -> Seq(Packet)], NEW n \in Node, NEW p \in Packet, send_packet(n, p)
    PROVE  net' \in [Node -> Seq(Packet)]
  BY PeerFacts DEF send_packet

\* ... what the receive thread handles is taken from the front of its own, ...
LEMMA TakeKeeps ==
    ASSUME net \in [Node -> Seq(Packet)], NEW n \in Node, net[n] # <<>>, Take(n)
    PROVE  net' \in [Node -> Seq(Packet)]
  BY DEF Take

\* ... and some packets are answered at once.
LEMMA ReplyKeeps ==
    ASSUME net \in [Node -> Seq(Packet)], NEW n \in Node, NEW p \in Packet, net[n] # <<>>,
           Reply(n, p)
    PROVE  net' \in [Node -> Seq(Packet)]
<1>1. Tail(net[n]) \in Seq(Packet) /\ Append(net[Peer(n)], p) \in Seq(Packet)
  BY PeerFacts
<1>2. net' = [net EXCEPT ![n] = Tail(net[n]), ![Peer(n)] = Append(net[Peer(n)], p)]
  BY PeerFacts DEF Reply
<1> QED
  BY <1>1, <1>2, PeerFacts

\* The network loses, repeats and reorders packets, and makes up none.
LEMMA NetworkKeeps ==
    ASSUME net \in [Node -> Seq(Packet)], NEW n \in Node,
           Lose(n) \/ Duplicate(n) \/ Overtake(n)
    PROVE  net' \in [Node -> Seq(Packet)]
<1>1. net[n] \in Seq(Packet)
  OBVIOUS
<1>2. \A i \in Position(n) : net[n][i] \in Packet /\ RemoveAt(net[n], i) \in Seq(Packet)
  BY <1>1 DEF Position, RemoveAt
<1>3. CASE Lose(n)
  BY <1>2, <1>3 DEF Lose
<1>4. CASE Duplicate(n)
  BY <1>1, <1>2, <1>4 DEF Duplicate
<1>5. CASE Overtake(n)
  <2>1. PICK i \in Position(n) : net' = [net EXCEPT ![n] = <<@[i]>> \o RemoveAt(@, i)]
    BY <1>5 DEF Overtake
  <2>2. <<net[n][i]>> \o RemoveAt(net[n], i) \in Seq(Packet)
    BY <1>2
  <2> QED
    BY <2>1, <2>2
<1> QED
  BY <1>3, <1>4, <1>5

\* A fault that strikes is counted.
LEMMA SpendKeeps ==
    ASSUME struck \in [Fault -> Nat], scenario \in Scenario, NEW f \in Fault, Spend(f)
    PROVE  struck' \in [Fault -> Nat] /\ scenario' \in Scenario
  BY DEF Spend

\* A keep-alive thread sleeps for one of the intervals.
LEMMA SleepKeeps ==
    ASSUME ka_timer \in [Node -> 0..IdleInterval], NEW n \in Node, NEW pc,
           NEW t \in 0..IdleInterval, Sleep(n, pc, t)
    PROVE  ka_timer' \in [Node -> 0..IdleInterval]
  BY DEF Sleep

-----------------------------------------------------------------------------
(* The steps *)

\* Both nodes begin without a keep-alive thread.
LEMMA InvInit == Init => Inv
<1> SUFFICES ASSUME Init PROVE Inv
  OBVIOUS
<1>1. /\ running \in [Node -> BOOLEAN] /\ ack_received \in [Node -> BOOLEAN]
      /\ ka_running \in [Node -> BOOLEAN] /\ \A n \in Node : ~ka_running[n]
  BY Zenon DEF Init
<1>2. net \in [Node -> Seq(Packet)]
  BY DEF Init
<1>3. TypeOK
  BY <1>1, <1>2, TimerFacts, BoundsAssumption
  DEF Init, TypeOK, Packet, CliPc, RxPc, KaPc, Joins, MaxAttempts, HOLDOFF, INITIALIZE, DISCONNECT
<1>4. Backed
  BY <1>1 DEF Init, Backed
<1> QED
  BY <1>3, <1>4 DEF Inv

\* A user's command, the exit of a program and its restart.
LEMMA InvUser == ASSUME Inv, NEW n \in Node, User(n) PROVE Inv'
<1> USE DEF Inv, TypeOK, keeper, line, faults, bounds
<1>1. CASE connect(n)
  <2>1. cli' \in [Node -> CliPc]
    BY <1>1 DEF connect, CliTo, MayCommand, Command, CliPc
  <2>2. commands' \in [Node -> 0..MaxCommands]
    BY <1>1, BoundsAssumption DEF connect, CliTo, MayCommand, Command
  <2> QED
    BY <1>1, <2>1, <2>2 DEF connect, CliTo, MayCommand, Command, Backed, Alive
<1>2. CASE disconnect(n)
  <2>1. cli' \in [Node -> CliPc]
    BY <1>2 DEF disconnect, CliTo, MayCommand, Command, CliPc
  <2>2. commands' \in [Node -> 0..MaxCommands]
    BY <1>2, BoundsAssumption DEF disconnect, CliTo, MayCommand, Command
  <2> QED
    BY <1>2, <2>1, <2>2 DEF disconnect, CliTo, MayCommand, Command, Backed, Alive
<1>3. CASE send_text(n)
  <2>1. ack_received' \in [Node -> BOOLEAN]
    BY <1>3, Zenon DEF send_text, Wait, MayCommand, Command
  <2>2. cli' \in [Node -> CliPc]
    BY <1>3 DEF send_text, Wait, MayCommand, Command, CliPc
  <2>3. cli_timer' \in [Node -> 0..IdleInterval]
    BY <1>3, TimerFacts DEF send_text, Wait, MayCommand, Command
  <2>4. commands' \in [Node -> 0..MaxCommands]
    BY <1>3, BoundsAssumption DEF send_text, Wait, MayCommand, Command
  <2>5. net' \in [Node -> Seq(Packet)]
    BY <1>3, SendKeeps, PacketFacts DEF send_text, Wait, MayCommand, Command, Packet
  <2> QED
    BY <1>3, <2>1, <2>2, <2>3, <2>4, <2>5 DEF send_text, Wait, MayCommand, Command, Packet,
        Backed, Alive
<1>4. CASE exit(n)
  <2>1. running' \in [Node -> BOOLEAN]
    BY <1>4, Zenon DEF exit
  <2>2. struck' \in [Fault -> Nat] /\ scenario' \in Scenario
    BY <1>4, SpendKeeps DEF exit, Fault
  <2> QED
    BY <1>4, <2>1, <2>2 DEF exit, Backed, Alive
<1>5. CASE restart(n)
  <2>1. running' \in [Node -> BOOLEAN] /\ ack_received' \in [Node -> BOOLEAN]
        /\ ka_running' \in [Node -> BOOLEAN]
    BY <1>5, Zenon DEF restart
  <2>2. phase' \in [Node -> HOLDOFF..DISCONNECT]
    BY <1>5 DEF restart, HOLDOFF, INITIALIZE, CONNECT,
        NETWORK, DISCONNECT
  <2>3. cli' \in [Node -> CliPc]
    BY <1>5 DEF restart, CliPc
  <2>4. cli_timer' \in [Node -> 0..IdleInterval]
    BY <1>5, TimerFacts DEF restart
  <2>5. rx' \in [Node -> RxPc]
    BY <1>5 DEF restart, RxPc, Joins
  <2>6. ka' \in [Node -> KaPc]
    BY <1>5 DEF restart, KaPc
  <2>7. ka_timer' \in [Node -> 0..IdleInterval]
    BY <1>5, TimerFacts DEF restart
  <2>8. attempt' \in [Node -> 0..MaxAttempts]
    BY <1>5 DEF restart, MaxAttempts, Backed
  <2>9. age' \in [Node -> 0..IdleInterval]
    BY <1>5, TimerFacts DEF restart
  <2>10. Backed'
    BY <1>5 DEF Backed, Alive, restart, MaxAttempts
  <2> QED
    BY <1>5, <2>1, <2>2, <2>3, <2>4, <2>5, <2>6, <2>7, <2>8, <2>9, <2>10 DEF restart
<1> QED
  BY <1>1, <1>2, <1>3, <1>4, <1>5 DEF User

\* The command line thread waits, closes, and ends the keep-alive in that order.
LEMMA InvCommandLine == ASSUME Inv, NEW n \in Node, CommandLine(n) PROVE Inv'
<1> USE DEF Inv, TypeOK, keeper, line, faults, bounds
<1>1. CASE send_tcu_conn_req(n)
  <2>1. ack_received' \in [Node -> BOOLEAN]
    BY <1>1, Zenon DEF send_tcu_conn_req, Request, new_phase, Wait
  <2>2. phase' \in [Node -> HOLDOFF..DISCONNECT]
    BY <1>1 DEF send_tcu_conn_req, Request, new_phase, Wait,
        HOLDOFF, INITIALIZE, CONNECT, NETWORK, DISCONNECT
  <2>3. cli' \in [Node -> CliPc]
    BY <1>1 DEF send_tcu_conn_req, Request, new_phase, Wait, CliPc
  <2>4. cli_timer' \in [Node -> 0..IdleInterval]
    BY <1>1, TimerFacts DEF send_tcu_conn_req, Request, new_phase, Wait
  <2>5. net' \in [Node -> Seq(Packet)]
    BY <1>1, SendKeeps, PacketFacts DEF send_tcu_conn_req, Request, new_phase, Wait, Packet
  <2> QED
    BY <1>1, <2>1, <2>2, <2>3, <2>4, <2>5 DEF send_tcu_conn_req, Request, new_phase, Wait,
        Packet, Backed, Alive
<1>2. CASE send_tcu_disconn_req(n)
  <2>1. ack_received' \in [Node -> BOOLEAN]
    BY <1>2, Zenon DEF send_tcu_disconn_req, Request, new_phase, Wait
  <2>2. phase' \in [Node -> HOLDOFF..DISCONNECT]
    BY <1>2 DEF send_tcu_disconn_req, Request, new_phase,
        Wait, HOLDOFF, INITIALIZE, CONNECT, NETWORK, DISCONNECT
  <2>3. cli' \in [Node -> CliPc]
    BY <1>2 DEF send_tcu_disconn_req, Request, new_phase,
        Wait, CliPc
  <2>4. cli_timer' \in [Node -> 0..IdleInterval]
    BY <1>2, TimerFacts DEF send_tcu_disconn_req, Request, new_phase, Wait
  <2>5. net' \in [Node -> Seq(Packet)]
    BY <1>2, SendKeeps, PacketFacts DEF send_tcu_disconn_req, Request, new_phase, Wait, Packet
  <2> QED
    BY <1>2, <2>1, <2>2, <2>3, <2>4, <2>5 DEF send_tcu_disconn_req, Request, new_phase,
        Wait, Packet, Backed, Alive
<1>3. CASE AckSeen(n)
  <2>1. ack_received' \in [Node -> BOOLEAN]
    BY <1>3, Zenon DEF AckSeen
  <2>2. cli' \in [Node -> CliPc]
    BY <1>3 DEF AckSeen, CliPc
  <2>3. cli_timer' \in [Node -> 0..IdleInterval]
    BY <1>3, TimerFacts DEF AckSeen
  <2> QED
    BY <1>3, <2>1, <2>2, <2>3 DEF AckSeen, Backed, Alive
<1>4. CASE NoAck(n)
  <2>1. cli' \in [Node -> CliPc]
    BY <1>4 DEF NoAck, CliTo, CliPc
  <2> QED
    BY <1>4, <2>1 DEF NoAck, CliTo, Backed, Alive
<1>5. CASE Close(n)
  <2>1. cli' \in [Node -> CliPc]
    BY <1>5 DEF Close, CliTo, new_phase, CliPc
  <2>2. phase' \in [Node -> HOLDOFF..DISCONNECT]
    BY <1>5 DEF Close, CliTo, new_phase, HOLDOFF, INITIALIZE,
        CONNECT, NETWORK, DISCONNECT
  <2> QED
    BY <1>5, <2>1, <2>2 DEF Close, CliTo, new_phase, Backed, Alive
<1>6. CASE StopKeepAlive(n)
  <2>1. ka_running' \in [Node -> BOOLEAN]
    BY <1>6, Zenon DEF StopKeepAlive, CliTo
  <2>2. cli' \in [Node -> CliPc]
    BY <1>6 DEF StopKeepAlive, CliTo, CliPc
  <2>3. Backed'
    BY <1>6 DEF Backed, Alive, StopKeepAlive, CliTo, MaxAttempts
  <2> QED
    BY <1>6, <2>1, <2>2, <2>3 DEF StopKeepAlive, CliTo
<1>7. CASE JoinKeepAlive(n)
  <2>1. cli' \in [Node -> CliPc]
    BY <1>7 DEF JoinKeepAlive, CliTo, Join, CliPc
  <2>2. ka' \in [Node -> KaPc]
    BY <1>7 DEF JoinKeepAlive, CliTo, Join, KaPc
  <2>3. Backed'
    BY <1>7 DEF Backed, Alive, JoinKeepAlive, CliTo, Join, MaxAttempts
  <2> QED
    BY <1>7, <2>1, <2>2, <2>3 DEF JoinKeepAlive, CliTo, Join
<1> QED
  BY <1>1, <1>2, <1>3, <1>4, <1>5, <1>6, <1>7 DEF CommandLine

\* The receive thread starts a keep-alive thread together with its flag.
LEMMA InvReceiving == ASSUME Inv, NEW n \in Node, Receiving(n) PROVE Inv'
<1> USE DEF Inv, TypeOK, keeper, line, faults, bounds
<1>1. CASE process_tcu_conn_req(n)
  <2>1. phase' \in [Node -> HOLDOFF..DISCONNECT]
    BY <1>1 DEF process_tcu_conn_req, Receives, RxAt,
        update_last_activity, new_phase, RxTo, HOLDOFF, INITIALIZE, CONNECT, NETWORK,
        DISCONNECT
  <2>2. rx' \in [Node -> RxPc]
    BY <1>1 DEF process_tcu_conn_req, Receives, RxAt,
        update_last_activity, new_phase, RxTo, RxPc, Joins
  <2>3. age' \in [Node -> 0..IdleInterval]
    BY <1>1, TimerFacts DEF process_tcu_conn_req, Receives, RxAt,
        update_last_activity, new_phase, RxTo
  <2>4. net' \in [Node -> Seq(Packet)]
    BY <1>1, TakeKeeps, PacketFacts DEF process_tcu_conn_req, Receives, RxAt,
        update_last_activity, new_phase, RxTo, Packet
  <2> QED
    BY <1>1, <2>1, <2>2, <2>3, <2>4 DEF process_tcu_conn_req, Receives, RxAt,
        update_last_activity, new_phase, RxTo, Packet, Backed, Alive
<1>2. CASE Accept(n)
  <2>1. ka_running' \in [Node -> BOOLEAN]
    BY <1>2, Zenon DEF Accept, RxTo, start_keep_alive, Sleep, KaTo
  <2>2. rx' \in [Node -> RxPc]
    BY <1>2 DEF Accept, RxTo, start_keep_alive, Sleep, KaTo,
        RxPc, Joins
  <2>3. ka' \in [Node -> KaPc]
    BY <1>2 DEF Accept, RxTo, start_keep_alive, Sleep, KaTo, KaPc
  <2>4. ka_timer' \in [Node -> 0..IdleInterval]
    BY <1>2, TimerFacts, SleepKeeps DEF Accept, RxTo, start_keep_alive
  <2>5. attempt' \in [Node -> 0..MaxAttempts]
    BY <1>2 DEF Accept, RxTo, start_keep_alive, Sleep, KaTo,
        MaxAttempts, Backed
  <2>6. Backed'
    BY <1>2 DEF Backed, Alive, Accept, RxTo, start_keep_alive, Sleep, KaTo, MaxAttempts
  <2> QED
    BY <1>2, <2>1, <2>2, <2>3, <2>4, <2>5, <2>6 DEF Accept, RxTo, start_keep_alive, Sleep, KaTo
<1>3. CASE send_tcu_conn_ack(n)
  <2>1. rx' \in [Node -> RxPc]
    BY <1>3 DEF send_tcu_conn_ack, Answer, RxTo, RxPc, Joins
  <2>2. net' \in [Node -> Seq(Packet)]
    BY <1>3, SendKeeps, PacketFacts DEF send_tcu_conn_ack, Answer, RxTo, Packet
  <2> QED
    BY <1>3, <2>1, <2>2 DEF send_tcu_conn_ack, Answer, RxTo, Packet, Backed, Alive
<1>4. CASE process_tcu_conn_ack(n)
  <2>1. ack_received' \in [Node -> BOOLEAN]
    BY <1>4, Zenon DEF process_tcu_conn_ack, Receives, RxAt, update_last_activity, RxTo
  <2>2. rx' \in [Node -> RxPc]
    BY <1>4 DEF process_tcu_conn_ack, Receives, RxAt,
        update_last_activity, RxTo, RxPc, Joins
  <2>3. age' \in [Node -> 0..IdleInterval]
    BY <1>4, TimerFacts DEF process_tcu_conn_ack, Receives, RxAt,
        update_last_activity, RxTo
  <2>4. net' \in [Node -> Seq(Packet)]
    BY <1>4, TakeKeeps, PacketFacts DEF process_tcu_conn_ack, Receives, RxAt,
        update_last_activity, RxTo, Packet
  <2> QED
    BY <1>4, <2>1, <2>2, <2>3, <2>4 DEF process_tcu_conn_ack, Receives, RxAt,
        update_last_activity, RxTo, Packet, Backed, Alive
<1>5. CASE Enter(n)
  <2>1. NETWORK \in HOLDOFF..DISCONNECT /\ HOLDOFF \in HOLDOFF..DISCONNECT
    BY DEF NETWORK, HOLDOFF, DISCONNECT
  <2>2. phase' \in [Node -> HOLDOFF..DISCONNECT]
    BY <1>5, <2>1 DEF Enter, new_phase
  <2>3. rx' \in [Node -> RxPc]
    BY <1>5 DEF Enter, new_phase, RxTo, RxPc, Joins
  <2> QED
    BY <1>5, <2>2, <2>3 DEF Enter, new_phase, RxTo, Backed, Alive
<1>6. CASE Start(n)
  <2>1. ka_running' \in [Node -> BOOLEAN]
    BY <1>6, Zenon DEF Start, RxTo, start_keep_alive, Sleep, KaTo
  <2>2. rx' \in [Node -> RxPc]
    BY <1>6 DEF Start, RxTo, start_keep_alive, Sleep, KaTo,
        RxPc, Joins
  <2>3. ka' \in [Node -> KaPc]
    BY <1>6 DEF Start, RxTo, start_keep_alive, Sleep, KaTo, KaPc
  <2>4. ka_timer' \in [Node -> 0..IdleInterval]
    BY <1>6, TimerFacts, SleepKeeps DEF Start, RxTo, start_keep_alive
  <2>5. attempt' \in [Node -> 0..MaxAttempts]
    BY <1>6 DEF Start, RxTo, start_keep_alive, Sleep, KaTo,
        MaxAttempts, Backed
  <2>6. Backed'
    BY <1>6 DEF Backed, Alive, Start, RxTo, start_keep_alive, Sleep, KaTo, MaxAttempts
  <2> QED
    BY <1>6, <2>1, <2>2, <2>3, <2>4, <2>5, <2>6 DEF Start, RxTo, start_keep_alive, Sleep, KaTo
<1>7. CASE process_tcu_disconn_req(n)
  <2>1. ka_running' \in [Node -> BOOLEAN]
    BY <1>7, Zenon DEF process_tcu_disconn_req, Receives, RxAt, update_last_activity,
        new_phase, RxTo
  <2>2. phase' \in [Node -> HOLDOFF..DISCONNECT]
    BY <1>7 DEF process_tcu_disconn_req, Receives, RxAt,
        update_last_activity, new_phase, RxTo, HOLDOFF, INITIALIZE, CONNECT, NETWORK,
        DISCONNECT
  <2>3. rx' \in [Node -> RxPc]
    BY <1>7 DEF process_tcu_disconn_req, Receives, RxAt,
        update_last_activity, new_phase, RxTo, RxPc, Joins
  <2>4. age' \in [Node -> 0..IdleInterval]
    BY <1>7, TimerFacts DEF process_tcu_disconn_req, Receives, RxAt,
        update_last_activity, new_phase, RxTo
  <2>5. net' \in [Node -> Seq(Packet)]
    BY <1>7, TakeKeeps, PacketFacts DEF process_tcu_disconn_req, Receives, RxAt,
        update_last_activity, new_phase, RxTo, Packet
  <2>6. Backed'
    BY <1>7 DEF Backed, Alive, process_tcu_disconn_req, Receives, RxAt,
        update_last_activity, new_phase, RxTo, MaxAttempts
  <2> QED
    BY <1>7, <2>1, <2>2, <2>3, <2>4, <2>5, <2>6 DEF process_tcu_disconn_req, Receives, RxAt,
        update_last_activity, new_phase, RxTo, Packet
<1>8. CASE send_tcu_disconn_ack(n)
  <2>1. rx' \in [Node -> RxPc]
    BY <1>8 DEF send_tcu_disconn_ack, Answer, RxTo, RxPc, Joins
  <2>2. net' \in [Node -> Seq(Packet)]
    BY <1>8, SendKeeps, PacketFacts DEF send_tcu_disconn_ack, Answer, RxTo, Packet
  <2> QED
    BY <1>8, <2>1, <2>2 DEF send_tcu_disconn_ack, Answer, RxTo, Packet, Backed, Alive
<1>9. CASE process_tcu_disconn_ack(n)
  <2>1. ack_received' \in [Node -> BOOLEAN] /\ ka_running' \in [Node -> BOOLEAN]
    BY <1>9, Zenon DEF process_tcu_disconn_ack, Receives, RxAt, update_last_activity,
        new_phase, RxTo
  <2>2. phase' \in [Node -> HOLDOFF..DISCONNECT]
    BY <1>9 DEF process_tcu_disconn_ack, Receives, RxAt,
        update_last_activity, new_phase, RxTo, HOLDOFF, INITIALIZE, CONNECT, NETWORK,
        DISCONNECT
  <2>3. rx' \in [Node -> RxPc]
    BY <1>9 DEF process_tcu_disconn_ack, Receives, RxAt,
        update_last_activity, new_phase, RxTo, RxPc, Joins
  <2>4. age' \in [Node -> 0..IdleInterval]
    BY <1>9, TimerFacts DEF process_tcu_disconn_ack, Receives, RxAt,
        update_last_activity, new_phase, RxTo
  <2>5. net' \in [Node -> Seq(Packet)]
    BY <1>9, TakeKeeps, PacketFacts DEF process_tcu_disconn_ack, Receives, RxAt,
        update_last_activity, new_phase, RxTo, Packet
  <2>6. Backed'
    BY <1>9 DEF Backed, Alive, process_tcu_disconn_ack, Receives, RxAt,
        update_last_activity, new_phase, RxTo, MaxAttempts
  <2> QED
    BY <1>9, <2>1, <2>2, <2>3, <2>4, <2>5, <2>6 DEF process_tcu_disconn_ack, Receives, RxAt,
        update_last_activity, new_phase, RxTo, Packet
<1>10. CASE RxJoin(n)
  <2>1. rx' \in [Node -> RxPc]
    BY <1>10 DEF RxJoin, RxTo, Join, RxPc, Joins
  <2>2. ka' \in [Node -> KaPc]
    BY <1>10 DEF RxJoin, RxTo, Join, KaPc
  <2>3. Backed'
    BY <1>10 DEF Backed, Alive, RxJoin, RxTo, Join, MaxAttempts
  <2> QED
    BY <1>10, <2>1, <2>2, <2>3 DEF RxJoin, RxTo, Join
<1>11. CASE process_tcu_ka_req(n)
  <2>1. age' \in [Node -> 0..IdleInterval]
    BY <1>11, TimerFacts DEF process_tcu_ka_req, Receives, RxAt,
        update_last_activity
  <2>2. net' \in [Node -> Seq(Packet)]
    BY <1>11, TakeKeeps, ReplyKeeps, PacketFacts DEF process_tcu_ka_req, Receives, RxAt,
        update_last_activity, Packet
  <2> QED
    BY <1>11, <2>1, <2>2 DEF process_tcu_ka_req, Receives, RxAt, update_last_activity,
        Packet, Backed, Alive
<1>12. CASE process_tcu_ka_ack(n)
  <2>1. age' \in [Node -> 0..IdleInterval]
    BY <1>12, TimerFacts DEF process_tcu_ka_ack, Receives, RxAt,
        update_last_activity
  <2>2. net' \in [Node -> Seq(Packet)]
    BY <1>12, TakeKeeps, PacketFacts DEF process_tcu_ka_ack, Receives, RxAt,
        update_last_activity, Packet
  <2> QED
    BY <1>12, <2>1, <2>2 DEF process_tcu_ka_ack, Receives, RxAt, update_last_activity,
        Packet, Backed, Alive
<1>13. CASE process_tcu_single_text(n)
  <2>1. age' \in [Node -> 0..IdleInterval]
    BY <1>13, TimerFacts DEF process_tcu_single_text, Receives, RxAt,
        update_last_activity
  <2>2. net' \in [Node -> Seq(Packet)]
    BY <1>13, TakeKeeps, ReplyKeeps, PacketFacts DEF process_tcu_single_text, Receives,
        RxAt, update_last_activity, Packet
  <2> QED
    BY <1>13, <2>1, <2>2 DEF process_tcu_single_text, Receives, RxAt, update_last_activity,
        Packet, Backed, Alive
<1>14. CASE process_tcu_positive_ack(n)
  <2>1. ack_received' \in [Node -> BOOLEAN]
    BY <1>14, Zenon DEF process_tcu_positive_ack, Receives, RxAt, update_last_activity
  <2>2. age' \in [Node -> 0..IdleInterval]
    BY <1>14, TimerFacts DEF process_tcu_positive_ack, Receives, RxAt,
        update_last_activity
  <2>3. net' \in [Node -> Seq(Packet)]
    BY <1>14, TakeKeeps, PacketFacts DEF process_tcu_positive_ack, Receives, RxAt,
        update_last_activity, Packet
  <2> QED
    BY <1>14, <2>1, <2>2, <2>3 DEF process_tcu_positive_ack, Receives, RxAt,
        update_last_activity, Packet, Backed, Alive
<1>15. CASE Ignore(n)
  <2>1. net' \in [Node -> Seq(Packet)]
    BY <1>15, TakeKeeps, PacketFacts DEF Ignore, Packet
  <2> QED
    BY <1>15, <2>1 DEF Ignore, Packet, Backed, Alive
<1> QED
  BY <1>1, <1>2, <1>3, <1>4, <1>5, <1>6, <1>7, <1>8, <1>9, <1>10, <1>11, <1>12, <1>13,
      <1>14, <1>15 DEF Receiving

\* The keep-alive thread puts its flag down before it ends on its own.
LEMMA InvKeepAlive == ASSUME Inv, NEW n \in Node, keep_alive_loop(n) PROVE Inv'
<1> USE DEF Inv, TypeOK, keeper, line, faults, bounds
<1>1. CASE Wake(n)
  <2>1. ka' \in [Node -> KaPc]
    BY <1>1 DEF Wake, KaAt, KaTo, KaPc
  <2>2. Backed'
    BY <1>1 DEF Backed, Alive, Wake, KaAt, KaTo, MaxAttempts
  <2> QED
    BY <1>1, <2>1, <2>2 DEF Wake, KaAt, KaTo
<1>2. CASE send_keep_alive_req(n)
  <2>1. ka' \in [Node -> KaPc]
    BY <1>2 DEF send_keep_alive_req, KaAt, Sleep, KaTo, KaPc
  <2>2. ka_timer' \in [Node -> 0..IdleInterval]
    BY <1>2, TimerFacts, SleepKeeps DEF send_keep_alive_req, KaAt
  <2>3. attempt[n] + 1 \in 0..MaxAttempts
    <3>1. attempt[n] \in 0..MaxAttempts
      OBVIOUS
    <3>2. attempt[n] < MaxAttempts
      BY <1>2 DEF send_keep_alive_req, KaAt, Backed
    <3> QED
      BY <3>1, <3>2 DEF MaxAttempts
  <2>4. attempt' \in [Node -> 0..MaxAttempts]
    BY <1>2, <2>3 DEF send_keep_alive_req, KaAt, Sleep, KaTo
  <2>5. net' \in [Node -> Seq(Packet)]
    BY <1>2, SendKeeps, PacketFacts DEF send_keep_alive_req, KaAt, Sleep, KaTo, Packet
  <2>6. Backed'
    BY <1>2 DEF Backed, Alive, send_keep_alive_req, KaAt, Sleep, KaTo, MaxAttempts
  <2> QED
    BY <1>2, <2>1, <2>2, <2>4, <2>5, <2>6 DEF send_keep_alive_req, KaAt, Sleep, KaTo, Packet
<1>3. CASE AttemptOver(n)
  <2>1. ka' \in [Node -> KaPc]
    BY <1>3 DEF AttemptOver, KaAt, Sleep, KaTo, KaPc
  <2>2. ka_timer' \in [Node -> 0..IdleInterval]
    <3>1. CASE Sleep(n, "sleep", IdleInterval)
      BY <3>1, TimerFacts, SleepKeeps
    <3>2. CASE ka_timer' = ka_timer
      BY <3>2
    <3> QED
      BY <1>3, <3>1, <3>2 DEF AttemptOver
  <2>3. attempt[n] \in 0..MaxAttempts /\ 0 \in 0..MaxAttempts
    BY <1>3 DEF AttemptOver, KaAt, Backed, MaxAttempts
  <2>4. attempt' \in [Node -> 0..MaxAttempts]
    BY <1>3, <2>3 DEF AttemptOver, KaAt, Sleep, KaTo
  <2>5. Backed'
    <3>1. \A m \in Node : ka_running'[m] => ka'[m] \notin {"none", "done"}
      BY <1>3 DEF Backed, Alive, AttemptOver, KaAt, Sleep, KaTo
    <3>2. CASE is_activity_recent(n)
      <4>1. attempt' = [attempt EXCEPT ![n] = 0] /\ ka' = [ka EXCEPT ![n] = "sleep"]
        BY <1>3, <3>2 DEF AttemptOver, Sleep, KaTo
      <4> QED
        BY <3>1, <4>1 DEF Backed, Alive, MaxAttempts
    <3>3. CASE ~is_activity_recent(n)
      <4>1. /\ attempt' = attempt
            /\ ka' = [ka EXCEPT ![n] = IF attempt[n] < MaxAttempts THEN "probe" ELSE "quit"]
        BY <1>3, <3>3 DEF AttemptOver, KaTo
      <4> QED
        BY <3>1, <4>1 DEF Backed, Alive
    <3> QED
      BY <3>2, <3>3
  <2> QED
    BY <1>3, <2>1, <2>2, <2>4, <2>5 DEF AttemptOver, KaAt, Sleep, KaTo
<1>4. CASE Stopped(n)
  <2>1. ka' \in [Node -> KaPc]
    BY <1>4 DEF Stopped, KaAt, KaTo, KaPc
  <2>2. Backed'
    BY <1>4 DEF Backed, Alive, Stopped, KaAt, KaTo, MaxAttempts
  <2> QED
    BY <1>4, <2>1, <2>2 DEF Stopped, KaAt, KaTo
<1>5. CASE NoAnswer(n)
  <2>1. ka_running' \in [Node -> BOOLEAN]
    BY <1>5, Zenon DEF NoAnswer, KaAt, KaTo, new_phase
  <2>2. ka' \in [Node -> KaPc]
    BY <1>5 DEF NoAnswer, KaAt, KaTo, new_phase, KaPc
  <2>3. phase' \in [Node -> HOLDOFF..DISCONNECT]
    BY <1>5 DEF NoAnswer, KaAt, KaTo, new_phase, HOLDOFF,
        INITIALIZE, CONNECT, NETWORK, DISCONNECT
  <2>4. Backed'
    BY <1>5 DEF Backed, Alive, NoAnswer, KaAt, KaTo, new_phase, MaxAttempts
  <2> QED
    BY <1>5, <2>1, <2>2, <2>3, <2>4 DEF NoAnswer, KaAt, KaTo, new_phase
<1> QED
  BY <1>1, <1>2, <1>3, <1>4, <1>5 DEF keep_alive_loop

\* Time counts the timers down and the age up, as far as either goes.
LEMMA InvTick == ASSUME Inv, Tick PROVE Inv'
<1> USE DEF Inv, TypeOK, faults
<1>1. \A t \in [Node -> 0..IdleInterval] : Down(t) \in [Node -> 0..IdleInterval]
  BY TimerFacts DEF Down
<1>2. age' \in [Node -> 0..IdleInterval]
  <2>1. \A n \in Node : age[n] \in 0..IdleInterval
    OBVIOUS
  <2>2. \A t \in 0..IdleInterval : (IF t < IdleInterval THEN t + 1 ELSE t) \in 0..IdleInterval
    BY TimerFacts
  <2>3. age' = [n \in Node |-> IF age[n] < IdleInterval THEN age[n] + 1 ELSE age[n]]
    BY DEF Tick
  <2> HIDE DEF Inv, TypeOK
  <2> QED
    BY <2>1, <2>2, <2>3
<1>3. struck' \in [Fault -> Nat] /\ scenario' \in Scenario
  BY SpendKeeps DEF Tick, Fault
<1> QED
  BY <1>1, <1>2, <1>3 DEF Tick, Backed, Alive

\* Every step of every thread, of time and of the network.
LEMMA InvNext == Inv /\ [Next]_vars => Inv'
<1> SUFFICES ASSUME Inv, [Next]_vars PROVE Inv'
  OBVIOUS
<1>1. ASSUME NEW n \in Node, JoinTwice(n) PROVE Inv'
  <2>1. running' \in [Node -> BOOLEAN]
    BY <1>1, Zenon DEF JoinTwice, Inv, TypeOK
  <2> QED
    BY <1>1, <2>1 DEF JoinTwice, Inv, TypeOK, Backed, Alive, keeper, line, bounds, faults
<1>2. ASSUME NEW n \in Node, NetworkFault(n) PROVE Inv'
  <2>1. net' \in [Node -> Seq(Packet)]
    BY <1>2, NetworkKeeps DEF NetworkFault, Inv, TypeOK, Packet
  <2>2. struck' \in [Fault -> Nat] /\ scenario' \in Scenario
    BY <1>2, SpendKeeps DEF NetworkFault, Lose, Duplicate, Overtake, Fault, Inv, TypeOK
  <2> QED
    BY <1>2, <2>1, <2>2 DEF NetworkFault, Inv, TypeOK, Packet, Backed, Alive, keeper, line
<1>3. CASE UNCHANGED vars
  BY <1>3 DEF vars, Inv, TypeOK, Backed, Alive
<1> QED
  BY <1>1, <1>2, <1>3, InvTick, InvUser, InvCommandLine, InvReceiving, InvKeepAlive DEF Next

\* The invariant holds in every state of every behaviour.
LEMMA InvAlways == Spec => []Inv
  BY InvInit, InvNext, PTL DEF Spec

\* Every thread of either node stays among its own steps, no timer runs longer
\* than the intervals of tcu.h, and what is under way is packets of the table
\* of tcu.h, whatever the users do and the network does to it.
THEOREM TypeCorrect == Spec => []TypeOK
<1>1. Inv => TypeOK
  BY DEF Inv
<1> QED
  BY <1>1, InvAlways, PTL

\* _keep_alive_running is up only while there is a keep-alive thread that looks
\* at it (node.cpp:218-298): a stop, a join or the thread's own end, in any
\* interleaving of the three threads, leaves none behind that nobody serves.
THEOREM FlagIsServed == Spec => [](\A n \in Node : ka_running[n] => Alive(n))
<1>1. Inv => \A n \in Node : ka_running[n] => Alive(n)
  BY DEF Inv, Backed
<1> QED
  BY <1>1, InvAlways, PTL
=============================================================================
