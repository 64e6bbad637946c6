--------------------------- MODULE ProgramProofs ---------------------------
(***************************************************************************)
(* What holds of a program for every number of probes and whatever memory  *)
(* its constructor finds: its threads are gone when its node is, and it    *)
(* listens once it was told its port and its peer.                         *)
(***************************************************************************)
EXTENDS Program, TLAPS

\* At the prompt nothing has ended the receive thread, and a port is bound.
Prompt ==
    cli = "line" =>
        /\ socket # "closed"
        /\ receive_running <=> rx # "none"
        /\ rx # "done"
        /\ (over = "no" /\ src = "set") => socket = "bound"
        /\ (over = "no" /\ src = "set" /\ dest = "set") => receive_running

\* Behind the join of stop_receiving there is no receive thread, and so
\* nobody to start a keep-alive thread behind the join of stop_keep_alive.
Joined ==
    /\ cli \in {"stop_ka", "join_ka", "gone"} => rx = "none"
    /\ cli = "gone" => ka = "none"

Inv == TypeOK /\ Prompt /\ Joined

\* Where the main thread goes from each of its stops.
LEMMA Turns ==
    /\ After("begin")   => cli' = "close"
    /\ After("close")   => cli' = "flag"
    /\ After("flag")    => cli' = "join_rx"
    /\ After("join_rx") => cli' = "stop_ka"
    /\ After("stop_ka") => cli' = "join_ka"
    /\ After("join_ka") => cli' \in {"gone", "destroy"}
  BY DEF After, Stops

\* The constructor establishes the invariant.
LEMMA InvInit == Init => Inv
<1> SUFFICES ASSUME Init PROVE Inv
  OBVIOUS
<1>1. {receive_running, ka_running, recent, destroying} \subseteq BOOLEAN /\ ~receive_running
  BY Zenon DEF Init
<1>2. TypeOK
  BY <1>1, AttemptsAssumption, LeftoverAssumption
  DEF Init, TypeOK, Address, Phase, DEAD, INITIALIZE, CLOSED
<1>3. Prompt
  BY <1>1, LeftoverAssumption DEF Init, Prompt
<1>4. Joined
  BY DEF Init, Joined
<1> QED
  BY <1>2, <1>3, <1>4 DEF Inv

\* The commands preserve it, and leave the prompt for the shutdown only.
LEMMA InvCommand == Inv /\ Command => Inv'
<1> SUFFICES ASSUME Inv, Command PROVE Inv'
  OBVIOUS
<1> USE DEF Inv, TypeOK, Prompt, Joined, CliAt, main, receiver, keeper, address
<1>1. ASSUME NEW a \in {"zero", "set"}, set_port(a) PROVE Inv'
  <2>1. start_receiving => receive_running' /\ receive_running' \in BOOLEAN
    BY Zenon DEF start_receiving
  <2>2. start_receiving => rx' = IF receive_running THEN rx ELSE "loop"
    BY DEF start_receiving
  <2> QED
    BY <1>1, <2>1, <2>2 DEF set_port, End, Address
<1>2. ASSUME NEW a \in {"zero", "set"}, set_dest(a) PROVE Inv'
  <2>1. start_receiving => receive_running' /\ receive_running' \in BOOLEAN
    BY Zenon DEF start_receiving
  <2>2. start_receiving => rx' = IF receive_running THEN rx ELSE "loop"
    BY DEF start_receiving
  <2> QED
    BY <1>2, <2>1, <2>2 DEF set_dest, Address
<1>3. CASE Malformed
  BY <1>3 DEF Malformed, End
<1>4. CASE send_tcu_conn_req
  <2>1. ka_running' \in BOOLEAN
    BY <1>4, Zenon DEF send_tcu_conn_req
  <2> QED
    BY <1>4, <2>1 DEF send_tcu_conn_req, Phase, DEAD, HOLDOFF, CLOSED
<1>5. CASE exit
  BY <1>5, Turns DEF exit, After
<1>6. CASE EndOfInput
  BY <1>6 DEF EndOfInput
<1> QED
  BY <1>1, <1>2, <1>3, <1>4, <1>5, <1>6 DEF Command

\* So does every step of the shutdown: each join empties one thread object.
LEMMA InvShutdown == Inv /\ Shutdown => Inv'
<1> SUFFICES ASSUME Inv, Shutdown PROVE Inv'
  OBVIOUS
<1> USE DEF Inv, TypeOK, Prompt, Joined, CliAt, main, receiver, keeper, address
<1>1. CASE Destroy
  BY <1>1 DEF Destroy, Stops, Phase, DEAD, CLOSED
<1>2. CASE close_socket
  BY <1>2, Turns DEF close_socket, After
<1>3. CASE StopReceiving
  <2>1. receive_running' \in BOOLEAN
    BY <1>3, Zenon DEF StopReceiving
  <2> QED
    BY <1>3, <2>1, Turns DEF StopReceiving, After
<1>4. CASE JoinReceiver
  BY <1>4, Turns DEF JoinReceiver, After, RxTo
<1>5. CASE StopKeepAlive
  BY <1>5, Turns DEF StopKeepAlive, After
<1>6. CASE JoinKeepAlive
  BY <1>6, Turns DEF JoinKeepAlive, After, KaTo
<1>7. CASE Return
  BY <1>7 DEF Return, End
<1> QED
  BY <1>1, <1>2, <1>3, <1>4, <1>5, <1>6, <1>7 DEF Shutdown

\* The receive thread acts only while there is one, that is, before the join.
LEMMA InvReceive == Inv /\ Receive => Inv'
<1> SUFFICES ASSUME Inv, Receive PROVE Inv'
  OBVIOUS
<1> USE DEF Inv, TypeOK, Prompt, Joined, RxAt, RxTo, Receives, main, receiver, keeper, address
<1>1. CASE receive_loop
  BY <1>1 DEF receive_loop
<1>2. CASE FdSet
  BY <1>2 DEF FdSet, End
<1>3. CASE NothingReceived
  BY <1>3 DEF NothingReceived
<1>4. CASE OtherPacket
  BY <1>4 DEF OtherPacket
<1>5. CASE process_tcu_conn_req
  BY <1>5 DEF process_tcu_conn_req, Phase, DEAD, CONNECT, CLOSED
<1>6. CASE start_keep_alive
  BY <1>6 DEF start_keep_alive
<1>7. CASE send_tcu_conn_ack
  BY <1>7 DEF send_tcu_conn_ack, Phase, DEAD, NETWORK, CLOSED
<1>8. CASE process_tcu_disconn_req
  <2>1. ka_running' \in BOOLEAN
    BY <1>8, Zenon DEF process_tcu_disconn_req
  <2> QED
    BY <1>8, <2>1 DEF process_tcu_disconn_req, Phase, DEAD, DISCONNECT, CLOSED
<1>9. CASE stop_keep_alive
  BY <1>9 DEF stop_keep_alive, KaTo
<1>10. CASE send_tcu_disconn_ack
  BY <1>10 DEF send_tcu_disconn_ack, Phase, DEAD, HOLDOFF, CLOSED
<1> QED
  BY <1>1, <1>2, <1>3, <1>4, <1>5, <1>6, <1>7, <1>8, <1>9, <1>10 DEF Receive

\* The keep-alive thread counts its probes, and never comes out of nowhere.
LEMMA InvKeepAlive == Inv /\ KeepAlive => Inv'
<1> SUFFICES ASSUME Inv, KeepAlive PROVE Inv'
  OBVIOUS
<1> USE AttemptsAssumption
    DEF Inv, TypeOK, Prompt, Joined, KaAt, KaTo, main, receiver, keeper, address
<1>1. CASE Wake
  BY <1>1 DEF Wake
<1>2. CASE send_keep_alive_req
  BY <1>2 DEF send_keep_alive_req
<1>3. CASE AttemptOver
  BY <1>3 DEF AttemptOver
<1>4. CASE Stopped
  BY <1>4 DEF Stopped
<1>5. CASE NoAnswer
  <2>1. ka_running' \in BOOLEAN
    BY <1>5, Zenon DEF NoAnswer
  <2> QED
    BY <1>5, <2>1 DEF NoAnswer, Phase, DEAD, HOLDOFF, CLOSED
<1> QED
  BY <1>1, <1>2, <1>3, <1>4, <1>5 DEF KeepAlive

\* Every step of every thread preserves the invariant.
LEMMA InvNext == Inv /\ [Next]_vars => Inv'
<1> SUFFICES ASSUME Inv, [Next]_vars PROVE Inv'
  OBVIOUS
<1>1. CASE Expire
  <2>1. recent' \in BOOLEAN
    BY <1>1, Zenon DEF Expire
  <2> QED
    BY <1>1, <2>1 DEF Expire, Inv, TypeOK, Prompt, Joined, main, receiver, keeper, address
<1>2. CASE UNCHANGED vars
  BY <1>2 DEF vars, Inv, TypeOK, Prompt, Joined, main, receiver, keeper, address
<1> QED
  BY <1>1, <1>2, InvCommand, InvShutdown, InvReceive, InvKeepAlive DEF Next, Over

\* The invariant holds throughout every run of the program.
LEMMA InvAlways == Spec => []Inv
  BY InvInit, InvNext, PTL DEF Spec

\* Every thread stays among its own statements, and no peer is probed more
\* than Attempts times in a row (node.cpp:240-298).
THEOREM TypeCorrect == Spec => []TypeOK
<1>1. Inv => TypeOK
  BY DEF Inv
<1> QED
  BY <1>1, InvAlways, PTL

\* The destructor returns with both threads joined (node.cpp:50-58), whether
\* the exit command stopped them before or the input just ended, and whatever
\* the peer sent meanwhile.
THEOREM ThreadsJoined == Spec => []NoThreadOutlivesNode
<1>1. Inv => NoThreadOutlivesNode
  BY DEF Inv, Joined, NoThreadOutlivesNode
<1> QED
  BY <1>1, InvAlways, PTL

\* A node that was told its port and its peer is listening (node.cpp:60-92).
THEOREM Listening == Spec => []ReadyWhenSet
<1>1. Inv => ReadyWhenSet
  BY DEF Inv, Prompt, ReadyWhenSet
<1> QED
  BY <1>1, InvAlways, PTL
=============================================================================
