------------------------------ MODULE Program ------------------------------
(***************************************************************************)
(* The life of one program: the command line that sets the node up and     *)
(* takes it down (tools/cli.cpp, main.cpp, the set-up and the destructor   *)
(* in entities/node.cpp), and the two threads it must outlive, the receive *)
(* thread on its socket and the keep-alive thread.                         *)
(*                                                                         *)
(* What the commands connect and disconnect, and the packets of a peer, do *)
(* to a connection is the subject of module Connection.  Here the peer may *)
(* send anything at any time, and a connect command goes unanswered.       *)
(***************************************************************************)
EXTENDS Tcu

CONSTANTS
    Attempts,  \* TCU_ACTIVITY_ATTEMPT_COUNT
    Leftover   \* what the constructor may leave in the ports it does not set

ASSUME AttemptsAssumption == Attempts \in Nat \ {0}

\* Whether an address was given and whether it counts as one: the code tells
\* them apart by zero, and what was never set need not be zero.
Address == {"junk", "zero", "set"}

ASSUME LeftoverAssumption == Leftover \subseteq {"junk", "zero"}

VARIABLES
    src, dest,        \* _pcb.src_port; _pcb.dest_port and _pcb.dest_ip
    socket,           \* _socket: "open", "bound" to a port, or "closed"
    phase,            \* _pcb.phase
    receive_running,  \* _receive_running
    rx,               \* where the thread in _receive_thread is
    ka_running,       \* _keep_alive_running
    ka,               \* where the thread in _keep_alive_thread is
    attempt,          \* how many probes it has sent in a row
    recent,           \* is_activity_recent
    cli,              \* where the main thread is
    destroying,       \* whether it is in the destructor of the node
    over              \* how the program ended, if it did

address  == <<src, dest>>
receiver == <<receive_running, rx>>
keeper   == <<ka_running, ka, attempt>>
main     == <<cli, destroying, over>>
vars == <<address, socket, phase, receiver, keeper, recent, main>>

-----------------------------------------------------------------------------
(* Helpers *)

CliAt(pc) == over = "no" /\ cli = pc
RxAt(pc)  == over = "no" /\ rx = pc
KaAt(pc)  == over = "no" /\ ka = pc

RxTo(pc) == rx' = pc /\ UNCHANGED receive_running
KaTo(pc) == ka' = pc /\ UNCHANGED ka_running
End(how) == over' = how /\ UNCHANGED <<cli, destroying>>

\* A joining thread waits for a thread that has yet to end.
Ended(thread) == thread \in {"none", "done"}

\* The handlers in which the receive thread waits for the keep-alive thread.
Joining == {"accept", "fin_join"}

-----------------------------------------------------------------------------
(* The command line *)

start_receiving ==
    /\ receive_running' = TRUE
    /\ rx' = IF receive_running THEN rx ELSE "loop"

\* A socket is bound once; the program ends if it is bound already, or to a
\* port in use.  Port 65536 is zero.
set_port(port) ==
    /\ CliAt("line")
    /\ src' = port
    /\ \/ /\ socket = "open" /\ socket' = "bound"
          /\ IF dest # "zero" THEN start_receiving ELSE UNCHANGED receiver
          /\ UNCHANGED main
       \/ /\ socket = "bound" \/ port # "zero"
          /\ End("failed")
          /\ UNCHANGED <<socket, receiver>>
    /\ UNCHANGED <<dest, phase, keeper, recent>>

DestWithoutStart(addr) ==                                       \* mutation
    /\ CliAt("line")
    /\ dest' = addr
    /\ UNCHANGED <<src, socket, phase, receiver, keeper, recent, main>>

set_dest(addr) ==
    /\ CliAt("line")
    /\ dest' = addr
    /\ IF src # "zero" THEN start_receiving ELSE UNCHANGED receiver
    /\ UNCHANGED <<src, socket, phase, keeper, recent, main>>

\* std::stoi throws on a port that is no number, and nothing catches it.
Malformed ==
    /\ CliAt("line")
    /\ End("aborted")
    /\ UNCHANGED <<address, socket, phase, receiver, keeper, recent>>

\* The request that nobody answers: the operating system gives a socket that
\* sends a port of its own choice, and the node is back where it was.
send_tcu_conn_req ==
    /\ CliAt("line")
    /\ src # "zero" /\ dest # "zero"
    /\ Connectable(phase) /\ Ended(ka) /\ rx \notin Joining
    /\ phase' = HOLDOFF
    /\ socket' = "bound"
    /\ ka_running' = FALSE /\ ka' = "none" /\ UNCHANGED attempt
    /\ UNCHANGED <<address, receiver, recent, main>>

-----------------------------------------------------------------------------
(* The end of the program *)

SwappedStops == [begin |-> "stop_ka", stop_ka |-> "join_ka", join_ka |-> "close",
                 close |-> "flag", flag |-> "join_rx", join_rx |-> "end"] \* mutation

\* stop_receiving and then stop_keep_alive, step by step: the exit command
\* calls them before the destructor does, an end of input does not.
Stops == [begin |-> "close", close |-> "flag", flag |-> "join_rx",
          join_rx |-> "stop_ka", stop_ka |-> "join_ka", join_ka |-> "end"]

After(pc) ==
    /\ cli' = IF Stops[pc] # "end" THEN Stops[pc] ELSE IF destroying THEN "gone" ELSE "destroy"
    /\ UNCHANGED <<destroying, over>>

exit ==
    /\ CliAt("line") /\ After("begin")
    /\ UNCHANGED <<address, socket, phase, receiver, keeper, recent>>

EndOfInput ==
    /\ CliAt("line")
    /\ cli' = "destroy" /\ UNCHANGED <<destroying, over>>
    /\ UNCHANGED <<address, socket, phase, receiver, keeper, recent>>

\* The destructor of the node.
Destroy ==
    /\ CliAt("destroy")
    /\ destroying' = TRUE /\ cli' = Stops.begin /\ UNCHANGED over
    /\ phase' = DEAD
    /\ UNCHANGED <<address, socket, receiver, keeper, recent>>

close_socket ==
    /\ CliAt("close") /\ After("close")
    /\ socket' = "closed"
    /\ UNCHANGED <<address, phase, receiver, keeper, recent>>

StopReceiving ==
    /\ CliAt("flag") /\ After("flag")
    /\ receive_running' = FALSE
    /\ UNCHANGED <<address, socket, phase, rx, keeper, recent>>

JoinReceiver ==
    /\ CliAt("join_rx") /\ After("join_rx")
    /\ Ended(rx) /\ RxTo("none")
    /\ UNCHANGED <<address, socket, phase, keeper, recent>>

StopKeepAlive ==
    /\ CliAt("stop_ka") /\ After("stop_ka")
    /\ ka_running' = FALSE
    /\ UNCHANGED <<address, socket, phase, receiver, ka, attempt, recent>>

JoinKeepAlive ==
    /\ CliAt("join_ka") /\ After("join_ka")
    /\ Ended(ka) /\ KaTo("none")
    /\ UNCHANGED <<address, socket, phase, receiver, attempt, recent>>

\* The members of the node go; a thread nobody joined takes the program along.
Return ==
    /\ CliAt("gone")
    /\ End(IF rx = "none" /\ ka = "none" THEN "ended" ELSE "aborted")
    /\ UNCHANGED <<address, socket, phase, receiver, keeper, recent>>

-----------------------------------------------------------------------------
(* The receive thread *)

\* The descriptor is no atomic: a reader may miss that it was closed.
receive_loop ==
    /\ RxAt("loop")
    /\ \/ ~receive_running /\ RxTo("done")
       \/ receive_running /\ socket = "closed" /\ RxTo("done")
       \/ receive_running /\ RxTo("fd_set")
    /\ UNCHANGED <<address, socket, phase, keeper, recent, main>>

\* FD_SET of the descriptor -1 is undefined: it aborts, or it goes unnoticed.
FdSet ==
    /\ RxAt("fd_set")
    /\ \/ RxTo("select") /\ UNCHANGED main
       \/ socket = "closed" /\ End("aborted") /\ UNCHANGED receiver
    /\ UNCHANGED <<address, socket, phase, keeper, recent>>

\* Nothing arrives in time, select or recvfrom fails, or the packet is dropped.
NothingReceived ==
    /\ RxAt("select") /\ RxTo("loop")
    /\ UNCHANGED <<address, socket, phase, keeper, recent, main>>

Receives == RxAt("select") /\ socket = "bound" /\ recent' = TRUE

process_tcu_conn_req ==
    /\ Receives /\ Connectable(phase)
    /\ phase' = CONNECT
    /\ RxTo("accept")
    /\ UNCHANGED <<address, socket, keeper, main>>

\* An earlier keep-alive thread is waited for, but not told to stop.
start_keep_alive ==
    /\ RxAt("accept") /\ RxTo("greet")
    /\ Ended(ka)
    /\ ka_running' = TRUE /\ ka' = "sleep" /\ UNCHANGED attempt
    /\ UNCHANGED <<address, socket, phase, recent, main>>

send_tcu_conn_ack ==
    /\ RxAt("greet") /\ RxTo("loop")
    /\ phase' = IF phase = CONNECT THEN NETWORK ELSE phase
    /\ UNCHANGED <<address, socket, keeper, recent, main>>

process_tcu_disconn_req ==
    /\ Receives /\ Active(phase)
    /\ phase' = DISCONNECT
    /\ ka_running' = FALSE
    /\ RxTo("fin_join")
    /\ UNCHANGED <<address, socket, ka, attempt, main>>

stop_keep_alive ==
    /\ RxAt("fin_join") /\ RxTo("fin_ack")
    /\ Ended(ka) /\ KaTo("none")
    /\ UNCHANGED <<address, socket, phase, attempt, recent, main>>

send_tcu_disconn_ack ==
    /\ RxAt("fin_ack") /\ RxTo("loop")
    /\ phase' = IF phase = DISCONNECT THEN HOLDOFF ELSE phase
    /\ UNCHANGED <<address, socket, keeper, recent, main>>

\* Any other packet the phase calls for only counts as activity, ...
OtherPacket ==
    /\ Receives /\ RxTo("loop")
    /\ UNCHANGED <<address, socket, phase, keeper, main>>

\* ... for so long.
Expire ==
    /\ over = "no" /\ recent /\ recent' = FALSE
    /\ UNCHANGED <<address, socket, phase, receiver, keeper, main>>

-----------------------------------------------------------------------------
(* The keep-alive thread *)

\* After five minutes the loop probes, whatever it heard meanwhile.
Wake ==
    /\ KaAt("sleep") /\ ka_running
    /\ KaTo("probe") /\ attempt' = 0
    /\ UNCHANGED <<address, socket, phase, receiver, recent, main>>

send_keep_alive_req ==
    /\ KaAt("probe") /\ ka_running
    /\ KaTo("await") /\ attempt' = attempt + 1
    /\ UNCHANGED <<address, socket, phase, receiver, recent, main>>

OneProbeTooMany ==                                              \* mutation
    /\ KaAt("await") /\ ka_running
    /\ KaTo(IF recent THEN "sleep" ELSE IF attempt <= Attempts THEN "probe" ELSE "quit")
    /\ UNCHANGED <<address, socket, phase, receiver, attempt, recent, main>>

NeverGiveUp ==                                                  \* mutation
    /\ KaAt("await") /\ ka_running
    /\ KaTo(IF recent \/ attempt = Attempts THEN "sleep" ELSE "probe")
    /\ UNCHANGED <<address, socket, phase, receiver, attempt, recent, main>>

AttemptOver ==
    /\ KaAt("await") /\ ka_running
    /\ KaTo(IF recent THEN "sleep" ELSE IF attempt < Attempts THEN "probe" ELSE "quit")
    /\ UNCHANGED <<address, socket, phase, receiver, attempt, recent, main>>

\* Told to stop: asleep the loop just ends, but among its probes it takes the
\* missing answer for a dead peer, and closes the connection on its way out.
Stopped ==
    /\ ~ka_running
    /\ \/ KaAt("sleep") /\ KaTo("done")
       \/ (KaAt("probe") \/ KaAt("await")) /\ KaTo("quit")
    /\ UNCHANGED <<address, socket, phase, receiver, attempt, recent, main>>

NoAnswer ==
    /\ KaAt("quit")
    /\ ka_running' = FALSE /\ ka' = "done" /\ UNCHANGED attempt
    /\ phase' = HOLDOFF
    /\ UNCHANGED <<address, socket, receiver, recent, main>>

-----------------------------------------------------------------------------

Init ==
    /\ src \in Leftover /\ dest \in Leftover
    /\ socket = "open"
    /\ phase = INITIALIZE
    /\ receive_running = FALSE /\ rx = "none"
    /\ ka_running = FALSE /\ ka = "none" /\ attempt = 0
    /\ recent = FALSE
    /\ cli = "line" /\ destroying = FALSE /\ over = "no"

Command == \/ \E a \in {"zero", "set"} : set_port(a) \/ set_dest(a)
           \/ Malformed \/ send_tcu_conn_req \/ exit \/ EndOfInput

Shutdown == \/ Destroy \/ close_socket \/ StopReceiving \/ JoinReceiver
            \/ StopKeepAlive \/ JoinKeepAlive \/ Return

Receive == \/ receive_loop \/ FdSet \/ NothingReceived \/ OtherPacket
           \/ process_tcu_conn_req \/ start_keep_alive \/ send_tcu_conn_ack
           \/ process_tcu_disconn_req \/ stop_keep_alive \/ send_tcu_disconn_ack

KeepAlive == Wake \/ send_keep_alive_req \/ AttemptOver \/ Stopped \/ NoAnswer

\* The program is gone, and nothing happens any more.
Over == over # "no" /\ UNCHANGED vars

Next == Command \/ Shutdown \/ Receive \/ KeepAlive \/ Expire \/ Over

Spec == Init /\ [][Next]_vars

\* Every thread is scheduled and time passes; nobody has to give a command.
Fairness == WF_vars(Shutdown) /\ WF_vars(Receive) /\ WF_vars(KeepAlive) /\ WF_vars(Expire)

FairSpec == Spec /\ Fairness

-----------------------------------------------------------------------------
(* Properties *)

\* The type invariant: no thread is anywhere but at a statement of its own,
\* and the keep-alive loop never probes more than Attempts times in a row.
TypeOK ==
    /\ src \in Address /\ dest \in Address
    /\ socket \in {"open", "bound", "closed"}
    /\ phase \in Phase
    /\ receive_running \in BOOLEAN
    /\ rx \in {"none", "loop", "fd_set", "select", "accept", "greet", "fin_join", "fin_ack",
               "done"}
    /\ ka_running \in BOOLEAN
    /\ ka \in {"none", "sleep", "probe", "await", "quit", "done"}
    /\ attempt \in 0..Attempts
    /\ ka = "probe" => attempt < Attempts
    /\ recent \in BOOLEAN
    /\ cli \in {"line", "destroy", "close", "flag", "join_rx", "stop_ka", "join_ka", "gone"}
    /\ destroying \in BOOLEAN
    /\ over \in {"no", "ended", "failed", "aborted"}

\* When the destructor of the node returns, neither of its threads is left
\* (node.cpp:50-58): the receive thread can start a keep-alive thread, so it
\* has to be waited for before the keep-alive thread is stopped.
NoThreadOutlivesNode == cli = "gone" => rx = "none" /\ ka = "none"

\* At the prompt, a node that was given a port and a destination, in either
\* order and however often, listens on a bound socket (node.cpp:60-92),
\* whatever its constructor left in the fields it does not set.
ReadyWhenSet ==
    (over = "no" /\ cli = "line" /\ src = "set" /\ dest = "set")
        => socket = "bound" /\ rx \notin {"none", "done"}

\* A program told to end does end (node.cpp:193-238): nothing the two threads
\* wait for, one for the other and the main thread for both, keeps it.
ExitCompletes == (cli # "line") ~> (over # "no")
=============================================================================
