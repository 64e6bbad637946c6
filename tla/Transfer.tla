------------------------------ MODULE Transfer ------------------------------
(***************************************************************************)
(* The data path of two connected nodes (entities/node.cpp): texts and     *)
(* files cut into fragments, sent window by window, repaired by negative   *)
(* acknowledgments and by timeouts, and assembled at the other end.        *)
(*                                                                         *)
(* Each node runs two threads that share the fields of Node: the command   *)
(* line, which sends a message and blocks until it is acknowledged or      *)
(* given up, and the receive thread, which handles one packet at a time.   *)
(* Both nodes run the same code, so both have every variable; a node       *)
(* outside Sender only receives.                                           *)
(*                                                                         *)
(* A message is the number k of its send command and its length in         *)
(* fragments.  Fragment i of message k travels as a packet with sequence   *)
(* number i and body k.  Keep-alive and the handshakes, which leave the    *)
(* data path alone while the connection is up, are in Connection.          *)
(*                                                                         *)
(* Definitions marked "mutation" are plausible slips in the code next to   *)
(* which they stand.  No part of Next uses them: each shows, put in the    *)
(* place of the definition after it, which property would notice.          *)
(***************************************************************************)
EXTENDS Tcu, Sequences, SequencesExt

CONSTANTS
    Node,          \* the two peers
    Sender,        \* the nodes whose users send messages
    SentKind,      \* the kinds of message they send
    Total,         \* the lengths of the messages, in fragments
    WindowSize,    \* the sizes a user sets the window to
    SeqModulus,    \* 2^24 in the code: the width of sequence numbers
    MaxMessages,   \* bound: messages per node
    Budgets        \* bound: how often each kind of fault may strike, and with which others

\* What can go wrong: the three faults the program simulates on command, the
\* faults of UDP, a timer that expires while packets are in flight, and a file
\* that cannot be written.
Simulated == {"drop", "corrupt", "window"}
Fault     == Simulated \cup {"lose", "duplicate", "reorder", "early", "save"}

MaxRetries == 3    \* TCU_ACTIVITY_ATTEMPT_COUNT

ASSUME NodeAssumption    == \E a, b \in Node : a # b /\ Node = {a, b}
ASSUME SenderAssumption  == Sender \subseteq Node /\ SentKind \subseteq Kind
ASSUME ModulusAssumption == SeqModulus \in Nat /\ SeqModulus > 1
\* A message of SeqModulus - 1 fragments would keep the loops of the code that
\* count up to its length from ever ending, so the lengths stay below.
ASSUME SizesAssumption   == /\ Total \subseteq 1..(SeqModulus - 2)
                            /\ WindowSize \subseteq 1..(SeqModulus - 1)
ASSUME BoundsAssumption  == MaxMessages \in Nat /\ Budgets \subseteq [Fault -> Nat]

Peer(n) == CHOOSE m \in Node : m # n

SeqNum == 0..(SeqModulus - 1)

\* The body of a packet: a message, nothing, or bytes whose checksum fails.
Nothing == 0
Garbled == -1
Message == 1..MaxMessages
Body    == Message \cup {Nothing, Garbled}

Packet  == [flags : SUBSET Flag, seq : SeqNum, body : Body]
NoFragments == [i \in SeqNum |-> Nothing]
MessageInfo == [kind : Kind, total : Total]
Arrival     == [kind : Kind, fragments : [SeqNum -> Body]]
CliState    == [pc : {"idle", "loop", "window", "wait"}, seq : SeqNum, retry : 0..MaxRetries]

VARIABLES
    phase,             \* _pcb.phase of each node
    send_packets,      \* _send_packets: fragment i of the message is element i
    received_packets,  \* _received_packets: the body held for each number
    seq_num,           \* _seq_num, used by both threads, in both roles
    last_num,          \* _last_num
    total_num,         \* _total_num
    window_size,       \* _window_size
    dynamic_window,    \* _dynamic_window
    ack_received,      \* _ack_received
    cli,               \* the command line thread: where it is, and its locals
    assembling,        \* the receive thread: the kind it is assembling, if any
    net,               \* packets on their way to each node, in order
    struck,            \* how often each fault has struck
    sent,              \* history: the messages each node was told to send
    completed,         \* history: those its user saw reported "complete"
    delivered          \* history: what each node handed to its user

config   == <<window_size, dynamic_window>>
receiver == <<received_packets, last_num, assembling>>
history  == <<sent, completed, delivered>>
vars == <<phase, send_packets, received_packets, seq_num, last_num, total_num,
          window_size, dynamic_window, ack_received, cli, assembling, net,
          struck, sent, completed, delivered>>

-----------------------------------------------------------------------------
(* Helpers *)

PlusUnwrapped(a, b) == a + b                                    \* mutation
Plus(a, b) == (a + b) % SeqModulus

Data(n)            == Head(net[n])
validate_crc(p)    == p.body # Garbled
Holds(buffer, i)   == buffer[i] # Nothing
DataPacket(flags, i, k) == [flags |-> flags, seq |-> i, body |-> k]
Control(flags, i)       == [flags |-> flags, seq |-> i, body |-> Nothing]

\* A fault strikes, if some budget allows it on top of those that have struck.
Spend(fault) ==
    /\ struck' = [struck EXCEPT ![fault] = @ + 1]
    /\ \E limit \in Budgets : \A f \in Fault : struck'[f] <= limit[f]

\* A data packet leaves node n: the program itself may lose or corrupt it.
send_packet(n, p) ==
    \/ /\ net' = [net EXCEPT ![Peer(n)] = Append(@, p)]
       /\ UNCHANGED struck
    \/ /\ Spend("drop")
       /\ UNCHANGED net
    \/ /\ Spend("corrupt")
       /\ net' = [net EXCEPT ![Peer(n)] = Append(@, [p EXCEPT !.body = Garbled])]

\* Node n has handled the packet at the head of its channel and answers with
\* service packets, which the program never loses.
Answer(n, packets) ==
    net' = [net EXCEPT ![n] = Tail(@), ![Peer(n)] = @ \o packets]

dynamic_window_size(total) == IF total \div 5 > 1 THEN total \div 5 ELSE 1

\* The flags a fragment is first sent with: w is the window, t the total.
FragmentFlags(i, t, w, kind) ==
    IF i = t THEN LastFrag(kind)
    ELSE IF i % w = 0 THEN LastWindFrag(kind)
    ELSE MoreFrag(kind)

LastWindowStartEarly(n) ==                                      \* mutation
    total_num[n] - (total_num[n] % window_size[n])

\* Where the last window starts, for the sender of a fragment asked for again.
last_window_start(n) ==
    IF total_num[n] > window_size[n]
    THEN total_num[n] - ((total_num[n] - 1) % window_size[n])
    ELSE 1

IsSingle(n) == Len(send_packets[n]) = 1

-----------------------------------------------------------------------------
(* The command line thread: settings and sending *)

Idle(n)    == n \in Sender /\ cli[n].pc = "idle"
MaySend(n) == Idle(n) /\ Active(phase[n]) /\ Len(sent[n]) < MaxMessages

set_window_size(n) ==
    /\ Idle(n)
    /\ \E w \in WindowSize : window_size' = [window_size EXCEPT ![n] = w]
    /\ dynamic_window' = [dynamic_window EXCEPT ![n] = FALSE]
    /\ UNCHANGED <<phase, send_packets, receiver, seq_num, total_num,
                   ack_received, cli, net, struck, history>>

set_dynamic_window(n) ==
    /\ Idle(n)
    /\ dynamic_window' = [dynamic_window EXCEPT ![n] = TRUE]
    /\ UNCHANGED <<phase, send_packets, receiver, seq_num, total_num,
                   window_size, ack_received, cli, net, struck, history>>

\* A message that fits in one packet: sent at once, then waited for.  The
\* fields that describe windows keep what the previous message left there.
SendSingle(n, kind) ==
    /\ MaySend(n) /\ 1 \in Total
    /\ LET k == Len(sent[n]) + 1
           p == DataPacket(Single(kind), 1, k)
       IN  /\ send_packets' = [send_packets EXCEPT ![n] = <<p>>]
           /\ send_packet(n, p)
    /\ seq_num' = [seq_num EXCEPT ![n] = 1]
    /\ ack_received' = [ack_received EXCEPT ![n] = FALSE]
    /\ cli' = [cli EXCEPT ![n] = [pc |-> "wait", seq |-> 0, retry |-> 0]]
    /\ sent' = [sent EXCEPT ![n] = Append(@, [kind |-> kind, total |-> 1])]
    /\ UNCHANGED <<phase, receiver, total_num, config, completed, delivered>>

\* A longer message: cut into fragments, to be sent window by window.
SendFragmented(n, kind) ==
    /\ MaySend(n)
    /\ \E t \in Total \ {1} :
         LET w == IF dynamic_window[n] THEN dynamic_window_size(t)
                                       ELSE window_size[n]
             k == Len(sent[n]) + 1
         IN  /\ total_num'    = [total_num EXCEPT ![n] = t]
             /\ window_size'  = [window_size EXCEPT ![n] = w]
             /\ send_packets' = [send_packets EXCEPT ![n] =
                  [i \in 1..t |-> DataPacket(FragmentFlags(i, t, w, kind), i, k)]]
             /\ sent' = [sent EXCEPT ![n] = Append(@, [kind |-> kind, total |-> t])]
    /\ seq_num' = [seq_num EXCEPT ![n] = 1]
    /\ cli' = [cli EXCEPT ![n].pc = "loop"]
    /\ UNCHANGED <<phase, receiver, dynamic_window, ack_received, net, struck,
                   completed, delivered>>

\* A file that cannot be opened or read is noticed only after the packets of the
\* last message have been cleared and _seq_num has been set back.
CannotRead(n) ==
    /\ MaySend(n)
    /\ send_packets' = [send_packets EXCEPT ![n] = <<>>]
    /\ seq_num' = [seq_num EXCEPT ![n] = 1]
    /\ UNCHANGED <<phase, receiver, total_num, config, ack_received, cli, net,
                   struck, history>>

send_text(n) == "text" \in SentKind /\ (SendSingle(n, "text") \/ SendFragmented(n, "text"))
send_file(n) == /\ "file" \in SentKind
                /\ SendSingle(n, "file") \/ SendFragmented(n, "file") \/ CannotRead(n)

\* send_window up to its loop: with the given count of retries, either the
\* whole window is lost on purpose or its first fragment is next.
StartWindow(n, retry) ==
    /\ \/ /\ cli' = [cli EXCEPT ![n] = [pc |-> "window", seq |-> seq_num[n], retry |-> retry]]
          /\ UNCHANGED struck
       \/ /\ Spend("window")
          /\ cli' = [cli EXCEPT ![n] = [pc |-> "wait", seq |-> 0, retry |-> retry]]

MoreToSend(n) == /\ ~IsSingle(n)
                 /\ seq_num[n] <= total_num[n]
                 /\ phase[n] = NETWORK

NextWindow(n) ==
    /\ cli[n].pc = "loop" /\ MoreToSend(n)
    /\ ack_received' = [ack_received EXCEPT ![n] = FALSE]
    /\ StartWindow(n, 0)
    /\ UNCHANGED <<phase, send_packets, receiver, seq_num, total_num, config,
                   net, history>>

\* The loop reads _seq_num again for every fragment, so an acknowledgment that
\* arrives meanwhile moves the end of the window.
InWindow(n) == /\ cli[n].seq < Plus(seq_num[n], window_size[n])
               /\ cli[n].seq <= total_num[n]

SendFragment(n) ==
    /\ cli[n].pc = "window" /\ InWindow(n)
    /\ IF cli[n].seq \in DOMAIN send_packets[n]
       THEN send_packet(n, send_packets[n][cli[n].seq])
       ELSE UNCHANGED <<net, struck>>
    /\ cli' = [cli EXCEPT ![n].seq = Plus(@, 1)]
    /\ UNCHANGED <<phase, send_packets, receiver, seq_num, total_num, config,
                   ack_received, history>>

EndWindow(n) ==
    /\ cli[n].pc = "window" /\ ~InWindow(n)
    /\ cli' = [cli EXCEPT ![n].pc = "wait", ![n].seq = 0]
    /\ UNCHANGED <<phase, send_packets, receiver, seq_num, total_num, config,
                   ack_received, net, struck, history>>

\* The waiting thread looks at the flag every 100 ms, which on the local
\* network the program is made for is longer than a round trip: when it looks,
\* nothing of its transfer is on its way.  "early" is a look that comes sooner.
RoundTripOver(n) ==
    /\ \A i \in DOMAIN net[n] : net[n][i].flags \notin {PositiveAck, NegativeAck}
    /\ \A i \in DOMAIN net[Peer(n)] : net[Peer(n)][i].body = Nothing
    /\ assembling[Peer(n)] = "nothing"

\* wait_for_recv_ack: the flag is looked at while the timer runs, ...
AckSeen(n) ==
    /\ cli[n].pc = "wait" /\ cli[n].retry < MaxRetries
    /\ ack_received[n]
    /\ \/ RoundTripOver(n) /\ UNCHANGED struck
       \/ ~RoundTripOver(n) /\ Spend("early")
    /\ ack_received' = [ack_received EXCEPT ![n] = FALSE]
    /\ cli' = [cli EXCEPT ![n] = [pc |-> "loop", seq |-> 0, retry |-> 0]]
    /\ UNCHANGED <<phase, send_packets, receiver, seq_num, total_num, config,
                   net, history>>

\* ... the window is sent again when it expires, ...
Timeout(n) ==
    /\ cli[n].pc = "wait" /\ cli[n].retry < MaxRetries
    /\ \/ /\ RoundTripOver(n) /\ ~ack_received[n]
          /\ StartWindow(n, cli[n].retry + 1)
       \/ /\ ~RoundTripOver(n)
          /\ Spend("early")
          /\ cli' = [cli EXCEPT ![n] = [pc |-> "window", seq |-> seq_num[n],
                                        retry |-> @.retry + 1]]
    /\ UNCHANGED <<phase, send_packets, receiver, seq_num, total_num, config,
                   ack_received, net, history>>

GiveUpEarly(n) ==                                               \* mutation
    /\ cli[n].pc = "wait" /\ cli[n].retry = MaxRetries - 1
    /\ phase' = [phase EXCEPT ![n] = HOLDOFF]
    /\ cli' = [cli EXCEPT ![n] = [pc |-> "loop", seq |-> 0, retry |-> 0]]
    /\ UNCHANGED <<send_packets, receiver, seq_num, total_num, config,
                   ack_received, net, struck, history>>

GiveUpLate(n) ==                                                \* mutation
    /\ cli[n].pc = "wait" /\ cli[n].retry > MaxRetries
    /\ phase' = [phase EXCEPT ![n] = HOLDOFF]
    /\ cli' = [cli EXCEPT ![n] = [pc |-> "loop", seq |-> 0, retry |-> 0]]
    /\ UNCHANGED <<send_packets, receiver, seq_num, total_num, config,
                   ack_received, net, struck, history>>

\* ... and after the last resend the connection is closed without waiting.
GiveUp(n) ==
    /\ cli[n].pc = "wait" /\ cli[n].retry = MaxRetries
    /\ phase' = [phase EXCEPT ![n] = HOLDOFF]
    /\ cli' = [cli EXCEPT ![n] = [pc |-> "loop", seq |-> 0, retry |-> 0]]
    /\ UNCHANGED <<send_packets, receiver, seq_num, total_num, config,
                   ack_received, net, struck, history>>

EndSendBlindly(n) ==                                            \* mutation
    /\ cli[n].pc = "loop" /\ ~MoreToSend(n)
    /\ completed' = [completed EXCEPT ![n] = @ \cup {Len(sent[n])}]
    /\ cli' = [cli EXCEPT ![n].pc = "idle"]
    /\ UNCHANGED <<phase, send_packets, receiver, seq_num, total_num, config,
                   ack_received, net, struck, sent, delivered>>

\* The command returns; it reports "complete" if the phase is still NETWORK.
EndSend(n) ==
    /\ cli[n].pc = "loop" /\ ~MoreToSend(n)
    /\ completed' = [completed EXCEPT ![n] =
                       IF phase[n] = NETWORK THEN @ \cup {Len(sent[n])} ELSE @]
    /\ cli' = [cli EXCEPT ![n].pc = "idle"]
    /\ UNCHANGED <<phase, send_packets, receiver, seq_num, total_num, config,
                   ack_received, net, struck, sent, delivered>>

-----------------------------------------------------------------------------
(* The receive thread: one action per handler *)

Receives(n, flags) ==
    /\ net[n] # <<>> /\ Data(n).flags = flags
    /\ assembling[n] = "nothing"

sender == <<send_packets, total_num, window_size, dynamic_window, cli>>

\* A text is printed.  A file is saved, unless the disk refuses it: the code
\* then prints an error and carries on.
HandToUser(n, kind, fragments) ==
    \/ /\ delivered' = [delivered EXCEPT ![n] =
                          Append(@, [kind |-> kind, fragments |-> fragments])]
       /\ UNCHANGED struck
    \/ /\ kind = "file" /\ Spend("save")
       /\ UNCHANGED delivered

send_tcu_positive_ack(n, i) == Answer(n, <<Control(PositiveAck, i)>>)
send_tcu_negative_ack(n, i) == Answer(n, <<Control(NegativeAck, i)>>)

ProcessSingle(n, kind) ==
    /\ Receives(n, Single(kind)) /\ Active(phase[n])
    /\ LET p == Data(n) IN
         \/ /\ validate_crc(p)
            /\ HandToUser(n, kind, [NoFragments EXCEPT ![1] = p.body])
            /\ send_tcu_positive_ack(n, p.seq)
         \/ /\ ~validate_crc(p)
            /\ send_tcu_negative_ack(n, p.seq)
            /\ UNCHANGED <<delivered, struck>>
    /\ UNCHANGED <<phase, sender, receiver, seq_num, ack_received, sent, completed>>

StoredUnchecked(n, p) == [received_packets[n] EXCEPT ![p.seq] = p.body] \* mutation

\* What the buffer of node n is once packet p has been checked and kept.
Stored(n, p) == IF validate_crc(p)
                THEN [received_packets[n] EXCEPT ![p.seq] = p.body]
                ELSE received_packets[n]

MoreFragWithoutReset(n, kind) ==                                \* mutation
    /\ Receives(n, MoreFrag(kind)) /\ Active(phase[n])
    /\ received_packets' = [received_packets EXCEPT ![n] = Stored(n, Data(n))]
    /\ Answer(n, <<>>)
    /\ UNCHANGED <<phase, sender, assembling, seq_num, last_num, ack_received, struck, history>>

\* An empty buffer marks a new message: only then, and only in this handler,
\* are the numbers of the receiver reset.
ProcessMoreFrag(n, kind) ==
    /\ Receives(n, MoreFrag(kind)) /\ Active(phase[n])
    /\ IF received_packets[n] = NoFragments
       THEN /\ seq_num'  = [seq_num EXCEPT ![n] = 1]
            /\ last_num' = [last_num EXCEPT ![n] = 1]
       ELSE UNCHANGED <<seq_num, last_num>>
    /\ received_packets' = [received_packets EXCEPT ![n] = Stored(n, Data(n))]
    /\ Answer(n, <<>>)
    /\ UNCHANGED <<phase, sender, assembling, ack_received, struck, history>>

\* The end of a window, or of the message: ask for the first fragment that is
\* missing between _seq_num and _last_num, or acknowledge the window.
NewestUnmerged(n, p)  == p.seq                                  \* mutation
Newest(n, p)  == IF p.seq > last_num[n] THEN p.seq ELSE last_num[n]
MissingFromNext(n, p) ==                                        \* mutation
    {i \in (seq_num[n] + 1)..Newest(n, p) : ~Holds(Stored(n, p), i)}
MissingFromPrevious(n, p) ==                                    \* mutation
    {i \in (seq_num[n] - 1)..Newest(n, p) : ~Holds(Stored(n, p), i)}
Missing(n, p) == {i \in seq_num[n]..Newest(n, p) : ~Holds(Stored(n, p), i)}

EndOfWindow(n, p) ==
    /\ last_num' = [last_num EXCEPT ![n] = Newest(n, p)]
    /\ received_packets' = [received_packets EXCEPT ![n] = Stored(n, p)]
    /\ \/ /\ Missing(n, p) # {}
          /\ \E i \in Missing(n, p) : /\ \A j \in Missing(n, p) : i <= j
                                      /\ send_tcu_negative_ack(n, i)
          /\ UNCHANGED seq_num
       \/ /\ Missing(n, p) = {}
          /\ send_tcu_positive_ack(n, Newest(n, p))
          /\ seq_num' = [seq_num EXCEPT ![n] = Newest(n, p)]

ProcessLastWindFrag(n, kind) ==
    /\ Receives(n, LastWindFrag(kind)) /\ Active(phase[n])
    /\ EndOfWindow(n, Data(n))
    /\ UNCHANGED <<phase, sender, assembling, ack_received, struck, history>>

\* The acknowledgment leaves before the message is assembled.
ProcessLastFrag(n, kind) ==
    /\ Receives(n, LastFrag(kind)) /\ Active(phase[n])
    /\ EndOfWindow(n, Data(n))
    /\ assembling' = [assembling EXCEPT ![n] =
                         IF Missing(n, Data(n)) = {} THEN kind ELSE @]
    /\ UNCHANGED <<phase, sender, ack_received, struck, history>>

AssembleAndKeep(n, kind) ==                                     \* mutation
    /\ assembling[n] = kind
    /\ HandToUser(n, kind, received_packets[n])
    /\ assembling' = [assembling EXCEPT ![n] = "nothing"]
    /\ UNCHANGED <<phase, sender, received_packets, last_num, seq_num, ack_received,
                   net, sent, completed>>

\* Whatever the buffer holds is put together in the order of the numbers.
Assemble(n, kind) ==
    /\ assembling[n] = kind
    /\ HandToUser(n, kind, received_packets[n])
    /\ received_packets' = [received_packets EXCEPT ![n] = NoFragments]
    /\ assembling' = [assembling EXCEPT ![n] = "nothing"]
    /\ UNCHANGED <<phase, sender, last_num, seq_num, ack_received, net, sent, completed>>

process_tcu_single_text(n)         == ProcessSingle(n, "text")
process_tcu_single_file(n)         == ProcessSingle(n, "file")
process_tcu_more_frag_text(n)      == ProcessMoreFrag(n, "text")
process_tcu_more_frag_file(n)      == ProcessMoreFrag(n, "file")
process_tcu_last_wind_frag_text(n) == ProcessLastWindFrag(n, "text")
process_tcu_last_wind_frag_file(n) == ProcessLastWindFrag(n, "file")
process_tcu_last_frag_text(n)      == ProcessLastFrag(n, "text")
process_tcu_last_frag_file(n)      == ProcessLastFrag(n, "file")
assemble_text(n)                   == Assemble(n, "text")
assemble_file(n)                   == Assemble(n, "file")

\* A fragment is asked for again.  The flags it will carry from now on make
\* the receiver look for the next missing one when it arrives.
Reflagged(n, p) ==
    IF p.seq < last_window_start(n)
    THEN [p EXCEPT !.flags = @ \cup {"FIN"}]
    ELSE [p EXCEPT !.flags = @ \ {"MF"}]

process_tcu_negative_ack(n) ==
    /\ Receives(n, NegativeAck) /\ Active(phase[n])
    /\ LET nack_seq == Data(n).seq IN
         \/ /\ IsSingle(n)
            /\ Answer(n, <<send_packets[n][1]>>)
            /\ UNCHANGED send_packets
         \/ /\ ~IsSingle(n) /\ nack_seq \in DOMAIN send_packets[n]
            /\ LET again == Reflagged(n, send_packets[n][nack_seq])
               IN  /\ send_packets' = [send_packets EXCEPT ![n][nack_seq] = again]
                   /\ Answer(n, <<again>>)
         \/ /\ ~IsSingle(n) /\ nack_seq \notin DOMAIN send_packets[n]
            /\ Answer(n, <<>>)
            /\ UNCHANGED send_packets
    /\ UNCHANGED <<phase, receiver, seq_num, total_num, config, ack_received,
                   cli, struck, history>>

PositiveAckOffByOne(n) ==                                       \* mutation
    /\ Receives(n, PositiveAck) /\ Active(phase[n])
    /\ seq_num' = [seq_num EXCEPT ![n] = Plus(Plus(@, window_size[n]), 1)]
    /\ ack_received' = [ack_received EXCEPT ![n] = TRUE]
    /\ Answer(n, <<>>)
    /\ UNCHANGED <<phase, sender, receiver, struck, history>>

\* Whatever number an acknowledgment carries, it moves the window on.
process_tcu_positive_ack(n) ==
    /\ Receives(n, PositiveAck) /\ Active(phase[n])
    /\ seq_num' = [seq_num EXCEPT ![n] = Plus(@, window_size[n])]
    /\ ack_received' = [ack_received EXCEPT ![n] = TRUE]
    /\ Answer(n, <<>>)
    /\ UNCHANGED <<phase, sender, receiver, struck, history>>

\* A bare FIN closes the connection, whatever payload comes with it.
process_tcu_disconn_req(n) ==
    /\ Receives(n, DisconnReq) /\ Active(phase[n])
    /\ phase' = [phase EXCEPT ![n] = HOLDOFF]
    /\ Answer(n, <<Control(DisconnAck, 0)>>)
    /\ UNCHANGED <<sender, receiver, seq_num, ack_received, struck, history>>

\* Packets the phase does not call for are logged and dropped: all of them
\* after the connection is closed, and the answer to a FIN nobody sent.
Ignore(n) ==
    /\ net[n] # <<>> /\ assembling[n] = "nothing"
    /\ ~Active(phase[n]) \/ Data(n).flags = DisconnAck
    /\ Answer(n, <<>>)
    /\ UNCHANGED <<phase, sender, receiver, seq_num, ack_received, struck, history>>

-----------------------------------------------------------------------------
(* The network *)

Position(n) == 1..Len(net[n])

Lose(n) ==
    /\ Spend("lose")
    /\ \E i \in Position(n) : net' = [net EXCEPT ![n] = RemoveAt(@, i)]

Duplicate(n) ==
    /\ Spend("duplicate")
    /\ \E i \in Position(n) : net' = [net EXCEPT ![n] = Append(@, @[i])]

Overtake(n) ==
    /\ Spend("reorder")
    /\ \E i \in Position(n) \ {1} :
         net' = [net EXCEPT ![n] = <<@[i]>> \o RemoveAt(@, i)]

NetworkFault(n) ==
    /\ Lose(n) \/ Duplicate(n) \/ Overtake(n)
    /\ UNCHANGED <<phase, sender, receiver, seq_num, ack_received, history>>

-----------------------------------------------------------------------------
Init ==
    /\ phase = [n \in Node |-> NETWORK]
    /\ send_packets = [n \in Node |-> <<>>]
    /\ received_packets = [n \in Node |-> NoFragments]
    /\ seq_num = [n \in Node |-> 1]
    /\ last_num = [n \in Node |-> 0]
    /\ total_num = [n \in Node |-> 0]
    /\ window_size = [n \in Node |-> 0]
    /\ dynamic_window = [n \in Node |-> TRUE]
    /\ ack_received = [n \in Node |-> FALSE]
    /\ cli = [n \in Node |-> [pc |-> "idle", seq |-> 0, retry |-> 0]]
    /\ assembling = [n \in Node |-> "nothing"]
    /\ net = [n \in Node |-> <<>>]
    /\ struck = [f \in Fault |-> 0]
    /\ sent = [n \in Node |-> <<>>]
    /\ completed = [n \in Node |-> {}]
    /\ delivered = [n \in Node |-> <<>>]

User(n) == set_window_size(n) \/ set_dynamic_window(n) \/ send_text(n) \/ send_file(n)

Sending(n) == \/ NextWindow(n) \/ SendFragment(n) \/ EndWindow(n)
              \/ AckSeen(n) \/ Timeout(n) \/ GiveUp(n) \/ EndSend(n)

Receiving(n) ==
    \/ process_tcu_single_text(n)         \/ process_tcu_single_file(n)
    \/ process_tcu_more_frag_text(n)      \/ process_tcu_more_frag_file(n)
    \/ process_tcu_last_wind_frag_text(n) \/ process_tcu_last_wind_frag_file(n)
    \/ process_tcu_last_frag_text(n)      \/ process_tcu_last_frag_file(n)
    \/ assemble_text(n)                   \/ assemble_file(n)
    \/ process_tcu_negative_ack(n)        \/ process_tcu_positive_ack(n)
    \/ process_tcu_disconn_req(n)         \/ Ignore(n)

Next == \E n \in Node : User(n) \/ Sending(n) \/ Receiving(n) \/ NetworkFault(n)

Spec == Init /\ [][Next]_vars

\* The operating system runs both threads of each node and the timers expire;
\* no user has to send, and no fault has to strike.
Fairness == \A n \in Node : WF_vars(Sending(n)) /\ WF_vars(Receiving(n))
FairSpec == Spec /\ Fairness
-----------------------------------------------------------------------------
(* Properties *)

\* Type invariant: the variables hold what the declarations of node.h allow.
TypeOK ==
    /\ phase \in [Node -> {HOLDOFF, NETWORK}]
    /\ send_packets \in [Node -> Seq(Packet)]
    /\ received_packets \in [Node -> [SeqNum -> Body]]
    /\ seq_num \in [Node -> SeqNum]
    /\ last_num \in [Node -> SeqNum]
    /\ total_num \in [Node -> SeqNum]
    /\ window_size \in [Node -> SeqNum]
    /\ dynamic_window \in [Node -> BOOLEAN]
    /\ ack_received \in [Node -> BOOLEAN]
    /\ cli \in [Node -> CliState]
    /\ assembling \in [Node -> Kind \cup {"nothing"}]
    /\ net \in [Node -> Seq(Packet)]
    /\ struck \in [Fault -> Nat]
    /\ sent \in [Node -> Seq(MessageInfo)]
    /\ completed \in [Node -> SUBSET Nat]
    /\ delivered \in [Node -> Seq(Arrival)]

\* What has left the receiver's hands for its user: a message being assembled
\* has been acknowledged and is as good as delivered.
HandedOver(n) ==
    IF assembling[n] = "nothing" THEN delivered[n]
    ELSE Append(delivered[n], [kind |-> assembling[n],
                               fragments |-> received_packets[n]])

\* Arrival a is message k as node n was told to send it, whole and unchanged.
IsMessage(a, n, k) ==
    a = [kind      |-> sent[n][k].kind,
         fragments |-> [i \in SeqNum |-> IF i \in 1..sent[n][k].total THEN k ELSE Nothing]]

\* Selective repeat never hands over a mixture: every text or file given to
\* the user is one message of the peer with all its fragments, none of them
\* garbled, missing, or left over from another message (node.cpp:783-869).
DeliveredIntact ==
    \A n \in Node : \A i \in DOMAIN HandedOver(n) :
        \E k \in DOMAIN sent[Peer(n)] : IsMessage(HandedOver(n)[i], Peer(n), k)

\* "complete" tells the truth: the peer's user has the message, or its receive
\* thread is assembling it (node.cpp:1295-1299, 1351-1355 against 863-867).
CompleteImpliesDelivered ==
    \A n \in Node : \A k \in completed[n] :
        \E i \in DOMAIN HandedOver(Peer(n)) : IsMessage(HandedOver(Peer(n))[i], n, k)

\* The sender's window never runs ahead of the receiver: a fragment below
\* _seq_num is in the peer's buffer, or its message has been handed over.
\* The acknowledgment does not say what it acknowledges (node.cpp:1063-1076),
\* so this rests on there being one acknowledgment for every window.
WindowBacked ==
    \A n \in Sender : (cli[n].pc # "idle" /\ ~IsSingle(n)) =>
        \/ \A i \in 1..(seq_num[n] - 1) :
              i <= total_num[n] => received_packets[Peer(n)][i] = Len(sent[n])
        \/ \E i \in DOMAIN HandedOver(Peer(n)) :
              IsMessage(HandedOver(Peer(n))[i], n, Len(sent[n]))

\* A negative acknowledgment on its way names a fragment of the window that
\* its addressee is sending: the two ends, which compute the limits of the
\* window separately, agree on them (node.cpp:806-814 against 1017-1022).
NackInWindow ==
    \A n \in Node : \A i \in DOMAIN net[n] :
        (net[n][i].flags = NegativeAck /\ ~IsSingle(n) /\ cli[n].pc # "idle") =>
            /\ net[n][i].seq >= seq_num[n]
            /\ net[n][i].seq < seq_num[n] + window_size[n]
            /\ net[n][i].seq \in DOMAIN send_packets[n]

\* A payload is never mistaken for a control packet: changing the flags of a
\* fragment that is asked for again (node.cpp:1020-1032) leaves it one of the
\* data packets of tcu.h's table, in particular never a bare FIN.
DataStaysData ==
    \A n \in Node : /\ \A i \in DOMAIN net[n] :
                        net[n][i].body # Nothing => net[n][i].flags \in DataFlags
                    /\ \A i \in DOMAIN send_packets[n] :
                        send_packets[n][i].flags \in DataFlags

\* A fragmented message is given up only after the faults it takes to silence
\* three whole windows: fewer are always repaired (node.cpp:412-443).
GiveUpJustified ==
    \A n \in Node : phase[n] = HOLDOFF =>
        \/ struck["drop"] + struck["corrupt"] + struck["window"] + struck["lose"]
              + struck["early"] >= MaxRetries
        \/ phase[Peer(n)] = HOLDOFF

\* Fragment i of message k is one that node n was told to send.
Valid(n, k, i) == k \in DOMAIN sent[n] /\ i \in 1..sent[n][k].total

\* Nothing the user is given was made up: each of its fragments carries a body
\* that the peer was told to send, has a number within that message, and
\* passed the checksum - whatever the network did (node.cpp:698-988).
NothingInvented ==
    \A n \in Node : \A i \in DOMAIN delivered[n] : \A s \in SeqNum :
        LET k == delivered[n][i].fragments[s]
        IN  k # Nothing => Valid(Peer(n), k, s)

\* What makes NothingInvented inductive: every packet on its way and every
\* fragment kept, on either side, is a fragment of a message that was sent,
\* unless it is marked as garbled - and what the receiver keeps never is.
Genuine(n) == {p \in Packet : p.body \in Message => Valid(n, p.body, p.seq)}

Origin == \A n \in Node :
    /\ net[n] \in Seq(Genuine(Peer(n)))
    /\ send_packets[n] \in Seq(Genuine(n))
    /\ \A i \in SeqNum : received_packets[n][i] # Nothing
                           => Valid(Peer(n), received_packets[n][i], i)

\* Every message a user sends is settled: reported complete, or given up with
\* the connection closed; the command line is never blocked for good
\* (node.cpp:417-443, 1341-1347).
SendSettles ==
    \A n \in Sender : \A k \in Message :
        Len(sent[n]) = k ~> /\ cli[n].pc = "idle"
                            /\ k \in completed[n] \/ phase[n] = HOLDOFF

\* The data path implements the message service of Delivery: an arrival counts
\* as the message it is, or as none at all if it is not intact.
MessageOf(n, a) ==
    IF \E k \in DOMAIN sent[Peer(n)] : IsMessage(a, Peer(n), k)
    THEN CHOOSE k \in DOMAIN sent[Peer(n)] : IsMessage(a, Peer(n), k)
    ELSE Nothing

Promise == INSTANCE Delivery WITH
    Node      <- Node,
    Peer      <- Peer,
    submitted <- [n \in Node |-> Len(sent[n])],
    arrived   <- [n \in Node |-> [i \in DOMAIN HandedOver(n) |->
                                    MessageOf(n, HandedOver(n)[i])]],
    confirmed <- completed

ImplementsDelivery == Promise!Spec
=============================================================================
