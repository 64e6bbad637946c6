--------------------------- MODULE TransferProofs ---------------------------
EXTENDS Transfer, TLAPS, SequenceTheorems

LEMMA PeerFacts == ASSUME NEW n \in Node
                   PROVE  Peer(n) \in Node /\ Peer(n) # n /\ Peer(Peer(n)) = n
BY NodeAssumption DEF Peer

LEMMA SeqFacts ==
    ASSUME NEW S, NEW s \in Seq(S)
    PROVE  /\ \A e \in S : Append(s, e) \in Seq(S) /\ <<e>> \in Seq(S)
           /\ \A t \in Seq(S) : s \o t \in Seq(S)
           /\ s # <<>> => Head(s) \in S /\ Tail(s) \in Seq(S)
           /\ \A i \in 1..Len(s) : s[i] \in S /\ RemoveAt(s, i) \in Seq(S)
           /\ <<>> \in Seq(S)
<1>1. \A i \in 1..Len(s) : RemoveAt(s, i) \in Seq(S)
  BY DEF RemoveAt
<1> QED BY <1>1

\* The flag combinations of the protocol are sets of flags.
LEMMA FlagFacts ==
    ASSUME NEW kind \in Kind
    PROVE  /\ Single(kind) \in SUBSET Flag /\ MoreFrag(kind) \in SUBSET Flag
           /\ LastWindFrag(kind) \in SUBSET Flag /\ LastFrag(kind) \in SUBSET Flag
           /\ PositiveAck \in SUBSET Flag /\ NegativeAck \in SUBSET Flag
           /\ DisconnAck \in SUBSET Flag
BY DEF Single, MoreFrag, LastWindFrag, LastFrag, OfKind, PositiveAck, NegativeAck,
       DisconnAck, Flag, Kind

LEMMA NumberFacts ==
    /\ 0 \in SeqNum /\ 1 \in SeqNum
    /\ \A a, b \in SeqNum : Plus(a, b) \in SeqNum
    /\ Total \subseteq SeqNum /\ WindowSize \subseteq SeqNum
    /\ \A t \in Total : t \in Nat /\ t >= 1 /\ dynamic_window_size(t) \in SeqNum
    /\ SeqNum \subseteq Nat
<1>1. \A a, b \in SeqNum : Plus(a, b) \in SeqNum
  BY ModulusAssumption DEF SeqNum, Plus
<1>2. \A t \in Total : dynamic_window_size(t) \in SeqNum
  BY ModulusAssumption, SizesAssumption DEF SeqNum, dynamic_window_size
<1> QED BY <1>1, <1>2, ModulusAssumption, SizesAssumption DEF SeqNum

-----------------------------------------------------------------------------
(* The channels *)

\* What a node sends or answers keeps each channel within the set of packets
\* it is allowed to hold, whatever these sets are.
LEMMA AnswerKeeps ==
    ASSUME NEW G, NEW n \in Node, NEW packets \in Seq(G[Peer(n)]),
           net \in [Node -> Seq(Packet)], \A m \in Node : net[m] \in Seq(G[m]),
           net[n] # <<>>, Answer(n, packets)
    PROVE  \A m \in Node : net'[m] \in Seq(G[m])
<1>1. Tail(net[n]) \in Seq(G[n]) /\ net[Peer(n)] \o packets \in Seq(G[Peer(n)])
  BY SeqFacts, PeerFacts
<1> QED BY <1>1, PeerFacts DEF Answer

LEMMA SendKeeps ==
    ASSUME NEW G, NEW n \in Node, NEW p,
           p \in G[Peer(n)], [p EXCEPT !.body = Garbled] \in G[Peer(n)],
           net \in [Node -> Seq(Packet)], \A m \in Node : net[m] \in Seq(G[m]),
           send_packet(n, p)
    PROVE  \A m \in Node : net'[m] \in Seq(G[m])
<1>1. \A q \in G[Peer(n)] : Append(net[Peer(n)], q) \in Seq(G[Peer(n)])
  BY SeqFacts, PeerFacts
<1> QED BY <1>1, PeerFacts DEF send_packet

LEMMA FaultKeeps ==
    ASSUME NEW G, NEW n \in Node,
           net \in [Node -> Seq(Packet)], \A m \in Node : net[m] \in Seq(G[m]),
           NetworkFault(n)
    PROVE  \A m \in Node : net'[m] \in Seq(G[m])
<1>1. \A i \in Position(n) : /\ RemoveAt(net[n], i) \in Seq(G[n])
                             /\ Append(net[n], net[n][i]) \in Seq(G[n])
                             /\ <<net[n][i]>> \in Seq(G[n])
  BY SeqFacts DEF Position
<1>2. \A i \in Position(n) : <<net[n][i]>> \o RemoveAt(net[n], i) \in Seq(G[n])
  BY <1>1, SeqFacts
<1> QED BY <1>1, <1>2 DEF NetworkFault, Lose, Duplicate, Overtake, Position

-----------------------------------------------------------------------------
(* Type correctness *)

\* The steps of the command line thread keep its state a state.
LEMMA CliFacts ==
    /\ \A pc \in {"idle", "loop", "window", "wait"}, s \in SeqNum, r \in 0..MaxRetries :
         [pc |-> pc, seq |-> s, retry |-> r] \in CliState
    /\ \A c \in CliState : /\ c.pc \in {"idle", "loop", "window", "wait"}
                          /\ c.seq \in SeqNum /\ c.retry \in 0..MaxRetries
    /\ \A c \in CliState, pc \in {"idle", "loop", "window", "wait"} :
         [c EXCEPT !.pc = pc] \in CliState
    /\ \A c \in CliState, s \in SeqNum : [c EXCEPT !.seq = s] \in CliState
BY DEF CliState

LEMMA SpendTyped ==
    ASSUME TypeOK, NEW fault \in Fault, Spend(fault)
    PROVE  struck' \in [Fault -> Nat]
BY DEF TypeOK, Spend

LEMMA AnswerTyped ==
    ASSUME TypeOK, NEW n \in Node, NEW packets \in Seq(Packet),
           net[n] # <<>>, Answer(n, packets)
    PROVE  net' \in [Node -> Seq(Packet)]
<1> DEFINE G == [m \in Node |-> Packet]
<1>1. \A m \in Node : net[m] \in Seq(G[m])
  BY DEF TypeOK
<1>2. packets \in Seq(G[Peer(n)])
  BY PeerFacts
<1>3. \A m \in Node : net'[m] \in Seq(G[m])
  <2> HIDE DEF G
  <2> QED BY <1>1, <1>2, AnswerKeeps DEF TypeOK
<1> QED BY <1>3 DEF TypeOK, Answer

LEMMA NoAnswerTyped ==
    ASSUME TypeOK, NEW n \in Node, net[n] # <<>>, Answer(n, <<>>)
    PROVE  net' \in [Node -> Seq(Packet)]
<1>1. <<>> \in Seq(Packet)
  OBVIOUS
<1> QED BY <1>1, AnswerTyped

LEMMA SendTyped ==
    ASSUME TypeOK, NEW n \in Node, NEW p \in Packet, send_packet(n, p)
    PROVE  net' \in [Node -> Seq(Packet)] /\ struck' \in [Fault -> Nat]
<1>1. [p EXCEPT !.body = Garbled] \in Packet
  BY DEF Packet, Body
<1>2. \A q \in Packet : Append(net[Peer(n)], q) \in Seq(Packet)
  BY SeqFacts, PeerFacts DEF TypeOK
<1>3. net' \in [Node -> Seq(Packet)]
  BY <1>1, <1>2 DEF TypeOK, send_packet
<1>4. struck' \in [Fault -> Nat]
  BY SpendTyped DEF TypeOK, send_packet, Fault, Simulated
<1> QED BY <1>3, <1>4

LEMMA StartWindowTyped ==
    ASSUME TypeOK, NEW n \in Node, NEW retry \in 0..MaxRetries, StartWindow(n, retry)
    PROVE  /\ cli' \in [Node -> CliState]
           /\ struck' \in [Fault -> Nat]
<1>1. struck' \in [Fault -> Nat]
  <2>1. "window" \in Fault /\ struck \in [Fault -> Nat]
    BY DEF TypeOK, Fault, Simulated
  <2>2. Spend("window") \/ UNCHANGED struck
    BY DEF StartWindow
  <2> QED BY <2>1, <2>2, SpendTyped
<1>2. seq_num[n] \in SeqNum /\ 0 \in SeqNum
  BY NumberFacts DEF TypeOK
<1>3. /\ [pc |-> "window", seq |-> seq_num[n], retry |-> retry] \in CliState
      /\ [pc |-> "wait", seq |-> 0, retry |-> retry] \in CliState
  BY <1>2, CliFacts
<1>4. cli \in [Node -> CliState] /\ \E s : cli' = [cli EXCEPT ![n] = s] /\ s \in CliState
  <2>1. cli \in [Node -> CliState]
    BY DEF TypeOK
  <2>2. \/ cli' = [cli EXCEPT ![n] = [pc |-> "window", seq |-> seq_num[n], retry |-> retry]]
        \/ cli' = [cli EXCEPT ![n] = [pc |-> "wait", seq |-> 0, retry |-> retry]]
    BY DEF StartWindow
  <2> QED BY <1>3, <2>1, <2>2
<1> QED BY <1>1, <1>4

LEMMA HandToUserTyped ==
    ASSUME TypeOK, NEW n \in Node, NEW kind \in Kind, NEW f \in [SeqNum -> Body],
           HandToUser(n, kind, f)
    PROVE  delivered' \in [Node -> Seq(Arrival)] /\ struck' \in [Fault -> Nat]
<1>1. struck' \in [Fault -> Nat]
  BY SpendTyped DEF TypeOK, HandToUser, Fault
<1> DEFINE a == [kind |-> kind, fragments |-> f]
<1>2. a \in Arrival
  BY DEF Arrival
<1>3. \/ delivered' = [delivered EXCEPT ![n] = Append(@, a)]
      \/ delivered' = delivered
  BY DEF HandToUser
<1> HIDE DEF a
<1>4. Append(delivered[n], a) \in Seq(Arrival)
  BY <1>2, SeqFacts DEF TypeOK
<1> QED BY <1>1, <1>3, <1>4 DEF TypeOK

\* A packet a node sends for its user is a packet.
LEMMA DataPacketTyped ==
    ASSUME NEW flags \in SUBSET Flag, NEW i \in SeqNum, NEW k \in Message
    PROVE  DataPacket(flags, i, k) \in Packet
BY DEF DataPacket, Packet, Body

LEMMA ControlTyped ==
    ASSUME NEW flags \in SUBSET Flag, NEW i \in SeqNum
    PROVE  <<Control(flags, i)>> \in Seq(Packet)
<1>1. Control(flags, i) \in Packet
  BY DEF Control, Packet, Body
<1> QED BY <1>1

LEMMA SettingsTyped ==
    ASSUME TypeOK, NEW n \in Node, set_window_size(n) \/ set_dynamic_window(n)
    PROVE  TypeOK'
<1>1. CASE set_window_size(n)
  <2>1. window_size' \in [Node -> SeqNum]
    BY <1>1, NumberFacts DEF TypeOK, set_window_size
  <2> QED BY <1>1, <2>1 DEF TypeOK, set_window_size, receiver, history
<1>2. CASE set_dynamic_window(n)
  BY <1>2 DEF TypeOK, set_dynamic_window, receiver, history
<1> QED BY <1>1, <1>2

LEMMA SendSingleTyped ==
    ASSUME TypeOK, NEW n \in Node, NEW kind \in Kind, SendSingle(n, kind)
    PROVE  TypeOK'
<1> DEFINE k == Len(sent[n]) + 1
           p == DataPacket(Single(kind), 1, k)
<1>1. k \in Message
  BY BoundsAssumption DEF SendSingle, MaySend, TypeOK, Message
<1>2. p \in Packet
  BY <1>1, NumberFacts, FlagFacts, DataPacketTyped
<1>3. net' \in [Node -> Seq(Packet)] /\ struck' \in [Fault -> Nat]
  <2>1. send_packet(n, p)
    BY DEF SendSingle
  <2> HIDE DEF p
  <2> QED BY <1>2, <2>1, SendTyped
<1>4. send_packets' \in [Node -> Seq(Packet)]
  <2>1. send_packets' = [send_packets EXCEPT ![n] = <<p>>]
    BY DEF SendSingle
  <2> HIDE DEF p
  <2>2. <<p>> \in Seq(Packet)
    BY <1>2
  <2> QED BY <2>1, <2>2 DEF TypeOK
<1>5. sent' \in [Node -> Seq(MessageInfo)]
  <2>1. [kind |-> kind, total |-> 1] \in MessageInfo
    BY DEF SendSingle, MessageInfo
  <2>2. Append(sent[n], [kind |-> kind, total |-> 1]) \in Seq(MessageInfo)
    BY <2>1, SeqFacts DEF TypeOK
  <2> QED BY <2>2 DEF SendSingle, TypeOK
<1>6. cli' \in [Node -> CliState]
  <2>1. [pc |-> "wait", seq |-> 0, retry |-> 0] \in CliState
    BY NumberFacts DEF CliState, MaxRetries
  <2> QED BY <2>1 DEF SendSingle, TypeOK
<1> QED BY <1>3, <1>4, <1>5, <1>6, NumberFacts DEF SendSingle, TypeOK, receiver, config

LEMMA FragmentFlagsTyped ==
    ASSUME NEW kind \in Kind, NEW t, NEW w, NEW i
    PROVE  FragmentFlags(i, t, w, kind) \in SUBSET Flag
BY FlagFacts DEF FragmentFlags

LEMMA SendFragmentedTyped ==
    ASSUME TypeOK, NEW n \in Node, NEW kind \in Kind, SendFragmented(n, kind)
    PROVE  TypeOK'
<1> DEFINE w(t) == IF dynamic_window[n] THEN dynamic_window_size(t) ELSE window_size[n]
           k    == Len(sent[n]) + 1
           cut(t) == [i \in 1..t |-> DataPacket(FragmentFlags(i, t, w(t), kind), i, k)]
           info(t) == [kind |-> kind, total |-> t]
<1>1. k \in Message
  BY BoundsAssumption DEF SendFragmented, MaySend, TypeOK, Message
<1>2. PICK t \in Total \ {1} :
        /\ total_num'    = [total_num EXCEPT ![n] = t]
        /\ window_size'  = [window_size EXCEPT ![n] = w(t)]
        /\ send_packets' = [send_packets EXCEPT ![n] = cut(t)]
        /\ sent' = [sent EXCEPT ![n] = Append(@, info(t))]
  BY DEF SendFragmented
<1>3. t \in SeqNum /\ t \in Nat /\ 1..t \subseteq SeqNum
  BY NumberFacts, ModulusAssumption DEF SeqNum
<1>4. w(t) \in SeqNum
  BY NumberFacts DEF TypeOK
<1>5. \A i \in 1..t : DataPacket(FragmentFlags(i, t, w(t), kind), i, k) \in Packet
  <2> TAKE i \in 1..t
  <2>1. FragmentFlags(i, t, w(t), kind) \in SUBSET Flag
    BY FragmentFlagsTyped
  <2>2. i \in SeqNum
    BY <1>3
  <2> HIDE DEF k, w
  <2> QED BY <2>1, <2>2, <1>1, DataPacketTyped
<1>6. cut(t) \in Seq(Packet)
  <2> DEFINE e(i) == DataPacket(FragmentFlags(i, t, w(t), kind), i, k)
  <2>1. \A i \in 1..t : e(i) \in Packet
    BY <1>5
  <2> HIDE DEF e
  <2>2. [i \in 1..t |-> e(i)] \in Seq(Packet)
    BY <1>3, <2>1
  <2> QED BY <2>2 DEF e
<1>7. send_packets' \in [Node -> Seq(Packet)]
  <2> HIDE DEF cut
  <2> QED BY <1>2, <1>6 DEF TypeOK
<1>8. sent' \in [Node -> Seq(MessageInfo)]
  <2>1. info(t) \in MessageInfo
    BY DEF MessageInfo
  <2> HIDE DEF info
  <2>2. Append(sent[n], info(t)) \in Seq(MessageInfo)
    BY <2>1, SeqFacts DEF TypeOK
  <2> QED BY <1>2, <2>2 DEF TypeOK
<1>9. total_num' \in [Node -> SeqNum] /\ window_size' \in [Node -> SeqNum]
  <2> HIDE DEF w
  <2> QED BY <1>2, <1>3, <1>4 DEF TypeOK
<1>10. cli' \in [Node -> CliState]
  <2>1. [cli[n] EXCEPT !.pc = "loop"] \in CliState
    BY CliFacts DEF TypeOK
  <2>2. cli' = [cli EXCEPT ![n] = [cli[n] EXCEPT !.pc = "loop"]]
    BY DEF SendFragmented
  <2> QED BY <2>1, <2>2 DEF TypeOK
<1>11. seq_num' \in [Node -> SeqNum]
  BY NumberFacts DEF SendFragmented, TypeOK
<1> QED
  BY <1>7, <1>8, <1>9, <1>10, <1>11 DEF SendFragmented, TypeOK, receiver

LEMMA CannotReadTyped ==
    ASSUME TypeOK, NEW n \in Node, CannotRead(n)
    PROVE  TypeOK'
<1>1. send_packets' \in [Node -> Seq(Packet)] /\ seq_num' \in [Node -> SeqNum]
  <2>1. <<>> \in Seq(Packet) /\ 1 \in SeqNum
    BY NumberFacts
  <2> QED BY <2>1 DEF TypeOK, CannotRead
<1> QED BY <1>1 DEF TypeOK, CannotRead, receiver, config, history

LEMMA NextWindowTyped ==
    ASSUME TypeOK, NEW n \in Node, NextWindow(n)
    PROVE  TypeOK'
<1>1. cli' \in [Node -> CliState] /\ struck' \in [Fault -> Nat]
  BY StartWindowTyped DEF NextWindow, MaxRetries
<1> QED BY <1>1 DEF TypeOK, NextWindow, receiver, config, history

LEMMA SendFragmentTyped ==
    ASSUME TypeOK, NEW n \in Node, SendFragment(n)
    PROVE  TypeOK'
<1>1. net' \in [Node -> Seq(Packet)] /\ struck' \in [Fault -> Nat]
  <2>1. CASE cli[n].seq \in DOMAIN send_packets[n]
    <3>1. send_packets[n][cli[n].seq] \in Packet
      BY <2>1 DEF TypeOK
    <3>2. send_packet(n, send_packets[n][cli[n].seq])
      BY <2>1 DEF SendFragment
    <3> QED BY <3>1, <3>2, SendTyped
  <2>2. CASE cli[n].seq \notin DOMAIN send_packets[n]
    BY <2>2 DEF SendFragment, TypeOK
  <2> QED BY <2>1, <2>2
<1>2. cli' \in [Node -> CliState]
  <2>1. Plus(cli[n].seq, 1) \in SeqNum
    BY NumberFacts, CliFacts DEF TypeOK
  <2>2. [cli[n] EXCEPT !.seq = Plus(cli[n].seq, 1)] \in CliState
    BY <2>1, CliFacts DEF TypeOK
  <2>3. cli' = [cli EXCEPT ![n] = [cli[n] EXCEPT !.seq = Plus(cli[n].seq, 1)]]
    BY DEF SendFragment
  <2> QED BY <2>2, <2>3 DEF TypeOK
<1> QED BY <1>1, <1>2 DEF TypeOK, SendFragment, receiver, config, history

LEMMA EndWindowTyped ==
    ASSUME TypeOK, NEW n \in Node, EndWindow(n)
    PROVE  TypeOK'
<1>1. cli' \in [Node -> CliState]
  <2>1. [cli[n] EXCEPT !.pc = "wait", !.seq = 0] \in CliState
    <3>1. cli[n] \in CliState
      BY DEF TypeOK
    <3>2. \A c \in CliState : [c EXCEPT !.pc = "wait", !.seq = 0] \in CliState
      BY NumberFacts DEF CliState
    <3> QED BY <3>1, <3>2
  <2>2. cli' = [cli EXCEPT ![n] = [cli[n] EXCEPT !.pc = "wait", !.seq = 0]]
    BY DEF EndWindow
  <2> QED BY <2>1, <2>2 DEF TypeOK
<1> QED BY <1>1 DEF TypeOK, EndWindow, receiver, config, history

LEMMA AckSeenTyped ==
    ASSUME TypeOK, NEW n \in Node, AckSeen(n)
    PROVE  TypeOK'
<1>1. cli' \in [Node -> CliState]
  <2>1. [pc |-> "loop", seq |-> 0, retry |-> 0] \in CliState
    BY NumberFacts DEF CliState, MaxRetries
  <2> QED BY <2>1 DEF TypeOK, AckSeen
<1>2. struck' \in [Fault -> Nat]
  BY SpendTyped DEF AckSeen, TypeOK, Fault
<1> QED BY <1>1, <1>2 DEF TypeOK, AckSeen, receiver, config, history

LEMMA TimeoutTyped ==
    ASSUME TypeOK, NEW n \in Node, Timeout(n)
    PROVE  TypeOK'
<1>1. cli[n].retry + 1 \in 0..MaxRetries
  <2>1. cli[n].retry \in 0..MaxRetries /\ cli[n].retry < MaxRetries
    BY CliFacts DEF Timeout, TypeOK
  <2> QED BY <2>1 DEF MaxRetries
<1>2. cli' \in [Node -> CliState] /\ struck' \in [Fault -> Nat]
  <2>1. CASE StartWindow(n, cli[n].retry + 1)
    BY <1>1, <2>1, StartWindowTyped
  <2>2. CASE /\ Spend("early")
             /\ cli' = [cli EXCEPT ![n] = [pc |-> "window", seq |-> seq_num[n],
                                           retry |-> @.retry + 1]]
    <3>1. [pc |-> "window", seq |-> seq_num[n], retry |-> cli[n].retry + 1] \in CliState
      BY <1>1 DEF CliState, TypeOK
    <3>2. struck' \in [Fault -> Nat]
      BY <2>2, SpendTyped DEF Fault
    <3> QED BY <2>2, <3>1, <3>2 DEF TypeOK
  <2> QED BY <2>1, <2>2 DEF Timeout
<1> QED BY <1>2 DEF TypeOK, Timeout, receiver, config, history

LEMMA GiveUpTyped ==
    ASSUME TypeOK, NEW n \in Node, GiveUp(n)
    PROVE  TypeOK'
<1>1. cli' \in [Node -> CliState]
  <2>1. [pc |-> "loop", seq |-> 0, retry |-> 0] \in CliState
    BY NumberFacts DEF CliState, MaxRetries
  <2> QED BY <2>1 DEF TypeOK, GiveUp
<1> QED BY <1>1 DEF TypeOK, GiveUp, receiver, config, history

LEMMA EndSendTyped ==
    ASSUME TypeOK, NEW n \in Node, EndSend(n)
    PROVE  TypeOK'
<1>1. cli' \in [Node -> CliState]
  <2>1. [cli[n] EXCEPT !.pc = "idle"] \in CliState
    BY CliFacts DEF TypeOK
  <2>2. cli' = [cli EXCEPT ![n] = [cli[n] EXCEPT !.pc = "idle"]]
    BY DEF EndSend
  <2> QED BY <2>1, <2>2 DEF TypeOK
<1>2. completed' \in [Node -> SUBSET Nat]
  <2>1. Len(sent[n]) \in Nat
    BY DEF TypeOK
  <2> QED BY <2>1 DEF TypeOK, EndSend
<1> QED BY <1>1, <1>2 DEF TypeOK, EndSend, receiver, config

\* The packet a handler works on.
LEMMA DataTyped ==
    ASSUME TypeOK, NEW n \in Node, net[n] # <<>>
    PROVE  /\ Data(n) \in Packet /\ Data(n).seq \in SeqNum
           /\ Data(n).body \in Body /\ Data(n).flags \in SUBSET Flag
<1>1. Data(n) \in Packet
  BY SeqFacts DEF TypeOK, Data
<1> QED BY <1>1 DEF Packet

LEMMA StoredTyped ==
    ASSUME TypeOK, NEW n \in Node, net[n] # <<>>
    PROVE  Stored(n, Data(n)) \in [SeqNum -> Body]
BY DataTyped DEF TypeOK, Stored

LEMMA ProcessSingleTyped ==
    ASSUME TypeOK, NEW n \in Node, NEW kind \in Kind, ProcessSingle(n, kind)
    PROVE  TypeOK'
<1> DEFINE f == [NoFragments EXCEPT ![1] = Data(n).body]
<1>1. net[n] # <<>>
  BY DEF ProcessSingle, Receives
<1>2. f \in [SeqNum -> Body]
  BY <1>1, DataTyped, NumberFacts DEF NoFragments, Body
<1>3. net' \in [Node -> Seq(Packet)]
  <2>1. /\ <<Control(PositiveAck, Data(n).seq)>> \in Seq(Packet)
        /\ <<Control(NegativeAck, Data(n).seq)>> \in Seq(Packet)
    BY <1>1, DataTyped, FlagFacts, ControlTyped DEF Kind
  <2> QED BY <1>1, <2>1, AnswerTyped
          DEF ProcessSingle, send_tcu_positive_ack, send_tcu_negative_ack
<1>4. delivered' \in [Node -> Seq(Arrival)] /\ struck' \in [Fault -> Nat]
  <2>1. HandToUser(n, kind, f) \/ UNCHANGED <<delivered, struck>>
    BY DEF ProcessSingle
  <2> HIDE DEF f
  <2> QED BY <1>2, <2>1, HandToUserTyped DEF TypeOK
<1> QED BY <1>3, <1>4 DEF TypeOK, ProcessSingle, sender, receiver

LEMMA ProcessMoreFragTyped ==
    ASSUME TypeOK, NEW n \in Node, NEW kind \in Kind, ProcessMoreFrag(n, kind)
    PROVE  TypeOK'
<1>1. net[n] # <<>>
  BY DEF ProcessMoreFrag, Receives
<1>2. net' \in [Node -> Seq(Packet)]
  BY <1>1, NoAnswerTyped DEF ProcessMoreFrag
<1>3. received_packets' \in [Node -> [SeqNum -> Body]]
  BY <1>1, StoredTyped DEF ProcessMoreFrag, TypeOK
<1>4. seq_num' \in [Node -> SeqNum] /\ last_num' \in [Node -> SeqNum]
  BY NumberFacts DEF ProcessMoreFrag, TypeOK
<1> QED BY <1>2, <1>3, <1>4 DEF TypeOK, ProcessMoreFrag, sender, history

LEMMA EndOfWindowTyped ==
    ASSUME TypeOK, NEW n \in Node, net[n] # <<>>, EndOfWindow(n, Data(n))
    PROVE  /\ net' \in [Node -> Seq(Packet)]
           /\ received_packets' \in [Node -> [SeqNum -> Body]]
           /\ last_num' \in [Node -> SeqNum] /\ seq_num' \in [Node -> SeqNum]
<1>1. Newest(n, Data(n)) \in SeqNum
  BY DataTyped DEF Newest, TypeOK
<1>2. Missing(n, Data(n)) \subseteq SeqNum
  BY <1>1, ModulusAssumption DEF Missing, TypeOK, SeqNum
<1>3. net' \in [Node -> Seq(Packet)]
  <2>1. \A i \in SeqNum : /\ <<Control(PositiveAck, i)>> \in Seq(Packet)
                           /\ <<Control(NegativeAck, i)>> \in Seq(Packet)
    BY FlagFacts, ControlTyped DEF Kind
  <2>2. \E i \in SeqNum : send_tcu_positive_ack(n, i) \/ send_tcu_negative_ack(n, i)
    BY <1>1, <1>2 DEF EndOfWindow
  <2> QED BY <2>1, <2>2, AnswerTyped DEF send_tcu_positive_ack, send_tcu_negative_ack
<1>4. received_packets' \in [Node -> [SeqNum -> Body]]
  BY StoredTyped DEF EndOfWindow, TypeOK
<1>5. last_num' \in [Node -> SeqNum] /\ seq_num' \in [Node -> SeqNum]
  <2>1. /\ last_num' = [last_num EXCEPT ![n] = Newest(n, Data(n))]
        /\ seq_num' = seq_num \/ seq_num' = [seq_num EXCEPT ![n] = Newest(n, Data(n))]
    BY DEF EndOfWindow
  <2>2. last_num \in [Node -> SeqNum] /\ seq_num \in [Node -> SeqNum]
    BY DEF TypeOK
  <2>3. PICK i \in SeqNum : i = Newest(n, Data(n))
    BY <1>1
  <2>4. last_num' \in [Node -> SeqNum]
    BY ONLY <2>1, <2>2, <2>3, n \in Node
  <2>5. seq_num' \in [Node -> SeqNum]
    BY ONLY <2>1, <2>2, <2>3, n \in Node
  <2> QED BY <2>4, <2>5
<1> QED BY <1>3, <1>4, <1>5

LEMMA EndsTyped ==
    ASSUME TypeOK, NEW n \in Node, NEW kind \in Kind,
           ProcessLastWindFrag(n, kind) \/ ProcessLastFrag(n, kind)
    PROVE  TypeOK'
<1>1. net[n] # <<>> /\ EndOfWindow(n, Data(n))
  BY DEF ProcessLastWindFrag, ProcessLastFrag, Receives
<1>2. /\ net' \in [Node -> Seq(Packet)]
      /\ received_packets' \in [Node -> [SeqNum -> Body]]
      /\ last_num' \in [Node -> SeqNum] /\ seq_num' \in [Node -> SeqNum]
  BY <1>1, EndOfWindowTyped
<1>3. assembling' \in [Node -> Kind \cup {"nothing"}]
  <2>1. assembling \in [Node -> Kind \cup {"nothing"}]
    BY DEF TypeOK
  <2>2. \/ assembling' = assembling
        \/ assembling' = [assembling EXCEPT ![n] = kind]
        \/ assembling' = [assembling EXCEPT ![n] = assembling[n]]
    BY DEF ProcessLastWindFrag, ProcessLastFrag
  <2> QED BY ONLY <2>1, <2>2, n \in Node, kind \in Kind
<1> QED BY <1>2, <1>3 DEF TypeOK, ProcessLastWindFrag, ProcessLastFrag, sender, history

LEMMA AssembleTyped ==
    ASSUME TypeOK, NEW n \in Node, NEW kind \in Kind, Assemble(n, kind)
    PROVE  TypeOK'
<1>1. delivered' \in [Node -> Seq(Arrival)] /\ struck' \in [Fault -> Nat]
  BY HandToUserTyped DEF Assemble, TypeOK
<1>2. NoFragments \in [SeqNum -> Body]
  BY DEF NoFragments, Body
<1> QED BY <1>1, <1>2 DEF TypeOK, Assemble, sender

LEMMA NegativeAckTyped ==
    ASSUME TypeOK, NEW n \in Node, process_tcu_negative_ack(n)
    PROVE  TypeOK'
<1> DEFINE i == Data(n).seq
           again == Reflagged(n, send_packets[n][i])
<1>1. net[n] # <<>>
  BY DEF process_tcu_negative_ack, Receives
<1>2. ASSUME i \in DOMAIN send_packets[n]
      PROVE  again \in Packet
  <2>1. send_packets[n][i] \in Packet
    BY <1>2 DEF TypeOK
  <2> QED BY <2>1 DEF Reflagged, Packet, Flag
<1>3. CASE IsSingle(n) /\ Answer(n, <<send_packets[n][1]>>) /\ UNCHANGED send_packets
  <2>0. send_packets[n][1] \in Packet
    <3>1. send_packets[n] \in Seq(Packet) /\ Len(send_packets[n]) = 1
      BY <1>3 DEF IsSingle, TypeOK
    <3>2. 1 \in 1..Len(send_packets[n])
      BY <3>1
    <3> HIDE DEF again, i
    <3> QED BY <3>1, <3>2, SeqFacts
  <2>1. <<send_packets[n][1]>> \in Seq(Packet)
    BY <2>0
  <2>2. net' \in [Node -> Seq(Packet)]
    BY <1>1, <1>3, <2>1, AnswerTyped
  <2> QED BY <1>3, <2>2 DEF TypeOK, process_tcu_negative_ack, receiver, config, history
<1>4. CASE /\ i \in DOMAIN send_packets[n] /\ Answer(n, <<again>>)
           /\ send_packets' = [send_packets EXCEPT ![n][i] = again]
  <2>1. again \in Packet
    BY <1>2, <1>4
  <2> HIDE DEF again
  <2>2. <<again>> \in Seq(Packet)
    BY <2>1
  <2>3. net' \in [Node -> Seq(Packet)]
    BY <1>1, <1>4, <2>2, AnswerTyped
  <2>4. [send_packets[n] EXCEPT ![i] = again] \in Seq(Packet)
    BY <1>4, <2>1 DEF TypeOK
  <2>5. send_packets' \in [Node -> Seq(Packet)]
    BY <1>4, <2>4 DEF TypeOK
  <2> QED BY <2>3, <2>5 DEF TypeOK, process_tcu_negative_ack, receiver, config, history
<1>5. CASE Answer(n, <<>>) /\ UNCHANGED send_packets
  <2>1. net' \in [Node -> Seq(Packet)]
    BY <1>1, <1>5, NoAnswerTyped
  <2> QED BY <1>5, <2>1 DEF TypeOK, process_tcu_negative_ack, receiver, config, history
<1> QED BY <1>3, <1>4, <1>5 DEF process_tcu_negative_ack

LEMMA PositiveAckTyped ==
    ASSUME TypeOK, NEW n \in Node, process_tcu_positive_ack(n)
    PROVE  TypeOK'
<1>1. net' \in [Node -> Seq(Packet)]
  BY NoAnswerTyped DEF process_tcu_positive_ack, Receives
<1>2. seq_num' \in [Node -> SeqNum]
  BY NumberFacts DEF process_tcu_positive_ack, TypeOK
<1> QED BY <1>1, <1>2 DEF TypeOK, process_tcu_positive_ack, sender, receiver, history

LEMMA DisconnReqTyped ==
    ASSUME TypeOK, NEW n \in Node, process_tcu_disconn_req(n)
    PROVE  TypeOK'
<1>1. <<Control(DisconnAck, 0)>> \in Seq(Packet)
  BY ControlTyped, FlagFacts, NumberFacts DEF Kind
<1>2. net' \in [Node -> Seq(Packet)]
  BY <1>1, AnswerTyped DEF process_tcu_disconn_req, Receives
<1> QED BY <1>2 DEF TypeOK, process_tcu_disconn_req, sender, receiver, history

LEMMA IgnoreTyped ==
    ASSUME TypeOK, NEW n \in Node, Ignore(n)
    PROVE  TypeOK'
<1>1. net' \in [Node -> Seq(Packet)]
  BY NoAnswerTyped DEF Ignore
<1> QED BY <1>1 DEF TypeOK, Ignore, sender, receiver, history

LEMMA NetworkFaultTyped ==
    ASSUME TypeOK, NEW n \in Node, NetworkFault(n)
    PROVE  TypeOK'
<1> DEFINE G == [m \in Node |-> Packet]
<1>1. \A m \in Node : net[m] \in Seq(G[m])
  BY DEF TypeOK
<1>2. \A m \in Node : net'[m] \in Seq(G[m])
  <2> HIDE DEF G
  <2> QED BY <1>1, FaultKeeps DEF TypeOK
<1>3. net' \in [Node -> Seq(Packet)]
  BY <1>2 DEF TypeOK, NetworkFault, Lose, Duplicate, Overtake
<1>4. struck' \in [Fault -> Nat]
  BY SpendTyped DEF NetworkFault, Lose, Duplicate, Overtake, Fault
<1> QED BY <1>3, <1>4 DEF TypeOK, NetworkFault, sender, receiver, history

LEMMA TypeInit == Init => TypeOK
<1> SUFFICES ASSUME Init PROVE TypeOK
  OBVIOUS
<1>1. [pc |-> "idle", seq |-> 0, retry |-> 0] \in CliState
  BY NumberFacts DEF CliState, MaxRetries
<1>2. cli \in [Node -> CliState]
  BY <1>1 DEF Init
<1>3. NoFragments \in [SeqNum -> Body]
  BY DEF NoFragments, Body
<1> QED BY <1>2, <1>3, NumberFacts, BoundsAssumption DEF Init, TypeOK

LEMMA TypeStep == TypeOK /\ [Next]_vars => TypeOK'
<1> SUFFICES ASSUME TypeOK, [Next]_vars PROVE TypeOK'
  OBVIOUS
<1>1. CASE UNCHANGED vars
  BY <1>1 DEF TypeOK, vars
<1>2. ASSUME NEW n \in Node, User(n) PROVE TypeOK'
  BY <1>2, SettingsTyped, SendSingleTyped, SendFragmentedTyped, CannotReadTyped
     DEF User, send_text, send_file, Kind
<1>3. ASSUME NEW n \in Node, Sending(n) PROVE TypeOK'
  BY <1>3, NextWindowTyped, SendFragmentTyped, EndWindowTyped, AckSeenTyped,
     TimeoutTyped, GiveUpTyped, EndSendTyped DEF Sending
<1>4. ASSUME NEW n \in Node, Receiving(n) PROVE TypeOK'
  <2>1. CASE process_tcu_single_text(n) \/ process_tcu_single_file(n)
    BY <2>1, ProcessSingleTyped
       DEF process_tcu_single_text, process_tcu_single_file, Kind
  <2>2. CASE process_tcu_more_frag_text(n) \/ process_tcu_more_frag_file(n)
    BY <2>2, ProcessMoreFragTyped
       DEF process_tcu_more_frag_text, process_tcu_more_frag_file, Kind
  <2>3. CASE process_tcu_last_wind_frag_text(n) \/ process_tcu_last_wind_frag_file(n)
    BY <2>3, EndsTyped
       DEF process_tcu_last_wind_frag_text, process_tcu_last_wind_frag_file, Kind
  <2>4. CASE process_tcu_last_frag_text(n) \/ process_tcu_last_frag_file(n)
    BY <2>4, EndsTyped
       DEF process_tcu_last_frag_text, process_tcu_last_frag_file, Kind
  <2>5. CASE assemble_text(n) \/ assemble_file(n)
    BY <2>5, AssembleTyped DEF assemble_text, assemble_file, Kind
  <2> QED BY <1>4, <2>1, <2>2, <2>3, <2>4, <2>5, NegativeAckTyped, PositiveAckTyped,
             DisconnReqTyped, IgnoreTyped DEF Receiving
<1>5. ASSUME NEW n \in Node, NetworkFault(n) PROVE TypeOK'
  BY <1>5, NetworkFaultTyped
<1> QED BY <1>1, <1>2, <1>3, <1>4, <1>5 DEF Next

\* Every variable of the data path keeps the type node.h declares for it, for
\* any lengths, windows, width of numbers, and any number of faults.
THEOREM TypeCorrect == Spec => []TypeOK
<1> QED BY TypeInit, TypeStep, PTL DEF Spec

-----------------------------------------------------------------------------
(* Nothing is invented *)

IInv == TypeOK /\ Origin /\ NothingInvented

\* What one node may keep or hand over of what the other has sent.
Kept(n, f) == \A i \in SeqNum : f[i] # Nothing => Valid(Peer(n), f[i], i)

LEMMA GenuineFacts ==
    ASSUME NEW n \in Node
    PROVE  /\ Genuine(n) \subseteq Packet
           /\ \A p \in Packet : p.body \notin Message => p \in Genuine(n)
           /\ \A p \in Genuine(n) : /\ [p EXCEPT !.body = Garbled] \in Genuine(n)
                                    /\ Reflagged(n, p) \in Genuine(n)
           /\ \A flags \in SUBSET Flag, i \in SeqNum :
                <<Control(flags, i)>> \in Seq(Genuine(n))
<1>1. ASSUME NEW p \in Packet, p.body \notin Message PROVE p \in Genuine(n)
  BY <1>1 DEF Genuine
<1>2. ASSUME NEW p \in Genuine(n)
      PROVE  [p EXCEPT !.body = Garbled] \in Genuine(n)
  <2>1. [p EXCEPT !.body = Garbled] \in Packet
    BY DEF Genuine, Packet, Body
  <2>2. [p EXCEPT !.body = Garbled].body \notin Message
    BY DEF Genuine, Packet, Message, Garbled
  <2> QED BY <2>1, <2>2, <1>1
<1>3. ASSUME NEW p \in Genuine(n)
      PROVE  Reflagged(n, p) \in Genuine(n)
  <2>1. Reflagged(n, p) \in Packet
    BY DEF Reflagged, Genuine, Packet, Flag
  <2>2. Reflagged(n, p).body = p.body /\ Reflagged(n, p).seq = p.seq
    BY DEF Reflagged, Genuine, Packet
  <2> QED BY <2>1, <2>2 DEF Genuine
<1>4. ASSUME NEW flags \in SUBSET Flag, NEW i \in SeqNum
      PROVE  <<Control(flags, i)>> \in Seq(Genuine(n))
  <2>1. Control(flags, i) \in Packet /\ Control(flags, i).body \notin Message
    BY DEF Control, Packet, Body, Message, Nothing
  <2>2. Control(flags, i) \in Genuine(n)
    BY <2>1, <1>1
  <2> QED BY <2>2
<1> QED BY <1>1, <1>2, <1>3, <1>4 DEF Genuine

\* A step that sends no new message only has to keep what it touches genuine.
LEMMA SameMessages ==
    ASSUME IInv, TypeOK', sent' = sent,
           \A n \in Node : /\ net'[n] \in Seq(Genuine(Peer(n)))
                           /\ send_packets'[n] \in Seq(Genuine(n))
                           /\ Kept(n, received_packets'[n])
                           /\ \A i \in DOMAIN delivered'[n] :
                                Kept(n, delivered'[n][i].fragments)
    PROVE  IInv'
<1>1. \A n \in Node : Genuine(n)' = Genuine(n)
  BY DEF Genuine, Valid
<1>2. \A n, k, i : Valid(n, k, i)' = Valid(n, k, i)
  BY DEF Valid
<1>3. Origin'
  BY <1>1, <1>2, PeerFacts DEF Origin, Kept
<1>4. NothingInvented'
  BY <1>2 DEF NothingInvented, Kept
<1> QED BY <1>3, <1>4 DEF IInv

\* The invariant, said with Kept.
LEMMA Unfolded ==
    ASSUME IInv
    PROVE  \A n \in Node : /\ net[n] \in Seq(Genuine(Peer(n)))
                           /\ send_packets[n] \in Seq(Genuine(n))
                           /\ Kept(n, received_packets[n])
                           /\ \A i \in DOMAIN delivered[n] :
                                Kept(n, delivered[n][i].fragments)
BY DEF IInv, Origin, NothingInvented, Kept

\* Steps that touch neither packets nor fragments.
LEMMA QuietStep ==
    ASSUME IInv, TypeOK',
           UNCHANGED <<net, send_packets, received_packets, sent, delivered>>
    PROVE  IInv'
BY Unfolded, SameMessages

LEMMA AnswerGenuine ==
    ASSUME IInv, NEW n \in Node, net[n] # <<>>,
           NEW packets \in Seq(Genuine(n)), Answer(n, packets)
    PROVE  \A m \in Node : net'[m] \in Seq(Genuine(Peer(m)))
<1> DEFINE G == [m \in Node |-> Genuine(Peer(m))]
<1>1. packets \in Seq(G[Peer(n)]) /\ \A m \in Node : net[m] \in Seq(G[m])
  BY PeerFacts, Unfolded
<1>2. \A m \in Node : net'[m] \in Seq(G[m])
  <2> HIDE DEF G
  <2> QED BY <1>1, AnswerKeeps DEF IInv, TypeOK
<1> QED BY <1>2

LEMMA SendFragmentGenuine ==
    ASSUME IInv, TypeOK', NEW n \in Node, SendFragment(n)
    PROVE  IInv'
<1> DEFINE G == [m \in Node |-> Genuine(Peer(m))]
           p == send_packets[n][cli[n].seq]
<1>1. \A m \in Node : net'[m] \in Seq(Genuine(Peer(m)))
  <2>1. CASE cli[n].seq \in DOMAIN send_packets[n]
    <3>1. p \in Genuine(n)
      BY <2>1, Unfolded
    <3>2. send_packet(n, p)
      BY <2>1 DEF SendFragment
    <3>3. G[Peer(n)] = Genuine(n) /\ \A m \in Node : net[m] \in Seq(G[m])
      BY PeerFacts, Unfolded
    <3>4. \A m \in Node : net'[m] \in Seq(G[m])
      <4>1. [p EXCEPT !.body = Garbled] \in Genuine(n)
        <5> HIDE DEF p
        <5> QED BY <3>1, GenuineFacts
      <4>2. net \in [Node -> Seq(Packet)]
        BY DEF IInv, TypeOK
      <4> HIDE DEF G, p
      <4> QED BY <3>1, <3>2, <3>3, <4>1, <4>2, SendKeeps
    <3> QED BY <3>4
  <2>2. CASE cli[n].seq \notin DOMAIN send_packets[n]
    BY <2>2, Unfolded DEF SendFragment
  <2> QED BY <2>1, <2>2
<1> QED BY <1>1, Unfolded, SameMessages DEF SendFragment, receiver, history

LEMMA NetworkFaultGenuine ==
    ASSUME IInv, TypeOK', NEW n \in Node, NetworkFault(n)
    PROVE  IInv'
<1> DEFINE G == [m \in Node |-> Genuine(Peer(m))]
<1>1. \A m \in Node : net[m] \in Seq(G[m])
  BY Unfolded
<1>2. \A m \in Node : net'[m] \in Seq(G[m])
  <2> HIDE DEF G
  <2> QED BY <1>1, FaultKeeps DEF IInv, TypeOK
<1> QED BY <1>2, Unfolded, SameMessages DEF NetworkFault, sender, receiver, history

LEMMA HandToUserKeeps ==
    ASSUME IInv, NEW n \in Node, NEW kind, NEW f, Kept(n, f), HandToUser(n, kind, f)
    PROVE  \A m \in Node : \A i \in DOMAIN delivered'[m] :
               Kept(m, delivered'[m][i].fragments)
<1> DEFINE a == [kind |-> kind, fragments |-> f]
<1>1. CASE delivered' = delivered
  BY <1>1, Unfolded
<1>2. CASE delivered' = [delivered EXCEPT ![n] = Append(@, a)]
  <2>1. a.fragments = f
    OBVIOUS
  <2> HIDE DEF a
  <2>2. SUFFICES ASSUME NEW i \in DOMAIN delivered'[n]
                 PROVE  Kept(n, delivered'[n][i].fragments)
    BY <1>2, Unfolded DEF IInv, TypeOK
  <2>3. delivered'[n] = Append(delivered[n], a) /\ delivered[n] \in Seq(Arrival)
    BY <1>2 DEF IInv, TypeOK
  <2>4. \/ i \in DOMAIN delivered[n] /\ delivered'[n][i] = delivered[n][i]
        \/ delivered'[n][i] = a
    BY <2>3
  <2> QED BY <2>1, <2>4, Unfolded
<1> QED BY <1>1, <1>2 DEF HandToUser

\* What a handler keeps of the packet it has checked.
LEMMA DataGenuine ==
    ASSUME IInv, NEW n \in Node, net[n] # <<>>
    PROVE  /\ Data(n) \in Genuine(Peer(n))
           /\ validate_crc(Data(n)) /\ Data(n).body # Nothing =>
                Valid(Peer(n), Data(n).body, Data(n).seq)
<1>1. Data(n) \in Genuine(Peer(n))
  BY Unfolded, SeqFacts DEF Data
<1>2. Data(n).body \in Body
  BY DataTyped DEF IInv
<1> QED BY <1>1, <1>2 DEF Genuine, validate_crc, Body

LEMMA StoredKept ==
    ASSUME IInv, NEW n \in Node, net[n] # <<>>
    PROVE  Kept(n, Stored(n, Data(n)))
<1>1. Kept(n, received_packets[n]) /\ received_packets[n] \in [SeqNum -> Body]
  BY Unfolded DEF IInv, TypeOK
<1>2. Data(n).seq \in SeqNum
  BY DataTyped DEF IInv
<1> QED BY <1>1, <1>2, DataGenuine DEF Kept, Stored

LEMMA ProcessSingleGenuine ==
    ASSUME IInv, TypeOK', NEW n \in Node, NEW kind \in Kind, ProcessSingle(n, kind)
    PROVE  IInv'
<1> DEFINE f == [NoFragments EXCEPT ![1] = Data(n).body]
<1>1. net[n] # <<>>
  BY DEF ProcessSingle, Receives
<1>2. Data(n).seq \in SeqNum
  BY <1>1, DataTyped DEF IInv
<1>3. \A m \in Node : net'[m] \in Seq(Genuine(Peer(m)))
  <2>1. /\ <<Control(PositiveAck, Data(n).seq)>> \in Seq(Genuine(n))
        /\ <<Control(NegativeAck, Data(n).seq)>> \in Seq(Genuine(n))
    BY <1>2, FlagFacts, GenuineFacts DEF Kind
  <2> QED BY <1>1, <2>1, AnswerGenuine
          DEF ProcessSingle, send_tcu_positive_ack, send_tcu_negative_ack
<1>4. validate_crc(Data(n)) => Kept(n, f)
  <2>1. ASSUME NEW k, Valid(Peer(n), k, Data(n).seq) PROVE Valid(Peer(n), k, 1)
    <3>1. k \in 1..Len(sent[Peer(n)]) /\ sent[Peer(n)] \in Seq(MessageInfo)
      <4>1. sent[Peer(n)] \in Seq(MessageInfo)
        BY PeerFacts DEF IInv, TypeOK
      <4> QED  BY <2>1, <4>1 DEF Valid
    <3>2. sent[Peer(n)][k] \in MessageInfo
      BY <3>1, SeqFacts
    <3>3. sent[Peer(n)][k].total \in Nat
      BY <3>2, NumberFacts DEF MessageInfo
    <3>4. Data(n).seq \in 1..sent[Peer(n)][k].total
      BY <2>1 DEF Valid
    <3>5. 1 \in 1..sent[Peer(n)][k].total
      BY <3>3, <3>4
    <3> QED BY <2>1, <3>5 DEF Valid
  <2>2. \A i \in SeqNum : f[i] # Nothing => i = 1 /\ f[i] = Data(n).body
    BY DEF NoFragments
  <2> HIDE DEF f
  <2> QED BY <1>1, <2>1, <2>2, DataGenuine DEF Kept
<1>5. \A m \in Node : \A i \in DOMAIN delivered'[m] : Kept(m, delivered'[m][i].fragments)
  <2>1. \/ validate_crc(Data(n)) /\ HandToUser(n, kind, f)
        \/ delivered' = delivered
    BY DEF ProcessSingle
  <2> HIDE DEF f
  <2> QED BY <1>4, <2>1, HandToUserKeeps, Unfolded
<1> QED BY <1>3, <1>5, Unfolded, SameMessages DEF ProcessSingle, sender, receiver

LEMMA ProcessMoreFragGenuine ==
    ASSUME IInv, TypeOK', NEW n \in Node, NEW kind \in Kind, ProcessMoreFrag(n, kind)
    PROVE  IInv'
<1>1. net[n] # <<>>
  BY DEF ProcessMoreFrag, Receives
<1>2. \A m \in Node : net'[m] \in Seq(Genuine(Peer(m)))
  <2>1. <<>> \in Seq(Genuine(n))
    OBVIOUS
  <2> QED BY <1>1, <2>1, AnswerGenuine DEF ProcessMoreFrag
<1>3. \A m \in Node : Kept(m, received_packets'[m])
  BY <1>1, StoredKept, Unfolded DEF ProcessMoreFrag, IInv, TypeOK
<1> QED BY <1>2, <1>3, Unfolded, SameMessages DEF ProcessMoreFrag, sender, history

LEMMA EndsGenuine ==
    ASSUME IInv, TypeOK', NEW n \in Node, NEW kind \in Kind,
           ProcessLastWindFrag(n, kind) \/ ProcessLastFrag(n, kind)
    PROVE  IInv'
<1>1. net[n] # <<>> /\ EndOfWindow(n, Data(n))
  BY DEF ProcessLastWindFrag, ProcessLastFrag, Receives
<1>2. \A m \in Node : net'[m] \in Seq(Genuine(Peer(m)))
  <2>1. Newest(n, Data(n)) \in SeqNum
    BY <1>1, DataTyped DEF Newest, IInv, TypeOK
  <2>2. Missing(n, Data(n)) \subseteq SeqNum
    <3>1. seq_num[n] \in SeqNum
      BY DEF IInv, TypeOK
    <3> QED BY <2>1, <3>1, ModulusAssumption DEF Missing, SeqNum
  <2>3. \A i \in SeqNum : /\ <<Control(PositiveAck, i)>> \in Seq(Genuine(n))
                           /\ <<Control(NegativeAck, i)>> \in Seq(Genuine(n))
    BY FlagFacts, GenuineFacts DEF Kind
  <2>4. \E i \in SeqNum : send_tcu_positive_ack(n, i) \/ send_tcu_negative_ack(n, i)
    BY <1>1, <2>1, <2>2 DEF EndOfWindow
  <2> QED BY <1>1, <2>3, <2>4, AnswerGenuine
          DEF send_tcu_positive_ack, send_tcu_negative_ack
<1>3. \A m \in Node : Kept(m, received_packets'[m])
  <2>1. received_packets' = [received_packets EXCEPT ![n] = Stored(n, Data(n))]
    BY <1>1 DEF EndOfWindow
  <2> QED BY <1>1, <2>1, StoredKept, Unfolded DEF IInv, TypeOK
<1> QED BY <1>2, <1>3, Unfolded, SameMessages
        DEF ProcessLastWindFrag, ProcessLastFrag, sender, history

LEMMA AssembleGenuine ==
    ASSUME IInv, TypeOK', NEW n \in Node, NEW kind \in Kind, Assemble(n, kind)
    PROVE  IInv'
<1>1. \A m \in Node : \A i \in DOMAIN delivered'[m] : Kept(m, delivered'[m][i].fragments)
  BY Unfolded, HandToUserKeeps DEF Assemble
<1>2. \A m \in Node : Kept(m, received_packets'[m])
  <2>1. Kept(n, NoFragments)
    BY DEF Kept, NoFragments
  <2> QED BY <2>1, Unfolded DEF Assemble, IInv, TypeOK
<1> QED BY <1>1, <1>2, Unfolded, SameMessages DEF Assemble, sender

LEMMA NegativeAckGenuine ==
    ASSUME IInv, TypeOK', NEW n \in Node, process_tcu_negative_ack(n)
    PROVE  IInv'
<1> DEFINE i == Data(n).seq
           again == Reflagged(n, send_packets[n][i])
<1>1. net[n] # <<>>
  BY DEF process_tcu_negative_ack, Receives
<1>2. send_packets[n] \in Seq(Genuine(n))
  BY Unfolded
<1>3. CASE IsSingle(n) /\ Answer(n, <<send_packets[n][1]>>) /\ UNCHANGED send_packets
  <2>1. 1 \in 1..Len(send_packets[n])
    BY <1>3 DEF IsSingle
  <2> HIDE DEF i, again
  <2>2. send_packets[n][1] \in Genuine(n)
    BY <1>2, <2>1, SeqFacts
  <2>3. <<send_packets[n][1]>> \in Seq(Genuine(n))
    BY <2>2
  <2>4. \A m \in Node : net'[m] \in Seq(Genuine(Peer(m)))
    BY <1>1, <1>3, <2>3, AnswerGenuine
  <2> QED BY <1>3, <2>4, Unfolded, SameMessages
          DEF process_tcu_negative_ack, receiver, history
<1>4. CASE /\ i \in DOMAIN send_packets[n] /\ Answer(n, <<again>>)
           /\ send_packets' = [send_packets EXCEPT ![n][i] = again]
  <2>1. again \in Genuine(n)
    <3>1. send_packets[n][i] \in Genuine(n)
      <4> HIDE DEF i
      <4> QED BY <1>2, <1>4, SeqFacts
    <3> QED BY <3>1, GenuineFacts
  <2> HIDE DEF again
  <2>2. <<again>> \in Seq(Genuine(n))
    BY <2>1
  <2>3. \A m \in Node : net'[m] \in Seq(Genuine(Peer(m)))
    BY <1>1, <1>4, <2>2, AnswerGenuine
  <2>4. [send_packets[n] EXCEPT ![i] = again] \in Seq(Genuine(n))
    BY <1>2, <1>4, <2>1
  <2>5. \A m \in Node : send_packets'[m] \in Seq(Genuine(m))
    BY <1>4, <2>4, Unfolded DEF IInv, TypeOK
  <2> QED BY <2>3, <2>5, Unfolded, SameMessages
          DEF process_tcu_negative_ack, receiver, history
<1>5. CASE Answer(n, <<>>) /\ UNCHANGED send_packets
  <2>1. <<>> \in Seq(Genuine(n))
    OBVIOUS
  <2>2. \A m \in Node : net'[m] \in Seq(Genuine(Peer(m)))
    BY <1>1, <1>5, <2>1, AnswerGenuine
  <2> QED BY <1>5, <2>2, Unfolded, SameMessages
          DEF process_tcu_negative_ack, receiver, history
<1> QED BY <1>3, <1>4, <1>5 DEF process_tcu_negative_ack

\* The handlers that keep nothing of what they are sent.
LEMMA OtherHandlersGenuine ==
    ASSUME IInv, TypeOK', NEW n \in Node,
           process_tcu_positive_ack(n) \/ process_tcu_disconn_req(n) \/ Ignore(n)
    PROVE  IInv'
<1>1. net[n] # <<>>
  BY DEF process_tcu_positive_ack, process_tcu_disconn_req, Ignore, Receives
<1>2. PICK packets \in Seq(Genuine(n)) : Answer(n, packets)
  <2>1. <<>> \in Seq(Genuine(n))
    OBVIOUS
  <2>2. <<Control(DisconnAck, 0)>> \in Seq(Genuine(n))
    BY FlagFacts, NumberFacts, GenuineFacts DEF Kind
  <2> QED BY <2>1, <2>2 DEF process_tcu_positive_ack, process_tcu_disconn_req, Ignore
<1>3. \A m \in Node : net'[m] \in Seq(Genuine(Peer(m)))
  BY <1>1, <1>2, AnswerGenuine
<1> QED BY <1>3, Unfolded, SameMessages
        DEF process_tcu_positive_ack, process_tcu_disconn_req, Ignore,
            sender, receiver, history

\* A new message makes no older fragment less valid, and makes its own valid.
LEMMA NewMessage ==
    ASSUME IInv, TypeOK', NEW n \in Node, NEW m \in MessageInfo,
           sent' = [sent EXCEPT ![n] = Append(@, m)]
    PROVE  /\ \A q \in Node : \A k, i : Valid(q, k, i) => Valid(q, k, i)'
           /\ \A q \in Node : Genuine(q) \subseteq Genuine(q)'
           /\ \A k, i : k = Len(sent[n]) + 1 /\ i \in 1..m.total => Valid(n, k, i)'
<1>1. sent \in [Node -> Seq(MessageInfo)] /\ sent[n] \in Seq(MessageInfo)
  BY DEF IInv, TypeOK
<1>2. /\ Len(sent'[n]) = Len(sent[n]) + 1
      /\ \A k \in 1..Len(sent[n]) : sent'[n][k] = sent[n][k]
      /\ sent'[n][Len(sent[n]) + 1] = m
  BY <1>1
<1>3. \A q \in Node \ {n} : sent'[q] = sent[q]
  BY <1>1
<1>4. ASSUME NEW q \in Node, NEW k, NEW i, Valid(q, k, i) PROVE Valid(q, k, i)'
  <2>1. CASE q # n
    BY <1>3, <1>4, <2>1 DEF Valid
  <2>2. CASE q = n
    <3>1. k \in 1..Len(sent[n]) /\ i \in 1..sent[n][k].total
      BY <1>1, <1>4, <2>2 DEF Valid
    <3>2. k \in 1..Len(sent'[n]) /\ sent'[n] \in Seq(MessageInfo)
      BY <1>1, <1>2, <3>1 DEF TypeOK
    <3> QED BY <1>2, <2>2, <3>1, <3>2 DEF Valid
  <2> QED BY <2>1, <2>2
<1>5. ASSUME NEW q \in Node PROVE Genuine(q) \subseteq Genuine(q)'
  BY <1>4 DEF Genuine
<1>6. ASSUME NEW k, NEW i \in 1..m.total, k = Len(sent[n]) + 1 PROVE Valid(n, k, i)'
  <2>1. k \in DOMAIN sent'[n]
    BY <1>1, <1>2, <1>6 DEF TypeOK
  <2> QED BY <1>2, <1>6, <2>1 DEF Valid
<1> QED BY <1>4, <1>5, <1>6

\* A send command has to keep genuine what it puts in the network and in its
\* own buffer, by the messages sent so far, the new one included.
LEMMA SendGenuine ==
    ASSUME IInv, TypeOK', NEW n \in Node, NEW m \in MessageInfo,
           NEW packets \in Seq(Genuine(n)'),
           sent' = [sent EXCEPT ![n] = Append(@, m)],
           send_packets' = [send_packets EXCEPT ![n] = packets],
           \A q \in Node : net'[q] \in Seq(Genuine(Peer(q))'),
           UNCHANGED <<received_packets, delivered>>
    PROVE  IInv'
<1>1. \A q \in Node : \A k, i : Valid(q, k, i) => Valid(q, k, i)'
  BY NewMessage
<1>2. ASSUME NEW q \in Node PROVE send_packets'[q] \in Seq(Genuine(q)')
  <2>1. Genuine(q) \subseteq Genuine(q)'
    BY NewMessage
  <2>2. send_packets[q] \in Seq(Genuine(q)')
    BY <2>1, Unfolded
  <2> QED BY <2>2 DEF IInv, TypeOK
<1>3. Origin'
  BY <1>1, <1>2, PeerFacts DEF IInv, Origin
<1>4. NothingInvented'
  BY <1>1, PeerFacts DEF IInv, NothingInvented
<1> QED BY <1>3, <1>4 DEF IInv

LEMMA OldPacketsGenuine ==
    ASSUME IInv, TypeOK', NEW n \in Node, NEW m \in MessageInfo,
           sent' = [sent EXCEPT ![n] = Append(@, m)]
    PROVE  \A q \in Node : net[q] \in Seq(Genuine(Peer(q))')
<1> TAKE q \in Node
<1>1. Genuine(Peer(q)) \subseteq Genuine(Peer(q))'
  BY PeerFacts, NewMessage
<1> QED BY <1>1, Unfolded

LEMMA SendSingleGenuine ==
    ASSUME IInv, TypeOK', NEW n \in Node, NEW kind \in Kind, SendSingle(n, kind)
    PROVE  IInv'
<1>0. PICK k : k = Len(sent[n]) + 1
  OBVIOUS
<1> DEFINE p == DataPacket(Single(kind), 1, k)
           m == [kind |-> kind, total |-> 1]
           G == [q \in Node |-> Genuine(Peer(q))']
<1>1. m \in MessageInfo
  BY DEF SendSingle, MessageInfo
<1>2. sent' = [sent EXCEPT ![n] = Append(@, m)]
  BY DEF SendSingle
<1>3. p \in Packet /\ [p EXCEPT !.body = Garbled] \in Packet
  <2>1. k \in Message
    BY <1>0, BoundsAssumption DEF SendSingle, MaySend, IInv, TypeOK, Message
  <2>2. p \in Packet
    BY <2>1, NumberFacts, FlagFacts, DataPacketTyped
  <2> HIDE DEF p
  <2> QED BY <2>2 DEF Packet, Body
<1>4. p \in Genuine(n)' /\ [p EXCEPT !.body = Garbled] \in Genuine(n)'
  <2>1. Valid(n, k, 1)'
    <3>1. 1 \in 1..m.total
      OBVIOUS
    <3> HIDE DEF m
    <3> QED BY <1>0, <1>1, <1>2, <3>1, NewMessage
  <2>2. p.body = k /\ p.seq = 1
    BY DEF DataPacket
  <2>3. [p EXCEPT !.body = Garbled].body \notin Message
    BY DEF DataPacket, Garbled, Message
  <2>4. [p EXCEPT !.body = Garbled] \in Genuine(n)'
    <3> HIDE DEF p
    <3> QED BY <1>3, <2>3 DEF Genuine
  <2> HIDE DEF p
  <2> QED BY <1>3, <2>1, <2>2, <2>4 DEF Genuine
<1>5. \A q \in Node : net'[q] \in Seq(G[q])
  <2>1. send_packet(n, p)
    BY <1>0 DEF SendSingle
  <2>2. \A q \in Node : net[q] \in Seq(G[q])
    <3> HIDE DEF m
    <3> QED BY <1>1, <1>2, OldPacketsGenuine
  <2>3. G[Peer(n)] = Genuine(n)'
    BY PeerFacts
  <2> HIDE DEF G, p
  <2> QED BY <1>4, <2>1, <2>2, <2>3, SendKeeps DEF IInv, TypeOK
<1>6. <<p>> \in Seq(Genuine(n)')
  <2> HIDE DEF p
  <2> QED BY <1>4
<1>7. /\ send_packets' = [send_packets EXCEPT ![n] = <<p>>]
      /\ UNCHANGED <<received_packets, delivered>>
  BY <1>0 DEF SendSingle, receiver
<1>8. \A q \in Node : net'[q] \in Seq(Genuine(Peer(q))')
  BY <1>5
<1> HIDE DEF m, p
<1> QED BY <1>1, <1>2, <1>6, <1>7, <1>8, SendGenuine

LEMMA SendFragmentedGenuine ==
    ASSUME IInv, TypeOK', NEW n \in Node, NEW kind \in Kind, SendFragmented(n, kind)
    PROVE  IInv'
<1> DEFINE w(t) == IF dynamic_window[n] THEN dynamic_window_size(t) ELSE window_size[n]
           c(t) == [i \in 1..t |-> DataPacket(FragmentFlags(i, t, w(t), kind), i,
                                               Len(sent[n]) + 1)]
           m(t) == [kind |-> kind, total |-> t]
<1>a. PICK t \in Total \ {1} :
        /\ send_packets' = [send_packets EXCEPT ![n] = c(t)]
        /\ sent' = [sent EXCEPT ![n] = Append(@, m(t))]
  BY DEF SendFragmented
<1>0. PICK k : k = Len(sent[n]) + 1
  OBVIOUS
<1> DEFINE e(s, i) == DataPacket(FragmentFlags(i, s, w(s), kind), i, k)
           cut(s) == [i \in 1..s |-> e(s, i)]
<1>1. /\ send_packets' = [send_packets EXCEPT ![n] = cut(t)]
      /\ sent' = [sent EXCEPT ![n] = Append(@, m(t))]
  <2>1. c(t) = cut(t)
    BY <1>0
  <2> HIDE DEF c, cut
  <2> QED BY <1>a, <2>1
<1> HIDE DEF c
<1>2. t \in Nat /\ 1..t \subseteq SeqNum
  BY NumberFacts, ModulusAssumption DEF SeqNum
<1>3. m(t) \in MessageInfo /\ m(t).total = t
  BY DEF MessageInfo
<1>4. k \in Message
  BY <1>0, BoundsAssumption DEF SendFragmented, MaySend, IInv, TypeOK, Message
<1>5. \A i \in 1..t : e(t, i) \in Genuine(n)'
  <2> TAKE i \in 1..t
  <2>1. FragmentFlags(i, t, w(t), kind) \in SUBSET Flag
    BY FragmentFlagsTyped
  <2>2. e(t, i) \in Packet
    <3> HIDE DEF w
    <3> QED BY <1>2, <1>4, <2>1, DataPacketTyped
  <2>3. Valid(n, k, i)'
    <3> HIDE DEF m
    <3> QED BY <1>0, <1>1, <1>3, NewMessage
  <2>4. e(t, i).body = k /\ e(t, i).seq = i
    BY DEF DataPacket
  <2> HIDE DEF e
  <2> QED BY <2>2, <2>3, <2>4 DEF Genuine
<1>6. cut(t) \in Seq(Genuine(n)')
  <2> HIDE DEF e
  <2> QED BY <1>2, <1>5
<1>7. \A q \in Node : net'[q] \in Seq(Genuine(Peer(q))')
  <2>1. net' = net
    BY DEF SendFragmented
  <2> HIDE DEF m
  <2> QED BY <1>1, <1>3, <2>1, OldPacketsGenuine
<1>8. UNCHANGED <<received_packets, delivered>>
  BY DEF SendFragmented, receiver
<1> HIDE DEF cut, m
<1> QED BY <1>1, <1>3, <1>6, <1>7, <1>8, SendGenuine

LEMMA QuietSteps ==
    ASSUME IInv, TypeOK', NEW n \in Node,
           \/ set_window_size(n) \/ set_dynamic_window(n)
           \/ NextWindow(n) \/ EndWindow(n) \/ AckSeen(n) \/ Timeout(n)
           \/ GiveUp(n) \/ EndSend(n)
    PROVE  IInv'
BY QuietStep DEF set_window_size, set_dynamic_window, NextWindow, EndWindow,
                 AckSeen, Timeout, GiveUp, EndSend, receiver, history

LEMMA CannotReadGenuine ==
    ASSUME IInv, TypeOK', NEW n \in Node, CannotRead(n)
    PROVE  IInv'
<1>1. /\ send_packets' = [send_packets EXCEPT ![n] = <<>>]
      /\ UNCHANGED <<net, received_packets, sent, delivered>>
  BY DEF CannotRead, receiver, history
<1>2. ASSUME NEW q \in Node PROVE send_packets'[q] \in Seq(Genuine(q))
  <2>1. send_packets[q] \in Seq(Genuine(q)) /\ <<>> \in Seq(Genuine(q))
    BY Unfolded
  <2> QED BY <1>1, <2>1 DEF IInv, TypeOK
<1> QED BY <1>1, <1>2, Unfolded, SameMessages

LEMMA OriginInit == Init => IInv
<1> SUFFICES ASSUME Init PROVE IInv
  OBVIOUS
<1>1. \A n \in Node : <<>> \in Seq(Genuine(n)) /\ <<>> \in Seq(Genuine(Peer(n)))
  OBVIOUS
<1>2. Origin
  BY <1>1 DEF Init, Origin, NoFragments
<1>3. NothingInvented
  BY DEF Init, NothingInvented
<1> QED BY <1>2, <1>3, TypeInit DEF IInv

LEMMA OriginStep == IInv /\ [Next]_vars => IInv'
<1> SUFFICES ASSUME IInv, [Next]_vars PROVE IInv'
  OBVIOUS
<1>0. TypeOK'
  BY TypeStep DEF IInv
<1>1. CASE UNCHANGED vars
  BY <1>0, <1>1, QuietStep DEF vars
<1>2. ASSUME NEW n \in Node, User(n) PROVE IInv'
  BY <1>0, <1>2, QuietSteps, SendSingleGenuine, SendFragmentedGenuine, CannotReadGenuine
     DEF User, send_text, send_file, Kind
<1>3. ASSUME NEW n \in Node, Sending(n) PROVE IInv'
  BY <1>0, <1>3, QuietSteps, SendFragmentGenuine DEF Sending
<1>4. ASSUME NEW n \in Node, Receiving(n) PROVE IInv'
  <2>1. CASE process_tcu_single_text(n) \/ process_tcu_single_file(n)
    BY <1>0, <2>1, ProcessSingleGenuine
       DEF process_tcu_single_text, process_tcu_single_file, Kind
  <2>2. CASE process_tcu_more_frag_text(n) \/ process_tcu_more_frag_file(n)
    BY <1>0, <2>2, ProcessMoreFragGenuine
       DEF process_tcu_more_frag_text, process_tcu_more_frag_file, Kind
  <2>3. CASE process_tcu_last_wind_frag_text(n) \/ process_tcu_last_wind_frag_file(n)
    BY <1>0, <2>3, EndsGenuine
       DEF process_tcu_last_wind_frag_text, process_tcu_last_wind_frag_file, Kind
  <2>4. CASE process_tcu_last_frag_text(n) \/ process_tcu_last_frag_file(n)
    BY <1>0, <2>4, EndsGenuine
       DEF process_tcu_last_frag_text, process_tcu_last_frag_file, Kind
  <2>5. CASE assemble_text(n) \/ assemble_file(n)
    BY <1>0, <2>5, AssembleGenuine DEF assemble_text, assemble_file, Kind
  <2> QED BY <1>0, <1>4, <2>1, <2>2, <2>3, <2>4, <2>5, NegativeAckGenuine,
             OtherHandlersGenuine DEF Receiving
<1>5. ASSUME NEW n \in Node, NetworkFault(n) PROVE IInv'
  BY <1>0, <1>5, NetworkFaultGenuine
<1> QED BY <1>1, <1>2, <1>3, <1>4, <1>5 DEF Next

\* Every packet on its way and every fragment kept on either side is a fragment
\* of a message its sender was told to send, unless its checksum fails: no
\* handler of node.cpp and no fault turns one message's data into another's.
THEOREM OriginAlways == Spec => []Origin
<1>1. IInv => Origin
  BY DEF IInv
<1> QED BY <1>1, OriginInit, OriginStep, PTL DEF Spec

\* What a user is given was never made up: each fragment of each text or file
\* is one the peer was told to send, under its own number, whatever is lost,
\* duplicated, reordered or corrupted on the way.
THEOREM NothingIsInvented == Spec => []NothingInvented
<1>1. IInv => NothingInvented
  BY DEF IInv
<1> QED BY <1>1, OriginInit, OriginStep, PTL DEF Spec

=============================================================================
