--------------------------- MODULE DeliveryProofs ---------------------------
(***************************************************************************)
(* That the data path delivers: for every modulus, length and window, with *)
(* any number of corrupted packets and of windows lost on purpose, what is *)
(* handed to a user is what the peer's user sent, in order and once, and   *)
(* "complete" is said only of that.                                        *)
(***************************************************************************)
EXTENDS TransferProofs

\* One user sends.
OneSender == \A m, n \in Sender : m = n

\* The network loses, repeats and reorders nothing; the program may corrupt a
\* packet and lose a whole window, as often as it likes.
BitErrorsOnly == \A limit \in Budgets : \A f \in Fault \ {"corrupt", "window"} : limit[f] = 0

\* When a second message follows, no window is as short as one fragment.
WideWindows == \/ MaxMessages <= 1
               \/ /\ \A t \in Total \ {1} : dynamic_window_size(t) > 1
                  /\ \A w \in WindowSize : w > 1

Gentle == OneSender /\ BitErrorsOnly /\ WideWindows

-----------------------------------------------------------------------------
(* The numbers of a window *)

\* The last fragment of the window of size w that starts at number first.
WindowEnd(first, t, w) == IF first + w - 1 < t THEN first + w - 1 ELSE t

LastStart(t, w) == IF t > w THEN t - ((t - 1) % w) ELSE 1

LEMMA Division ==
    ASSUME NEW d \in Nat \ {0}, NEW v \in Nat
    PROVE  v = (v \div d) * d + (v % d) /\ v \div d \in Nat /\ v % d \in 0..(d - 1)
  BY SMT

LEMMA Remainder ==
    ASSUME NEW d \in Nat \ {0}, NEW q \in Int, NEW r \in 0..(d - 1)
    PROVE  (q * d + r) % d = r
  BY SMT

\* Windows that start where they should end where the flags say.
LEMMA WindowNumbers ==
    ASSUME NEW first \in Nat \ {0}, NEW t \in Nat, NEW w \in Nat \ {0},
           first <= t, (first - 1) % w = 0
    PROVE  /\ (first + w - 1) % w = 0
           /\ \A i \in first..WindowEnd(first, t, w) :
                /\ i # t => (i % w = 0 <=> i = WindowEnd(first, t, w))
                /\ i >= LastStart(t, w) <=> WindowEnd(first, t, w) = t
<1> DEFINE q == (first - 1) \div w
           h == WindowEnd(first, t, w)
<1>1. first - 1 = q * w /\ q \in Nat
  BY Division, first - 1 \in Nat
<1> HIDE DEF q
<1>2. PICK x \in Nat : x = q * w
  BY <1>1
<1>3. (q + 1) * w = x + w
  BY <1>1, <1>2
<1>4. (first + w - 1) % w = 0
  <2>1. first + w - 1 = (q + 1) * w + 0 /\ q + 1 \in Int
    BY <1>1, <1>2, <1>3
  <2> QED  BY <2>1, Remainder
<1>5. h \in first..t /\ h <= first + w - 1
  BY DEF WindowEnd
<1>6. ASSUME NEW i \in first..h, i # t PROVE i % w = 0 <=> i = h
  <2>1. CASE i = first + w - 1
    BY <1>4, <1>5, <1>6, <2>1
  <2>2. CASE i < first + w - 1
    <3>1. i = q * w + (i - x) /\ i - x \in 1..(w - 1)
      BY <1>1, <1>2, <1>5, <2>2
    <3>2. i % w = i - x
      <4> DEFINE r == i - x
      <4>1. r \in 0..(w - 1) /\ r # 0 /\ i = q * w + r
        BY <3>1
      <4> HIDE DEF r
      <4>2. (q * w + r) % w = r
        BY <1>1, <4>1, Remainder
      <4> QED  BY <4>1, <4>2 DEF r
    <3> QED  BY <1>5, <1>6, <2>2, <3>1, <3>2 DEF WindowEnd
  <2> QED  BY <1>5, <1>6, <2>1, <2>2
<1>7. ASSUME NEW i \in first..h PROVE i >= LastStart(t, w) <=> h = t
  <2>1. CASE t <= w
    <3>1. q = 0
      <4>1. SUFFICES ASSUME q >= 1 PROVE FALSE
        BY <1>1
      <4>2. q * w >= 1 * w
        BY <1>1, <4>1
      <4> QED  BY <1>1, <1>2, <2>1, <4>2
    <3> QED  BY <1>1, <1>7, <2>1, <3>1 DEF WindowEnd, LastStart
  <2>2. CASE t > w
    <3> DEFINE p == (t - 1) \div w
               r == (t - 1) % w
    <3>1. t - 1 = p * w + r /\ p \in Nat /\ r \in 0..(w - 1)
      BY Division, t - 1 \in Nat
    <3>2. LastStart(t, w) = t - r
      BY <2>2 DEF LastStart
    <3> HIDE DEF p, r
    <3>3. PICK y \in Nat : y = p * w
      BY <3>1
    <3>4. CASE p = q
      BY <1>1, <1>2, <1>7, <3>1, <3>2, <3>3, <3>4 DEF WindowEnd
    <3>5. CASE p < q
      <4>1. (p + 1) * w = y + w
        BY <3>1, <3>3
      <4>2. (p + 1) * w <= q * w
        BY <1>1, <3>1, <3>5
      <4> QED  BY <1>1, <1>2, <3>1, <3>3, <4>1, <4>2
    <3>6. CASE p > q
      <4>1. (q + 1) * w <= p * w
        BY <1>1, <3>1, <3>6
      <4>2. y >= x + w
        BY <1>3, <3>3, <4>1
      <4> QED  BY <1>1, <1>2, <1>7, <3>1, <3>2, <3>3, <4>2 DEF WindowEnd
    <3> QED  BY <1>1, <3>1, <3>4, <3>5, <3>6
  <2> QED  BY <2>1, <2>2
<1> QED  BY <1>4, <1>6, <1>7

LEMMA FirstFlags ==
    ASSUME NEW t \in Nat, NEW w \in Nat \ {0}, NEW i \in 1..t, NEW kind
    PROVE  FragmentFlags(i, t, w, kind) \in
             IF i >= LastStart(t, w) THEN {MoreFrag(kind), LastFrag(kind)}
                                     ELSE {MoreFrag(kind), LastWindFrag(kind)}
<1> DEFINE r == (i - 1) % w
           q == (i - 1) \div w
           first == i - r
<1>0. i - 1 = q * w + r /\ q \in Nat /\ r \in 0..(w - 1)
  BY Division, i - 1 \in Nat
<1> HIDE DEF q, r
<1>1. i - 1 = q * w + r /\ q \in Nat /\ r \in 0..(w - 1) /\ q * w \in Nat
  BY <1>0
<1>2. first \in Nat \ {0} /\ first <= t /\ first - 1 = q * w + 0
  BY <1>1
<1>3. (first - 1) % w = 0
  BY <1>1, <1>2, Remainder
<1>4. i \in first..WindowEnd(first, t, w)
  BY <1>1, <1>2 DEF WindowEnd
<1> HIDE DEF first
<1>5. /\ i # t => (i % w = 0 <=> i = WindowEnd(first, t, w))
      /\ i >= LastStart(t, w) <=> WindowEnd(first, t, w) = t
  BY <1>2, <1>3, <1>4, WindowNumbers
<1>6. i = t => WindowEnd(first, t, w) = t
  BY <1>2, <1>4 DEF WindowEnd
<1> QED  BY <1>5, <1>6 DEF FragmentFlags

-----------------------------------------------------------------------------
(* The two ends *)

From == CHOOSE n \in Node : Sender \subseteq {n}
To   == Peer(From)

LEMMA Ends ==
    ASSUME OneSender
    PROVE  /\ From \in Node /\ To \in Node /\ From # To
           /\ Peer(From) = To /\ Peer(To) = From
           /\ Sender \subseteq {From} /\ Node = {From, To}
<1>1. \E n \in Node : Sender \subseteq {n}
  BY NodeAssumption, SenderAssumption DEF OneSender
<1>2. From \in Node /\ Sender \subseteq {From}
  BY <1>1 DEF From
<1>3. To \in Node /\ To # From /\ Peer(To) = From
  BY <1>2, PeerFacts DEF To
<1> QED  BY <1>2, <1>3, NodeAssumption DEF To

LEMMA NoOtherFault ==
    ASSUME BitErrorsOnly, TypeOK, NEW f \in Fault \ {"corrupt", "window"}
    PROVE  ~Spend(f)
<1> SUFFICES ASSUME Spend(f) PROVE FALSE
  OBVIOUS
<1>1. PICK limit \in Budgets : struck'[f] <= limit[f]
  BY DEF Spend
<1>2. limit[f] = 0
  BY DEF BitErrorsOnly
<1>3. struck'[f] = struck[f] + 1 /\ struck[f] \in Nat
  BY DEF Spend, TypeOK
<1> QED  BY <1>1, <1>2, <1>3

Latest == Len(sent[From])           \* the message under way, or the last one
LatestKind == sent[From][Latest].kind
First  == seq_num[From]             \* the first fragment of its window
Length == total_num[From]
Pc     == cli[From].pc
GivenUp == phase[From] = HOLDOFF

NumberOf(a) == a.fragments[1]
Arrived(a)  == NumberOf(a) \in DOMAIN sent[From] /\ IsMessage(a, From, NumberOf(a))
Handed(k) == \E i \in DOMAIN delivered[To] : NumberOf(delivered[To][i]) = k

\* The receiver's user was given messages that were sent, in order, and every
\* message that was reported complete.
Arrivals ==
    /\ \A i \in DOMAIN delivered[To] : Arrived(delivered[To][i])
    /\ \A i, j \in DOMAIN delivered[To] :
         i < j => NumberOf(delivered[To][i]) < NumberOf(delivered[To][j])
    /\ \A k \in completed[From] : k \in DOMAIN sent[From] /\ Handed(k)

\* The receiver sends nothing of its own, and the sender receives nothing.
Partner ==
    /\ phase[To] = NETWORK /\ phase[From] \in {NETWORK, HOLDOFF}
    /\ cli[To].pc = "idle" /\ send_packets[To] = <<>> /\ sent[To] = <<>>
    /\ completed[To] = {} /\ delivered[From] = <<>> /\ assembling[From] = "nothing"
    /\ GivenUp => Pc \in {"loop", "idle"}

-----------------------------------------------------------------------------
(* Where a message can be.  A window starts at First and has size w; what   *)
(* the receiver holds and what is on the line tell the stages apart.        *)

Line(back, forth) == net[From] = back /\ net[To] = forth
Holding(i) == received_packets[To][i]

HoldsUpTo(h) == \A i \in SeqNum : Holding(i) = IF i \in 1..h THEN Latest ELSE Nothing

\* The receiver has what precedes the window, and some of it up to h.
HoldsSome(h) == \A i \in SeqNum :
    /\ i \in 1..(First - 1) => Holding(i) = Latest
    /\ i \in First..h => Holding(i) \in {Latest, Nothing}
    /\ i \notin 1..(First - 1) /\ i \notin First..h => Holding(i) = Nothing

Awaited == assembling[To] = "nothing" /\ ~Handed(Latest)

\* The message is the receiver's, or on its way from its buffer to its user.
Ended == \/ assembling[To] = LatestKind /\ HoldsUpTo(Length) /\ ~Handed(Latest)
         \/ assembling[To] = "nothing" /\ HoldsUpTo(0) /\ Handed(Latest)

\* Nothing is under way.
Quiet == /\ Pc = "idle" /\ ~GivenUp /\ Line(<<>>, <<>>)
         /\ assembling[To] = "nothing" /\ HoldsUpTo(0)
         /\ IF Latest = 0 THEN seq_num[To] = 1 /\ last_num[To] = 0 ELSE Handed(Latest)
         /\ \A i \in DOMAIN send_packets[From] : send_packets[From][i].flags \in DataFlags

\* A message in one packet.
Whole == DataPacket(Single(LatestKind), 1, Latest)
Corrupted(p) == [p EXCEPT !.body = Garbled]

SingleStage ==
    /\ Latest > 0 /\ sent[From][Latest].total = 1 /\ send_packets[From] = <<Whole>>
    /\ ~GivenUp /\ assembling[To] = "nothing" /\ HoldsUpTo(0)
    /\ Pc = "loop" \/ (Pc = "wait" /\ cli[From].retry = 0)
    /\ \/ /\ Pc = "wait" /\ ~Handed(Latest)
          /\ \/ Line(<<>>, <<Whole>>) \/ Line(<<>>, <<Corrupted(Whole)>>)
             \/ Line(<<Control(NegativeAck, 1)>>, <<>>)
       \/ Pc = "wait" /\ Handed(Latest) /\ Line(<<Control(PositiveAck, 1)>>, <<>>)
       \/ Handed(Latest) /\ Line(<<>>, <<>>) /\ (Pc = "wait" => ack_received[From])

\* A message in fragments: what holds of it in every stage.
Fragment(w, i) == DataPacket(FragmentFlags(i, Length, w, LatestKind), i, Latest)
Original(w, first) == \A i \in first..Length : send_packets[From][i] = Fragment(w, i)

\* The flags a fragment has, or has from when it was asked for again.
Reflags(w, i) ==
    IF i >= LastStart(Length, w) THEN {MoreFrag(LatestKind), LastFrag(LatestKind)}
                                 ELSE {MoreFrag(LatestKind), LastWindFrag(LatestKind)}

Cut(w) ==
    /\ Latest > 0 /\ Length = sent[From][Latest].total
    /\ Length > 1 /\ Length < SeqModulus - 1
    /\ w \in SeqNum \ {0} /\ (w = 1 => MaxMessages <= 1)
    /\ First > 0 /\ (First <= Length => (First - 1) % w = 0)
    /\ IF Pc = "idle" THEN GivenUp ELSE w = window_size[From]
    /\ Len(send_packets[From]) = Length
    /\ \A i \in 1..Length : \E f \in Reflags(w, i) :
         send_packets[From][i] = DataPacket(f, i, Latest)

End(w)   == WindowEnd(First, Length, w)
NextSeq(w) == IF Pc = "window" THEN cli[From].seq ELSE End(w) + 1
AllSent(w) == NextSeq(w) = End(w) + 1 /\ (Pc = "loop" => GivenUp)

\* The receiver's counters do not hide a gap of this window, or will be reset
\* before they can.
Synced   == seq_num[To] \in 1..First /\ last_num[To] <= First
ToSync(w) == First = 1 /\ w > 1

Ready(w) ==
    /\ First <= Length /\ Line(<<>>, <<>>) /\ Original(w, First)
    /\ HoldsUpTo(First - 1) /\ Awaited
    /\ Synced \/ ToSync(w)
    /\ Pc = "window" => cli[From].seq = First

\* The window is being sent: the fragments from a on are on the line.
Travelling(w, a) ==
    /\ First <= a /\ a <= End(w)
    /\ NextSeq(w) = a + Len(net[To]) /\ NextSeq(w) <= End(w) + 1 /\ NextSeq(w) > First
    /\ net[From] = <<>>
    /\ \A x \in 1..Len(net[To]) :
         net[To][x] \in {Fragment(w, a + x - 1), Corrupted(Fragment(w, a + x - 1))}
    /\ HoldsSome(a - 1)
    /\ Synced \/ (ToSync(w) /\ a = 1)

Busy(w) == First <= Length /\ First + w < SeqModulus

InFlight(w) ==
    /\ Busy(w) /\ Original(w, First) /\ Awaited
    /\ Pc = "loop" => GivenUp
    /\ \E a \in SeqNum : Travelling(w, a)

\* The window has been sent, and the receiver asks for what it lacks.
Repair(w, i) == DataPacket(IF End(w) = Length THEN LastFrag(LatestKind)
                           ELSE LastWindFrag(LatestKind), i, Latest)

Repairing(w) ==
    /\ Busy(w) /\ AllSent(w) /\ Original(w, End(w) + 1)
    /\ HoldsSome(End(w)) /\ Awaited
    /\ seq_num[To] \in 1..First /\ last_num[To] = End(w)
    /\ \E i \in First..End(w) :
         /\ Holding(i) = Nothing
         /\ \/ Line(<<Control(NegativeAck, i)>>, <<>>)
            \/ Line(<<>>, <<Repair(w, i)>>)
            \/ GivenUp /\ Line(<<>>, <<>>)

\* The receiver has the window and has said so.
Acked(w) ==
    /\ Busy(w) /\ AllSent(w) /\ Original(w, End(w) + 1)
    /\ Line(<<Control(PositiveAck, End(w))>>, <<>>) \/ (GivenUp /\ Line(<<>>, <<>>))
    /\ seq_num[To] = End(w) /\ last_num[To] = End(w)
    /\ IF End(w) = Length THEN Ended ELSE HoldsUpTo(End(w)) /\ Awaited

\* The sender knows that the receiver has the message.
Over(w) ==
    /\ First > Length /\ Line(<<>>, <<>>) /\ Ended
    /\ Pc = "loop" /\ ~GivenUp => assembling[To] = "nothing"
    /\ Pc \in {"wait", "window"} => ack_received[From]
    /\ Pc = "window" => cli[From].seq > Length

FragmentedStage(w) ==
    Cut(w) /\ (Ready(w) \/ InFlight(w) \/ Repairing(w) \/ Acked(w) \/ Over(w))

Stage == Quiet \/ SingleStage \/ \E w \in SeqNum : FragmentedStage(w)

\* A window that is not computed from the length is one that was set.
Setting == ~dynamic_window[From] => window_size[From] \in WindowSize

\* The inductive invariant.
Progress == TypeOK /\ Setting /\ Partner /\ Arrivals /\ Stage

-----------------------------------------------------------------------------
(* What every step leaves alone *)

LEMMA Shape ==
    ASSUME OneSender, TypeOK
    PROVE  /\ SeqModulus \in Nat /\ SeqNum = 0..(SeqModulus - 1)
           /\ First \in SeqNum /\ Length \in SeqNum /\ window_size[From] \in SeqNum
           /\ seq_num[To] \in SeqNum /\ last_num[To] \in SeqNum
           /\ cli[From].seq \in SeqNum /\ cli[From].retry \in 0..MaxRetries
           /\ Pc \in {"idle", "loop", "window", "wait"}
           /\ Latest \in Nat /\ sent[From] \in Seq(MessageInfo)
           /\ net[From] \in Seq(Packet) /\ net[To] \in Seq(Packet)
           /\ send_packets[From] \in Seq(Packet)
           /\ delivered[To] \in Seq(Arrival)
           /\ received_packets[To] \in [SeqNum -> Body]
           /\ assembling[To] \in Kind \cup {"nothing"}
<1>1. From \in Node /\ To \in Node
  BY Ends
<1>2. cli[From] \in CliState
  BY <1>1 DEF TypeOK
<1>3. sent[From] \in Seq(MessageInfo)
  BY <1>1 DEF TypeOK
<1>4. /\ cli[From].seq \in SeqNum /\ cli[From].retry \in 0..MaxRetries
      /\ Pc \in {"idle", "loop", "window", "wait"}
  BY <1>2, CliFacts DEF Pc
<1>5. Latest \in Nat
  BY <1>3 DEF Latest
<1>6. SeqModulus \in Nat /\ SeqNum = 0..(SeqModulus - 1)
  BY ModulusAssumption DEF SeqNum
<1>7. /\ First \in SeqNum /\ Length \in SeqNum /\ window_size[From] \in SeqNum
      /\ seq_num[To] \in SeqNum /\ last_num[To] \in SeqNum
  BY <1>1 DEF TypeOK, First, Length
<1>8. /\ net[From] \in Seq(Packet) /\ net[To] \in Seq(Packet)
      /\ send_packets[From] \in Seq(Packet) /\ delivered[To] \in Seq(Arrival)
      /\ received_packets[To] \in [SeqNum -> Body]
      /\ assembling[To] \in Kind \cup {"nothing"}
  BY <1>1 DEF TypeOK
<1> QED
  BY <1>3, <1>4, <1>5, <1>6, <1>7, <1>8

LEMMA KeepsArrivals ==
    ASSUME Arrivals, UNCHANGED <<sent, delivered, completed>>
    PROVE  Arrivals'
<1>1. \A x : Arrived(x)' <=> Arrived(x)
  BY DEF Arrived, IsMessage
<1>2. \A k : Handed(k)' <=> Handed(k)
  BY DEF Handed
<1> QED
  BY <1>1, <1>2 DEF Arrivals

\* What the command line thread leaves alone while it sends.
held == <<send_packets, received_packets, seq_num, last_num, total_num, sent,
          delivered, assembling>>

LEMMA Unmoved ==
    ASSUME UNCHANGED held
    PROVE  /\ Latest' = Latest /\ LatestKind' = LatestKind
           /\ First' = First /\ Length' = Length
           /\ \A w : /\ Original(w, First)' <=> Original(w, First)
                     /\ Original(w, End(w) + 1)' <=> Original(w, End(w) + 1)
                     /\ End(w)' = End(w) /\ (Busy(w)' <=> Busy(w))
                     /\ \A i : Repair(w, i)' = Repair(w, i) /\ Fragment(w, i)' = Fragment(w, i)
                     /\ \A i : Reflags(w, i)' = Reflags(w, i)
           /\ \A h : (HoldsSome(h)' <=> HoldsSome(h)) /\ (HoldsUpTo(h)' <=> HoldsUpTo(h))
           /\ Awaited' <=> Awaited
           /\ Ended' <=> Ended
           /\ Synced' <=> Synced
           /\ Handed(Latest)' <=> Handed(Latest)
           /\ Whole' = Whole
<1>1. Latest' = Latest /\ LatestKind' = LatestKind /\ First' = First /\ Length' = Length
  BY DEF held, Latest, LatestKind, First, Length
<1>2. \A w : /\ End(w)' = End(w) /\ (Busy(w)' <=> Busy(w))
             /\ \A i : Repair(w, i)' = Repair(w, i) /\ Fragment(w, i)' = Fragment(w, i)
             /\ \A i : Reflags(w, i)' = Reflags(w, i)
  BY <1>1 DEF End, Busy, Repair, Fragment, Reflags
<1>3. \A w : /\ Original(w, First)' <=> Original(w, First)
             /\ Original(w, End(w) + 1)' <=> Original(w, End(w) + 1)
  BY <1>1, <1>2 DEF held, Original
<1>4. \A h : (HoldsSome(h)' <=> HoldsSome(h)) /\ (HoldsUpTo(h)' <=> HoldsUpTo(h))
  BY <1>1 DEF held, HoldsSome, HoldsUpTo, Holding
<1>5. Handed(Latest)' <=> Handed(Latest)
  BY <1>1 DEF held, Handed, NumberOf
<1>6. (Awaited' <=> Awaited) /\ (Ended' <=> Ended)
  BY <1>1, <1>4, <1>5 DEF held, Awaited, Ended
<1>7. (Synced' <=> Synced) /\ Whole' = Whole
  BY <1>1 DEF held, Synced, Whole
<1> QED  BY <1>1, <1>2, <1>3, <1>4, <1>5, <1>6, <1>7

LEMMA CutKept ==
    ASSUME UNCHANGED held, NEW w, Cut(w),
           (IF Pc = "idle" THEN GivenUp ELSE w = window_size[From])'
    PROVE  Cut(w)'
<1>1. /\ Latest' = Latest /\ First' = First /\ Length' = Length
      /\ \A i : Reflags(w, i)' = Reflags(w, i)
  BY Unmoved
<1> QED  BY <1>1 DEF Cut, held

LEMMA ReadyKept ==
    ASSUME UNCHANGED net, UNCHANGED held, NEW w, Ready(w), (Pc = "window" => cli[From].seq = First)'
    PROVE  Ready(w)'
<1>1. /\ First' = First /\ Length' = Length
      /\ Original(w, First)' <=> Original(w, First)
      /\ HoldsUpTo(First - 1)' <=> HoldsUpTo(First - 1)
      /\ (Awaited' <=> Awaited) /\ (Synced' <=> Synced)
  <2>1. HoldsUpTo(First - 1)' <=> HoldsUpTo(First - 1)
    BY Unmoved DEF HoldsUpTo, Holding, held
  <2> QED  BY <2>1, Unmoved
<1> QED  BY <1>1 DEF Ready, held, Line, ToSync

LEMMA InFlightKept ==
    ASSUME UNCHANGED net, UNCHANGED held, NEW w, InFlight(w), NextSeq(w)' = NextSeq(w),
           (Pc = "loop" => GivenUp)'
    PROVE  InFlight(w)'
<1>1. /\ First' = First /\ (Busy(w)' <=> Busy(w)) /\ (Awaited' <=> Awaited)
      /\ Original(w, First)' <=> Original(w, First)
  BY Unmoved
<1>2. ASSUME NEW a \in SeqNum, Travelling(w, a) PROVE Travelling(w, a)'
  <2>1. /\ End(w)' = End(w) /\ (HoldsSome(a - 1)' <=> HoldsSome(a - 1))
        /\ Synced' <=> Synced
        /\ \A i : Fragment(w, i)' = Fragment(w, i)
    BY Unmoved
  <2>2. \A i : Corrupted(Fragment(w, i))' = Corrupted(Fragment(w, i))
    BY <2>1 DEF Corrupted
  <2> QED  BY <1>1, <1>2, <2>1, <2>2 DEF Travelling, held, ToSync
<1> QED  BY <1>1, <1>2 DEF InFlight

LEMMA RepairingKept ==
    ASSUME UNCHANGED net, UNCHANGED held, NEW w, Repairing(w), NextSeq(w)' = NextSeq(w),
           (Pc = "loop" => GivenUp)', GivenUp => GivenUp'
    PROVE  Repairing(w)'
<1>1. /\ First' = First /\ (Busy(w)' <=> Busy(w)) /\ (Awaited' <=> Awaited)
      /\ End(w)' = End(w) /\ \A i : Repair(w, i)' = Repair(w, i)
      /\ Original(w, End(w) + 1)' <=> Original(w, End(w) + 1)
      /\ \A h : HoldsSome(h)' <=> HoldsSome(h)
  BY Unmoved
<1>2. HoldsSome(End(w))' <=> HoldsSome(End(w))
  BY <1>1 DEF HoldsSome, Holding
<1>3. AllSent(w)'
  BY <1>1 DEF Repairing, AllSent
<1> QED  BY <1>1, <1>2, <1>3 DEF Repairing, held, Line, Holding

LEMMA AckedKept ==
    ASSUME UNCHANGED net, UNCHANGED held, NEW w, Acked(w), NextSeq(w)' = NextSeq(w),
           (Pc = "loop" => GivenUp)', GivenUp => GivenUp'
    PROVE  Acked(w)'
<1>1. /\ (Busy(w)' <=> Busy(w)) /\ (Awaited' <=> Awaited)
      /\ Length' = Length /\ Latest' = Latest /\ (Ended' <=> Ended)
      /\ End(w)' = End(w)
      /\ Original(w, End(w) + 1)' <=> Original(w, End(w) + 1)
  BY Unmoved
<1>2. HoldsUpTo(End(w))' <=> HoldsUpTo(End(w))
  BY <1>1 DEF HoldsUpTo, Holding, held
<1>3. AllSent(w)'
  BY <1>1 DEF Acked, AllSent
<1> QED  BY <1>1, <1>2, <1>3 DEF Acked, held, Line

LEMMA OverKept ==
    ASSUME UNCHANGED net, UNCHANGED held, NEW w, Over(w),
           (Pc = "loop" /\ ~GivenUp => assembling[To] = "nothing")',
           (Pc \in {"wait", "window"} => ack_received[From])',
           (Pc = "window" => cli[From].seq > Length)'
    PROVE  Over(w)'
<1>1. First' = First /\ Length' = Length /\ (Ended' <=> Ended)
  BY Unmoved
<1> QED  BY <1>1 DEF Over, held, Line

LEMMA PartnerKept ==
    ASSUME Partner,
           UNCHANGED <<phase[To], cli[To], send_packets[To], sent[To], completed[To],
                       delivered[From], assembling[From]>>,
           phase'[From] \in {NETWORK, HOLDOFF}, (GivenUp => Pc \in {"loop", "idle"})'
    PROVE  Partner'
BY DEF Partner

LEMMA PhaseFacts ==
    ASSUME NEW p \in {NETWORK, HOLDOFF}
    PROVE  /\ Active(p) <=> p = NETWORK
           /\ p = NETWORK <=> p # HOLDOFF
BY DEF Active, NETWORK, HOLDOFF, CONNECT

-----------------------------------------------------------------------------
(* The command line thread *)

\* While it waits, the thread is in one of few stages.
LEMMA Waits ==
    ASSUME Gentle, Progress, Pc = "wait", RoundTripOver(From)
    PROVE  /\ assembling[To] = "nothing"
           /\ \/ SingleStage /\ ack_received[From]
              \/ \E w \in SeqNum : Cut(w) /\ (Ready(w) \/ (Over(w) /\ ack_received[From]))
<1>1. /\ assembling[To] = "nothing"
      /\ \A i \in 1..Len(net[From]) : net[From][i].flags \notin {PositiveAck, NegativeAck}
      /\ \A i \in 1..Len(net[To]) : net[To][i].body = Nothing
      /\ net[From] \in Seq(Packet) /\ net[To] \in Seq(Packet)
  <2>1. net[From] \in Seq(Packet) /\ net[To] \in Seq(Packet)
    BY Shape DEF Gentle, Progress
  <2>2. Peer(From) = To
    BY Ends DEF Gentle
  <2> QED  BY <2>1, <2>2 DEF RoundTripOver
<1>2. \A i : net[From] # <<Control(PositiveAck, i)>> /\ net[From] # <<Control(NegativeAck, i)>>
  <2>1. ASSUME NEW p, net[From] = <<p>> PROVE p.flags \notin {PositiveAck, NegativeAck}
    BY <1>1, <2>1
  <2>2. \A i, f : Control(f, i).flags = f
    BY DEF Control
  <2> QED  BY <2>1, <2>2
<1>3. ASSUME NEW p, net[To] = <<p>> PROVE p.body = Nothing
  BY <1>1, <1>3
<1>4. ~GivenUp
  BY DEF Progress, Partner
<1>5. (Latest # Nothing /\ Garbled # Nothing) \/ Latest = 0
  BY Shape DEF Garbled, Nothing, Gentle, Progress
<1>6. CASE Quiet
  BY <1>6 DEF Quiet
<1>7. CASE SingleStage
  <2>1. Latest # Nothing /\ Garbled # Nothing
    BY <1>5, <1>7, Shape DEF SingleStage, Gentle, Progress, Nothing
  <2>2. net[To] # <<Whole>>
    BY <1>3, <2>1 DEF Whole, DataPacket
  <2>3. net[To] # <<Corrupted(Whole)>>
    BY <1>3, <2>1 DEF Corrupted, Whole, DataPacket
  <2> QED  BY <1>1, <1>2, <1>7, <2>2, <2>3 DEF SingleStage, Line
<1>8. ASSUME NEW w \in SeqNum, FragmentedStage(w)
      PROVE  Cut(w) /\ (Ready(w) \/ (Over(w) /\ ack_received[From]))
  <2>1. Latest # Nothing /\ Garbled # Nothing
    BY <1>5, <1>8, Shape DEF FragmentedStage, Cut, Gentle, Progress, Nothing
  <2>2. ~Acked(w)
    BY <1>2, <1>4 DEF Acked, Line
  <2>3. ~Repairing(w)
    <3>1. ASSUME NEW i, net[To] = <<Repair(w, i)>> PROVE FALSE
      BY <1>3, <2>1, <3>1 DEF Repair, DataPacket
    <3> QED  BY <1>2, <1>4, <3>1 DEF Repairing, Line
  <2>4. ~InFlight(w)
    <3>1. ASSUME NEW a \in SeqNum, Travelling(w, a) PROVE FALSE
      <4>1. a \in Nat /\ Length \in Nat /\ First \in Nat /\ Len(net[To]) \in Nat
        BY <1>1, Shape DEF Gentle, Progress
      <4>2. End(w) + 1 = a + Len(net[To]) /\ a <= End(w)
        BY <3>1 DEF Travelling, NextSeq
      <4>3. w \in Nat
        BY <1>8, Shape DEF Gentle, Progress
      <4>4. End(w) \in Int
        BY <4>1, <4>3 DEF End, WindowEnd
      <4>5. 1 \in 1..Len(net[To])
        BY <4>1, <4>2, <4>4
      <4>6. net[To][1].body \in {Latest, Garbled}
        <5>1. net[To][1] \in {Fragment(w, a + 1 - 1), Corrupted(Fragment(w, a + 1 - 1))}
          BY <3>1, <4>5 DEF Travelling
        <5>2. \A i : Fragment(w, i).body = Latest /\ Corrupted(Fragment(w, i)).body = Garbled
          BY DEF Fragment, Corrupted, DataPacket
        <5> QED  BY <5>1, <5>2
      <4> QED  BY <1>1, <2>1, <4>5, <4>6
    <3> QED  BY <3>1 DEF InFlight
  <2> QED  BY <1>8, <2>2, <2>3, <2>4 DEF FragmentedStage, Over
<1> QED  BY <1>1, <1>6, <1>7, <1>8 DEF Progress, Stage

LEMMA NextWindowStep ==
    ASSUME Gentle, Progress, NextWindow(From)
    PROVE  Stage' /\ Partner' /\ Arrivals'
<1>0. From \in Node /\ To \in Node /\ From # To /\ cli \in [Node -> CliState]
  BY Ends DEF Gentle, Progress, TypeOK
<1>1. /\ Pc = "loop" /\ ~IsSingle(From) /\ First <= Length /\ ~GivenUp
      /\ UNCHANGED held /\ UNCHANGED <<net, phase, window_size, completed>>
  BY DEF NextWindow, MoreToSend, Pc, First, Length, GivenUp, held, receiver, history,
         NETWORK, HOLDOFF, config
<1>2. /\ cli'[To] = cli[To] /\ Pc' \in {"window", "wait"}
      /\ Pc' = "window" => cli'[From].seq = First
  BY <1>0 DEF NextWindow, StartWindow, Pc, First
<1>3. PICK w \in SeqNum : Cut(w) /\ Ready(w)
  <2>1. ~Quiet /\ ~SingleStage
    BY <1>1 DEF Quiet, SingleStage, IsSingle
  <2>2. ASSUME NEW w \in SeqNum, FragmentedStage(w) PROVE Cut(w) /\ Ready(w)
    <3>1. First \in Nat /\ Length \in Nat
      BY Shape DEF Gentle, Progress
    <3> QED  BY <1>1, <2>2, <3>1 DEF FragmentedStage, InFlight, Repairing, Acked, AllSent, Over
  <2> QED  BY <2>1, <2>2 DEF Progress, Stage
<1>4. First' = First
  BY <1>1, Unmoved
<1>5. Ready(w)'
  BY <1>1, <1>2, <1>3, <1>4, ReadyKept
<1>6. Cut(w)'
  BY <1>1, <1>2, <1>3, CutKept DEF Cut
<1>7. Stage'
  BY <1>5, <1>6 DEF Stage, FragmentedStage
<1>8. Partner'
  BY <1>1, <1>2, PartnerKept DEF held, Progress, Partner, GivenUp
<1>9. Arrivals'
  BY <1>1, KeepsArrivals DEF held, Progress
<1> QED  BY <1>7, <1>8, <1>9

LEMMA PlainSum ==
    ASSUME NEW a \in SeqNum, NEW b \in SeqNum, a + b < SeqModulus
    PROVE  Plus(a, b) = a + b
BY ModulusAssumption DEF SeqNum, Plus

\* The numbers of a window of a message being sent.
LEMMA WindowFacts ==
    ASSUME Gentle, Progress, NEW w \in SeqNum, Cut(w), Busy(w)
    PROVE  /\ First \in Nat \ {0} /\ Length \in Nat /\ w \in Nat \ {0}
           /\ First <= Length /\ First + w < SeqModulus
           /\ End(w) \in First..Length /\ End(w) <= First + w - 1 /\ End(w) \in SeqNum
           /\ End(w) # Length => End(w) = First + w - 1
           /\ First..End(w) \subseteq SeqNum
           /\ Pc # "idle" => Plus(First, window_size[From]) = First + w
<1>1. /\ First \in SeqNum /\ Length \in SeqNum /\ SeqModulus \in Nat
      /\ SeqNum = 0..(SeqModulus - 1)
  BY Shape DEF Gentle, Progress
<1>2. w \in SeqNum \ {0} /\ First > 0 /\ First <= Length /\ First + w < SeqModulus
  BY DEF Cut, Busy
<1>3. Pc # "idle" => w = window_size[From]
  BY DEF Cut
<1>4. Plus(First, w) = First + w
  BY <1>1, <1>2, PlainSum
<1> QED  BY <1>1, <1>2, <1>3, <1>4 DEF End, WindowEnd

LEMMA EndWindowStep ==
    ASSUME Gentle, Progress, EndWindow(From)
    PROVE  Stage' /\ Partner' /\ Arrivals'
<1>0. From \in Node /\ To \in Node /\ From # To /\ cli \in [Node -> CliState]
  BY Ends DEF Gentle, Progress, TypeOK
<1>1. /\ Pc = "window" /\ ~InWindow(From)
      /\ UNCHANGED held /\ UNCHANGED <<net, phase, window_size, completed, ack_received>>
  BY DEF EndWindow, Pc, held, receiver, history, config
<1>2. cli'[To] = cli[To] /\ Pc' = "wait"
  BY <1>0 DEF EndWindow, Pc
<1>3. PICK w \in SeqNum : FragmentedStage(w)
  BY <1>1 DEF Progress, Stage, Quiet, SingleStage
<1>4. Cut(w)'
  BY <1>1, <1>2, <1>3, CutKept DEF Cut, FragmentedStage
<1>5. ~GivenUp /\ ~GivenUp'
  BY <1>1 DEF Progress, Partner, GivenUp
<1>6. /\ End(w)' = End(w)
  BY <1>1, Unmoved
<1>7. ASSUME NextSeq(w) = End(w) + 1 PROVE NextSeq(w)' = NextSeq(w)
  BY <1>2, <1>6, <1>7 DEF NextSeq
<1>8. ASSUME Ready(w) PROVE Stage'
  BY <1>1, <1>2, <1>4, <1>8, ReadyKept DEF FragmentedStage, Stage
<1>9. ASSUME InFlight(w) PROVE Stage'
  <2>1. NextSeq(w) = cli[From].seq /\ NextSeq(w) <= End(w) + 1
    BY <1>1, <1>9 DEF InFlight, Travelling, NextSeq
  <2>2. /\ cli[From].seq \in Nat /\ First \in Nat \ {0} /\ Length \in Nat /\ w \in Nat \ {0}
        /\ Plus(First, window_size[From]) = First + w
    <3>1. cli[From].seq \in SeqNum /\ SeqNum = 0..(SeqModulus - 1) /\ SeqModulus \in Nat
      BY Shape DEF Gentle, Progress
    <3>2. Cut(w) /\ Busy(w)
      BY <1>3, <1>9 DEF InFlight, FragmentedStage
    <3>3. Pc # "idle"
      BY <1>1
    <3>4. cli[From].seq \in Nat
      BY <3>1
    <3> QED  BY <3>2, <3>3, <3>4, WindowFacts
  <2>3. ~(cli[From].seq < First + w /\ cli[From].seq <= Length)
    BY <1>1, <2>2 DEF InWindow, First, Length
  <2>4. NextSeq(w) = End(w) + 1
    BY <2>1, <2>2, <2>3 DEF End, WindowEnd
  <2>5. InFlight(w)'
    BY <1>1, <1>2, <1>7, <1>9, <2>4, InFlightKept
  <2> QED  BY <1>4, <2>5 DEF FragmentedStage, Stage
<1>10. ASSUME Repairing(w) PROVE Stage'
  BY <1>1, <1>2, <1>4, <1>5, <1>7, <1>10, RepairingKept
     DEF FragmentedStage, Stage, Repairing, AllSent
<1>11. ASSUME Acked(w) PROVE Stage'
  BY <1>1, <1>2, <1>4, <1>5, <1>7, <1>11, AckedKept DEF FragmentedStage, Stage, Acked, AllSent
<1>12. ASSUME Over(w) PROVE Stage'
  <2>1. Over(w)'
    BY <1>1, <1>2, <1>12, OverKept DEF Over
  <2> QED  BY <1>4, <2>1 DEF FragmentedStage, Stage
<1>13. Stage'
  BY <1>3, <1>8, <1>9, <1>10, <1>11, <1>12 DEF FragmentedStage
<1>14. Partner'
  BY <1>1, <1>2, <1>5, PartnerKept DEF held, Progress, Partner, GivenUp
<1>15. Arrivals'
  BY <1>1, KeepsArrivals DEF held, Progress
<1> QED  BY <1>13, <1>14, <1>15

LEMMA AckSeenStep ==
    ASSUME Gentle, Progress, AckSeen(From)
    PROVE  Stage' /\ Partner' /\ Arrivals'
<1>0. From \in Node /\ To \in Node /\ From # To /\ cli \in [Node -> CliState]
  BY Ends DEF Gentle, Progress, TypeOK
<1>1. /\ Pc = "wait" /\ UNCHANGED held /\ UNCHANGED <<net, phase, window_size, completed>>
  BY DEF AckSeen, Pc, held, receiver, history, config
<1>2. RoundTripOver(From)
  <2>1. ~Spend("early")
    BY NoOtherFault DEF Gentle, Progress, Fault
  <2> QED  BY <2>1 DEF AckSeen
<1>3. cli'[To] = cli[To] /\ Pc' = "loop"
  BY <1>0 DEF AckSeen, Pc
<1>4. assembling[To] = "nothing"
  BY <1>1, <1>2, Waits
<1>5. ~GivenUp /\ ~GivenUp'
  BY <1>1 DEF Progress, Partner, GivenUp
<1>6. ASSUME SingleStage PROVE Stage'
  <2>1. SingleStage /\ ack_received[From]
    BY <1>0, <1>6 DEF AckSeen
  <2>2. Line(<<>>, <<>>) /\ Handed(Latest)
    <3>1. \A i : net[From] # <<Control(PositiveAck, i)>> /\ net[From] # <<Control(NegativeAck, i)>>
      <4>1. ASSUME NEW p, net[From] = <<p>> PROVE p.flags \notin {PositiveAck, NegativeAck}
        BY <1>2, <4>1 DEF RoundTripOver
      <4>2. \A i, f : Control(f, i).flags = f
        BY DEF Control
      <4> QED  BY <4>1, <4>2
    <3>2. ASSUME NEW p, net[To] = <<p>> PROVE p.body = Nothing
      BY <1>2, <3>2, Ends DEF RoundTripOver, Gentle
    <3>3. Whole.body # Nothing /\ Corrupted(Whole).body # Nothing
      <4>1. Latest # Nothing
        BY <1>6, Shape DEF SingleStage, Gentle, Progress, Nothing
      <4> QED  BY <4>1 DEF Whole, Corrupted, DataPacket, Garbled, Nothing
    <3>4. net[To] # <<Whole>> /\ net[To] # <<Corrupted(Whole)>>
      BY <3>2, <3>3
    <3> QED  BY <3>1, <3>4, <1>1, <1>6 DEF SingleStage, Line
  <2>3. /\ Latest' = Latest /\ Whole' = Whole /\ (Handed(Latest)' <=> Handed(Latest))
        /\ HoldsUpTo(0)' <=> HoldsUpTo(0)
    BY <1>1, Unmoved
  <2>4. SingleStage'
    BY <1>1, <1>3, <1>5, <1>6, <2>2, <2>3 DEF SingleStage, held, Line
  <2> QED  BY <2>4 DEF Stage
<1>7. ASSUME NEW w \in SeqNum, Cut(w) /\ (Ready(w) \/ (Over(w) /\ ack_received[From]))
      PROVE  Stage'
  <2>1. Cut(w)'
    BY <1>1, <1>3, <1>7, CutKept DEF Cut
  <2>2. CASE Ready(w)
    BY <1>1, <1>3, <2>1, <2>2, ReadyKept DEF FragmentedStage, Stage
  <2>3. CASE Over(w)
    <3>1. Over(w)'
      BY <1>1, <1>3, <1>4, <2>3, OverKept DEF held
    <3> QED  BY <2>1, <3>1 DEF FragmentedStage, Stage
  <2> QED  BY <1>7, <2>2, <2>3
<1>8. Stage'
  BY <1>1, <1>2, <1>6, <1>7, Waits
<1>9. Partner'
  BY <1>1, <1>3, <1>5, PartnerKept DEF held, Progress, Partner, GivenUp
<1>10. Arrivals'
  BY <1>1, KeepsArrivals DEF held, Progress
<1> QED  BY <1>8, <1>9, <1>10

LEMMA TimeoutStep ==
    ASSUME Gentle, Progress, Timeout(From)
    PROVE  Stage' /\ Partner' /\ Arrivals'
<1>0. From \in Node /\ To \in Node /\ From # To /\ cli \in [Node -> CliState]
  BY Ends DEF Gentle, Progress, TypeOK
<1>1. /\ Pc = "wait" /\ UNCHANGED held /\ UNCHANGED <<net, phase, window_size, completed>>
  BY DEF Timeout, Pc, held, receiver, history, config
<1>2. /\ RoundTripOver(From) /\ ~ack_received[From]
      /\ StartWindow(From, cli[From].retry + 1)
  <2>1. ~Spend("early")
    BY NoOtherFault DEF Gentle, Progress, Fault
  <2> QED  BY <2>1 DEF Timeout
<1>3. /\ cli'[To] = cli[To] /\ Pc' \in {"window", "wait"}
      /\ Pc' = "window" => cli'[From].seq = First
  BY <1>0, <1>2 DEF StartWindow, Pc, First
<1>4. PICK w \in SeqNum : Cut(w) /\ Ready(w)
  BY <1>1, <1>2, Waits
<1>5. First' = First
  BY <1>1, Unmoved
<1>6. Ready(w)'
  BY <1>1, <1>3, <1>4, <1>5, ReadyKept
<1>7. Cut(w)'
  BY <1>1, <1>3, <1>4, CutKept DEF Cut
<1>8. Stage'
  BY <1>6, <1>7 DEF Stage, FragmentedStage
<1>9. Partner'
  BY <1>1, <1>3, PartnerKept DEF held, Progress, Partner, GivenUp
<1>10. Arrivals'
  BY <1>1, KeepsArrivals DEF held, Progress
<1> QED  BY <1>8, <1>9, <1>10

\* A message that is given up stays where it is.
LEMMA StageKept ==
    ASSUME UNCHANGED net, UNCHANGED held, NEW w \in SeqNum, FragmentedStage(w),
           GivenUp', Pc' \in {"loop", "idle"}, NextSeq(w)' = NextSeq(w),
           Pc' = "idle" \/ w = window_size'[From]
    PROVE  FragmentedStage(w)'
<1>1. Cut(w)'
  BY CutKept DEF FragmentedStage
<1>2. CASE Ready(w)
  BY <1>1, <1>2, ReadyKept DEF FragmentedStage
<1>3. CASE InFlight(w)
  BY <1>1, <1>3, InFlightKept DEF FragmentedStage
<1>4. CASE Repairing(w)
  BY <1>1, <1>4, RepairingKept DEF FragmentedStage
<1>5. CASE Acked(w)
  BY <1>1, <1>5, AckedKept DEF FragmentedStage
<1>6. CASE Over(w)
  BY <1>1, <1>6, OverKept DEF FragmentedStage
<1> QED  BY <1>2, <1>3, <1>4, <1>5, <1>6 DEF FragmentedStage

LEMMA GiveUpStep ==
    ASSUME Gentle, Progress, GiveUp(From)
    PROVE  Stage' /\ Partner' /\ Arrivals'
<1>0. /\ From \in Node /\ To \in Node /\ From # To /\ cli \in [Node -> CliState]
      /\ phase \in [Node -> {HOLDOFF, NETWORK}]
  BY Ends DEF Gentle, Progress, TypeOK
<1>1. /\ Pc = "wait" /\ UNCHANGED held /\ UNCHANGED <<net, window_size, completed>>
  BY DEF GiveUp, Pc, held, receiver, history, config
<1>2. /\ cli'[To] = cli[To] /\ Pc' = "loop" /\ GivenUp' /\ phase'[To] = phase[To]
  BY <1>0 DEF GiveUp, Pc, GivenUp
<1>3. cli[From].retry # 0
  BY DEF GiveUp, MaxRetries
<1>4. PICK w \in SeqNum : FragmentedStage(w)
  BY <1>1, <1>3 DEF Progress, Stage, Quiet, SingleStage
<1>5. End(w)' = End(w)
  BY <1>1, Unmoved
<1>6. NextSeq(w)' = NextSeq(w)
  BY <1>1, <1>2, <1>5 DEF NextSeq
<1>7. w = window_size'[From]
  BY <1>1, <1>4 DEF FragmentedStage, Cut
<1>8. Stage'
  BY <1>1, <1>2, <1>4, <1>6, <1>7, StageKept DEF Stage
<1>9. Partner'
  BY <1>1, <1>2, PartnerKept DEF held, Progress, Partner, GivenUp
<1>10. Arrivals'
  BY <1>1, KeepsArrivals DEF held, Progress
<1> QED  BY <1>8, <1>9, <1>10

\* The message under way is one of those that were sent.
LEMMA LatestFacts ==
    ASSUME OneSender, TypeOK, Latest > 0
    PROVE  /\ Latest \in DOMAIN sent[From] /\ LatestKind \in Kind
           /\ sent[From][Latest].total \in Total
           /\ Single(LatestKind) \in DataFlags
           /\ \A w, i : Reflags(w, i) \subseteq DataFlags
<1>1. Latest \in DOMAIN sent[From] /\ sent[From][Latest] \in MessageInfo
  BY Shape DEF Latest
<1>2. LatestKind \in Kind /\ sent[From][Latest].total \in Total
  BY <1>1 DEF LatestKind, MessageInfo
<1> QED  BY <1>1, <1>2 DEF DataFlags, Reflags

LEMMA EndSendStep ==
    ASSUME Gentle, Progress, EndSend(From)
    PROVE  Stage' /\ Partner' /\ Arrivals'
<1>0. /\ From \in Node /\ To \in Node /\ From # To /\ cli \in [Node -> CliState]
      /\ completed \in [Node -> SUBSET Nat]
  BY Ends DEF Gentle, Progress, TypeOK
<1>1. /\ Pc = "loop" /\ UNCHANGED held /\ UNCHANGED <<net, window_size, phase>>
  BY DEF EndSend, Pc, held, receiver, config
<1>2. /\ cli'[To] = cli[To] /\ Pc' = "idle" /\ completed'[To] = completed[To]
      /\ GivenUp' <=> GivenUp
  BY <1>0 DEF EndSend, Pc, GivenUp
<1>3. Partner'
  BY <1>1, <1>2, PartnerKept DEF held, Progress, Partner, GivenUp
<1>4. CASE GivenUp
  <2>1. PICK w \in SeqNum : FragmentedStage(w)
    BY <1>1, <1>4 DEF Progress, Stage, Quiet, SingleStage
  <2>2. End(w)' = End(w)
    BY <1>1, Unmoved
  <2>3. NextSeq(w)' = NextSeq(w)
    BY <1>1, <1>2, <2>2 DEF NextSeq
  <2>4. Stage'
    BY <1>1, <1>2, <1>4, <2>1, <2>3, StageKept DEF Stage
  <2>5. completed' = completed
    BY <1>0, <1>4 DEF EndSend, GivenUp, HOLDOFF, NETWORK
  <2>6. Arrivals'
    BY <1>1, <2>5, KeepsArrivals DEF held, Progress
  <2> QED  BY <1>3, <2>4, <2>6
<1>5. CASE ~GivenUp
  <2>1. IsSingle(From) \/ ~(First <= Length)
    BY <1>5 DEF EndSend, MoreToSend, Progress, Partner, GivenUp, First, Length
  <2>2. First \in Nat /\ Length \in Nat /\ Latest \in Nat
    BY Shape DEF Gentle, Progress
  <2> DEFINE Finished ==
        /\ Latest > 0 /\ Handed(Latest) /\ HoldsUpTo(0) /\ Line(<<>>, <<>>)
        /\ assembling[To] = "nothing"
        /\ \A i \in DOMAIN send_packets[From] : send_packets[From][i].flags \in DataFlags
  <2>3. Finished
    <3>1. CASE SingleStage
      <4>1. Whole.flags \in DataFlags
        BY <3>1, LatestFacts DEF SingleStage, Whole, DataPacket, Gentle, Progress
      <4> QED  BY <1>1, <3>1, <4>1 DEF SingleStage
    <3>2. ASSUME NEW w \in SeqNum, FragmentedStage(w)
          PROVE  Finished
      <4>1. Length > 1 /\ Len(send_packets[From]) = Length /\ Latest > 0
        BY <3>2 DEF FragmentedStage, Cut
      <4>2. Over(w)
        BY <2>1, <2>2, <3>2, <4>1
           DEF FragmentedStage, IsSingle, Ready, InFlight, Repairing, Acked, Busy
      <4>3. LatestKind # "nothing" /\ \A i : Reflags(w, i) \subseteq DataFlags
        BY <4>1, LatestFacts DEF Kind, Gentle, Progress
      <4>4. /\ assembling[To] = "nothing" /\ Handed(Latest) /\ HoldsUpTo(0)
            /\ Line(<<>>, <<>>)
        BY <1>1, <1>5, <4>2, <4>3 DEF Over, Ended
      <4>5. ASSUME NEW i \in DOMAIN send_packets[From]
            PROVE  send_packets[From][i].flags \in DataFlags
        <5>1. i \in 1..Length
          <6>1. send_packets[From] \in Seq(Packet)
            BY Shape DEF Gentle, Progress
          <6> QED  BY <4>1, <6>1
        <5>2. PICK f \in Reflags(w, i) : send_packets[From][i] = DataPacket(f, i, Latest)
          BY <3>2, <5>1 DEF FragmentedStage, Cut
        <5> QED  BY <4>3, <5>2 DEF DataPacket
      <4> QED  BY <4>1, <4>4, <4>5
    <3> HIDE DEF Finished
    <3> QED  BY <1>1, <3>1, <3>2 DEF Progress, Stage, Quiet
  <2>4. /\ Latest' = Latest /\ (Handed(Latest)' <=> Handed(Latest))
        /\ HoldsUpTo(0)' <=> HoldsUpTo(0)
    BY <1>1, Unmoved
  <2>5. Quiet'
    BY <1>1, <1>2, <1>5, <2>3, <2>4 DEF Quiet, held, Line
  <2>6. completed'[From] = completed[From] \cup {Latest}
    BY <1>0, <1>5 DEF EndSend, Progress, Partner, GivenUp, Latest
  <2>7. Latest \in DOMAIN sent[From]
    BY <2>3, LatestFacts DEF Gentle, Progress
  <2>8. Arrivals'
    <3>1. Arrivals /\ Handed(Latest)
      BY <2>3 DEF Progress
    <3>2. UNCHANGED <<delivered, sent>>
      BY <1>1 DEF held
    <3>3. /\ \A i \in DOMAIN delivered[To] : Arrived(delivered[To][i])
          /\ \A i, j \in DOMAIN delivered[To] :
               i < j => NumberOf(delivered[To][i]) < NumberOf(delivered[To][j])
          /\ \A k \in completed[From] \cup {Latest} : k \in DOMAIN sent[From] /\ Handed(k)
      BY <2>7, <3>1 DEF Arrivals
    <3>4. /\ (\A i \in DOMAIN delivered[To] : Arrived(delivered[To][i]))'
          /\ (\A i, j \in DOMAIN delivered[To] :
                i < j => NumberOf(delivered[To][i]) < NumberOf(delivered[To][j]))'
      BY <3>2, <3>3 DEF Arrived, NumberOf, IsMessage
    <3>5. (\A k \in completed[From] : k \in DOMAIN sent[From] /\ Handed(k))'
      BY <2>6, <3>2, <3>3 DEF Handed, NumberOf
    <3> QED  BY <3>4, <3>5 DEF Arrivals
  <2> QED  BY <1>3, <2>5, <2>8 DEF Stage
<1> QED  BY <1>4, <1>5

LEMMA SettingsStep ==
    ASSUME Gentle, Progress, set_window_size(From) \/ set_dynamic_window(From)
    PROVE  Stage' /\ Partner' /\ Arrivals'
<1>1. Pc = "idle" /\ UNCHANGED held /\ UNCHANGED <<net, phase, cli, completed>>
  BY DEF set_window_size, set_dynamic_window, Idle, Pc, held, receiver, history
<1>2. Pc' = Pc /\ (GivenUp' <=> GivenUp) /\ \A w : NextSeq(w)' = NextSeq(w)
  <2>1. \A w : End(w)' = End(w)
    BY <1>1, Unmoved
  <2> QED  BY <1>1, <2>1 DEF Pc, GivenUp, NextSeq
<1>3. CASE Quiet
  <2>1. /\ Latest' = Latest /\ (Handed(Latest)' <=> Handed(Latest))
        /\ HoldsUpTo(0)' <=> HoldsUpTo(0)
    BY <1>1, Unmoved
  <2> QED
    <3>1. Quiet'
      BY <1>1, <1>2, <1>3, <2>1 DEF Quiet, held, Line
    <3>2. Partner'
      BY <1>1, <1>2, PartnerKept DEF held, Progress, Partner
    <3>3. Arrivals'
      BY <1>1, KeepsArrivals DEF held, Progress
    <3> QED  BY <3>1, <3>2, <3>3 DEF Stage
<1>4. ASSUME NEW w \in SeqNum, FragmentedStage(w)
      PROVE  Stage' /\ Partner' /\ Arrivals'
  <2>1. GivenUp
    BY <1>1, <1>4 DEF FragmentedStage, Cut
  <2>2. FragmentedStage(w)'
    BY <1>1, <1>2, <1>4, <2>1, StageKept
  <2>3. Partner'
    BY <1>1, <1>2, PartnerKept DEF held, Progress, Partner
  <2>4. Arrivals'
    BY <1>1, KeepsArrivals DEF held, Progress
  <2> QED  BY <2>2, <2>3, <2>4 DEF Stage
<1> QED  BY <1>1, <1>3, <1>4 DEF Progress, Stage, SingleStage

LEMMA SettingAlways ==
    ASSUME Gentle, TypeOK, Setting, [Next]_vars PROVE Setting'
<1>0. /\ From \in Node /\ window_size \in [Node -> SeqNum]
      /\ dynamic_window \in [Node -> BOOLEAN]
  BY Ends DEF Gentle, TypeOK
<1>1. ASSUME NEW n \in Node, set_window_size(n) PROVE Setting'
  BY <1>0, <1>1 DEF set_window_size, Setting
<1>2. ASSUME NEW n \in Node, set_dynamic_window(n) PROVE Setting'
  BY <1>0, <1>2 DEF set_dynamic_window, Setting
<1>3. ASSUME NEW n \in Node, NEW kind, SendFragmented(n, kind) PROVE Setting'
  BY <1>0, <1>3 DEF SendFragmented, Setting
<1>4. ASSUME UNCHANGED config PROVE Setting'
  BY <1>4 DEF config, Setting
<1>5. ASSUME NEW n \in Node, NEW kind, SendSingle(n, kind) PROVE UNCHANGED config
  BY <1>5 DEF SendSingle
<1>6. ASSUME NEW n \in Node, Sending(n) PROVE UNCHANGED config
  BY <1>6 DEF Sending, NextWindow, SendFragment, EndWindow, AckSeen, Timeout, GiveUp, EndSend
<1>7. ASSUME NEW n \in Node, Receiving(n) PROVE UNCHANGED config
  <2>1. ASSUME NEW kind, \/ ProcessSingle(n, kind) \/ ProcessMoreFrag(n, kind)
                         \/ ProcessLastWindFrag(n, kind) \/ ProcessLastFrag(n, kind)
                         \/ Assemble(n, kind)
        PROVE  UNCHANGED config
    BY <2>1 DEF ProcessSingle, ProcessMoreFrag, ProcessLastWindFrag, ProcessLastFrag,
                Assemble, sender, config
  <2> QED
    BY <1>7, <2>1 DEF Receiving, sender, config, process_tcu_single_text,
       process_tcu_single_file, process_tcu_more_frag_text, process_tcu_more_frag_file,
       process_tcu_last_wind_frag_text, process_tcu_last_wind_frag_file,
       process_tcu_last_frag_text, process_tcu_last_frag_file, assemble_text,
       assemble_file, process_tcu_negative_ack, process_tcu_positive_ack,
       process_tcu_disconn_req, Ignore
<1>8. ASSUME NEW n \in Node, NetworkFault(n) PROVE UNCHANGED config
  BY <1>8 DEF NetworkFault, sender, config
<1>9. UNCHANGED vars => UNCHANGED config
  BY DEF vars, config
<1>10. ASSUME NEW n \in Node, CannotRead(n) PROVE UNCHANGED config
  BY <1>10 DEF CannotRead
<1> QED
  BY <1>1, <1>2, <1>3, <1>4, <1>5, <1>6, <1>7, <1>8, <1>9, <1>10
     DEF Next, User, send_text, send_file

LEMMA SentPacket ==
    ASSUME Gentle, TypeOK, NEW p, send_packet(From, p)
    PROVE  \E q \in {p, Corrupted(p)} :
             net'[To] = Append(net[To], q) /\ net'[From] = net[From]
<1>1. ~Spend("drop")
  BY NoOtherFault DEF Gentle, Fault, Simulated
<1>2. From \in Node /\ To \in Node /\ From # To /\ Peer(From) = To
  BY Ends DEF Gentle
<1>3. PICK q \in {p, Corrupted(p)} : net' = [net EXCEPT ![To] = Append(@, q)]
  BY <1>1, <1>2 DEF send_packet, Corrupted
<1> HIDE DEF Corrupted
<1> QED  BY <1>2, <1>3 DEF TypeOK

LEMMA SendFragmentStep ==
    ASSUME Gentle, Progress, SendFragment(From)
    PROVE  Stage' /\ Partner' /\ Arrivals'
<1>0. /\ From \in Node /\ To \in Node /\ From # To /\ cli \in [Node -> CliState]
      /\ TypeOK /\ OneSender
  BY Ends DEF Gentle, Progress, TypeOK
<1>1. /\ Pc = "window" /\ InWindow(From)
      /\ UNCHANGED held /\ UNCHANGED <<phase, window_size, completed, ack_received>>
  BY DEF SendFragment, Pc, held, receiver, history, config
<1> DEFINE j == cli[From].seq
<1>2. /\ cli'[To] = cli[To] /\ Pc' = "window" /\ cli'[From].seq = Plus(j, 1)
      /\ ~GivenUp /\ ~GivenUp'
  BY <1>0, <1>1 DEF SendFragment, Pc, CliState, Progress, Partner, GivenUp
<1>3. /\ First \in SeqNum /\ Length \in SeqNum /\ j \in SeqNum
      /\ SeqModulus \in Nat /\ SeqNum = 0..(SeqModulus - 1)
      /\ net[To] \in Seq(Packet)
  BY <1>0, Shape
<1>4. PICK w \in SeqNum : FragmentedStage(w)
  BY <1>1 DEF Progress, Stage, Quiet, SingleStage
<1>5. Cut(w) /\ w = window_size[From] /\ w \in SeqNum \ {0}
  BY <1>1, <1>4 DEF FragmentedStage, Cut
<1>6. j < Plus(First, w) /\ j <= Length
  BY <1>1, <1>5 DEF InWindow, First, Length
<1>7. First \in Nat \ {0} /\ Length < SeqModulus - 1 /\ Len(send_packets[From]) = Length
  BY <1>3, <1>5 DEF Cut
<1>8. First <= j => Busy(w) /\ j <= End(w) /\ First <= Length
  <2>1. SUFFICES ASSUME First <= j PROVE Busy(w) /\ j <= End(w) /\ First <= Length
    OBVIOUS
  <2>2. First + w < SeqModulus
    <3>1. SUFFICES ASSUME First + w >= SeqModulus PROVE FALSE
      BY <1>3, <1>5
    <3>2. (First + w) % SeqModulus = First + w - SeqModulus
      <4> DEFINE r == First + w - SeqModulus
      <4>1. r \in 0..(SeqModulus - 1) /\ First + w = 1 * SeqModulus + r
        BY <1>3, <1>5, <3>1
      <4> HIDE DEF r
      <4>2. (1 * SeqModulus + r) % SeqModulus = r
        BY <4>1, Remainder, ModulusAssumption
      <4> QED  BY <4>1, <4>2 DEF r
    <3> QED  BY <1>3, <1>5, <1>6, <2>1, <3>1, <3>2 DEF Plus
  <2>3. Plus(First, w) = First + w
    BY <1>3, <1>5, <2>2, PlainSum
  <2> QED  BY <1>3, <1>5, <1>6, <2>1, <2>2, <2>3 DEF Busy, End, WindowEnd
<1>9. cli'[From].seq = j + 1
  <2>1. 1 \in SeqNum /\ j + 1 < SeqModulus
    BY <1>3, <1>6, <1>7
  <2> QED  BY <1>2, <1>3, <2>1, PlainSum
<1>10. First <= j => \E q \in {send_packets[From][j], Corrupted(send_packets[From][j])} :
                       net'[To] = Append(net[To], q) /\ net'[From] = net[From]
  <2>1. SUFFICES ASSUME First <= j PROVE send_packet(From, send_packets[From][j])
    BY <1>0, SentPacket
  <2>2. j \in DOMAIN send_packets[From]
    <3>1. send_packets[From] \in Seq(Packet) /\ j \in 1..Len(send_packets[From])
      BY <1>0, <1>3, <1>6, <1>7, <2>1, Shape
    <3> QED  BY <3>1
  <2> QED  BY <2>2 DEF SendFragment
<1>11. ASSUME Busy(w), Original(w, First), Awaited, NEW a \in SeqNum,
              First <= a, a <= j, j = a + Len(net[To]), net[From] = <<>>,
              \A x \in 1..Len(net[To]) :
                net[To][x] \in {Fragment(w, a + x - 1), Corrupted(Fragment(w, a + x - 1))},
              HoldsSome(a - 1), Synced \/ (ToSync(w) /\ a = 1)
       PROVE  Stage'
  <2>1. First' = First /\ End(w)' = End(w) /\ (Busy(w)' <=> Busy(w))
        /\ (Original(w, First)' <=> Original(w, First)) /\ (Awaited' <=> Awaited)
        /\ (HoldsSome(a - 1)' <=> HoldsSome(a - 1)) /\ (Synced' <=> Synced)
        /\ \A i : Fragment(w, i)' = Fragment(w, i)
    BY <1>1, Unmoved
  <2>2. \A i : Corrupted(Fragment(w, i))' = Corrupted(Fragment(w, i))
    BY <2>1 DEF Corrupted
  <2>3. First <= j /\ j <= End(w)
    BY <1>3, <1>8, <1>11
  <2>4. send_packets[From][j] = Fragment(w, j)
    BY <1>3, <1>6, <1>11, <2>3 DEF Original
  <2>5. PICK q \in {Fragment(w, j), Corrupted(Fragment(w, j))} :
               net'[To] = Append(net[To], q) /\ net'[From] = net[From]
    BY <1>10, <2>3, <2>4
  <2>6. ASSUME NEW x \in 1..Len(net'[To])
        PROVE  net'[To][x] \in {Fragment(w, a + x - 1), Corrupted(Fragment(w, a + x - 1))}
    <3>1. CASE x = Len(net[To]) + 1
      <4>1. net'[To][x] = q
        BY <1>3, <2>5, <3>1
      <4>2. a + x - 1 = j
        BY <1>3, <1>11, <3>1
      <4> QED  BY <2>5, <4>1, <4>2
    <3>2. CASE x # Len(net[To]) + 1
      <4>1. x \in 1..Len(net[To]) /\ net'[To][x] = net[To][x]
        BY <1>3, <2>5, <3>2
      <4> QED  BY <1>11, <4>1
    <3> QED  BY <3>1, <3>2
  <2>7. Len(net'[To]) = Len(net[To]) + 1
    BY <1>3, <2>5
  <2>8. NextSeq(w)' = a + Len(net'[To])
    BY <1>2, <1>3, <1>9, <1>11, <2>7 DEF NextSeq
  <2>9. Travelling(w, a)'
    <3>1. (\A x \in 1..Len(net[To]) :
             net[To][x] \in {Fragment(w, a + x - 1), Corrupted(Fragment(w, a + x - 1))})'
      BY <2>1, <2>2, <2>6
    <3>2. NextSeq(w)' = j + 1
      BY <1>2, <1>9 DEF NextSeq
    <3>3. End(w) \in Nat
      BY <1>0, <1>5, <1>11, WindowFacts DEF Progress
    <3>4. /\ First' <= a /\ a <= End(w)' /\ NextSeq(w)' <= End(w)' + 1
          /\ NextSeq(w)' > First' /\ net'[From] = <<>>
      <4>1. First' = First /\ End(w)' = End(w) /\ net'[From] = <<>>
        BY <1>11, <2>1, <2>5
      <4>2. /\ First \in Int /\ a \in Int /\ j \in Int
            /\ First <= a /\ a <= j /\ j <= End(w)
        BY <1>3, <1>11, <2>3
      <4> QED  BY ONLY <3>2, <3>3, <4>1, <4>2
    <3>5. HoldsSome(a - 1)' /\ NextSeq(w)' = a + Len(net'[To])
      BY <1>11, <2>1, <2>8
    <3>6. Synced' \/ (ToSync(w)' /\ a = 1)
      BY <1>11, <2>1 DEF ToSync
    <3> QED  BY <3>1, <3>4, <3>5, <3>6 DEF Travelling
  <2>10. InFlight(w)'
    BY <1>2, <1>11, <2>1, <2>9 DEF InFlight
  <2>11. Cut(w)'
    BY <1>1, <1>2, <1>5, CutKept
  <2> QED  BY <2>10, <2>11 DEF Stage, FragmentedStage
<1>12. ASSUME Ready(w) PROVE Stage'
  <2>1. j = First /\ net[To] = <<>> /\ net[From] = <<>>
    BY <1>1, <1>12 DEF Ready, Line
  <2>2. HoldsSome(First - 1)
    BY <1>3, <1>12 DEF Ready, HoldsUpTo, HoldsSome
  <2>3. Busy(w)
    BY <1>3, <1>8, <2>1
  <2> QED  BY <1>3, <1>11, <1>12, <2>1, <2>2, <2>3 DEF Ready, ToSync
<1>13. ASSUME InFlight(w) PROVE Stage'
  <2>1. PICK a \in SeqNum : Travelling(w, a)
    BY <1>13 DEF InFlight
  <2>2. j = a + Len(net[To]) /\ a <= j
    BY <1>1, <1>3, <2>1 DEF Travelling, NextSeq
  <2> QED  BY <1>11, <1>13, <2>1, <2>2 DEF InFlight, Travelling
<1>14. ~Over(w)
  BY <1>1, <1>3, <1>6 DEF Over
<1>15. ~Repairing(w) /\ ~Acked(w)
  <2>1. SUFFICES ASSUME Busy(w), j = End(w) + 1 PROVE FALSE
    BY <1>1 DEF Repairing, Acked, AllSent, NextSeq
  <2>2. First <= j /\ End(w) \in Nat
    BY <1>0, <1>5, <2>1, WindowFacts DEF Progress
  <2> QED  BY <1>3, <1>8, <2>1, <2>2
<1>16. Stage'
  BY <1>4, <1>12, <1>13, <1>14, <1>15 DEF FragmentedStage
<1>17. Partner'
  BY <1>1, <1>2, PartnerKept DEF held, Progress, Partner, GivenUp
<1>18. Arrivals'
  BY <1>1, KeepsArrivals DEF held, Progress
<1> QED  BY <1>16, <1>17, <1>18

-----------------------------------------------------------------------------
(* A new message *)

LEMMA NewLatest ==
    ASSUME OneSender, TypeOK, Arrivals, NEW m \in MessageInfo,
           sent' = [sent EXCEPT ![From] = Append(@, m)], UNCHANGED <<delivered, completed>>
    PROVE  /\ Latest' = Latest + 1 /\ LatestKind' = m.kind
           /\ sent'[From][Latest'] = m /\ sent'[To] = sent[To]
           /\ ~Handed(Latest)'
           /\ Arrivals'
<1>0. /\ From \in Node /\ To \in Node /\ From # To /\ sent[From] \in Seq(MessageInfo)
      /\ sent \in [Node -> Seq(MessageInfo)]
  BY Ends, Shape DEF TypeOK
<1>1. sent'[From] = Append(sent[From], m) /\ sent'[To] = sent[To]
  BY <1>0
<1>2. /\ Len(sent'[From]) = Len(sent[From]) + 1 /\ sent'[From][Len(sent[From]) + 1] = m
      /\ DOMAIN sent[From] = 1..Len(sent[From]) /\ DOMAIN sent'[From] = 1..(Len(sent[From]) + 1)
      /\ \A k \in DOMAIN sent[From] : sent'[From][k] = sent[From][k]
      /\ Len(sent[From]) \in Nat
  BY <1>0, <1>1
<1>3. Latest' = Latest + 1 /\ LatestKind' = m.kind /\ sent'[From][Latest'] = m
  BY <1>2 DEF Latest, LatestKind
<1>4. ~Handed(Latest)'
  BY <1>2, <1>3 DEF Arrivals, Arrived, Handed, NumberOf, Latest
<1>5. \A a : Arrived(a) => Arrived(a)'
  <2>1. \A a : \A k \in DOMAIN sent[From] : IsMessage(a, From, k) => IsMessage(a, From, k)'
    BY <1>2 DEF IsMessage
  <2> QED  BY <1>2, <2>1 DEF Arrived
<1>7. Arrivals'
  <2>1. (\A i \in DOMAIN delivered[To] : Arrived(delivered[To][i]))'
    <3>1. ASSUME NEW i \in DOMAIN delivered[To] PROVE Arrived(delivered[To][i])'
      <4>1. PICK a : a = delivered[To][i]
        OBVIOUS
      <4>2. Arrived(a)'
        BY <1>5, <4>1 DEF Arrivals
      <4>3. a = delivered'[To][i]
        BY <4>1
      <4> QED  BY <4>2, <4>3 DEF Arrived
    <3> QED  BY <3>1
  <2>2. ASSUME NEW k \in completed'[From] PROVE k \in DOMAIN sent'[From] /\ Handed(k)'
    <3>1. k \in DOMAIN sent[From] /\ Handed(k)
      BY <2>2 DEF Arrivals
    <3> QED  BY <1>2, <3>1 DEF Handed, NumberOf
  <2>3. (\A i, j \in DOMAIN delivered[To] :
           i < j => NumberOf(delivered[To][i]) < NumberOf(delivered[To][j]))'
    BY DEF Arrivals, NumberOf
  <2> QED  BY <2>1, <2>2, <2>3 DEF Arrivals
<1> QED  BY <1>1, <1>3, <1>4, <1>7

LEMMA SendsWhenQuiet ==
    ASSUME Progress, MaySend(From) PROVE Quiet /\ Latest < MaxMessages
<1>1. Pc = "idle" /\ ~GivenUp /\ Latest < MaxMessages
  BY PhaseFacts DEF MaySend, Idle, Pc, GivenUp, Latest, Progress, Partner
<1> QED  BY <1>1 DEF Progress, Stage, SingleStage, FragmentedStage, Cut

LEMMA SendSingleStep ==
    ASSUME Gentle, Progress, NEW kind \in Kind, SendSingle(From, kind)
    PROVE  Stage' /\ Partner' /\ Arrivals'
<1>0. /\ From \in Node /\ To \in Node /\ From # To /\ cli \in [Node -> CliState]
      /\ send_packets \in [Node -> Seq(Packet)]
      /\ TypeOK /\ OneSender /\ Arrivals
  BY Ends DEF Gentle, Progress, TypeOK
<1>1. Quiet
  BY SendsWhenQuiet DEF SendSingle
<1> DEFINE m == [kind |-> kind, total |-> 1]
<1>2. m \in MessageInfo /\ sent' = [sent EXCEPT ![From] = Append(@, m)]
      /\ m.kind = kind /\ m.total = 1
  BY DEF SendSingle, MessageInfo
<1>3. /\ UNCHANGED <<phase, received_packets, assembling, delivered, completed>>
  BY DEF SendSingle, receiver
<1> HIDE DEF m
<1>4. /\ Latest' = Latest + 1 /\ LatestKind' = kind
      /\ sent'[From][Latest'] = m /\ sent'[To] = sent[To]
      /\ ~Handed(Latest)' /\ Arrivals'
  BY <1>0, <1>2, <1>3, NewLatest
<1>5. /\ cli'[To] = cli[To] /\ Pc' = "wait" /\ cli'[From].retry = 0
  BY <1>0 DEF SendSingle, Pc
<1>6. send_packets'[From] = <<Whole'>> /\ send_packets'[To] = send_packets[To]
  BY <1>0, <1>4 DEF SendSingle, Whole, Latest, DataPacket
<1>7. Line(<<>>, <<Whole>>)' \/ Line(<<>>, <<Corrupted(Whole)>>)'
  <2>1. send_packet(From, Whole')
    BY <1>4 DEF SendSingle, Whole, Latest, DataPacket
  <2>2. PICK q \in {Whole', Corrupted(Whole')} :
             net'[To] = Append(net[To], q) /\ net'[From] = net[From]
    BY <1>0, <2>1, SentPacket
  <2>3. net'[To] = <<q>> /\ net'[From] = <<>>
    BY <1>1, <2>2 DEF Quiet, Line
  <2>4. Corrupted(Whole)' = Corrupted(Whole')
    BY DEF Corrupted
  <2> QED  BY <2>2, <2>3, <2>4 DEF Line
<1>8. ~GivenUp' /\ HoldsUpTo(0)' /\ assembling'[To] = "nothing"
  BY <1>1, <1>3 DEF Quiet, GivenUp, HoldsUpTo, Holding
<1>9. Latest' > 0
  BY <1>0, <1>4, Shape
<1>10. SingleStage'
  BY <1>2, <1>4, <1>5, <1>6, <1>7, <1>8, <1>9 DEF SingleStage
<1>11. Partner'
  BY <1>3, <1>4, <1>5, <1>6, <1>8, PartnerKept DEF Progress, Partner, SendSingle
<1> QED  BY <1>4, <1>10, <1>11 DEF Stage

LEMMA SendFragmentedStep ==
    ASSUME Gentle, Progress, NEW kind \in Kind, SendFragmented(From, kind)
    PROVE  Stage' /\ Partner' /\ Arrivals'
<1>0. /\ From \in Node /\ To \in Node /\ From # To /\ cli \in [Node -> CliState]
      /\ send_packets \in [Node -> Seq(Packet)]
      /\ seq_num \in [Node -> SeqNum] /\ total_num \in [Node -> SeqNum]
      /\ window_size \in [Node -> SeqNum]
      /\ TypeOK /\ OneSender /\ Arrivals
  BY Ends DEF Gentle, Progress, TypeOK
<1>1. Quiet /\ Latest < MaxMessages
  BY SendsWhenQuiet DEF SendFragmented
<1> DEFINE size(t) == IF dynamic_window[From] THEN dynamic_window_size(t)
                                              ELSE window_size[From]
<1>2. PICK t \in Total \ {1} :
        /\ total_num' = [total_num EXCEPT ![From] = t]
        /\ window_size' = [window_size EXCEPT ![From] = size(t)]
        /\ send_packets' = [send_packets EXCEPT ![From] =
             [i \in 1..t |-> DataPacket(FragmentFlags(i, t, size(t), kind), i, Len(sent[From]) + 1)]]
        /\ sent' = [sent EXCEPT ![From] = Append(@, [kind |-> kind, total |-> t])]
  BY DEF SendFragmented
<1>3. PICK w : w = size(t)
  OBVIOUS
<1> HIDE DEF size
<1>4. /\ t \in Nat /\ t > 1 /\ t < SeqModulus - 1 /\ SeqModulus \in Nat
      /\ SeqNum = 0..(SeqModulus - 1)
  BY SizesAssumption, ModulusAssumption DEF SeqNum
<1>5. w \in SeqNum \ {0} /\ (w = 1 => MaxMessages <= 1)
  <2>1. CASE dynamic_window[From]
    <3>1. w = dynamic_window_size(t)
      BY <1>3, <2>1 DEF size
    <3>2. dynamic_window_size(t) >= 1 /\ dynamic_window_size(t) \in SeqNum
      BY <1>4, NumberFacts DEF dynamic_window_size
    <3>3. MaxMessages <= 1 \/ w > 1
      BY <3>1 DEF Gentle, WideWindows
    <3> QED  BY <1>4, <3>1, <3>2, <3>3
  <2>2. CASE ~dynamic_window[From]
    <3>1. w \in WindowSize
      BY <1>3, <2>2 DEF size, Progress, Setting
    <3> QED  BY <1>4, <3>1, SizesAssumption DEF Gentle, WideWindows
  <2> QED  BY <2>1, <2>2
<1> DEFINE m == [kind |-> kind, total |-> t]
<1>6. m \in MessageInfo /\ sent' = [sent EXCEPT ![From] = Append(@, m)]
      /\ m.kind = kind /\ m.total = t
  BY <1>2 DEF MessageInfo
<1>7. UNCHANGED <<phase, net, received_packets, last_num, assembling, delivered, completed>>
  BY DEF SendFragmented, receiver
<1> HIDE DEF m
<1>8. /\ Latest' = Latest + 1 /\ LatestKind' = kind
      /\ sent'[From][Latest'] = m /\ sent'[To] = sent[To]
      /\ ~Handed(Latest)' /\ Arrivals'
  BY <1>0, <1>6, <1>7, NewLatest
<1>9. /\ cli'[To] = cli[To] /\ Pc' = "loop" /\ First' = 1 /\ Length' = t
      /\ window_size'[From] = w /\ seq_num'[To] = seq_num[To]
  BY <1>0, <1>2, <1>3 DEF SendFragmented, Pc, First, Length
<1>10. /\ send_packets'[To] = send_packets[To] /\ Len(send_packets'[From]) = t
       /\ \A i \in 1..t : send_packets'[From][i] = Fragment(w, i)'
  <2> DEFINE cut == [i \in 1..t |-> DataPacket(FragmentFlags(i, t, w, kind), i, Len(sent[From]) + 1)]
  <2>1. send_packets'[From] = cut /\ send_packets'[To] = send_packets[To]
    BY <1>0, <1>2, <1>3
  <2>2. Len(cut) = t
    BY <1>4
  <2>3. \A i \in 1..t : cut[i] = Fragment(w, i)'
    BY <1>8, <1>9 DEF Fragment, Latest
  <2> HIDE DEF cut
  <2> QED  BY <2>1, <2>2, <2>3
<1>11. ~GivenUp' /\ HoldsUpTo(0)' /\ assembling'[To] = "nothing" /\ Line(<<>>, <<>>)'
  BY <1>1, <1>7 DEF Quiet, GivenUp, HoldsUpTo, Holding, Line
<1>12. Cut(w)'
  <2>1. Latest' > 0
    BY <1>0, <1>8, Shape
  <2>2. (First - 1)' % w = 0
    <3>1. (0 * w + 0) % w = 0
      BY <1>4, <1>5, Remainder
    <3> QED  BY <1>4, <1>5, <1>9, <3>1
  <2>3. ASSUME NEW i \in 1..t
        PROVE  \E f \in Reflags(w, i)' : send_packets'[From][i] = DataPacket(f, i, Latest')
    <3>1. FragmentFlags(i, t, w, kind) \in Reflags(w, i)'
      <4>1. w \in Nat \ {0}
        BY <1>4, <1>5
      <4> QED  BY <1>4, <1>8, <1>9, <4>1, FirstFlags DEF Reflags
    <3>2. send_packets'[From][i] = DataPacket(FragmentFlags(i, t, w, kind), i, Latest')
      BY <1>8, <1>9, <1>10 DEF Fragment
    <3> QED  BY <3>1, <3>2
  <2>4. Latest' > 0 /\ Length' = sent'[From][Latest'].total /\ Pc' # "idle"
    BY <1>6, <1>8, <1>9, <2>1
  <2>5. (\A i \in 1..Length : \E f \in Reflags(w, i) :
           send_packets[From][i] = DataPacket(f, i, Latest))'
    BY <1>9, <2>3
  <2>6. First' > 0 /\ Length' > 1 /\ Length' < SeqModulus - 1
    BY <1>4, <1>9
  <2> QED  BY <1>5, <1>9, <1>10, <2>2, <2>4, <2>5, <2>6 DEF Cut
<1>13. Synced' \/ ToSync(w)'
  <2>1. CASE w > 1
    BY <1>9, <2>1 DEF ToSync
  <2>2. CASE w = 1
    <3>1. Latest = 0
      BY <1>0, <1>1, <1>5, <2>2, BoundsAssumption, Shape
    <3>2. seq_num'[To] = 1 /\ last_num'[To] = 0
      BY <1>1, <1>7, <1>9, <3>1 DEF Quiet
    <3> QED  BY <1>9, <3>2 DEF Synced
  <2> QED  BY <1>4, <1>5, <2>1, <2>2
<1>14. Ready(w)'
  <2>1. Original(w, First)'
    BY <1>9, <1>10 DEF Original
  <2>2. HoldsUpTo(First - 1)'
    BY <1>9, <1>11 DEF HoldsUpTo
  <2> QED  BY <1>4, <1>8, <1>9, <1>11, <1>13, <2>1, <2>2 DEF Ready, Awaited
<1>15. Partner'
  BY <1>7, <1>8, <1>9, <1>10, <1>11, PartnerKept DEF Progress, Partner
<1> QED  BY <1>5, <1>8, <1>12, <1>14, <1>15 DEF Stage, FragmentedStage

-----------------------------------------------------------------------------
(* The receiver *)

\* No two of the flag combinations are the same.
LEMMA FlagsDiffer ==
    ASSUME NEW k \in Kind, NEW l \in Kind
    PROVE  /\ Single(k) \notin {MoreFrag(l), LastWindFrag(l), LastFrag(l)}
           /\ MoreFrag(k) \notin {LastWindFrag(l), LastFrag(l)}
           /\ LastWindFrag(k) # LastFrag(l)
           /\ \A f \in {PositiveAck, NegativeAck, DisconnReq, DisconnAck} :
                f \notin {Single(k), MoreFrag(k), LastWindFrag(k), LastFrag(k)}
           /\ (Single(k) = Single(l) => k = l) /\ (MoreFrag(k) = MoreFrag(l) => k = l)
           /\ (LastWindFrag(k) = LastWindFrag(l) => k = l)
           /\ (LastFrag(k) = LastFrag(l) => k = l)
<1>1. \A s, t \in {k, l} :
         /\ "DF" \in Single(s) /\ "DF" \notin MoreFrag(t) /\ "DF" \notin LastWindFrag(t)
         /\ "DF" \notin LastFrag(t)
         /\ "MF" \in MoreFrag(s) /\ "MF" \in LastWindFrag(s) /\ "MF" \notin LastFrag(t)
         /\ "FIN" \in LastWindFrag(s) /\ "FIN" \notin MoreFrag(t) /\ "FIN" \notin LastFrag(t)
         /\ "FIN" \notin Single(s)
  BY DEF Kind, Single, MoreFrag, LastWindFrag, LastFrag, OfKind
<1>2. \A s \in {k, l} :
         /\ \A f \in {"ACK", "NACK"} : f \notin Single(s) /\ f \notin MoreFrag(s)
                                       /\ f \notin LastWindFrag(s) /\ f \notin LastFrag(s)
         /\ ("FL" \in Single(s) <=> s = "file") /\ ("FL" \in MoreFrag(s) <=> s = "file")
         /\ ("FL" \in LastWindFrag(s) <=> s = "file") /\ ("FL" \in LastFrag(s) <=> s = "file")
  BY DEF Kind, Single, MoreFrag, LastWindFrag, LastFrag, OfKind
<1>3. /\ "ACK" \in PositiveAck /\ "NACK" \in NegativeAck /\ "ACK" \in DisconnAck
      /\ "FIN" \in DisconnReq /\ "MF" \notin DisconnReq
  BY DEF PositiveAck, NegativeAck, DisconnAck, DisconnReq
<1> QED  BY <1>1, <1>2, <1>3 DEF Kind

\* What follows from the message and the sender alone, the receiver keeps.
LEMMA ReceiverMoves ==
    ASSUME UNCHANGED <<phase, cli, send_packets, total_num, window_size, sent>>,
           seq_num'[From] = seq_num[From]
    PROVE  /\ Latest' = Latest /\ LatestKind' = LatestKind /\ Whole' = Whole
           /\ First' = First /\ Length' = Length /\ Pc' = Pc /\ (GivenUp' <=> GivenUp)
           /\ \A w : /\ Original(w, First)' <=> Original(w, First)
                     /\ Original(w, End(w) + 1)' <=> Original(w, End(w) + 1)
                     /\ End(w)' = End(w) /\ (Busy(w)' <=> Busy(w))
                     /\ NextSeq(w)' = NextSeq(w) /\ (AllSent(w)' <=> AllSent(w))
                     /\ Cut(w)' <=> Cut(w)
                     /\ \A i : Repair(w, i)' = Repair(w, i) /\ Fragment(w, i)' = Fragment(w, i)
<1>1. /\ Latest' = Latest /\ LatestKind' = LatestKind /\ Whole' = Whole
      /\ First' = First /\ Length' = Length /\ Pc' = Pc /\ (GivenUp' <=> GivenUp)
  BY DEF Latest, LatestKind, Whole, First, Length, Pc, GivenUp
<1>2. \A w : /\ End(w)' = End(w) /\ (Busy(w)' <=> Busy(w))
             /\ \A i : Repair(w, i)' = Repair(w, i) /\ Fragment(w, i)' = Fragment(w, i)
             /\ \A i : Reflags(w, i)' = Reflags(w, i)
  BY <1>1 DEF End, Busy, Repair, Fragment, Reflags
<1>3. \A w : /\ Original(w, First)' <=> Original(w, First)
             /\ Original(w, End(w) + 1)' <=> Original(w, End(w) + 1)
             /\ NextSeq(w)' = NextSeq(w) /\ (AllSent(w)' <=> AllSent(w))
  BY <1>1, <1>2 DEF Original, NextSeq, AllSent
<1>4. \A w : Cut(w)' <=> Cut(w)
  BY <1>1, <1>2 DEF Cut
<1> QED  BY <1>1, <1>2, <1>3, <1>4

\* What the receiver can find at the head of its channel.
LEMMA Arriving ==
    ASSUME Gentle, Progress, net[To] # <<>>, assembling[To] = "nothing"
    PROVE  \/ /\ SingleStage /\ Pc = "wait" /\ ~Handed(Latest)
              /\ Line(<<>>, <<Data(To)>>) /\ Data(To) \in {Whole, Corrupted(Whole)}
           \/ \E w, a \in SeqNum :
                /\ Cut(w) /\ InFlight(w) /\ Travelling(w, a) /\ Len(net[To]) >= 1
                /\ Data(To) \in {Fragment(w, a), Corrupted(Fragment(w, a))}
           \/ \E w \in SeqNum : \E i \in First..End(w) :
                /\ Cut(w) /\ Repairing(w) /\ Holding(i) = Nothing
                /\ Line(<<>>, <<Data(To)>>) /\ Data(To) = Repair(w, i)
<1>1. net[To] \in Seq(Packet) /\ Data(To) = net[To][1] /\ Len(net[To]) >= 1
  <2>1. net[To] \in Seq(Packet)
    BY Shape DEF Gentle, Progress
  <2> QED  BY <2>1 DEF Data
<1>2. \A p : net[To] = <<p>> => p = Data(To)
  BY <1>1
<1>3. CASE SingleStage
  BY <1>2, <1>3 DEF SingleStage, Line
<1>4. ASSUME NEW w \in SeqNum, FragmentedStage(w), InFlight(w)
      PROVE  \E a \in SeqNum : /\ Travelling(w, a)
                               /\ Data(To) \in {Fragment(w, a), Corrupted(Fragment(w, a))}
  <2>1. PICK a \in SeqNum : Travelling(w, a)
    BY <1>4 DEF InFlight
  <2>2. 1 \in 1..Len(net[To]) /\ a + 1 - 1 = a
    BY <1>1, ModulusAssumption DEF SeqNum
  <2>3. net[To][1] \in {Fragment(w, a), Corrupted(Fragment(w, a))}
    BY <2>1, <2>2 DEF Travelling
  <2> QED  BY <1>1, <2>1, <2>3
<1>5. ASSUME NEW w \in SeqNum, FragmentedStage(w), Repairing(w)
      PROVE  \E i \in First..End(w) : /\ Holding(i) = Nothing
                                      /\ Line(<<>>, <<Data(To)>>) /\ Data(To) = Repair(w, i)
  BY <1>2, <1>5 DEF Repairing, Line
<1>6. ASSUME NEW w \in SeqNum, FragmentedStage(w) PROVE Cut(w) /\ (InFlight(w) \/ Repairing(w))
  BY <1>6 DEF FragmentedStage, Ready, Acked, Over, Line
<1> QED  BY <1>1, <1>3, <1>4, <1>5, <1>6 DEF Progress, Stage, Quiet, Line

LEMMA AnswerOfTo ==
    ASSUME OneSender, TypeOK, NEW packets, Answer(To, packets)
    PROVE  net'[To] = Tail(net[To]) /\ net'[From] = net[From] \o packets
BY Ends DEF Answer, TypeOK

LEMMA AnswerOfFrom ==
    ASSUME OneSender, TypeOK, NEW packets, Answer(From, packets)
    PROVE  net'[From] = Tail(net[From]) /\ net'[To] = net[To] \o packets
BY Ends DEF Answer, TypeOK

\* The message under way reaches its user.
LEMMA NewArrival ==
    ASSUME OneSender, TypeOK, Arrivals, Latest > 0, ~Handed(Latest), NEW a,
           NumberOf(a) = Latest, IsMessage(a, From, Latest),
           delivered' = [delivered EXCEPT ![To] = Append(@, a)],
           UNCHANGED <<sent, completed>>
    PROVE  Arrivals' /\ Handed(Latest)' /\ delivered'[From] = delivered[From]
<1>0. /\ From \in Node /\ To \in Node /\ From # To /\ delivered[To] \in Seq(Arrival)
      /\ delivered \in [Node -> Seq(Arrival)] /\ Latest \in Nat
      /\ DOMAIN sent[From] = 1..Latest
  BY Ends, Shape DEF TypeOK, Latest
<1> DEFINE l == Len(delivered[To])
<1>1. /\ delivered'[To] = Append(delivered[To], a) /\ delivered'[From] = delivered[From]
      /\ l \in Nat /\ DOMAIN delivered[To] = 1..l /\ DOMAIN delivered'[To] = 1..(l + 1)
      /\ delivered'[To][l + 1] = a
      /\ \A i \in 1..l : delivered'[To][i] = delivered[To][i]
  BY <1>0
<1> HIDE DEF l
<1>2. Latest' = Latest /\ \A x : Arrived(x)' <=> Arrived(x)
  BY DEF Latest, Arrived, IsMessage
<1>3. \A k : Handed(k) => Handed(k)'
  BY <1>1 DEF Handed
<1>4. Handed(Latest)'
  BY <1>1, <1>2 DEF Handed
<1>5. Arrived(a)
  BY <1>0 DEF Arrived
<1>6. (\A i \in DOMAIN delivered[To] : Arrived(delivered[To][i]))'
  <2>1. ASSUME NEW i \in 1..(l + 1) PROVE \E x : x = delivered'[To][i] /\ Arrived(x)
    BY <1>1, <1>5, <2>1 DEF Arrivals
  <2>2. ASSUME NEW i \in 1..(l + 1) PROVE Arrived(delivered[To][i])'
    <3>1. PICK x : x = delivered'[To][i] /\ Arrived(x)'
      BY <1>2, <2>1
    <3> QED  BY <3>1 DEF Arrived
  <2> QED  BY <1>1, <2>2
<1>7. \A i \in 1..l : NumberOf(delivered[To][i]) < Latest
  BY <1>0, <1>1 DEF Arrivals, Arrived, Handed
<1>8. (\A i, j \in DOMAIN delivered[To] :
         i < j => NumberOf(delivered[To][i]) < NumberOf(delivered[To][j]))'
  <2>1. ASSUME NEW i \in 1..(l + 1), NEW j \in 1..(l + 1), i < j
        PROVE  NumberOf(delivered'[To][i]) < NumberOf(delivered'[To][j])
    <3>1. i \in 1..l /\ (j \in 1..l \/ j = l + 1)
      BY <1>1, <2>1
    <3> QED  BY <1>1, <1>7, <2>1, <3>1 DEF Arrivals
  <2> QED  BY <1>1, <2>1 DEF NumberOf
<1>9. (\A k \in completed[From] : k \in DOMAIN sent[From] /\ Handed(k))'
  BY <1>3 DEF Arrivals
<1> QED  BY <1>1, <1>4, <1>6, <1>8, <1>9 DEF Arrivals

LEMMA FlagsInWindow ==
    ASSUME Gentle, Progress, NEW w \in SeqNum, Cut(w), Busy(w), NEW i \in First..End(w)
    PROVE  FragmentFlags(i, Length, w, LatestKind) =
             IF i = Length THEN LastFrag(LatestKind)
             ELSE IF i = End(w) THEN LastWindFrag(LatestKind) ELSE MoreFrag(LatestKind)
<1>1. /\ First \in Nat \ {0} /\ Length \in Nat /\ w \in Nat \ {0} /\ First <= Length
      /\ (First - 1) % w = 0
  BY WindowFacts DEF Cut
<1>2. i # Length => (i % w = 0 <=> i = End(w))
  BY <1>1, WindowNumbers DEF End
<1> QED  BY <1>2 DEF FragmentFlags

LEMMA ProcessSingleStep ==
    ASSUME Gentle, Progress, NEW kind \in Kind, ProcessSingle(To, kind)
    PROVE  Stage' /\ Partner' /\ Arrivals'
<1>0. /\ From \in Node /\ To \in Node /\ From # To /\ TypeOK /\ OneSender /\ Arrivals
      /\ Nothing = 0 /\ Garbled = -1 /\ Latest \in Nat
  BY Ends, Shape DEF Gentle, Progress, Nothing, Garbled
<1>1. /\ net[To] # <<>> /\ assembling[To] = "nothing" /\ Data(To).flags = Single(kind)
      /\ UNCHANGED <<phase, send_packets, total_num, window_size, cli, received_packets,
                     assembling, seq_num, ack_received, sent, completed>>
  BY DEF ProcessSingle, Receives, sender, receiver
<1>2. /\ SingleStage /\ Pc = "wait" /\ ~Handed(Latest)
      /\ Line(<<>>, <<Data(To)>>) /\ Data(To) \in {Whole, Corrupted(Whole)}
  <2>1. ASSUME NEW w \in SeqNum, NEW a, Cut(w), Data(To) \in {Fragment(w, a), Corrupted(Fragment(w, a))}
        PROVE  FALSE
    <3>1. Data(To).flags = FragmentFlags(a, Length, w, LatestKind)
      BY <2>1 DEF Fragment, Corrupted, DataPacket
    <3>2. LatestKind \in Kind
      BY <1>0, <2>1, LatestFacts DEF Cut
    <3> QED  BY <1>1, <3>1, <3>2, FlagsDiffer DEF FragmentFlags
  <2>2. ASSUME NEW w \in SeqNum, NEW i, Cut(w), Data(To) = Repair(w, i) PROVE FALSE
    <3>1. LatestKind \in Kind
      BY <1>0, <2>2, LatestFacts DEF Cut
    <3> QED  BY <1>1, <2>2, <3>1, FlagsDiffer DEF Repair, DataPacket
  <2> QED  BY <1>1, <2>1, <2>2, Arriving
<1>3. Latest > 0 /\ LatestKind \in Kind /\ sent[From][Latest].total = 1
  BY <1>0, <1>2, LatestFacts DEF SingleStage
<1>4. kind = LatestKind /\ Data(To).seq = 1 /\ Data(To).body \in {Latest, Garbled}
      /\ (Data(To) = Whole <=> Data(To).body = Latest)
  <2>1. Whole.flags = Single(LatestKind) /\ Whole.seq = 1 /\ Whole.body = Latest
    BY DEF Whole, DataPacket
  <2>2. Corrupted(Whole).flags = Single(LatestKind) /\ Corrupted(Whole).seq = 1
        /\ Corrupted(Whole).body = Garbled
    BY DEF Corrupted, Whole, DataPacket
  <2>3. Garbled # Latest
    BY <1>0
  <2> QED  BY <1>1, <1>2, <1>3, <2>1, <2>2, <2>3, FlagsDiffer
<1>5. /\ Latest' = Latest /\ Whole' = Whole /\ Pc' = Pc /\ (GivenUp' <=> GivenUp)
      /\ HoldsUpTo(0)' <=> HoldsUpTo(0)
  <2>1. Latest' = Latest /\ Whole' = Whole /\ Pc' = Pc /\ (GivenUp' <=> GivenUp)
    BY <1>1, ReceiverMoves
  <2> QED  BY <1>1, <2>1 DEF HoldsUpTo, Holding
<1>6. CASE validate_crc(Data(To))
  <2>1. Data(To).body = Latest
    BY <1>4, <1>6 DEF validate_crc
  <2> DEFINE a == [kind |-> kind, fragments |-> [NoFragments EXCEPT ![1] = Data(To).body]]
  <2>2. delivered' = [delivered EXCEPT ![To] = Append(@, a)]
    <3>1. ~Spend("save")
      BY <1>0, NoOtherFault DEF Gentle, Fault
    <3> QED  BY <1>6, <3>1 DEF ProcessSingle, HandToUser
  <2>3. NumberOf(a) = Latest /\ IsMessage(a, From, Latest)
    <3>1. a = [kind |-> LatestKind, fragments |-> [i \in SeqNum |-> IF i = 1 THEN Latest ELSE Nothing]]
      BY <1>4, <2>1, NumberFacts DEF NoFragments
    <3>2. \A i \in SeqNum : i \in 1..1 <=> i = 1
      BY NumberFacts
    <3> HIDE DEF a
    <3> QED  BY <1>3, <3>1, <3>2, NumberFacts DEF NumberOf, IsMessage, LatestKind
  <2> HIDE DEF a
  <2>4. Arrivals' /\ Handed(Latest)' /\ delivered'[From] = delivered[From]
    BY <1>0, <1>1, <1>2, <1>3, <2>2, <2>3, NewArrival
  <2>5. Line(<<Control(PositiveAck, 1)>>, <<>>)'
    <3>1. Answer(To, <<Control(PositiveAck, 1)>>)
      BY <1>4, <1>6 DEF ProcessSingle, send_tcu_positive_ack
    <3>2. net'[To] = Tail(net[To]) /\ net'[From] = net[From] \o <<Control(PositiveAck, 1)>>
      BY <1>0, <3>1, AnswerOfTo
    <3> QED  BY <1>2, <3>2 DEF Line
  <2>6. SingleStage'
    BY <1>1, <1>2, <1>5, <2>4, <2>5 DEF SingleStage
  <2>7. Partner'
    BY <1>1, <1>5, <2>4, PartnerKept DEF Progress, Partner
  <2> QED  BY <2>4, <2>6, <2>7 DEF Stage
<1>7. CASE ~validate_crc(Data(To))
  <2>1. delivered' = delivered /\ Answer(To, <<Control(NegativeAck, 1)>>)
    BY <1>4, <1>7 DEF ProcessSingle, send_tcu_negative_ack
  <2>2. Line(<<Control(NegativeAck, 1)>>, <<>>)'
    <3>1. net'[To] = Tail(net[To]) /\ net'[From] = net[From] \o <<Control(NegativeAck, 1)>>
      BY <1>0, <2>1, AnswerOfTo
    <3> QED  BY <1>2, <3>1 DEF Line
  <2>3. Handed(Latest)' <=> Handed(Latest)
    BY <1>5, <2>1 DEF Handed
  <2>4. SingleStage'
    BY <1>1, <1>2, <1>5, <2>2, <2>3 DEF SingleStage
  <2>5. Arrivals'
    BY <1>0, <1>1, <2>1, KeepsArrivals
  <2>6. Partner'
    BY <1>1, <1>5, <2>1, PartnerKept DEF Progress, Partner
  <2> QED  BY <2>4, <2>5, <2>6 DEF Stage
<1> QED  BY <1>6, <1>7

\* Which fragment a handler of fragments is given.
LEMMA ArrivingFragment ==
    ASSUME Gentle, Progress, NEW kind \in Kind,
           NEW f \in {MoreFrag(kind), LastWindFrag(kind), LastFrag(kind)}, Receives(To, f)
    PROVE  \E w \in SeqNum :
             /\ Cut(w) /\ Busy(w) /\ kind = LatestKind
             /\ \/ \E a \in SeqNum :
                     /\ InFlight(w) /\ Travelling(w, a) /\ Len(net[To]) >= 1
                     /\ Data(To) \in {Fragment(w, a), Corrupted(Fragment(w, a))}
                     /\ f = IF a = Length THEN LastFrag(kind)
                            ELSE IF a = End(w) THEN LastWindFrag(kind) ELSE MoreFrag(kind)
                \/ \E i \in First..End(w) :
                     /\ Repairing(w) /\ Line(<<>>, <<Data(To)>>) /\ Data(To) = Repair(w, i)
                     /\ f = IF End(w) = Length THEN LastFrag(kind) ELSE LastWindFrag(kind)
<1>0. OneSender /\ TypeOK
  BY DEF Gentle, Progress
<1>1. net[To] # <<>> /\ assembling[To] = "nothing" /\ Data(To).flags = f
  BY DEF Receives
<1>2. ~SingleStage \/ Data(To) \notin {Whole, Corrupted(Whole)}
  <2>1. SUFFICES ASSUME SingleStage, Data(To) \in {Whole, Corrupted(Whole)} PROVE FALSE
    OBVIOUS
  <2>2. LatestKind \in Kind
    BY <1>0, <2>1, LatestFacts DEF SingleStage
  <2>3. Data(To).flags = Single(LatestKind)
    BY <2>1 DEF Whole, Corrupted, DataPacket
  <2> QED  BY <1>1, <2>2, <2>3, FlagsDiffer
<1>3. ASSUME NEW w \in SeqNum, NEW a \in SeqNum, Cut(w), InFlight(w), Travelling(w, a),
             Data(To) \in {Fragment(w, a), Corrupted(Fragment(w, a))}
      PROVE  /\ Busy(w) /\ kind = LatestKind
             /\ f = IF a = Length THEN LastFrag(kind)
                    ELSE IF a = End(w) THEN LastWindFrag(kind) ELSE MoreFrag(kind)
  <2>1. LatestKind \in Kind
    BY <1>0, <1>3, LatestFacts DEF Cut
  <2>2. Data(To).flags = FragmentFlags(a, Length, w, LatestKind)
    BY <1>3 DEF Fragment, Corrupted, DataPacket
  <2>3. Busy(w)
    BY <1>3 DEF InFlight
  <2>4. a \in First..End(w)
    BY <1>3, <2>3, WindowFacts, Shape DEF Travelling, Gentle, Progress
  <2>5. FragmentFlags(a, Length, w, LatestKind) =
             IF a = Length THEN LastFrag(LatestKind)
             ELSE IF a = End(w) THEN LastWindFrag(LatestKind) ELSE MoreFrag(LatestKind)
    BY <1>3, <2>3, <2>4, FlagsInWindow
  <2> QED  BY <1>1, <2>1, <2>2, <2>3, <2>5, FlagsDiffer
<1>4. ASSUME NEW w \in SeqNum, NEW i, Cut(w), Repairing(w), Data(To) = Repair(w, i)
      PROVE  /\ Busy(w) /\ kind = LatestKind
             /\ f = IF End(w) = Length THEN LastFrag(kind) ELSE LastWindFrag(kind)
  <2>1. LatestKind \in Kind
    BY <1>0, <1>4, LatestFacts DEF Cut
  <2>2. Data(To).flags = IF End(w) = Length THEN LastFrag(LatestKind)
                                            ELSE LastWindFrag(LatestKind)
    BY <1>4 DEF Repair, DataPacket
  <2>3. Busy(w)
    BY <1>4 DEF Repairing
  <2> QED  BY <1>1, <2>1, <2>2, <2>3, FlagsDiffer
<1>5. CASE SingleStage /\ Data(To) \in {Whole, Corrupted(Whole)}
  BY <1>2, <1>5
<1>6. CASE \E w, a \in SeqNum :
                /\ Cut(w) /\ InFlight(w) /\ Travelling(w, a) /\ Len(net[To]) >= 1
                /\ Data(To) \in {Fragment(w, a), Corrupted(Fragment(w, a))}
  BY <1>3, <1>6
<1>7. CASE \E w \in SeqNum : \E i \in First..End(w) :
                /\ Cut(w) /\ Repairing(w) /\ Holding(i) = Nothing
                /\ Line(<<>>, <<Data(To)>>) /\ Data(To) = Repair(w, i)
  BY <1>4, <1>7
<1> QED  BY <1>1, <1>5, <1>6, <1>7, Arriving

LEMMA StoredFacts ==
    ASSUME OneSender, TypeOK, NEW p, p.seq \in SeqNum, p.body \in {Latest, Garbled}
    PROVE  \A i \in SeqNum : Stored(To, p)[i] =
             IF i = p.seq /\ p.body = Latest THEN Latest ELSE Holding(i)
<1>1. received_packets[To] \in [SeqNum -> Body] /\ Latest # Garbled
  BY Shape DEF Garbled
<1> QED  BY <1>1 DEF Stored, validate_crc, Holding

LEMMA ProcessMoreFragStep ==
    ASSUME Gentle, Progress, NEW kind \in Kind, ProcessMoreFrag(To, kind)
    PROVE  Stage' /\ Partner' /\ Arrivals'
<1>0. /\ From \in Node /\ To \in Node /\ From # To /\ TypeOK /\ OneSender /\ Arrivals
      /\ seq_num \in [Node -> SeqNum] /\ last_num \in [Node -> SeqNum]
      /\ received_packets \in [Node -> [SeqNum -> Body]]
      /\ Nothing = 0 /\ Garbled = -1 /\ Latest \in Nat
      /\ SeqModulus \in Nat /\ SeqNum = 0..(SeqModulus - 1)
      /\ net[To] \in Seq(Packet) /\ net[From] \in Seq(Packet)
  BY Ends, Shape DEF Gentle, Progress, Nothing, Garbled, TypeOK
<1>1. /\ UNCHANGED <<phase, send_packets, total_num, window_size, cli, assembling,
                     ack_received, sent, completed, delivered>>
      /\ Receives(To, MoreFrag(kind)) /\ net[To] # <<>>
  BY DEF ProcessMoreFrag, Receives, sender, history
<1>2. MoreFrag(kind) # LastFrag(kind) /\ MoreFrag(kind) # LastWindFrag(kind)
  BY FlagsDiffer
<1>3. PICK w, a \in SeqNum :
         /\ Cut(w) /\ Busy(w) /\ InFlight(w) /\ Travelling(w, a) /\ Len(net[To]) >= 1
         /\ Data(To) \in {Fragment(w, a), Corrupted(Fragment(w, a))}
         /\ a # End(w)
  BY <1>1, <1>2, ArrivingFragment
<1>4. /\ First \in Nat \ {0} /\ First <= Length /\ w \in Nat \ {0} /\ Length \in Nat
      /\ End(w) \in First..Length /\ End(w) \in SeqNum
      /\ First <= a /\ a <= End(w) /\ a < End(w) /\ a + 1 \in SeqNum
  <2>1. /\ First \in Nat \ {0} /\ First <= Length /\ w \in Nat \ {0} /\ Length \in Nat
        /\ End(w) \in First..Length /\ End(w) \in SeqNum
    BY <1>3, WindowFacts
  <2>2. First <= a /\ a <= End(w)
    BY <1>3 DEF Travelling
  <2> QED  BY <1>0, <1>3, <2>1, <2>2
<1>5. Data(To).seq = a /\ Data(To).body \in {Latest, Garbled}
  BY <1>3 DEF Fragment, Corrupted, DataPacket
<1>6. \A i \in SeqNum : received_packets'[To][i] \in
          IF i = a THEN {Latest, Holding(i)} ELSE {Holding(i)}
  <2>1. received_packets'[To] = Stored(To, Data(To))
    BY <1>0 DEF ProcessMoreFrag
  <2>2. PICK p : p = Data(To)
    OBVIOUS
  <2>3. \A i \in SeqNum : Stored(To, p)[i] =
             IF i = p.seq /\ p.body = Latest THEN Latest ELSE Holding(i)
    BY <1>0, <1>5, <2>2, StoredFacts
  <2> QED  BY <1>5, <2>1, <2>2, <2>3
<1>7. net'[To] = Tail(net[To]) /\ net'[From] = net[From]
  <2>1. Answer(To, <<>>)
    BY DEF ProcessMoreFrag
  <2>2. net'[To] = Tail(net[To]) /\ net'[From] = net[From] \o <<>>
    BY <1>0, <2>1, AnswerOfTo
  <2> QED  BY <1>0, <2>2
<1>8. seq_num'[From] = seq_num[From] /\
      \/ received_packets[To] = NoFragments /\ seq_num'[To] = 1 /\ last_num'[To] = 1
      \/ received_packets[To] # NoFragments /\ UNCHANGED <<seq_num, last_num>>
  BY <1>0 DEF ProcessMoreFrag
<1>9. /\ Latest' = Latest /\ LatestKind' = LatestKind /\ First' = First /\ Length' = Length
      /\ Pc' = Pc /\ (GivenUp' <=> GivenUp) /\ (Original(w, First)' <=> Original(w, First))
      /\ End(w)' = End(w) /\ (Busy(w)' <=> Busy(w)) /\ NextSeq(w)' = NextSeq(w)
      /\ (Cut(w)' <=> Cut(w))
      /\ \A i : Fragment(w, i)' = Fragment(w, i)
  BY <1>1, <1>8, ReceiverMoves
<1>10. Awaited' <=> Awaited
  BY <1>1, <1>9 DEF Awaited, Handed
<1>11. Synced'
  <2>1. CASE received_packets[To] = NoFragments
    BY <1>4, <1>8, <1>9, <2>1 DEF Synced
  <2>2. CASE received_packets[To] # NoFragments
    <3>1. Synced
      <4>1. SUFFICES ASSUME ~Synced PROVE FALSE
        OBVIOUS
      <4>2. a = 1 /\ First = 1 /\ HoldsSome(0)
        BY <1>3, <4>1 DEF Travelling, ToSync
      <4>3. \A i \in SeqNum : Holding(i) = Nothing
        BY <1>0, <4>2 DEF HoldsSome
      <4>4. received_packets[To] = NoFragments
        BY <1>0, <4>3 DEF Holding, NoFragments
      <4> QED  BY <2>2, <4>4
    <3> QED  BY <1>8, <1>9, <2>2, <3>1 DEF Synced
  <2> QED  BY <2>1, <2>2
<1>12. HoldsSome(a)'
  <2>1. HoldsSome(a - 1)
    BY <1>3 DEF Travelling
  <2>2. \A i \in SeqNum :
           /\ i \in 1..(First - 1) => received_packets'[To][i] = Latest
           /\ i \in First..a => received_packets'[To][i] \in {Latest, Nothing}
           /\ i \notin 1..(First - 1) /\ i \notin First..a => received_packets'[To][i] = Nothing
    <3>1. TAKE i \in SeqNum
    <3>2. CASE i = a
      <4>1. Holding(i) = Nothing
        BY <1>0, <1>4, <2>1, <3>2 DEF HoldsSome
      <4>2. received_packets'[To][i] \in {Latest, Nothing}
        BY <1>6, <3>2, <4>1
      <4>3. i \in First..a /\ i \notin 1..(First - 1)
        BY <1>0, <1>4, <3>2
      <4> QED  BY <4>2, <4>3
    <3>3. CASE i # a
      <4>1. received_packets'[To][i] = Holding(i)
        BY <1>6, <3>3
      <4> QED  BY <1>0, <1>4, <2>1, <3>3, <4>1 DEF HoldsSome
    <3> QED  BY <3>2, <3>3
  <2> QED  BY <1>9, <2>2 DEF HoldsSome, Holding
<1>13. /\ Len(net'[To]) = Len(net[To]) - 1 /\ Len(net'[To]) \in Nat
       /\ \A x \in 1..Len(net'[To]) : net'[To][x] = net[To][x + 1] /\ x + 1 \in 1..Len(net[To])
  <2>1. net[To] \in Seq(Packet) /\ net[To] # <<>>
    BY <1>0, <1>1
  <2> QED  BY <1>7, <2>1
<1>14. \A x \in 1..Len(net'[To]) :
          net'[To][x] \in {Fragment(w, (a + 1) + x - 1), Corrupted(Fragment(w, (a + 1) + x - 1))}
  <2>1. TAKE x \in 1..Len(net'[To])
  <2>2. net[To][x + 1] \in {Fragment(w, a + (x + 1) - 1), Corrupted(Fragment(w, a + (x + 1) - 1))}
    BY <1>3, <1>13 DEF Travelling
  <2>3. a + (x + 1) - 1 = (a + 1) + x - 1
    BY <1>0, <1>13
  <2> QED  BY <1>13, <2>2, <2>3
<1>15. Travelling(w, a + 1)'
  <2>1. (\A x \in 1..Len(net[To]) :
           net[To][x] \in {Fragment(w, (a + 1) + x - 1), Corrupted(Fragment(w, (a + 1) + x - 1))})'
    <3>1. \A i : Corrupted(Fragment(w, i))' = Corrupted(Fragment(w, i))
      BY <1>9 DEF Corrupted
    <3> QED  BY <1>9, <1>14, <3>1
  <2>2. HoldsSome((a + 1) - 1)'
    BY <1>0, <1>4, <1>12 DEF HoldsSome
  <2>3. NextSeq(w)' = (a + 1) + Len(net'[To])
    <3>1. PICK m \in Nat : m = Len(net'[To])
      BY <1>13
    <3>2. NextSeq(w) = a + (m + 1)
      <4>1. Len(net[To]) = m + 1
        <5>1. PICK l : l = Len(net[To])
          OBVIOUS
        <5>2. l \in Nat /\ m = l - 1
          BY <1>0, <1>13, <3>1, <5>1
        <5>3. l = m + 1
          BY <5>2
        <5> QED  BY <5>1, <5>3
      <4> QED  BY <1>3, <4>1 DEF Travelling
    <3>3. NextSeq(w)' = NextSeq(w)
      BY <1>9
    <3>4. a \in Nat
      BY <1>0
    <3>5. a + (m + 1) = (a + 1) + m
      BY <3>4
    <3> QED  BY <3>1, <3>2, <3>3, <3>5
  <2>4. NextSeq(w)' <= End(w)' + 1 /\ NextSeq(w)' > First' /\ net'[From] = <<>>
    BY <1>3, <1>7, <1>9 DEF Travelling
  <2>5. First' <= a + 1 /\ a + 1 <= End(w)'
    BY <1>0, <1>4, <1>9
  <2> QED  BY <1>11, <2>1, <2>2, <2>3, <2>4, <2>5 DEF Travelling
<1>16. InFlight(w)'
  BY <1>3, <1>4, <1>9, <1>10, <1>15 DEF InFlight
<1>17. Partner'
  BY <1>1, <1>9, PartnerKept DEF Progress, Partner
<1>18. Arrivals'
  BY <1>0, <1>1, KeepsArrivals
<1> QED  BY <1>3, <1>9, <1>16, <1>17, <1>18 DEF Stage, FragmentedStage

\* When the last fragment of a window arrives, the whole window has been sent
\* and nothing else is on the line.
LEMMA WindowArrives ==
    ASSUME Gentle, Progress, NEW kind \in Kind,
           NEW f \in {LastWindFrag(kind), LastFrag(kind)}, Receives(To, f)
    PROVE  \E w \in SeqNum :
             /\ Cut(w) /\ Busy(w) /\ kind = LatestKind
             /\ f = IF End(w) = Length THEN LastFrag(kind) ELSE LastWindFrag(kind)
             /\ AllSent(w) /\ Original(w, End(w) + 1) /\ HoldsSome(End(w)) /\ Awaited
             /\ seq_num[To] \in 1..First /\ Line(<<>>, <<Data(To)>>)
             /\ Data(To).seq \in First..End(w) /\ Data(To).body \in {Latest, Garbled}
             /\ Newest(To, Data(To)) = End(w)
<1>0. /\ TypeOK /\ OneSender /\ last_num[To] \in Nat
      /\ SeqModulus \in Nat /\ SeqNum = 0..(SeqModulus - 1)
      /\ net[To] \in Seq(Packet) /\ net[From] \in Seq(Packet) /\ Nothing = 0 /\ Latest \in Nat
  BY Ends, Shape DEF Gentle, Progress, Nothing
<1>1. PICK w \in SeqNum :
             /\ Cut(w) /\ Busy(w) /\ kind = LatestKind
             /\ \/ \E a \in SeqNum :
                     /\ InFlight(w) /\ Travelling(w, a) /\ Len(net[To]) >= 1
                     /\ Data(To) \in {Fragment(w, a), Corrupted(Fragment(w, a))}
                     /\ f = IF a = Length THEN LastFrag(kind)
                            ELSE IF a = End(w) THEN LastWindFrag(kind) ELSE MoreFrag(kind)
                \/ \E i \in First..End(w) :
                     /\ Repairing(w) /\ Line(<<>>, <<Data(To)>>) /\ Data(To) = Repair(w, i)
                     /\ f = IF End(w) = Length THEN LastFrag(kind) ELSE LastWindFrag(kind)
  BY ArrivingFragment
<1>2. /\ First \in Nat \ {0} /\ First <= Length /\ w \in Nat \ {0} /\ Length \in Nat
      /\ End(w) \in First..Length /\ End(w) \in SeqNum /\ End(w) <= First + w - 1
  BY <1>1, WindowFacts
<1>3. ASSUME NEW a \in SeqNum, InFlight(w), Travelling(w, a), Len(net[To]) >= 1,
             Data(To) \in {Fragment(w, a), Corrupted(Fragment(w, a))},
             f = IF a = Length THEN LastFrag(kind)
                 ELSE IF a = End(w) THEN LastWindFrag(kind) ELSE MoreFrag(kind)
      PROVE  /\ f = IF End(w) = Length THEN LastFrag(kind) ELSE LastWindFrag(kind)
             /\ AllSent(w) /\ Original(w, End(w) + 1) /\ HoldsSome(End(w)) /\ Awaited
             /\ seq_num[To] \in 1..First /\ Line(<<>>, <<Data(To)>>)
             /\ Data(To).seq \in First..End(w) /\ Data(To).body \in {Latest, Garbled}
             /\ Newest(To, Data(To)) = End(w)
  <2>1. f # MoreFrag(kind)
    BY FlagsDiffer
  <2>2. a = End(w)
    <3>1. a <= End(w)
      BY <1>3 DEF Travelling
    <3> QED  BY <1>0, <1>2, <1>3, <2>1, <3>1
  <2>3. Data(To).seq = End(w) /\ Data(To).body \in {Latest, Garbled}
    BY <1>3, <2>2 DEF Fragment, Corrupted, DataPacket
  <2>4. NextSeq(w) = End(w) + 1 /\ Len(net[To]) = 1
    <3>1. NextSeq(w) = End(w) + Len(net[To]) /\ NextSeq(w) <= End(w) + 1
      BY <1>3, <2>2 DEF Travelling
    <3>2. End(w) \in Nat /\ Len(net[To]) \in Nat /\ Len(net[To]) >= 1
      BY <1>0, <1>2, <1>3
    <3>3. PICK e, l \in Nat : e = End(w) /\ l = Len(net[To])
      BY <3>2
    <3>4. e + l <= e + 1 /\ l >= 1
      BY <3>1, <3>2, <3>3
    <3>5. l = 1
      BY <3>4
    <3> QED  BY <3>1, <3>3, <3>5
  <2>5. AllSent(w)
    BY <1>3, <2>4 DEF AllSent, InFlight
  <2>6. Original(w, End(w) + 1)
    BY <1>2, <1>3 DEF Original, InFlight
  <2>7. HoldsSome(End(w))
    <3>1. HoldsSome(End(w) - 1)
      BY <1>3, <2>2 DEF Travelling
    <3> QED  BY <1>2, <3>1 DEF HoldsSome
  <2>8. Synced
    <3>1. SUFFICES ASSUME ToSync(w), a = 1 PROVE FALSE
      BY <1>3 DEF Travelling
    <3>2. End(w) = 1 /\ w > 1 /\ Length > 1 /\ First = 1
      BY <1>1, <2>2, <3>1 DEF ToSync, Cut
    <3> QED  BY <1>2, <3>2 DEF End, WindowEnd
  <2>9. Newest(To, Data(To)) = End(w)
    BY <1>0, <1>2, <2>3, <2>8 DEF Newest, Synced
  <2>10. Line(<<>>, <<Data(To)>>)
    <3>1. net[From] = <<>>
      BY <1>3 DEF Travelling
    <3> QED  BY <1>0, <2>4, <3>1 DEF Line, Data
  <2>11. Awaited /\ seq_num[To] \in 1..First /\ Data(To).seq \in First..End(w)
    BY <1>2, <1>3, <2>3, <2>8 DEF InFlight, Synced
  <2> QED  BY <1>3, <2>2, <2>3, <2>5, <2>6, <2>7, <2>9, <2>10, <2>11
<1>4. ASSUME NEW i \in First..End(w), Repairing(w), Line(<<>>, <<Data(To)>>),
             Data(To) = Repair(w, i)
      PROVE  /\ AllSent(w) /\ Original(w, End(w) + 1) /\ HoldsSome(End(w)) /\ Awaited
             /\ seq_num[To] \in 1..First /\ Line(<<>>, <<Data(To)>>)
             /\ Data(To).seq \in First..End(w) /\ Data(To).body \in {Latest, Garbled}
             /\ Newest(To, Data(To)) = End(w)
  <2>1. Data(To).seq = i /\ Data(To).body = Latest
    BY <1>4 DEF Repair, DataPacket
  <2>2. last_num[To] = End(w)
    BY <1>4 DEF Repairing
  <2>3. Newest(To, Data(To)) = End(w)
    BY <1>2, <2>1, <2>2 DEF Newest
  <2> QED  BY <1>4, <2>1, <2>3 DEF Repairing
<1> QED  BY <1>1, <1>3, <1>4

LEMMA EndOfWindowStep ==
    ASSUME Gentle, Progress, NEW kind \in Kind,
           ProcessLastWindFrag(To, kind) \/ ProcessLastFrag(To, kind)
    PROVE  Stage' /\ Partner' /\ Arrivals'
<1>0. /\ From \in Node /\ To \in Node /\ From # To /\ TypeOK /\ OneSender /\ Arrivals
      /\ seq_num \in [Node -> SeqNum] /\ last_num \in [Node -> SeqNum]
      /\ received_packets \in [Node -> [SeqNum -> Body]]
      /\ assembling \in [Node -> Kind \cup {"nothing"}]
      /\ Nothing = 0 /\ Garbled = -1 /\ Latest \in Nat
      /\ SeqModulus \in Nat /\ SeqNum = 0..(SeqModulus - 1)
      /\ net[To] \in Seq(Packet) /\ net[From] \in Seq(Packet)
  BY Ends, Shape DEF Gentle, Progress, Nothing, Garbled, TypeOK
<1>1. /\ UNCHANGED <<phase, send_packets, total_num, window_size, cli,
                     ack_received, sent, completed, delivered>>
      /\ EndOfWindow(To, Data(To))
  BY DEF ProcessLastWindFrag, ProcessLastFrag, sender, history
<1>2. PICK f \in {LastWindFrag(kind), LastFrag(kind)} :
         /\ Receives(To, f)
         /\ f = LastFrag(kind) => ProcessLastFrag(To, kind)
         /\ f = LastWindFrag(kind) => ProcessLastWindFrag(To, kind)
  <2>1. LastWindFrag(kind) # LastFrag(kind)
    BY FlagsDiffer
  <2> QED  BY <2>1 DEF ProcessLastWindFrag, ProcessLastFrag
<1>3. PICK p : p = Data(To)
  OBVIOUS
<1>4. PICK w \in SeqNum :
             /\ Cut(w) /\ Busy(w) /\ kind = LatestKind
             /\ f = IF End(w) = Length THEN LastFrag(kind) ELSE LastWindFrag(kind)
             /\ AllSent(w) /\ Original(w, End(w) + 1) /\ HoldsSome(End(w)) /\ Awaited
             /\ seq_num[To] \in 1..First /\ Line(<<>>, <<p>>)
             /\ p.seq \in First..End(w) /\ p.body \in {Latest, Garbled}
             /\ Newest(To, p) = End(w)
  BY <1>2, <1>3, WindowArrives
<1>5. /\ First \in Nat \ {0} /\ First <= Length /\ w \in Nat \ {0} /\ Length \in Nat
      /\ End(w) \in First..Length /\ End(w) \in SeqNum /\ First..End(w) \subseteq SeqNum
  BY <1>4, WindowFacts
<1>6. \A i \in SeqNum : Stored(To, p)[i] =
             IF i = p.seq /\ p.body = Latest THEN Latest ELSE Holding(i)
  <2>1. p.seq \in SeqNum
    BY <1>4, <1>5
  <2> QED  BY <1>0, <1>4, <2>1, StoredFacts
<1>7. /\ received_packets'[To] = Stored(To, p) /\ last_num'[To] = End(w)
  BY <1>0, <1>1, <1>3, <1>4 DEF EndOfWindow
<1>8. seq_num'[From] = seq_num[From]
  BY <1>0, <1>1 DEF EndOfWindow
<1>9. /\ Latest' = Latest /\ LatestKind' = LatestKind /\ First' = First /\ Length' = Length
      /\ Pc' = Pc /\ (GivenUp' <=> GivenUp)
      /\ (Original(w, End(w) + 1)' <=> Original(w, End(w) + 1))
      /\ End(w)' = End(w) /\ (Busy(w)' <=> Busy(w)) /\ (AllSent(w)' <=> AllSent(w))
      /\ (Cut(w)' <=> Cut(w))
  BY <1>1, <1>8, ReceiverMoves
<1>10. Handed(Latest)' <=> Handed(Latest)
  BY <1>1, <1>9 DEF Handed
<1>11. Latest # Nothing
  BY <1>0, <1>4 DEF Cut
<1>12. \A i \in SeqNum :
         /\ i \in 1..(First - 1) => Stored(To, p)[i] = Latest
         /\ i \in First..End(w) => Stored(To, p)[i] \in {Latest, Nothing}
         /\ i \notin 1..(First - 1) /\ i \notin First..End(w) => Stored(To, p)[i] = Nothing
  <2>1. TAKE i \in SeqNum
  <2>2. CASE i = p.seq /\ p.body = Latest
    <3>1. i \in First..End(w) /\ i \notin 1..(First - 1) /\ Stored(To, p)[i] = Latest
      BY <1>0, <1>4, <1>5, <1>6, <2>2
    <3> QED  BY <3>1
  <2>3. CASE ~(i = p.seq /\ p.body = Latest)
    <3>1. Stored(To, p)[i] = Holding(i)
      BY <1>6, <2>3
    <3> QED  BY <1>4, <3>1 DEF HoldsSome
  <2> QED  BY <2>2, <2>3
<1>13. assembling'[From] = assembling[From]
  BY <1>0, <1>1 DEF ProcessLastWindFrag, ProcessLastFrag
<1>14. Partner'
  BY <1>1, <1>9, <1>13, PartnerKept DEF Progress, Partner
<1>15. Arrivals'
  BY <1>0, <1>1, KeepsArrivals
<1>16. \A c : Answer(To, <<c>>) => net'[From] = <<c>> /\ net'[To] = <<>>
  <2>1. TAKE c
  <2>2. SUFFICES ASSUME Answer(To, <<c>>) PROVE net'[From] = <<c>> /\ net'[To] = <<>>
    OBVIOUS
  <2>3. net'[To] = Tail(net[To]) /\ net'[From] = net[From] \o <<c>>
    BY <1>0, <2>2, AnswerOfTo
  <2> QED  BY <1>0, <1>4, <2>3 DEF Line
<1>17. ASSUME Missing(To, p) # {} PROVE Repairing(w)'
  <2>1. PICK i \in Missing(To, p) : send_tcu_negative_ack(To, i)
    BY <1>1, <1>3, <1>17 DEF EndOfWindow
  <2>2. i \in seq_num[To]..End(w) /\ Stored(To, p)[i] = Nothing
    BY <1>4, <2>1 DEF Missing, Holds
  <2>3. i \in First..End(w)
    <3>1. i \in 1..End(w) /\ i \in SeqNum
      BY <1>0, <1>4, <1>5, <2>2
    <3>2. i \notin 1..(First - 1)
      BY <1>11, <1>12, <2>2, <3>1
    <3> QED  BY <1>5, <3>1, <3>2
  <2>4. Line(<<Control(NegativeAck, i)>>, <<>>)'
    BY <1>16, <2>1 DEF send_tcu_negative_ack, Line, Control
  <2>5. seq_num' = seq_num
    BY <1>1, <1>3, <1>17 DEF EndOfWindow
  <2>6. Holding(i)' = Nothing
    BY <1>7, <2>2 DEF Holding
  <2>7. HoldsSome(End(w))'
    BY <1>7, <1>9, <1>12 DEF HoldsSome, Holding
  <2>8. Awaited'
    <3>1. assembling'[To] = assembling[To]
      BY <1>0, <1>1, <1>3, <1>17 DEF ProcessLastWindFrag, ProcessLastFrag
    <3> QED  BY <1>4, <1>10, <3>1 DEF Awaited
  <2> QED  BY <1>4, <1>7, <1>9, <2>3, <2>4, <2>5, <2>6, <2>7, <2>8 DEF Repairing
<1>18. ASSUME Missing(To, p) = {} PROVE Acked(w)'
  <2>1. send_tcu_positive_ack(To, End(w)) /\ seq_num'[To] = End(w)
    BY <1>0, <1>1, <1>3, <1>4, <1>18 DEF EndOfWindow
  <2>2. net'[From] = <<Control(PositiveAck, End(w))>> /\ net'[To] = <<>>
    BY <1>16, <2>1 DEF send_tcu_positive_ack
  <2>3. \A i \in SeqNum : Stored(To, p)[i] = IF i \in 1..End(w) THEN Latest ELSE Nothing
    <3>1. TAKE i \in SeqNum
    <3>2. CASE i \in First..End(w)
      <4>1. i \in seq_num[To]..Newest(To, p)
        BY <1>4, <1>5, <3>2
      <4>2. Stored(To, p)[i] # Nothing
        BY <1>18, <4>1 DEF Missing, Holds
      <4> QED  BY <1>5, <1>12, <3>2, <4>2
    <3>3. CASE i \notin First..End(w)
      <4>1. i \in 1..End(w) <=> i \in 1..(First - 1)
        BY <1>0, <1>5, <3>3
      <4> QED  BY <1>12, <3>3, <4>1
    <3> QED  BY <3>2, <3>3
  <2>4. HoldsUpTo(End(w))'
    BY <1>7, <1>9, <2>3 DEF HoldsUpTo, Holding
  <2>5. ASSUME End(w) = Length PROVE Ended'
    <3>1. ProcessLastFrag(To, kind)
      BY <1>2, <1>4, <2>5
    <3>2. assembling'[To] = LatestKind
      BY <1>0, <1>3, <1>4, <1>18, <3>1 DEF ProcessLastFrag
    <3>3. HoldsUpTo(Length)'
      BY <1>9, <2>4, <2>5 DEF HoldsUpTo
    <3> QED  BY <1>4, <1>9, <1>10, <3>2, <3>3 DEF Ended, Awaited
  <2>6. ASSUME End(w) # Length PROVE Awaited'
    <3>1. ProcessLastWindFrag(To, kind)
      BY <1>2, <1>4, <2>6
    <3>2. assembling'[To] = assembling[To]
      BY <3>1 DEF ProcessLastWindFrag
    <3> QED  BY <1>4, <1>10, <3>2 DEF Awaited
  <2>7. /\ Line(<<Control(PositiveAck, End(w))>>, <<>>)' /\ seq_num'[To] = End(w)'
        /\ last_num'[To] = End(w)'
    <3>1. Control(PositiveAck, End(w))' = Control(PositiveAck, End(w))
      BY <1>9 DEF Control
    <3> QED  BY <1>7, <1>9, <2>1, <2>2, <3>1 DEF Line
  <2> QED  BY <1>4, <1>9, <2>4, <2>5, <2>6, <2>7 DEF Acked
<1>19. FragmentedStage(w)'
  BY <1>4, <1>9, <1>17, <1>18 DEF FragmentedStage
<1> QED  BY <1>14, <1>15, <1>19 DEF Stage

LEMMA AssembleStep ==
    ASSUME Gentle, Progress, NEW kind \in Kind, Assemble(To, kind)
    PROVE  Stage' /\ Partner' /\ Arrivals'
<1>0. /\ From \in Node /\ To \in Node /\ From # To /\ TypeOK /\ OneSender /\ Arrivals
      /\ received_packets \in [Node -> [SeqNum -> Body]]
      /\ assembling \in [Node -> Kind \cup {"nothing"}]
      /\ Latest \in Nat /\ 1 \in SeqNum
  BY Ends, Shape, NumberFacts DEF Gentle, Progress, TypeOK
<1>1. /\ UNCHANGED <<phase, send_packets, total_num, window_size, cli, seq_num, last_num,
                     ack_received, net, sent, completed>>
      /\ assembling[To] = kind /\ kind # "nothing"
      /\ assembling' = [assembling EXCEPT ![To] = "nothing"]
      /\ received_packets' = [received_packets EXCEPT ![To] = NoFragments]
  BY DEF Assemble, sender, Kind
<1>2. PICK w \in SeqNum : FragmentedStage(w)
  BY <1>1 DEF Progress, Stage, Quiet, SingleStage
<1>3. /\ Cut(w) /\ ((Acked(w) /\ End(w) = Length) \/ Over(w))
      /\ kind = LatestKind /\ HoldsUpTo(Length) /\ ~Handed(Latest)
  BY <1>1, <1>2 DEF FragmentedStage, Ready, InFlight, Repairing, Acked, Over, Awaited, Ended
<1>4. Latest > 0 /\ Length > 1 /\ Length \in SeqNum /\ Length = sent[From][Latest].total
      /\ Cut(w)
  BY <1>0, <1>2, Shape DEF Cut, FragmentedStage
<1> DEFINE a == [kind |-> kind, fragments |-> received_packets[To]]
<1>5. delivered' = [delivered EXCEPT ![To] = Append(@, a)]
  <2>1. ~Spend("save")
    BY <1>0, NoOtherFault DEF Gentle, Fault
  <2> QED  BY <2>1 DEF Assemble, HandToUser
<1>6. NumberOf(a) = Latest /\ IsMessage(a, From, Latest)
  <2>1. \A i \in SeqNum : received_packets[To][i] = IF i \in 1..Length THEN Latest ELSE Nothing
    BY <1>3 DEF HoldsUpTo, Holding
  <2>2. received_packets[To] = [i \in SeqNum |-> IF i \in 1..Length THEN Latest ELSE Nothing]
    BY <1>0, <2>1
  <2>3. received_packets[To][1] = Latest
    <3>1. Length > 1 /\ Length \in SeqNum /\ SeqNum = 0..(SeqModulus - 1) /\ SeqModulus \in Nat
      BY <1>0, <1>4, Shape
    <3>2. 1 \in 1..Length /\ 1 \in SeqNum
      BY <3>1
    <3> QED  BY <2>1, <3>2
  <2> QED  BY <1>3, <1>4, <2>2, <2>3 DEF NumberOf, IsMessage, LatestKind
<1> HIDE DEF a
<1>7. Arrivals' /\ Handed(Latest)' /\ delivered'[From] = delivered[From]
  BY <1>0, <1>1, <1>3, <1>4, <1>5, <1>6, NewArrival
<1>8. assembling'[To] = "nothing" /\ assembling'[From] = assembling[From]
  BY <1>0, <1>1
<1>9. /\ Latest' = Latest /\ LatestKind' = LatestKind /\ First' = First /\ Length' = Length
      /\ Pc' = Pc /\ (GivenUp' <=> GivenUp)
      /\ (Original(w, End(w) + 1)' <=> Original(w, End(w) + 1))
      /\ End(w)' = End(w) /\ (Busy(w)' <=> Busy(w)) /\ (AllSent(w)' <=> AllSent(w))
      /\ (Cut(w)' <=> Cut(w))
  BY <1>1, ReceiverMoves
<1>10. HoldsUpTo(0)'
  <2>1. received_packets'[To] = NoFragments
    BY <1>0, <1>1
  <2>2. \A i \in SeqNum : i \notin 1..0
    OBVIOUS
  <2> QED  BY <2>1, <2>2 DEF HoldsUpTo, Holding, NoFragments
<1>11. Ended'
  BY <1>7, <1>8, <1>10 DEF Ended
<1>12. FragmentedStage(w)'
  <2>1. CASE Acked(w) /\ End(w) = Length
    <3>1. Acked(w)'
      BY <1>1, <1>9, <1>11, <2>1 DEF Acked, Line
    <3> QED  BY <1>4, <1>9, <3>1 DEF FragmentedStage
  <2>2. CASE Over(w)
    <3>1. Over(w)'
      BY <1>1, <1>8, <1>9, <1>11, <2>2 DEF Over, Line
    <3> QED  BY <1>4, <1>9, <3>1 DEF FragmentedStage
  <2> QED  BY <1>3, <2>1, <2>2
<1>13. Partner'
  BY <1>1, <1>7, <1>8, <1>9, PartnerKept DEF Progress, Partner
<1> QED  BY <1>7, <1>12, <1>13 DEF Stage

-----------------------------------------------------------------------------
(* The answers *)

\* What the sender can find at the head of its channel.
LEMMA AnswerArrives ==
    ASSUME Gentle, Progress, net[From] # <<>>
    PROVE  \/ /\ SingleStage /\ Pc = "wait" /\ ~Handed(Latest)
              /\ Line(<<Control(NegativeAck, 1)>>, <<>>)
           \/ /\ SingleStage /\ Pc = "wait" /\ Handed(Latest)
              /\ Line(<<Control(PositiveAck, 1)>>, <<>>)
           \/ \E w \in SeqNum : \E i \in First..End(w) :
                /\ Cut(w) /\ Repairing(w) /\ Holding(i) = Nothing
                /\ Line(<<Control(NegativeAck, i)>>, <<>>)
           \/ \E w \in SeqNum :
                Cut(w) /\ Acked(w) /\ Line(<<Control(PositiveAck, End(w))>>, <<>>)
<1>1. CASE Quiet
  BY <1>1 DEF Quiet, Line
<1>2. CASE SingleStage
  BY <1>2 DEF SingleStage, Line
<1>3. ASSUME NEW w \in SeqNum, FragmentedStage(w)
      PROVE  \/ \E i \in First..End(w) :
                  /\ Cut(w) /\ Repairing(w) /\ Holding(i) = Nothing
                  /\ Line(<<Control(NegativeAck, i)>>, <<>>)
             \/ Cut(w) /\ Acked(w) /\ Line(<<Control(PositiveAck, End(w))>>, <<>>)
  <2>1. ~Ready(w) /\ ~InFlight(w) /\ ~Over(w)
    BY DEF Ready, InFlight, Travelling, Over, Line
  <2>2. CASE Repairing(w)
    BY <1>3, <2>2 DEF FragmentedStage, Repairing, Line
  <2>3. CASE Acked(w)
    BY <1>3, <2>3 DEF FragmentedStage, Acked, Line
  <2> QED  BY <1>3, <2>1, <2>2, <2>3 DEF FragmentedStage
<1> QED  BY <1>1, <1>2, <1>3 DEF Progress, Stage

LEMMA AnswerFlags ==
    ASSUME Gentle, Progress, net[From] # <<>>
    PROVE  Data(From).flags \in {PositiveAck, NegativeAck}
<1>1. \A p : net[From] = <<p>> => Data(From) = p
  BY DEF Data
<1>2. \A f, i : Control(f, i).flags = f
  BY DEF Control
<1>3. \E f \in {PositiveAck, NegativeAck} : \E i : net[From] = <<Control(f, i)>>
  BY AnswerArrives DEF Line
<1> QED  BY <1>1, <1>2, <1>3

\* A fragment asked for again is marked as the end of its window.
LEMMA ReflaggedIs ==
    ASSUME Gentle, Progress, NEW w \in SeqNum, Cut(w), Busy(w), w = window_size[From],
           NEW i \in First..End(w), NEW f \in Reflags(w, i)
    PROVE  /\ Reflagged(From, DataPacket(f, i, Latest)) = Repair(w, i)
           /\ Repair(w, i).flags \in Reflags(w, i)
<1>1. /\ First \in Nat \ {0} /\ First <= Length /\ w \in Nat \ {0} /\ Length \in Nat
      /\ (First - 1) % w = 0
  BY WindowFacts DEF Cut
<1>2. i >= LastStart(Length, w) <=> End(w) = Length
  BY <1>1, WindowNumbers DEF End
<1>3. LastStart(Length, w) \in Int /\ i \in Int
  <2>1. (Length - 1) % w \in Int
    <3>1. Length - 1 \in Nat /\ w \in Nat \ {0}
      BY <1>1
    <3>2. (Length - 1) % w \in 0..(w - 1)
      BY <3>1, Division
    <3> QED  BY <3>1, <3>2
  <2> QED  BY <1>1, <2>1 DEF LastStart
<1>4. last_window_start(From) = LastStart(Length, w)
  BY DEF last_window_start, LastStart, Length
<1> DEFINE p == DataPacket(f, i, Latest)
<1>5. p.seq = i /\ p.flags = f /\ \A g : [p EXCEPT !.flags = g] = DataPacket(g, i, Latest)
  BY DEF DataPacket
<1> HIDE DEF p
<1>6. CASE i >= LastStart(Length, w)
  <2>1. f \in {MoreFrag(LatestKind), LastFrag(LatestKind)}
    BY <1>6 DEF Reflags
  <2>2. f \ {"MF"} = LastFrag(LatestKind)
    BY <2>1 DEF MoreFrag, LastFrag, OfKind
  <2>3. Reflagged(From, p) = DataPacket(f \ {"MF"}, i, Latest)
    <3>1. ~(p.seq < last_window_start(From))
      BY <1>3, <1>4, <1>5, <1>6
    <3>2. Reflagged(From, p) = [p EXCEPT !.flags = p.flags \ {"MF"}]
      BY <3>1 DEF Reflagged
    <3> QED  BY <1>5, <3>2
  <2> QED  BY <1>2, <1>6, <2>2, <2>3 DEF p, Repair, Reflags, DataPacket
<1>7. CASE ~(i >= LastStart(Length, w))
  <2>1. f \in {MoreFrag(LatestKind), LastWindFrag(LatestKind)}
    BY <1>7 DEF Reflags
  <2>2. f \cup {"FIN"} = LastWindFrag(LatestKind)
    BY <2>1 DEF MoreFrag, LastWindFrag, OfKind
  <2>3. Reflagged(From, p) = DataPacket(f \cup {"FIN"}, i, Latest)
    <3>1. p.seq < last_window_start(From)
      BY <1>3, <1>4, <1>5, <1>7
    <3>2. Reflagged(From, p) = [p EXCEPT !.flags = p.flags \cup {"FIN"}]
      BY <3>1 DEF Reflagged
    <3> QED  BY <1>5, <3>2
  <2> QED  BY <1>2, <1>7, <2>2, <2>3 DEF p, Repair, Reflags, DataPacket
<1> QED  BY <1>6, <1>7

LEMMA NegativeAckStep ==
    ASSUME Gentle, Progress, process_tcu_negative_ack(From)
    PROVE  Stage' /\ Partner' /\ Arrivals'
<1>0. /\ From \in Node /\ To \in Node /\ From # To /\ TypeOK /\ OneSender /\ Arrivals
      /\ send_packets \in [Node -> Seq(Packet)] /\ send_packets[From] \in Seq(Packet)
      /\ net[To] \in Seq(Packet) /\ net[From] \in Seq(Packet)
  BY Ends, Shape DEF Gentle, Progress, TypeOK
<1>1. /\ net[From] # <<>> /\ Data(From).flags = NegativeAck /\ ~GivenUp
      /\ UNCHANGED <<phase, received_packets, last_num, assembling, seq_num, total_num,
                     window_size, ack_received, cli, sent, completed, delivered>>
  BY PhaseFacts DEF process_tcu_negative_ack, Receives, receiver, config, history,
     Progress, Partner, GivenUp
<1>2. /\ \A p : net[From] = <<p>> => Data(From) = p
      /\ \A f, i : Control(f, i).flags = f /\ Control(f, i).seq = i
      /\ PositiveAck # NegativeAck
  BY DEF Data, Control, PositiveAck, NegativeAck
<1>3. \A p, c : Line(<<c>>, <<>>) /\ Answer(From, <<p>>) => Line(<<>>, <<p>>)'
  <2>1. SUFFICES ASSUME NEW p, NEW c, Line(<<c>>, <<>>), Answer(From, <<p>>)
                 PROVE  Line(<<>>, <<p>>)'
    OBVIOUS
  <2>2. net'[From] = Tail(net[From]) /\ net'[To] = net[To] \o <<p>>
    BY <1>0, <2>1, AnswerOfFrom
  <2> QED  BY <2>1, <2>2 DEF Line
<1>4. /\ Latest' = Latest /\ LatestKind' = LatestKind /\ First' = First /\ Length' = Length
      /\ Pc' = Pc /\ (GivenUp' <=> GivenUp)
  BY <1>1 DEF Latest, LatestKind, First, Length, Pc, GivenUp
<1>5. /\ Handed(Latest)' <=> Handed(Latest)
      /\ \A h : (HoldsSome(h)' <=> HoldsSome(h)) /\ (HoldsUpTo(h)' <=> HoldsUpTo(h))
  BY <1>1, <1>4 DEF Handed, HoldsSome, HoldsUpTo, Holding
<1>6. Arrivals'
  BY <1>0, <1>1, KeepsArrivals
<1>7. send_packets'[To] = send_packets[To]
  BY <1>0 DEF process_tcu_negative_ack
<1>8. Partner'
  BY <1>1, <1>4, <1>7, PartnerKept DEF Progress, Partner
<1>9. ASSUME SingleStage, Pc = "wait", ~Handed(Latest), Line(<<Control(NegativeAck, 1)>>, <<>>)
      PROVE  Stage'
  <2>1. IsSingle(From) /\ send_packets[From][1] = Whole
    BY <1>9 DEF SingleStage, IsSingle
  <2>2. Answer(From, <<Whole>>) /\ send_packets' = send_packets
    BY <2>1 DEF process_tcu_negative_ack
  <2>3. Line(<<>>, <<Whole>>)'
    <3>2. Whole' = Whole
      BY <1>4 DEF Whole
    <3>3. net'[From] = Tail(net[From]) /\ net'[To] = net[To] \o <<Whole>>
      BY <1>0, <2>2, AnswerOfFrom
    <3> QED  BY <1>9, <3>2, <3>3 DEF Line
  <2>4. SingleStage'
    <3>1. Whole' = Whole
      BY <1>4 DEF Whole
    <3> QED  BY <1>1, <1>4, <1>5, <1>9, <2>2, <2>3, <3>1 DEF SingleStage
  <2> QED  BY <2>4 DEF Stage
<1>10. ASSUME NEW w \in SeqNum, NEW i \in First..End(w), Cut(w), Repairing(w),
              Holding(i) = Nothing, Line(<<Control(NegativeAck, i)>>, <<>>)
       PROVE  Stage'
  <2>1. /\ First \in Nat \ {0} /\ First <= Length /\ w \in Nat \ {0} /\ Length \in Nat
        /\ End(w) \in First..Length /\ Busy(w)
    BY <1>10, WindowFacts DEF Repairing
  <2>2. w = window_size[From] /\ Len(send_packets[From]) = Length /\ Length > 1
    BY <1>1, <1>10 DEF Cut
  <2>3. i \in 1..Length /\ DOMAIN send_packets[From] = 1..Length
    BY <1>0, <1>10, <2>1, <2>2
  <2>4. PICK f \in Reflags(w, i) : send_packets[From][i] = DataPacket(f, i, Latest)
    BY <1>10, <2>3 DEF Cut
  <2>5. /\ Reflagged(From, DataPacket(f, i, Latest)) = Repair(w, i)
        /\ Repair(w, i).flags \in Reflags(w, i)
    BY <1>10, <2>1, <2>2, ReflaggedIs
  <2>6. /\ send_packets' = [send_packets EXCEPT ![From][i] = Repair(w, i)]
        /\ Answer(From, <<Repair(w, i)>>)
    <3>1. ~IsSingle(From) /\ Data(From).seq = i
      BY <1>2, <1>10, <2>2 DEF IsSingle, Line
    <3> QED  BY <2>3, <2>4, <2>5, <3>1 DEF process_tcu_negative_ack
  <2>7. /\ send_packets'[From] = [send_packets[From] EXCEPT ![i] = Repair(w, i)]
        /\ Len(send_packets'[From]) = Length
        /\ send_packets'[From][i] = Repair(w, i)
        /\ \A j \in 1..Length : j # i => send_packets'[From][j] = send_packets[From][j]
    <3>1. send_packets'[From] = [send_packets[From] EXCEPT ![i] = Repair(w, i)]
      BY <1>0, <2>6
    <3>2. Len(send_packets'[From]) = Length
      BY <1>0, <2>2, <3>1
    <3> QED  BY <1>0, <2>2, <2>3, <3>1, <3>2
  <2>8. /\ End(w)' = End(w) /\ (Busy(w)' <=> Busy(w)) /\ NextSeq(w)' = NextSeq(w)
        /\ \A j : /\ Repair(w, j)' = Repair(w, j) /\ Fragment(w, j)' = Fragment(w, j)
                  /\ Reflags(w, j)' = Reflags(w, j)
    <3>1. End(w)' = End(w)
      BY <1>4 DEF End
    <3> QED  BY <1>1, <1>4, <3>1 DEF Busy, NextSeq, Repair, Fragment, Reflags
  <2>9. Cut(w)'
    <3>1. ASSUME NEW j \in 1..Length
          PROVE  \E g \in Reflags(w, j) : send_packets'[From][j] = DataPacket(g, j, Latest)
      <4>1. CASE j = i
        <5>1. Repair(w, i) = DataPacket(Repair(w, i).flags, i, Latest)
          BY DEF Repair, DataPacket
        <5> QED  BY <2>5, <2>7, <4>1, <5>1
      <4>2. CASE j # i
        BY <1>10, <2>7, <4>2 DEF Cut
      <4> QED  BY <4>1, <4>2
    <3>2. (\A j \in 1..Length : \E g \in Reflags(w, j) :
              send_packets[From][j] = DataPacket(g, j, Latest))'
      BY <1>4, <2>8, <3>1
    <3> QED  BY <1>1, <1>4, <1>10, <2>7, <3>2 DEF Cut
  <2>10. Original(w, End(w) + 1)'
    <3>1. Original(w, End(w) + 1)
      BY <1>10 DEF Repairing
    <3>2. \A j \in (End(w) + 1)..Length : send_packets'[From][j] = Fragment(w, j)
      BY <1>10, <2>1, <2>7, <3>1 DEF Original
    <3> QED  BY <1>4, <2>8, <3>2 DEF Original
  <2>11. Repairing(w)'
    <3>1. Line(<<>>, <<Repair(w, i)>>)'
      <4>1. net'[From] = Tail(net[From]) /\ net'[To] = net[To] \o <<Repair(w, i)>>
        BY <1>0, <2>6, AnswerOfFrom
      <4> QED  BY <1>10, <2>8, <4>1 DEF Line
    <3>2. Holding(i)' = Nothing /\ i \in First'..End(w)'
      BY <1>1, <1>4, <1>10, <2>8 DEF Holding
    <3>3. AllSent(w)' /\ Awaited' /\ HoldsSome(End(w))'
      <4>1. HoldsSome(End(w))'
        BY <1>1, <1>4, <1>10, <2>8 DEF HoldsSome, Holding, Repairing
      <4> QED  BY <1>1, <1>4, <1>5, <1>10, <2>8, <4>1 DEF AllSent, Awaited, Repairing
    <3>4. (seq_num[To] \in 1..First /\ last_num[To] = End(w))'
      BY <1>1, <1>4, <1>10, <2>8 DEF Repairing
    <3> QED  BY <2>1, <2>8, <2>10, <3>1, <3>2, <3>3, <3>4 DEF Repairing
  <2> QED  BY <2>9, <2>11 DEF Stage, FragmentedStage
<1>11. \A c : Line(<<c>>, <<>>) => c.flags = NegativeAck
  BY <1>1, <1>2 DEF Line
<1>12. Stage'
  BY <1>1, <1>2, <1>9, <1>10, <1>11, AnswerArrives
<1> QED  BY <1>6, <1>8, <1>12

LEMMA PositiveAckStep ==
    ASSUME Gentle, Progress, process_tcu_positive_ack(From)
    PROVE  Stage' /\ Partner' /\ Arrivals'
<1>0. /\ From \in Node /\ To \in Node /\ From # To /\ TypeOK /\ OneSender /\ Arrivals
      /\ seq_num \in [Node -> SeqNum] /\ ack_received \in [Node -> BOOLEAN]
      /\ net[To] \in Seq(Packet) /\ net[From] \in Seq(Packet)
      /\ SeqModulus \in Nat /\ SeqNum = 0..(SeqModulus - 1)
  BY Ends, Shape DEF Gentle, Progress, TypeOK
<1>1. /\ net[From] # <<>> /\ Data(From).flags = PositiveAck /\ ~GivenUp
      /\ UNCHANGED <<phase, send_packets, received_packets, last_num, assembling, total_num,
                     window_size, cli, sent, completed, delivered>>
      /\ Answer(From, <<>>)
  BY PhaseFacts DEF process_tcu_positive_ack, Receives, receiver, sender, history,
     Progress, Partner, GivenUp
<1>2. /\ \A p : net[From] = <<p>> => Data(From) = p
      /\ \A f, i : Control(f, i).flags = f
      /\ PositiveAck # NegativeAck
  BY DEF Data, Control, PositiveAck, NegativeAck
<1>3. \A c : Line(<<c>>, <<>>) => Line(<<>>, <<>>)' /\ c.flags = PositiveAck
  <2>1. SUFFICES ASSUME NEW c, Line(<<c>>, <<>>) PROVE Line(<<>>, <<>>)' /\ c.flags = PositiveAck
    OBVIOUS
  <2>2. net'[From] = Tail(net[From]) /\ net'[To] = net[To] \o <<>>
    BY <1>0, <1>1, AnswerOfFrom
  <2> QED  BY <1>1, <1>2, <2>1, <2>2 DEF Line
<1>4. /\ Latest' = Latest /\ LatestKind' = LatestKind /\ Length' = Length
      /\ Pc' = Pc /\ (GivenUp' <=> GivenUp) /\ Whole' = Whole
  BY <1>1 DEF Latest, LatestKind, Length, Pc, GivenUp, Whole
<1>5. /\ First' = Plus(First, window_size[From]) /\ seq_num'[To] = seq_num[To]
      /\ ack_received'[From]
  BY <1>0 DEF process_tcu_positive_ack, First
<1>6. /\ Handed(Latest)' <=> Handed(Latest)
      /\ \A h : HoldsUpTo(h)' <=> HoldsUpTo(h)
  BY <1>1, <1>4 DEF Handed, HoldsUpTo, Holding
<1>7. Arrivals'
  BY <1>0, <1>1, KeepsArrivals
<1>8. Partner'
  BY <1>1, <1>4, PartnerKept DEF Progress, Partner
<1>9. ASSUME SingleStage, Pc = "wait", Handed(Latest), Line(<<Control(PositiveAck, 1)>>, <<>>)
      PROVE  Stage'
  <2>1. Line(<<>>, <<>>)'
    BY <1>3, <1>9
  <2>2. SingleStage'
    BY <1>1, <1>4, <1>5, <1>6, <1>9, <2>1 DEF SingleStage
  <2> QED  BY <2>2 DEF Stage
<1>10. ASSUME NEW w \in SeqNum, Cut(w), Acked(w), Line(<<Control(PositiveAck, End(w))>>, <<>>)
       PROVE  Stage'
  <2>1. /\ First \in Nat \ {0} /\ First <= Length /\ w \in Nat \ {0} /\ Length \in Nat
        /\ First + w < SeqModulus /\ End(w) \in First..Length
        /\ End(w) # Length => End(w) = First + w - 1
        /\ Pc # "idle" => Plus(First, window_size[From]) = First + w
    BY <1>10, WindowFacts DEF Acked
  <2>2. Pc # "idle" /\ w = window_size[From]
    BY <1>1, <1>10 DEF Cut
  <2>3. First' = First + w
    BY <1>5, <2>1, <2>2
  <2>4. Line(<<>>, <<>>)'
    BY <1>3, <1>10
  <2>5. Pc = "window" => cli[From].seq = End(w) + 1
    BY <1>10 DEF Acked, AllSent, NextSeq
  <2>6. Pc # "loop"
    BY <1>1, <1>10 DEF Acked, AllSent
  <2>7. (First' <= Length => (First' - 1) % w = 0) => Cut(w)'
    <3>1. \A i : Reflags(w, i)' = Reflags(w, i)
      BY <1>4 DEF Reflags
    <3>2. First' > 0
      BY <2>1, <2>3
    <3> QED  BY <1>1, <1>4, <1>10, <2>2, <3>1, <3>2 DEF Cut
  <2>8. CASE End(w) = Length
    <3>1. First' > Length
      BY <2>1, <2>3, <2>8 DEF End, WindowEnd
    <3>2. Ended'
      BY <1>1, <1>4, <1>6, <1>10, <2>8 DEF Acked, Ended
    <3>3. Over(w)'
      BY <1>1, <1>4, <1>5, <2>1, <2>4, <2>5, <2>6, <2>8, <3>1, <3>2 DEF Over
    <3>4. Cut(w)'
      <4>1. Length \in Nat /\ First' \in Nat
        BY <2>1, <2>3
      <4> QED  BY <2>7, <3>1, <4>1
    <3> QED  BY <3>3, <3>4 DEF Stage, FragmentedStage
  <2>9. CASE End(w) # Length
    <3>1. First' = End(w) + 1 /\ First' <= Length
      BY <2>1, <2>3, <2>9
    <3>2. (First - 1) % w = 0
      BY <1>10, <2>1 DEF Cut
    <3>3. (First' - 1) % w = 0
      <4>1. (First + w - 1) % w = 0
        BY <2>1, <3>2, WindowNumbers
      <4>2. First' - 1 = First + w - 1
        BY <2>1, <2>3
      <4> QED  BY <4>1, <4>2
    <3>4. Cut(w)'
      BY <2>7, <3>3
    <3>5. Original(w, First)'
      <4>1. \A i : Fragment(w, i)' = Fragment(w, i)
        BY <1>4 DEF Fragment
      <4> QED  BY <1>1, <1>4, <1>10, <3>1, <4>1 DEF Original, Acked
    <3>6. HoldsUpTo(First - 1)' /\ Awaited'
      <4>1. HoldsUpTo(End(w)) /\ Awaited
        BY <1>10, <2>9 DEF Acked
      <4>2. First' - 1 = End(w)
        BY <2>1, <3>1
      <4> QED  BY <1>1, <1>4, <1>6, <4>1, <4>2 DEF HoldsUpTo, Holding, Awaited
    <3>7. Synced'
      <4>1. seq_num'[To] = End(w) /\ last_num'[To] = End(w)
        BY <1>1, <1>5, <1>10 DEF Acked
      <4> QED  BY <2>1, <3>1, <4>1 DEF Synced
    <3>8. Ready(w)'
      BY <1>1, <1>4, <2>4, <2>5, <3>1, <3>5, <3>6, <3>7 DEF Ready
    <3> QED  BY <3>4, <3>8 DEF Stage, FragmentedStage
  <2> QED  BY <2>8, <2>9
<1>11. Stage'
  BY <1>1, <1>2, <1>3, <1>9, <1>10, AnswerArrives
<1> QED  BY <1>7, <1>8, <1>11

\* Once the message is given up, the answers come to nothing.
LEMMA IgnoreStep ==
    ASSUME Gentle, Progress, Ignore(From)
    PROVE  Stage' /\ Partner' /\ Arrivals'
<1>0. /\ From \in Node /\ To \in Node /\ From # To /\ TypeOK /\ OneSender /\ Arrivals
      /\ net[To] \in Seq(Packet) /\ net[From] \in Seq(Packet)
  BY Ends, Shape DEF Gentle, Progress, TypeOK
<1>1. /\ net[From] # <<>> /\ Answer(From, <<>>)
      /\ UNCHANGED held
      /\ UNCHANGED <<phase, window_size, cli, ack_received, completed>>
  BY DEF Ignore, held, sender, receiver, history
<1>2. GivenUp
  <2>1. Data(From).flags # DisconnAck
    BY <1>1, AnswerFlags DEF PositiveAck, NegativeAck, DisconnAck
  <2> QED  BY <2>1, PhaseFacts DEF Ignore, Progress, Partner, GivenUp
<1>3. /\ Pc' = Pc /\ GivenUp' /\ \A w : (NextSeq(w)' = NextSeq(w) /\ End(w)' = End(w))
  <2>1. \A w : End(w)' = End(w)
    BY <1>1, Unmoved
  <2> QED  BY <1>1, <1>2, <2>1 DEF Pc, GivenUp, NextSeq
<1>4. \A c : Line(<<c>>, <<>>) => Line(<<>>, <<>>)'
  <2>1. SUFFICES ASSUME NEW c, Line(<<c>>, <<>>) PROVE Line(<<>>, <<>>)'
    OBVIOUS
  <2>2. net'[From] = Tail(net[From]) /\ net'[To] = net[To] \o <<>>
    BY <1>0, <1>1, AnswerOfFrom
  <2> QED  BY <2>1, <2>2 DEF Line
<1>5. ASSUME NEW w \in SeqNum, Cut(w), Repairing(w), Line(<<>>, <<>>)' PROVE Stage'
  <2>1. Cut(w)'
    BY <1>1, <1>3, <1>5, CutKept DEF Cut
  <2>2. /\ First' = First /\ (Busy(w)' <=> Busy(w)) /\ (Awaited' <=> Awaited)
        /\ (Original(w, End(w) + 1)' <=> Original(w, End(w) + 1))
    BY <1>1, Unmoved
  <2>3. HoldsSome(End(w))' <=> HoldsSome(End(w))
    <3>1. Latest' = Latest
      BY <1>1, Unmoved
    <3> QED  BY <1>1, <1>3, <2>2, <3>1 DEF HoldsSome, Holding, held
  <2>4. AllSent(w)'
    BY <1>3, <1>5 DEF AllSent, Repairing
  <2>5. Repairing(w)'
    BY <1>1, <1>3, <1>5, <2>2, <2>3, <2>4 DEF Repairing, held, Holding
  <2> QED  BY <2>1, <2>5 DEF Stage, FragmentedStage
<1>6. ASSUME NEW w \in SeqNum, Cut(w), Acked(w), Line(<<>>, <<>>)' PROVE Stage'
  <2>1. Cut(w)'
    BY <1>1, <1>3, <1>6, CutKept DEF Cut
  <2>2. /\ Length' = Length /\ (Busy(w)' <=> Busy(w)) /\ (Awaited' <=> Awaited)
        /\ (Ended' <=> Ended) /\ Latest' = Latest
        /\ (Original(w, End(w) + 1)' <=> Original(w, End(w) + 1))
    BY <1>1, Unmoved
  <2>3. HoldsUpTo(End(w))' <=> HoldsUpTo(End(w))
    BY <1>1, <1>3, <2>2 DEF HoldsUpTo, Holding, held
  <2>4. AllSent(w)'
    BY <1>3, <1>6 DEF AllSent, Acked
  <2>5. Acked(w)'
    BY <1>1, <1>3, <1>6, <2>2, <2>3, <2>4 DEF Acked, held
  <2> QED  BY <2>1, <2>5 DEF Stage, FragmentedStage
<1>7. Stage'
  BY <1>1, <1>2, <1>4, <1>5, <1>6, AnswerArrives DEF SingleStage
<1>8. Partner'
  BY <1>1, <1>2, <1>3, PartnerKept DEF held, Progress, Partner
<1>9. Arrivals'
  BY <1>1, KeepsArrivals DEF held, Progress
<1> QED  BY <1>7, <1>8, <1>9

-----------------------------------------------------------------------------
(* The invariant *)

LEMMA ArrivingFlags ==
    ASSUME Gentle, Progress, net[To] # <<>>, assembling[To] = "nothing"
    PROVE  Data(To).flags \notin {PositiveAck, NegativeAck, DisconnReq, DisconnAck}
<1>0. OneSender /\ TypeOK
  BY DEF Gentle, Progress
<1>1. \E k \in Kind : Data(To).flags \in {Single(k), MoreFrag(k), LastWindFrag(k), LastFrag(k)}
  <2>1. CASE SingleStage /\ Data(To) \in {Whole, Corrupted(Whole)}
    <3>1. Data(To).flags = Single(LatestKind)
      BY <2>1 DEF Whole, Corrupted, DataPacket
    <3> QED  BY <1>0, <2>1, <3>1, LatestFacts DEF SingleStage
  <2>2. ASSUME NEW w \in SeqNum, NEW a, Cut(w),
               Data(To) \in {Fragment(w, a), Corrupted(Fragment(w, a))}
        PROVE  \E k \in Kind :
                 Data(To).flags \in {Single(k), MoreFrag(k), LastWindFrag(k), LastFrag(k)}
    <3>1. Data(To).flags = FragmentFlags(a, Length, w, LatestKind)
      BY <2>2 DEF Fragment, Corrupted, DataPacket
    <3>2. LatestKind \in Kind
      BY <1>0, <2>2, LatestFacts DEF Cut
    <3> QED  BY <3>1, <3>2 DEF FragmentFlags
  <2>3. ASSUME NEW w \in SeqNum, NEW i, Cut(w), Data(To) = Repair(w, i)
        PROVE  \E k \in Kind :
                 Data(To).flags \in {Single(k), MoreFrag(k), LastWindFrag(k), LastFrag(k)}
    <3>1. Data(To).flags \in {LastFrag(LatestKind), LastWindFrag(LatestKind)}
      BY <2>3 DEF Repair, DataPacket
    <3>2. LatestKind \in Kind
      BY <1>0, <2>3, LatestFacts DEF Cut
    <3> QED  BY <3>1, <3>2
  <2> QED  BY <2>1, <2>2, <2>3, Arriving
<1> QED  BY <1>1, FlagsDiffer

LEMMA ProgressInit ==
    ASSUME Gentle, Init PROVE Progress
<1>0. From \in Node /\ To \in Node /\ From # To
  BY Ends DEF Gentle
<1>1. TypeOK
  BY TypeInit
<1>2. Setting
  BY <1>0 DEF Init, Setting
<1>3. Partner
  BY <1>0 DEF Init, Partner, GivenUp, Pc
<1>4. Arrivals
  BY <1>0 DEF Init, Arrivals
<1>5. Quiet
  <2>1. Latest = 0 /\ Pc = "idle" /\ ~GivenUp /\ Line(<<>>, <<>>)
    BY <1>0 DEF Init, Latest, Pc, GivenUp, Line, HOLDOFF, NETWORK
  <2>2. HoldsUpTo(0)
    <3>1. \A i \in SeqNum : i \notin 1..0
      OBVIOUS
    <3>2. received_packets[To] = NoFragments
      BY <1>0 DEF Init
    <3> QED  BY <3>1, <3>2 DEF HoldsUpTo, Holding, NoFragments
  <2>3. seq_num[To] = 1 /\ last_num[To] = 0 /\ assembling[To] = "nothing"
        /\ send_packets[From] = <<>>
    BY <1>0 DEF Init
  <2> QED  BY <2>1, <2>2, <2>3 DEF Quiet
<1> QED  BY <1>1, <1>2, <1>3, <1>4, <1>5 DEF Progress, Stage

LEMMA ReceiverStep ==
    ASSUME Gentle, Progress, Receiving(To)
    PROVE  Stage' /\ Partner' /\ Arrivals'
<1>1. \A kind \in Kind : /\ ~ProcessSingle(To, kind) \/ (Stage' /\ Partner' /\ Arrivals')
                         /\ ~ProcessMoreFrag(To, kind) \/ (Stage' /\ Partner' /\ Arrivals')
                         /\ ~ProcessLastWindFrag(To, kind) \/ (Stage' /\ Partner' /\ Arrivals')
                         /\ ~ProcessLastFrag(To, kind) \/ (Stage' /\ Partner' /\ Arrivals')
                         /\ ~Assemble(To, kind) \/ (Stage' /\ Partner' /\ Arrivals')
  BY ProcessSingleStep, ProcessMoreFragStep, EndOfWindowStep, AssembleStep
<1>2. "text" \in Kind /\ "file" \in Kind
  BY DEF Kind
<1>3. ~process_tcu_negative_ack(To) /\ ~process_tcu_positive_ack(To)
  BY ArrivingFlags DEF process_tcu_negative_ack, process_tcu_positive_ack, Receives
<1>4. ~process_tcu_disconn_req(To)
  BY ArrivingFlags DEF process_tcu_disconn_req, Receives
<1>5. ~Ignore(To)
  BY ArrivingFlags, PhaseFacts DEF Ignore, Progress, Partner
<1> QED
  BY <1>1, <1>2, <1>3, <1>4, <1>5
     DEF Receiving, process_tcu_single_text,
         process_tcu_single_file, process_tcu_more_frag_text, process_tcu_more_frag_file,
         process_tcu_last_wind_frag_text, process_tcu_last_wind_frag_file,
         process_tcu_last_frag_text, process_tcu_last_frag_file, assemble_text, assemble_file

LEMMA AnswerStep ==
    ASSUME Gentle, Progress, Receiving(From)
    PROVE  /\ Stage' /\ Partner' /\ Arrivals'
           /\ process_tcu_negative_ack(From) \/ process_tcu_positive_ack(From) \/ Ignore(From)
<1>1. ASSUME NEW kind \in Kind
      PROVE  /\ ~ProcessSingle(From, kind) /\ ~ProcessMoreFrag(From, kind)
             /\ ~ProcessLastWindFrag(From, kind) /\ ~ProcessLastFrag(From, kind)
             /\ ~Assemble(From, kind)
  <2>1. /\ ~ProcessSingle(From, kind) /\ ~ProcessMoreFrag(From, kind)
        /\ ~ProcessLastWindFrag(From, kind) /\ ~ProcessLastFrag(From, kind)
    BY AnswerFlags, FlagsDiffer DEF ProcessSingle, ProcessMoreFrag, ProcessLastWindFrag,
       ProcessLastFrag, Receives
  <2>2. ~Assemble(From, kind)
    BY DEF Assemble, Progress, Partner, Kind
  <2> QED  BY <2>1, <2>2
<1>2. "text" \in Kind /\ "file" \in Kind
  BY DEF Kind
<1>3. ~process_tcu_disconn_req(From)
  BY AnswerFlags DEF process_tcu_disconn_req, Receives, DisconnReq, PositiveAck, NegativeAck
<1>4. process_tcu_negative_ack(From) \/ process_tcu_positive_ack(From) \/ Ignore(From)
  BY <1>1, <1>2, <1>3
     DEF Receiving, process_tcu_single_text,
         process_tcu_single_file, process_tcu_more_frag_text, process_tcu_more_frag_file,
         process_tcu_last_wind_frag_text, process_tcu_last_wind_frag_file,
         process_tcu_last_frag_text, process_tcu_last_frag_file, assemble_text, assemble_file
<1> QED  BY <1>4, NegativeAckStep, PositiveAckStep, IgnoreStep

LEMMA CannotReadStep ==
    ASSUME Gentle, Progress, CannotRead(From)
    PROVE  Stage' /\ Partner' /\ Arrivals'
<1>0. /\ From \in Node /\ To \in Node /\ From # To
      /\ send_packets \in [Node -> Seq(Packet)] /\ seq_num \in [Node -> SeqNum]
  BY Ends DEF Gentle, Progress, TypeOK
<1>1. Quiet
  BY SendsWhenQuiet DEF CannotRead
<1>2. /\ send_packets'[From] = <<>> /\ send_packets'[To] = send_packets[To]
      /\ seq_num'[To] = seq_num[To]
      /\ UNCHANGED <<phase, cli, net, received_packets, last_num, assembling, sent,
                     delivered, completed>>
  BY <1>0 DEF CannotRead, receiver, history
<1>3. Arrivals'
  BY <1>2, KeepsArrivals DEF Progress
<1>4. Partner'
  BY <1>1, <1>2, PartnerKept DEF Progress, Partner, Quiet, GivenUp, Pc
<1>5. /\ Latest' = Latest /\ (Handed(Latest)' <=> Handed(Latest))
      /\ HoldsUpTo(0)' <=> HoldsUpTo(0)
  BY <1>2 DEF Latest, Handed, NumberOf, HoldsUpTo, Holding
<1>6. Quiet'
  BY <1>1, <1>2, <1>5 DEF Quiet, Pc, GivenUp, Line
<1> QED  BY <1>3, <1>4, <1>6 DEF Stage

LEMMA CommandStep ==
    ASSUME Gentle, Progress, User(From) \/ Sending(From)
    PROVE  Stage' /\ Partner' /\ Arrivals'
<1>1. CASE Sending(From)
  BY <1>1, NextWindowStep, SendFragmentStep, EndWindowStep, AckSeenStep, TimeoutStep,
     GiveUpStep, EndSendStep DEF Sending
<1>2. ASSUME NEW kind \in Kind, SendSingle(From, kind) \/ SendFragmented(From, kind)
      PROVE  Stage' /\ Partner' /\ Arrivals'
  BY <1>2, SendSingleStep, SendFragmentedStep
<1>3. "text" \in Kind /\ "file" \in Kind
  BY DEF Kind
<1>4. CASE User(From)
  BY <1>2, <1>3, <1>4, SettingsStep, CannotReadStep DEF User, send_text, send_file
<1> QED  BY <1>1, <1>4

\* Who can take a step.
LEMMA Actors ==
    ASSUME Gentle, Progress, Next
    PROVE  User(From) \/ Sending(From) \/ Receiving(From) \/ Receiving(To)
<1>0. Sender \subseteq {From} /\ Node = {From, To} /\ From # To
  BY Ends DEF Gentle
<1>1. ~User(To)
  BY <1>0 DEF User, set_window_size, set_dynamic_window, send_text, send_file, SendSingle,
     SendFragmented, CannotRead, MaySend, Idle
<1>2. ~Sending(To)
  <2>1. cli[To].pc = "idle"
    BY DEF Progress, Partner
  <2> QED
    BY <2>1 DEF Sending, NextWindow, SendFragment, EndWindow, AckSeen, Timeout, GiveUp, EndSend
<1>3. ASSUME NEW n \in Node PROVE ~NetworkFault(n)
  <2>1. ~Spend("lose") /\ ~Spend("duplicate") /\ ~Spend("reorder")
    BY NoOtherFault DEF Gentle, Progress, Fault
  <2> QED  BY <2>1 DEF NetworkFault, Lose, Duplicate, Overtake
<1> QED  BY <1>0, <1>1, <1>2, <1>3 DEF Next

LEMMA ProgressUnchanged ==
    ASSUME Progress, UNCHANGED vars PROVE Stage' /\ Partner' /\ Arrivals'
<1>1. /\ UNCHANGED held
      /\ UNCHANGED <<net, phase, cli, window_size, ack_received, completed>>
  BY DEF vars, held
<1>2. Partner'
  BY <1>1, PartnerKept DEF Progress, Partner, GivenUp, Pc, held
<1>3. Arrivals'
  BY <1>1, KeepsArrivals DEF Progress, held
<1>4. Pc' = Pc /\ (GivenUp' <=> GivenUp) /\ \A w : NextSeq(w)' = NextSeq(w)
  <2>1. \A w : End(w)' = End(w)
    BY <1>1, Unmoved
  <2> QED  BY <1>1, <2>1 DEF Pc, GivenUp, NextSeq
<1>5. /\ Latest' = Latest /\ (Handed(Latest)' <=> Handed(Latest)) /\ First' = First
      /\ (HoldsUpTo(0)' <=> HoldsUpTo(0)) /\ Whole' = Whole /\ Length' = Length
  BY <1>1, Unmoved
<1>6. CASE Quiet
  <2>1. Quiet'
    BY <1>1, <1>4, <1>5, <1>6 DEF Quiet, held, Line
  <2> QED  BY <1>2, <1>3, <2>1 DEF Stage
<1>7. CASE SingleStage
  <2>1. SingleStage'
    BY <1>1, <1>4, <1>5, <1>7 DEF SingleStage, held, Line
  <2> QED  BY <1>2, <1>3, <2>1 DEF Stage
<1>8. ASSUME NEW w \in SeqNum, FragmentedStage(w) PROVE FragmentedStage(w)'
  <2>1. Cut(w)'
    BY <1>1, <1>4, <1>8, CutKept DEF FragmentedStage, Cut
  <2>2. CASE Ready(w)
    <3>1. (Pc = "window" => cli[From].seq = First)'
      BY <1>1, <1>4, <1>5, <2>2 DEF Ready
    <3> QED  BY <1>1, <2>1, <2>2, <3>1, ReadyKept DEF FragmentedStage
  <2>3. CASE InFlight(w)
    <3>1. (Pc = "loop" => GivenUp)'
      BY <1>4, <2>3 DEF InFlight
    <3> QED  BY <1>1, <1>4, <2>1, <2>3, <3>1, InFlightKept DEF FragmentedStage
  <2>4. CASE Repairing(w)
    <3>1. (Pc = "loop" => GivenUp)'
      BY <1>4, <2>4 DEF Repairing, AllSent
    <3> QED  BY <1>1, <1>4, <2>1, <2>4, <3>1, RepairingKept DEF FragmentedStage
  <2>5. CASE Acked(w)
    <3>1. (Pc = "loop" => GivenUp)'
      BY <1>4, <2>5 DEF Acked, AllSent
    <3> QED  BY <1>1, <1>4, <2>1, <2>5, <3>1, AckedKept DEF FragmentedStage
  <2>6. CASE Over(w)
    <3>1. Over(w)'
      BY <1>1, <1>4, <1>5, <2>6, OverKept DEF Over, held
    <3> QED  BY <2>1, <3>1 DEF FragmentedStage
  <2> QED  BY <1>8, <2>2, <2>3, <2>4, <2>5, <2>6 DEF FragmentedStage
<1> QED  BY <1>2, <1>3, <1>6, <1>7, <1>8 DEF Progress, Stage

LEMMA ProgressStep ==
    ASSUME Gentle, Progress, [Next]_vars PROVE Progress'
<1>1. TypeOK' /\ Setting'
  BY TypeStep, SettingAlways DEF Progress
<1>2. Stage' /\ Partner' /\ Arrivals'
  BY Actors, CommandStep, AnswerStep, ReceiverStep, ProgressUnchanged
<1> QED  BY <1>1, <1>2 DEF Progress

\* With one sender, bit errors and lost windows only, the message under way is
\* always in one of the stages.
THEOREM ProgressAlways ==
    ASSUME Gentle PROVE Spec => []Progress
<1>1. Init => Progress
  BY ProgressInit
<1>2. Progress /\ [Next]_vars => Progress'
  BY ProgressStep
<1> QED  BY <1>1, <1>2, PTL DEF Spec

-----------------------------------------------------------------------------
(* What follows for the users *)

\* A message being assembled is the one under way, whole.
LEMMA BeingAssembled ==
    ASSUME Gentle, Progress, assembling[To] # "nothing"
    PROVE  LET a == [kind |-> assembling[To], fragments |-> received_packets[To]]
           IN  /\ Latest > 0 /\ ~Handed(Latest)
               /\ NumberOf(a) = Latest /\ IsMessage(a, From, Latest)
<1> DEFINE a == [kind |-> assembling[To], fragments |-> received_packets[To]]
<1>0. /\ TypeOK /\ OneSender /\ received_packets[To] \in [SeqNum -> Body] /\ 1 \in SeqNum
  BY Shape, NumberFacts DEF Gentle, Progress
<1>1. PICK w \in SeqNum : FragmentedStage(w)
  BY DEF Progress, Stage, Quiet, SingleStage
<1>2. /\ Latest > 0 /\ Length > 1 /\ Length = sent[From][Latest].total
  BY <1>1 DEF Cut, FragmentedStage
<1>3. assembling[To] = LatestKind /\ HoldsUpTo(Length) /\ ~Handed(Latest)
  BY <1>1 DEF FragmentedStage, Ready, InFlight, Repairing, Acked, Over, Awaited, Ended
<1>4. \A i \in SeqNum : received_packets[To][i] = IF i \in 1..Length THEN Latest ELSE Nothing
  BY <1>3 DEF HoldsUpTo, Holding
<1>5. received_packets[To] = [i \in SeqNum |-> IF i \in 1..Length THEN Latest ELSE Nothing]
  BY <1>0, <1>4
<1>6. received_packets[To][1] = Latest
  <2>1. Length \in Nat
    BY <1>0, Shape
  <2>2. 1 \in 1..Length
    BY <1>2, <2>1
  <2> QED  BY <1>0, <1>4, <2>2
<1> QED  BY <1>2, <1>3, <1>5, <1>6 DEF NumberOf, IsMessage, LatestKind

\* The user's messages, the one being assembled included, come in the order in
\* which they were sent.
LEMMA HandedOverFacts ==
    ASSUME Gentle, Progress
    PROVE  /\ HandedOver(From) = <<>>
           /\ DOMAIN HandedOver(To) = 1..Len(HandedOver(To)) /\ Len(HandedOver(To)) \in Nat
           /\ \A i \in DOMAIN HandedOver(To) : Arrived(HandedOver(To)[i])
           /\ \A i, j \in DOMAIN HandedOver(To) :
                i < j => NumberOf(HandedOver(To)[i]) < NumberOf(HandedOver(To)[j])
           /\ \A i \in DOMAIN delivered[To] :
                i \in DOMAIN HandedOver(To) /\ HandedOver(To)[i] = delivered[To][i]
<1>0. /\ TypeOK /\ OneSender /\ Arrivals /\ delivered[To] \in Seq(Arrival) /\ Latest \in Nat
      /\ DOMAIN sent[From] = 1..Latest
  BY Shape DEF Gentle, Progress, Latest
<1>1. HandedOver(From) = <<>>
  BY DEF Progress, Partner, HandedOver
<1>2. CASE assembling[To] = "nothing"
  <2>1. HandedOver(To) = delivered[To]
    BY <1>2 DEF HandedOver
  <2> QED  BY <1>0, <1>1, <2>1 DEF Arrivals
<1>3. CASE assembling[To] # "nothing"
  <2> DEFINE a == [kind |-> assembling[To], fragments |-> received_packets[To]]
             l == Len(delivered[To])
  <2>1. /\ Latest > 0 /\ ~Handed(Latest) /\ NumberOf(a) = Latest /\ IsMessage(a, From, Latest)
    BY <1>3, BeingAssembled
  <2>2. HandedOver(To) = Append(delivered[To], a)
    BY <1>3 DEF HandedOver
  <2> HIDE DEF a
  <2>3. /\ l \in Nat /\ DOMAIN delivered[To] = 1..l
        /\ Len(HandedOver(To)) = l + 1 /\ DOMAIN HandedOver(To) = 1..(l + 1)
        /\ HandedOver(To)[l + 1] = a
        /\ \A i \in 1..l : HandedOver(To)[i] = delivered[To][i]
    BY <1>0, <2>2
  <2> HIDE DEF l
  <2>4. Arrived(a)
    BY <1>0, <2>1 DEF Arrived
  <2>5. \A i \in 1..l : NumberOf(delivered[To][i]) < Latest
    <3>1. TAKE i \in 1..l
    <3>2. i \in DOMAIN delivered[To]
      BY <2>3
    <3>3. NumberOf(delivered[To][i]) \in 1..Latest
      BY <1>0, <3>2 DEF Arrivals, Arrived
    <3>4. NumberOf(delivered[To][i]) # Latest
      BY <2>1, <3>2 DEF Handed
    <3> QED  BY <1>0, <3>3, <3>4
  <2>6. ASSUME NEW i \in 1..(l + 1) PROVE Arrived(HandedOver(To)[i])
    BY <1>0, <2>3, <2>4, <2>6 DEF Arrivals
  <2>7. ASSUME NEW i \in 1..(l + 1), NEW j \in 1..(l + 1), i < j
        PROVE  NumberOf(HandedOver(To)[i]) < NumberOf(HandedOver(To)[j])
    <3>1. i \in 1..l /\ (j \in 1..l \/ j = l + 1)
      BY <2>3, <2>7
    <3> QED  BY <1>0, <2>1, <2>3, <2>5, <2>7, <3>1 DEF Arrivals
  <2> QED  BY <1>1, <2>3, <2>6, <2>7
<1> QED  BY <1>2, <1>3

\* Whatever is corrupted and however often a window is lost, every text or file
\* given to a user is a message of the peer, whole and unchanged.
THEOREM IntactAlways == ASSUME Gentle PROVE Spec => []DeliveredIntact
<1>1. ASSUME Progress PROVE DeliveredIntact
  <2>0. Node = {From, To} /\ Peer(To) = From
    BY Ends DEF Gentle
  <2>1. \A i \in DOMAIN HandedOver(To) :
          \E k \in DOMAIN sent[From] : IsMessage(HandedOver(To)[i], From, k)
    BY <1>1, HandedOverFacts DEF Arrived
  <2>2. DOMAIN HandedOver(From) = {}
    BY <1>1, HandedOverFacts
  <2> QED  BY <2>0, <2>1, <2>2 DEF DeliveredIntact
<1> QED  BY <1>1, ProgressAlways, PTL

\* A message that is reported complete is with the peer's user, or being
\* assembled for it.
THEOREM CompleteAlways == ASSUME Gentle PROVE Spec => []CompleteImpliesDelivered
<1>1. ASSUME Progress PROVE CompleteImpliesDelivered
  <2>0. Node = {From, To} /\ Peer(From) = To
    BY Ends DEF Gentle
  <2>1. completed[To] = {}
    BY <1>1 DEF Progress, Partner
  <2>2. ASSUME NEW k \in completed[From]
        PROVE  \E i \in DOMAIN HandedOver(To) : IsMessage(HandedOver(To)[i], From, k)
    <3>1. PICK i \in DOMAIN delivered[To] : NumberOf(delivered[To][i]) = k
      BY <1>1 DEF Progress, Arrivals, Handed
    <3>2. i \in DOMAIN HandedOver(To) /\ HandedOver(To)[i] = delivered[To][i]
          /\ Arrived(HandedOver(To)[i])
      BY <1>1, HandedOverFacts
    <3> QED  BY <3>1, <3>2 DEF Arrived
  <2> QED  BY <2>0, <2>1, <2>2 DEF CompleteImpliesDelivered
<1> QED  BY <1>1, ProgressAlways, PTL

\* The sender's window never runs ahead of what the receiver holds.
THEOREM WindowAlwaysBacked == ASSUME Gentle PROVE Spec => []WindowBacked
<1>1. ASSUME Progress PROVE WindowBacked
  <2>0. Sender \subseteq {From} /\ Peer(From) = To /\ TypeOK /\ OneSender
    BY <1>1, Ends DEF Gentle, Progress
  <2>1. SUFFICES ASSUME Pc # "idle", ~IsSingle(From)
                 PROVE  \/ \A i \in 1..(First - 1) : i <= Length => Holding(i) = Latest
                        \/ \E i \in DOMAIN HandedOver(To) :
                              IsMessage(HandedOver(To)[i], From, Latest)
    BY <2>0 DEF WindowBacked, Pc, First, Length, Holding, Latest
  <2>2. PICK w \in SeqNum : FragmentedStage(w)
    BY <1>1, <2>1 DEF Progress, Stage, Quiet, SingleStage, IsSingle
  <2>3. First \in SeqNum /\ Length \in SeqNum /\ SeqNum = 0..(SeqModulus - 1)
        /\ SeqModulus \in Nat
    BY <2>0, Shape
  <2>4. \A i \in 1..(First - 1) : i \in SeqNum
    BY <2>3
  <2>5. CASE HoldsUpTo(First - 1)
    BY <2>4, <2>5 DEF HoldsUpTo
  <2>6. ASSUME NEW h, HoldsSome(h) PROVE \A i \in 1..(First - 1) : Holding(i) = Latest
    BY <2>4, <2>6 DEF HoldsSome
  <2>7. CASE HoldsUpTo(Length)
    BY <2>3, <2>4, <2>7 DEF HoldsUpTo
  <2>8. CASE Handed(Latest)
    <3>1. PICK i \in DOMAIN delivered[To] : NumberOf(delivered[To][i]) = Latest
      BY <2>8 DEF Handed
    <3>2. i \in DOMAIN HandedOver(To) /\ HandedOver(To)[i] = delivered[To][i]
          /\ Arrived(HandedOver(To)[i])
      BY <1>1, HandedOverFacts
    <3> QED  BY <3>1, <3>2 DEF Arrived
  <2>9. CASE Acked(w) /\ End(w) # Length
    <3>1. HoldsUpTo(End(w)) /\ Busy(w)
      BY <2>9 DEF Acked
    <3>2. End(w) \in Nat /\ First <= End(w)
      BY <1>1, <2>2, <3>1, WindowFacts DEF FragmentedStage
    <3> QED  BY <2>3, <2>4, <3>1, <3>2 DEF HoldsUpTo
  <2> QED
    BY <2>2, <2>5, <2>6, <2>7, <2>8, <2>9
       DEF FragmentedStage, Ready, InFlight, Travelling, Repairing, Acked, Over, Ended
<1> QED  BY <1>1, ProgressAlways, PTL

\* The two ends, which compute the limits of the window separately, agree on
\* them: what is asked for again is in the window being sent.
THEOREM NackAlwaysInWindow == ASSUME Gentle PROVE Spec => []NackInWindow
<1>1. ASSUME Progress PROVE NackInWindow
  <2>0. Node = {From, To} /\ TypeOK /\ OneSender /\ cli[To].pc = "idle"
    BY <1>1, Ends DEF Gentle, Progress, Partner
  <2>1. SUFFICES ASSUME NEW x \in DOMAIN net[From], net[From][x].flags = NegativeAck,
                        ~IsSingle(From), Pc # "idle"
                 PROVE  /\ net[From][x].seq >= First
                        /\ net[From][x].seq < First + window_size[From]
                        /\ net[From][x].seq \in DOMAIN send_packets[From]
    BY <2>0 DEF NackInWindow, Pc, First
  <2>2. \A c : net[From] = <<c>> => net[From][x] = c
    BY <2>1
  <2>3. \A f, i : Control(f, i).flags = f /\ Control(f, i).seq = i
    BY DEF Control
  <2>4. net[From] # <<>> /\ PositiveAck # NegativeAck
    BY <2>1 DEF PositiveAck, NegativeAck
  <2>13. \A f, i : net[From] = <<Control(f, i)>> => f = NegativeAck
    <3>1. ASSUME NEW f, NEW i, net[From] = <<Control(f, i)>> PROVE f = NegativeAck
      <4>1. net[From][x] = Control(f, i)
        BY <2>2, <3>1
      <4> QED  BY <2>1, <2>3, <4>1
    <3> QED  BY <3>1
  <2>11. ~SingleStage
    BY <2>1 DEF SingleStage, IsSingle
  <2>12. ASSUME NEW w, Line(<<Control(PositiveAck, End(w))>>, <<>>) PROVE FALSE
    BY <2>4, <2>12, <2>13 DEF Line
  <2>5. PICK w \in SeqNum : \E i \in First..End(w) :
            Cut(w) /\ Repairing(w) /\ Line(<<Control(NegativeAck, i)>>, <<>>)
    BY <1>1, <2>4, <2>11, <2>12, AnswerArrives
  <2>6. PICK i \in First..End(w) : net[From] = <<Control(NegativeAck, i)>>
    BY <2>5 DEF Line
  <2>7. net[From][x].seq = i
    BY <2>2, <2>3, <2>6
  <2>8. /\ First \in Nat \ {0} /\ First <= Length /\ w \in Nat \ {0} /\ Length \in Nat
        /\ End(w) \in First..Length /\ End(w) <= First + w - 1
    BY <1>1, <2>5, WindowFacts DEF Repairing
  <2>9. w = window_size[From] /\ Len(send_packets[From]) = Length
    BY <2>1, <2>5 DEF Cut
  <2>10. DOMAIN send_packets[From] = 1..Length
    BY <2>0, <2>9, Shape
  <2> QED  BY <2>6, <2>7, <2>8, <2>9, <2>10
<1> QED  BY <1>1, ProgressAlways, PTL

\* Changing the flags of a fragment leaves it a data packet.
THEOREM DataAlwaysData == ASSUME Gentle PROVE Spec => []DataStaysData
<1>1. ASSUME Progress PROVE DataStaysData
  <2>0. /\ Node = {From, To} /\ TypeOK /\ OneSender /\ send_packets[To] = <<>>
        /\ net[To] \in Seq(Packet) /\ send_packets[From] \in Seq(Packet)
    BY <1>1, Ends, Shape DEF Gentle, Progress, Partner
  <2>1. \A x \in DOMAIN net[From] : net[From][x].body = Nothing
    <3>1. \A c : net[From] = <<c>> => \A x \in DOMAIN net[From] : net[From][x] = c
      OBVIOUS
    <3>2. \A f, i : Control(f, i).body = Nothing
      BY DEF Control
    <3>3. net[From] = <<>> => DOMAIN net[From] = {}
      OBVIOUS
    <3> QED  BY <1>1, <3>1, <3>2, <3>3, AnswerArrives DEF Line
  <2>2. \A c : net[To] = <<c>> => \A x \in DOMAIN net[To] : net[To][x] = c
    OBVIOUS
  <2>3. net[To] = <<>> => DOMAIN net[To] = {}
    OBVIOUS
  <2>4. CASE Quiet
    BY <2>0, <2>1, <2>3, <2>4 DEF Quiet, Line, DataStaysData
  <2>5. CASE SingleStage
    <3>1. Whole.flags \in DataFlags /\ Corrupted(Whole).flags \in DataFlags
      BY <2>0, <2>5, LatestFacts DEF Whole, Corrupted, DataPacket, SingleStage
    <3>2. \A x \in DOMAIN net[To] : net[To][x].flags \in DataFlags
      BY <2>2, <2>3, <2>5, <3>1 DEF SingleStage, Line
    <3>3. \A x \in DOMAIN send_packets[From] : send_packets[From][x].flags \in DataFlags
      BY <2>5, <3>1 DEF SingleStage
    <3> QED  BY <2>0, <2>1, <3>2, <3>3 DEF DataStaysData
  <2>6. ASSUME NEW w \in SeqNum, FragmentedStage(w) PROVE DataStaysData
    <3>1. LatestKind \in Kind /\ \A i : Reflags(w, i) \subseteq DataFlags
      BY <2>0, <2>6, LatestFacts DEF FragmentedStage, Cut
    <3>2. /\ {MoreFrag(LatestKind), LastWindFrag(LatestKind), LastFrag(LatestKind)}
               \subseteq DataFlags
      BY <3>1 DEF DataFlags
    <3>3. \A x \in DOMAIN send_packets[From] : send_packets[From][x].flags \in DataFlags
      <4>1. TAKE x \in DOMAIN send_packets[From]
      <4>2. x \in 1..Length
        BY <2>0, <2>6 DEF FragmentedStage, Cut
      <4>3. PICK f \in Reflags(w, x) : send_packets[From][x] = DataPacket(f, x, Latest)
        BY <2>6, <4>2 DEF FragmentedStage, Cut
      <4> QED  BY <3>1, <4>3 DEF DataPacket
    <3>4. \A i : /\ Fragment(w, i).flags \in DataFlags
                 /\ Corrupted(Fragment(w, i)).flags \in DataFlags
                 /\ Repair(w, i).flags \in DataFlags
      BY <3>2 DEF Fragment, Corrupted, Repair, DataPacket, FragmentFlags
    <3>5. \A x \in DOMAIN net[To] : net[To][x].flags \in DataFlags
      <4>1. CASE InFlight(w)
        <5>1. PICK a \in SeqNum : Travelling(w, a)
          BY <4>1 DEF InFlight
        <5>2. DOMAIN net[To] = 1..Len(net[To])
          BY <2>0
        <5> QED  BY <3>4, <5>1, <5>2 DEF Travelling
      <4>2. CASE ~InFlight(w)
        BY <2>2, <2>3, <2>6, <3>4, <4>2
           DEF FragmentedStage, Ready, Repairing, Acked, Over, Line
      <4> QED  BY <4>1, <4>2
    <3> QED  BY <2>0, <2>1, <3>3, <3>5 DEF DataStaysData
  <2> QED  BY <1>1, <2>4, <2>5, <2>6 DEF Progress, Stage
<1> QED  BY <1>1, ProgressAlways, PTL

-----------------------------------------------------------------------------
(* The data path implements the message service *)

\* The numbers of the messages that the receiver's user has, or will have.
Numbers == [i \in DOMAIN HandedOver(To) |-> NumberOf(HandedOver(To)[i])]

\* An arrival counts as the message whose number its fragments bear.
LEMMA MessageOfIs ==
    ASSUME Gentle, TypeOK, NEW a, Arrived(a)
    PROVE  MessageOf(To, a) = NumberOf(a)
<1>0. Peer(To) = From /\ sent[From] \in Seq(MessageInfo) /\ 1 \in SeqNum
  BY Ends, Shape, NumberFacts DEF Gentle
<1>1. ASSUME NEW k \in DOMAIN sent[From], IsMessage(a, From, k) PROVE k = NumberOf(a)
  <2>1. sent[From][k] \in MessageInfo
    BY <1>0
  <2>2. sent[From][k].total \in Total
    BY <2>1 DEF MessageInfo
  <2>3. 1 \in 1..sent[From][k].total
    <3>1. \A t \in Total : t \in Nat /\ t >= 1
      BY SizesAssumption, ModulusAssumption
    <3> QED  BY <2>2, <3>1
  <2>4. a.fragments = [i \in SeqNum |-> IF i \in 1..sent[From][k].total THEN k ELSE Nothing]
    BY <1>1 DEF IsMessage
  <2> QED  BY <1>0, <2>3, <2>4 DEF NumberOf
<1>2. NumberOf(a) \in DOMAIN sent[From] /\ IsMessage(a, From, NumberOf(a))
  BY DEF Arrived
<1> QED  BY <1>0, <1>1, <1>2 DEF MessageOf

\* What the message service sees of a state.
LEMMA Seen ==
    ASSUME Gentle, Progress
    PROVE  /\ [n \in Node |-> Len(sent[n])] = [n \in Node |-> IF n = From THEN Latest ELSE 0]
           /\ [n \in Node |-> [i \in DOMAIN HandedOver(n) |-> MessageOf(n, HandedOver(n)[i])]]
                = [n \in Node |-> IF n = To THEN Numbers ELSE <<>>]
           /\ completed = [n \in Node |-> IF n = From THEN completed[From] ELSE {}]
<1>0. /\ Node = {From, To} /\ From # To /\ sent[To] = <<>> /\ completed[To] = {}
      /\ completed \in [Node -> SUBSET Nat]
  BY Ends DEF Gentle, Progress, Partner, TypeOK
<1>1. [n \in Node |-> Len(sent[n])] = [n \in Node |-> IF n = From THEN Latest ELSE 0]
  BY <1>0 DEF Latest
<1>2. ASSUME NEW n \in Node
      PROVE  [i \in DOMAIN HandedOver(n) |-> MessageOf(n, HandedOver(n)[i])]
               = IF n = To THEN Numbers ELSE <<>>
  <2>1. CASE n = To
    <3>1. \A i \in DOMAIN HandedOver(To) :
             MessageOf(To, HandedOver(To)[i]) = NumberOf(HandedOver(To)[i])
      BY HandedOverFacts, MessageOfIs DEF Progress
    <3> QED  BY <2>1, <3>1 DEF Numbers
  <2>2. CASE n # To
    <3>1. HandedOver(n) = <<>>
      BY <1>0, <2>2, HandedOverFacts
    <3> QED  BY <2>2, <3>1
  <2> QED  BY <2>1, <2>2
<1> QED  BY <1>0, <1>1, <1>2

LEMMA NumbersAppended ==
    ASSUME NEW s \in Seq(Arrival), NEW a, HandedOver(To) = s, HandedOver(To)' = Append(s, a)
    PROVE  Numbers' = Append(Numbers, NumberOf(a))
<1> DEFINE l == Len(s)
<1>1. /\ l \in Nat /\ DOMAIN s = 1..l /\ DOMAIN Append(s, a) = 1..(l + 1)
      /\ Append(s, a)[l + 1] = a /\ \A i \in 1..l : Append(s, a)[i] = s[i]
  OBVIOUS
<1> HIDE DEF l
<1>2. Numbers = [i \in 1..l |-> NumberOf(s[i])]
  BY <1>1 DEF Numbers
<1>3. Numbers' = [i \in 1..(l + 1) |-> NumberOf(Append(s, a)[i])]
  BY <1>1 DEF Numbers
<1>4. Append(Numbers, NumberOf(a)) =
         [i \in 1..(l + 1) |-> IF i = l + 1 THEN NumberOf(a) ELSE Numbers[i]]
  <2>1. Len(Numbers) = l
    BY <1>1, <1>2
  <2> QED  BY <1>1, <1>2, <2>1
<1> QED  BY <1>1, <1>2, <1>3, <1>4

LEMMA Outcome ==
    ASSUME Gentle, Progress, [Next]_vars
    PROVE  \/ /\ Latest' = Latest /\ HandedOver(To)' = HandedOver(To)
              /\ completed'[From] = completed[From]
           \/ /\ Latest' = Latest + 1 /\ HandedOver(To)' = HandedOver(To)
              /\ completed'[From] = completed[From]
           \/ /\ Latest' = Latest /\ completed'[From] = completed[From]
              /\ HandedOver(To) = delivered[To]
              /\ \E a : HandedOver(To)' = Append(delivered[To], a)
           \/ /\ Latest' = Latest /\ HandedOver(To)' = HandedOver(To) /\ Handed(Latest)
              /\ completed'[From] = completed[From] \cup {Latest}
<1>0. /\ From \in Node /\ To \in Node /\ From # To /\ TypeOK /\ OneSender
      /\ sent \in [Node -> Seq(MessageInfo)] /\ completed \in [Node -> SUBSET Nat]
      /\ delivered \in [Node -> Seq(Arrival)]
      /\ assembling \in [Node -> Kind \cup {"nothing"}] /\ ~Spend("save")
  BY Ends, NoOtherFault DEF Gentle, Progress, TypeOK, Fault
<1>1. UNCHANGED <<delivered, assembling, received_packets>> => HandedOver(To)' = HandedOver(To)
  BY DEF HandedOver
<1>2. UNCHANGED sent => Latest' = Latest
  BY DEF Latest
<1>3. ASSUME \/ UNCHANGED vars \/ set_window_size(From) \/ set_dynamic_window(From)
             \/ CannotRead(From)
             \/ NextWindow(From) \/ SendFragment(From) \/ EndWindow(From)
             \/ AckSeen(From) \/ Timeout(From) \/ GiveUp(From)
             \/ process_tcu_negative_ack(From) \/ process_tcu_positive_ack(From)
             \/ Ignore(From)
      PROVE  UNCHANGED <<delivered, assembling, received_packets, sent, completed>>
  BY <1>3 DEF vars, set_window_size, set_dynamic_window, CannotRead, NextWindow, SendFragment, EndWindow,
     AckSeen, Timeout, GiveUp, process_tcu_negative_ack, process_tcu_positive_ack, Ignore,
     receiver, history
<1>4. ASSUME NEW kind \in Kind, SendSingle(From, kind) \/ SendFragmented(From, kind)
      PROVE  /\ Latest' = Latest + 1 /\ HandedOver(To)' = HandedOver(To)
             /\ completed' = completed
  <2>1. PICK m : sent' = [sent EXCEPT ![From] = Append(@, m)]
    BY <1>4 DEF SendSingle, SendFragmented
  <2>0. sent'[From] = Append(sent[From], m)
    BY <1>0, <2>1
  <2>2. Latest' = Latest + 1
    BY <1>0, <2>0 DEF Latest
  <2> QED  BY <1>1, <1>4, <2>2 DEF SendSingle, SendFragmented, receiver
<1>5. ASSUME EndSend(From)
      PROVE  /\ Latest' = Latest /\ HandedOver(To)' = HandedOver(To)
             /\ \/ completed'[From] = completed[From]
                \/ completed'[From] = completed[From] \cup {Latest} /\ Handed(Latest)
  <2>1. UNCHANGED <<delivered, assembling, received_packets, sent>>
    BY <1>5 DEF EndSend, receiver
  <2>2. \/ completed'[From] = completed[From]
        \/ completed'[From] = completed[From] \cup {Latest}
    BY <1>0, <1>5 DEF EndSend, Latest
  <2>3. ASSUME completed'[From] = completed[From] \cup {Latest} PROVE Handed(Latest)
    <3>1. Latest \in completed'[From]
      BY <2>3
    <3>2. Arrivals'
      BY <1>5, EndSendStep
    <3> QED  BY <2>1, <3>1, <3>2 DEF Arrivals, Handed
  <2> QED  BY <1>1, <1>2, <2>1, <2>2, <2>3
<1>6. ASSUME NEW kind \in Kind,
             \/ ProcessSingle(To, kind) \/ ProcessMoreFrag(To, kind)
             \/ ProcessLastWindFrag(To, kind) \/ ProcessLastFrag(To, kind)
      PROVE  /\ Latest' = Latest /\ completed' = completed
             /\ HandedOver(To) = delivered[To]
             /\ \/ HandedOver(To)' = HandedOver(To)
                \/ \E a : HandedOver(To)' = Append(delivered[To], a)
  <2>1. assembling[To] = "nothing" /\ UNCHANGED <<sent, completed>>
    BY <1>6 DEF ProcessSingle, ProcessMoreFrag, ProcessLastWindFrag, ProcessLastFrag,
       Receives, history
  <2>2. HandedOver(To) = delivered[To]
    BY <2>1 DEF HandedOver
  <2>3. CASE ProcessSingle(To, kind)
    <3>1. assembling'[To] = "nothing"
      BY <2>1, <2>3 DEF ProcessSingle, receiver
    <3>2. \/ delivered'[To] = delivered[To]
          \/ \E a : delivered'[To] = Append(delivered[To], a)
      BY <1>0, <2>3 DEF ProcessSingle, HandToUser
    <3> QED  BY <1>2, <2>1, <2>2, <3>1, <3>2 DEF HandedOver
  <2>4. CASE ProcessMoreFrag(To, kind) \/ ProcessLastWindFrag(To, kind)
    <3>1. assembling'[To] = "nothing" /\ delivered' = delivered
      BY <2>1, <2>4 DEF ProcessMoreFrag, ProcessLastWindFrag, history
    <3> QED  BY <1>2, <2>1, <2>2, <3>1 DEF HandedOver
  <2>5. CASE ProcessLastFrag(To, kind)
    <3>1. delivered' = delivered
      BY <2>5 DEF ProcessLastFrag, history
    <3> QED  BY <1>2, <2>1, <2>2, <3>1 DEF HandedOver
  <2> QED  BY <1>6, <2>3, <2>4, <2>5
<1>7. ASSUME NEW kind \in Kind, Assemble(To, kind)
      PROVE  /\ Latest' = Latest /\ completed' = completed
             /\ HandedOver(To)' = HandedOver(To)
  <2>1. /\ assembling[To] = kind /\ kind # "nothing" /\ assembling'[To] = "nothing"
        /\ UNCHANGED <<sent, completed>>
    BY <1>0, <1>7 DEF Assemble, Kind
  <2>2. delivered'[To] = Append(delivered[To], [kind |-> kind, fragments |-> received_packets[To]])
    BY <1>0, <1>7 DEF Assemble, HandToUser
  <2> QED  BY <1>2, <2>1, <2>2 DEF HandedOver
<1>8. "text" \in Kind /\ "file" \in Kind
  BY DEF Kind
<1>9. CASE UNCHANGED vars
  BY <1>1, <1>2, <1>3, <1>9
<1>10. CASE User(From) \/ Sending(From)
  BY <1>1, <1>2, <1>3, <1>4, <1>5, <1>8, <1>10 DEF User, Sending, send_text, send_file
<1>11. CASE Receiving(From)
  BY <1>1, <1>2, <1>3, <1>11, AnswerStep
<1>12. CASE Receiving(To)
  <2>1. \/ \E kind \in Kind :
             \/ ProcessSingle(To, kind) \/ ProcessMoreFrag(To, kind)
             \/ ProcessLastWindFrag(To, kind) \/ ProcessLastFrag(To, kind)
             \/ Assemble(To, kind)
        \/ process_tcu_negative_ack(To) \/ process_tcu_positive_ack(To)
        \/ process_tcu_disconn_req(To) \/ Ignore(To)
    BY <1>8, <1>12 DEF Receiving, process_tcu_single_text,
         process_tcu_single_file, process_tcu_more_frag_text, process_tcu_more_frag_file,
         process_tcu_last_wind_frag_text, process_tcu_last_wind_frag_file,
         process_tcu_last_frag_text, process_tcu_last_frag_file, assemble_text, assemble_file
  <2>2. UNCHANGED <<delivered, assembling, received_packets, sent, completed>>
          \/ \E kind \in Kind :
             \/ ProcessSingle(To, kind) \/ ProcessMoreFrag(To, kind)
             \/ ProcessLastWindFrag(To, kind) \/ ProcessLastFrag(To, kind)
             \/ Assemble(To, kind)
    BY <2>1 DEF process_tcu_negative_ack, process_tcu_positive_ack, process_tcu_disconn_req,
       Ignore, receiver, history
  <2> QED  BY <1>1, <1>2, <1>6, <1>7, <2>2
<1> QED  BY <1>9, <1>10, <1>11, <1>12, Actors

\* The data path implements the message service of module Delivery: each
\* message arrives at most once, in order and whole, and is reported complete
\* only when it has arrived.
THEOREM DeliveryImplemented == ASSUME Gentle PROVE Spec => ImplementsDelivery
<1> DEFINE sub == [n \in Node |-> Len(sent[n])]
           arr == [n \in Node |-> [i \in DOMAIN HandedOver(n) |->
                                     MessageOf(n, HandedOver(n)[i])]]
<1>0. Node = {From, To} /\ From # To /\ Peer(From) = To /\ Peer(To) = From
  BY Ends DEF Gentle
<1>1. Init => Promise!Init
  <2>1. SUFFICES ASSUME Init PROVE Promise!Init
    OBVIOUS
  <2>2. \A n \in Node : sent[n] = <<>> /\ HandedOver(n) = <<>> /\ completed[n] = {}
    BY <2>1 DEF Init, HandedOver
  <2>3. completed = [n \in Node |-> {}]
    BY <2>1 DEF Init
  <2>4. \A n \in Node : [i \in DOMAIN HandedOver(n) |-> MessageOf(n, HandedOver(n)[i])] = <<>>
    BY <2>2
  <2> QED  BY <2>2, <2>3, <2>4 DEF Promise!Init
<1>2. Progress /\ [Next]_vars => [Promise!Next]_(Promise!vars)
  <2>1. SUFFICES ASSUME Progress, [Next]_vars PROVE [Promise!Next]_(Promise!vars)
    OBVIOUS
  <2>2. Progress'
    BY <2>1, ProgressStep
  <2>3. /\ sub = [n \in Node |-> IF n = From THEN Latest ELSE 0]
        /\ arr = [n \in Node |-> IF n = To THEN Numbers ELSE <<>>]
        /\ completed = [n \in Node |-> IF n = From THEN completed[From] ELSE {}]
    BY <2>1, Seen
  <2>4. (/\ sub = [n \in Node |-> IF n = From THEN Latest ELSE 0]
         /\ arr = [n \in Node |-> IF n = To THEN Numbers ELSE <<>>]
         /\ completed = [n \in Node |-> IF n = From THEN completed[From] ELSE {}])'
    BY <2>2, Seen, PTL
  <2> HIDE DEF sub, arr
  <2>5. CASE /\ Latest' = Latest /\ HandedOver(To)' = HandedOver(To)
             /\ completed'[From] = completed[From]
    <3>1. Numbers' = Numbers
      BY <2>5 DEF Numbers
    <3>2. sub' = sub /\ arr' = arr /\ completed' = completed
      BY <2>3, <2>4, <2>5, <3>1
    <3> QED  BY <3>2 DEF Promise!vars, sub, arr
  <2>6. CASE /\ Latest' = Latest + 1 /\ HandedOver(To)' = HandedOver(To)
             /\ completed'[From] = completed[From]
    <3>1. Numbers' = Numbers
      BY <2>6 DEF Numbers
    <3>2. arr' = arr /\ completed' = completed
      BY <2>3, <2>4, <2>6, <3>1
    <3>3. sub' = [sub EXCEPT ![From] = @ + 1]
      BY <1>0, <2>3, <2>4, <2>6
    <3>4. Promise!Submit(From)
      BY <3>2, <3>3 DEF Promise!Submit, sub, arr
    <3> QED  BY <1>0, <3>4 DEF Promise!Next
  <2>7. CASE /\ Latest' = Latest /\ HandedOver(To)' = HandedOver(To) /\ Handed(Latest)
             /\ completed'[From] = completed[From] \cup {Latest}
    <3>1. Numbers' = Numbers
      BY <2>7 DEF Numbers
    <3>2. arr' = arr /\ sub' = sub
      BY <2>3, <2>4, <2>7, <3>1
    <3>3. PICK i \in DOMAIN Numbers : Numbers[i] = Latest
      <4>1. PICK i \in DOMAIN delivered[To] : NumberOf(delivered[To][i]) = Latest
        BY <2>7 DEF Handed
      <4>2. i \in DOMAIN HandedOver(To) /\ HandedOver(To)[i] = delivered[To][i]
        BY <2>1, <4>1, HandedOverFacts
      <4> QED  BY <4>1, <4>2 DEF Numbers
    <3>4. completed' = [completed EXCEPT ![From] = @ \cup {Latest}]
      BY <1>0, <2>3, <2>4, <2>7
    <3>5. arr[To] = Numbers
      BY <1>0, <2>3
    <3>6. \E j \in DOMAIN arr[To] : completed' = [completed EXCEPT ![From] = @ \cup {arr[To][j]}]
      BY <3>3, <3>4, <3>5
    <3>7. Promise!Confirm(From)
      BY <1>0, <3>2, <3>6 DEF Promise!Confirm, sub, arr
    <3> QED  BY <1>0, <3>7 DEF Promise!Next
  <2>8. CASE /\ Latest' = Latest /\ completed'[From] = completed[From]
             /\ HandedOver(To) = delivered[To]
             /\ \E a : HandedOver(To)' = Append(delivered[To], a)
    <3>0. delivered[To] \in Seq(Arrival) /\ DOMAIN sent[From] = 1..Latest
          /\ sent'[From] \in Seq(MessageInfo)
      <4>1. TypeOK /\ TypeOK' /\ OneSender
        BY <2>1, <2>2 DEF Progress, Gentle
      <4>2. sent'[From] \in Seq(MessageInfo)
        BY <1>0, <4>1 DEF TypeOK
      <4> QED  BY <4>1, <4>2, Shape DEF Latest
    <3>1. PICK a : HandedOver(To)' = Append(delivered[To], a)
      BY <2>8
    <3> DEFINE l == Len(delivered[To])
               k == NumberOf(a)
    <3>2. Numbers' = Append(Numbers, k)
      BY <2>8, <3>0, <3>1, NumbersAppended
    <3>3. /\ l \in Nat /\ DOMAIN delivered[To] = 1..l
          /\ DOMAIN HandedOver(To)' = 1..(l + 1) /\ HandedOver(To)'[l + 1] = a
          /\ \A i \in 1..l : HandedOver(To)'[i] = delivered[To][i]
      BY <3>0, <3>1
    <3>4. /\ (\A i \in DOMAIN HandedOver(To) : Arrived(HandedOver(To)[i]))'
          /\ (\A i, j \in DOMAIN HandedOver(To) :
                i < j => NumberOf(HandedOver(To)[i]) < NumberOf(HandedOver(To)[j]))'
      BY <2>2, HandedOverFacts, PTL
    <3> HIDE DEF l
    <3>5. k \in 1..Latest
      <4>1. PICK x : x = HandedOver(To)'[l + 1] /\ Arrived(x)'
        BY <3>3, <3>4
      <4>2. k \in DOMAIN sent'[From]
        BY <3>3, <4>1 DEF Arrived
      <4> QED  BY <2>8, <3>0, <4>2 DEF Latest
    <3>6. \A i \in 1..l : NumberOf(delivered[To][i]) < k
      <4>1. TAKE i \in 1..l
      <4>2. NumberOf(HandedOver(To)'[i]) < NumberOf(HandedOver(To)'[l + 1])
        BY <3>3, <3>4
      <4> QED  BY <3>3, <4>2
    <3> HIDE DEF k
    <3>7. DOMAIN Numbers = 1..l /\ \A i \in 1..l : Numbers[i] < k
      BY <2>8, <3>3, <3>6 DEF Numbers
    <3>8. sub' = sub /\ completed' = completed
      BY <2>3, <2>4, <2>8
    <3>9. arr' = [arr EXCEPT ![To] = Append(@, k)]
      BY <1>0, <2>3, <2>4, <3>2
    <3>10. arr[To] = Numbers /\ sub[From] = Latest
      BY <1>0, <2>3
    <3>11. Promise!Deliver(To)
      <4>1. \E m \in 1..sub[From] : /\ \A i \in DOMAIN arr[To] : arr[To][i] < m
                                    /\ arr' = [arr EXCEPT ![To] = Append(@, m)]
        BY <3>5, <3>7, <3>9, <3>10
      <4> QED  BY <1>0, <3>8, <4>1 DEF Promise!Deliver, sub, arr
    <3> QED  BY <1>0, <3>11 DEF Promise!Next
  <2> QED  BY <2>1, <2>5, <2>6, <2>7, <2>8, Outcome
<1> QED  BY <1>1, <1>2, ProgressAlways, PTL DEF Spec, ImplementsDelivery, Promise!Spec

-----------------------------------------------------------------------------
(* A message is given up for good reasons *)

\* No window reaches past the last sequence number: one that did would end
\* before it starts, and its message would be given up unsent.
NoWrap == \A t \in Total \ {1} : \A w \in WindowSize \cup {dynamic_window_size(t)} :
            t + w < SeqModulus

\* The window of a message under way was set, or follows from its length.
Sized == Pc # "idle" /\ ~IsSingle(From)
           => window_size[From] \in WindowSize \cup {dynamic_window_size(Length)}

\* A window has been lost on purpose, or is yet to be sent.
Unheard == /\ Pc = "wait" /\ ~ack_received[From] /\ Line(<<>>, <<>>)
           /\ First <= Length /\ ~IsSingle(From)

\* What a retry has cost.
Effort == /\ struck["window"] >= cli[From].retry
          /\ Unheard => struck["window"] > cli[From].retry
          /\ GivenUp => struck["window"] >= MaxRetries

LEMMA SizedStep ==
    ASSUME Gentle, Progress, Sized, [Next]_vars PROVE Sized'
<1>0. /\ From \in Node /\ To \in Node /\ From # To /\ cli \in [Node -> CliState]
      /\ send_packets \in [Node -> Seq(Packet)] /\ window_size \in [Node -> SeqNum]
      /\ total_num \in [Node -> SeqNum]
  BY Ends DEF Gentle, Progress, TypeOK
<1>1. ASSUME UNCHANGED <<total_num, window_size>>, Len(send_packets'[From]) = Len(send_packets[From]),
             Pc' # "idle" => Pc # "idle"
      PROVE  Sized'
  BY <1>1 DEF Sized, IsSingle, Length
<1>2. ASSUME set_window_size(From) \/ set_dynamic_window(From) PROVE Sized'
  BY <1>2 DEF set_window_size, set_dynamic_window, Idle, Pc, Sized
<1>3. ASSUME NEW kind, SendSingle(From, kind) PROVE Sized'
  <2>1. Len(send_packets'[From]) = 1
    BY <1>0, <1>3 DEF SendSingle
  <2> QED  BY <2>1 DEF Sized, IsSingle
<1>4. ASSUME NEW kind, SendFragmented(From, kind) PROVE Sized'
  <2>1. PICK t \in Total : /\ total_num' = [total_num EXCEPT ![From] = t]
                           /\ window_size' = [window_size EXCEPT ![From] =
                                IF dynamic_window[From] THEN dynamic_window_size(t)
                                                        ELSE window_size[From]]
    BY <1>4 DEF SendFragmented
  <2>2. Length' = t
    BY <1>0, <2>1 DEF Length
  <2>3. window_size'[From] = IF dynamic_window[From] THEN dynamic_window_size(t)
                                                     ELSE window_size[From]
    BY <1>0, <2>1
  <2> QED  BY <2>2, <2>3 DEF Sized, Progress, Setting
<1>5. ASSUME Sending(From) PROVE Sized'
  <2>1. /\ UNCHANGED <<total_num, window_size, send_packets>>
        /\ Pc # "idle"
    BY <1>5 DEF Sending, NextWindow, SendFragment, EndWindow, AckSeen, Timeout, GiveUp, EndSend,
       config, Pc
  <2> QED  BY <1>1, <2>1
<1>6. ASSUME Receiving(From) PROVE Sized'
  <2>1. CASE process_tcu_negative_ack(From)
    <3>1. Len(send_packets'[From]) = Len(send_packets[From])
      BY <1>0, <2>1 DEF process_tcu_negative_ack
    <3> QED  BY <1>1, <2>1, <3>1 DEF process_tcu_negative_ack, config, Pc
  <2>2. CASE process_tcu_positive_ack(From) \/ Ignore(From)
    BY <1>1, <2>2 DEF process_tcu_positive_ack, Ignore, sender, Pc
  <2> QED  BY <1>6, <2>1, <2>2, AnswerStep
<1>7. ASSUME Receiving(To) PROVE Sized'
  <2>1. UNCHANGED sender
    BY <1>7, ArrivingFlags DEF Receiving, process_tcu_single_text,
         process_tcu_single_file, process_tcu_more_frag_text, process_tcu_more_frag_file,
         process_tcu_last_wind_frag_text, process_tcu_last_wind_frag_file,
         process_tcu_last_frag_text, process_tcu_last_frag_file, assemble_text, assemble_file,
         ProcessSingle, ProcessMoreFrag, ProcessLastWindFrag, ProcessLastFrag, Assemble,
         process_tcu_negative_ack, process_tcu_positive_ack, process_tcu_disconn_req, Ignore,
         Receives
  <2> QED  BY <1>1, <2>1 DEF sender, Pc
<1>8. ASSUME UNCHANGED vars PROVE Sized'
  BY <1>1, <1>8 DEF vars, Pc
<1>9. ASSUME CannotRead(From) PROVE Sized'
  BY <1>9 DEF CannotRead, MaySend, Idle, Pc, Sized
<1> QED
  BY <1>2, <1>3, <1>4, <1>5, <1>6, <1>7, <1>8, <1>9, Actors DEF User, send_text, send_file

LEMMA NeverWraps ==
    ASSUME Gentle, NoWrap, Progress, Sized, Pc # "idle", NEW w \in SeqNum, Cut(w), First <= Length
    PROVE  Busy(w)
<1>0. /\ TypeOK /\ OneSender /\ First \in SeqNum /\ Length \in SeqNum
      /\ SeqModulus \in Nat /\ SeqNum = 0..(SeqModulus - 1)
  BY Shape DEF Gentle, Progress
<1>1. Length \in Total \ {1} /\ w = window_size[From] /\ ~IsSingle(From)
  BY <1>0, LatestFacts DEF Cut, IsSingle
<1>2. Length + w < SeqModulus
  BY <1>1 DEF NoWrap, Sized
<1> QED  BY <1>0, <1>2 DEF Busy

\* While its thread waits for it, the line is empty only before a window.
LEMMA SilentLine ==
    ASSUME Gentle, Progress, Pc \in {"window", "wait"}, ~IsSingle(From), First <= Length,
           Line(<<>>, <<>>)
    PROVE  \E w \in SeqNum : Cut(w) /\ (Ready(w) \/ (InFlight(w) /\ Pc = "window" /\ InWindow(From)))
<1>0. /\ TypeOK /\ OneSender /\ First \in SeqNum /\ Length \in SeqNum
      /\ SeqModulus \in Nat /\ SeqNum = 0..(SeqModulus - 1) /\ cli[From].seq \in SeqNum
  BY Shape DEF Gentle, Progress
<1>1. PICK w \in SeqNum : FragmentedStage(w)
  BY DEF Progress, Stage, Quiet, SingleStage, IsSingle
<1>2. ~GivenUp /\ ~Over(w)
  BY <1>0 DEF Progress, Partner, Over
<1>3. ~Acked(w) /\ ~Repairing(w)
  BY <1>2 DEF Acked, Repairing, Line
<1>4. ASSUME InFlight(w) PROVE Pc = "window" /\ InWindow(From)
  <2>1. PICK a \in SeqNum : Travelling(w, a)
    BY <1>4 DEF InFlight
  <2>2. /\ First \in Nat \ {0} /\ End(w) \in First..Length /\ End(w) <= First + w - 1
        /\ w \in Nat \ {0} /\ Plus(First, window_size[From]) = First + w
    BY <1>1, <1>4, WindowFacts DEF FragmentedStage, InFlight
  <2>3. NextSeq(w) = a /\ a <= End(w)
    <3>1. Len(net[To]) = 0
      BY DEF Line
    <3> QED  BY <1>0, <2>1, <3>1 DEF Travelling
  <2>4. Pc = "window" /\ cli[From].seq = a
    BY <1>0, <2>2, <2>3 DEF NextSeq
  <2> QED  BY <1>0, <2>2, <2>3, <2>4 DEF InWindow, First, Length
<1> QED  BY <1>1, <1>2, <1>3, <1>4 DEF FragmentedStage

LEMMA Struck ==
    ASSUME TypeOK, NEW f \in Fault, Spend(f)
    PROVE  /\ struck'["window"] >= struck["window"]
           /\ f = "window" => struck'["window"] = struck["window"] + 1
BY DEF Spend, TypeOK, Fault, Simulated

LEMMA WindowStarted ==
    ASSUME Gentle, TypeOK, NEW r \in Nat, StartWindow(From, r)
    PROVE  /\ cli'[From].retry = r
           /\ \/ Pc' = "window" /\ struck' = struck
              \/ Pc' = "wait" /\ struck'["window"] = struck["window"] + 1
<1>0. From \in Node /\ cli \in [Node -> CliState] /\ "window" \in Fault
  BY Ends DEF Gentle, TypeOK, Fault, Simulated
<1> QED  BY <1>0, Struck DEF StartWindow, Pc

\* Whatever the receiver does, it costs no fault and leaves nothing unheard.
LEMMA HeardStep ==
    ASSUME Gentle, Progress, Receiving(To)
    PROVE  UNCHANGED <<phase, cli, struck>> /\ (Unheard' => Unheard)
<1>0. /\ From \in Node /\ To \in Node /\ From # To /\ TypeOK /\ OneSender
      /\ net[From] \in Seq(Packet) /\ net[To] \in Seq(Packet)
  BY Ends, Shape DEF Gentle, Progress, TypeOK
<1>1. ASSUME NEW c, net'[From] = net[From] \o <<c>> PROVE ~Unheard'
  BY <1>0, <1>1 DEF Unheard, Line
<1>2. ASSUME NEW kind \in Kind, ProcessSingle(To, kind)
      PROVE  UNCHANGED <<phase, cli, struck>> /\ (Unheard' => Unheard)
  <2>1. /\ UNCHANGED <<phase, cli>>
        /\ struck' = struck \/ Spend("save")
    BY <1>2 DEF ProcessSingle, HandToUser, sender
  <2>2. ~Spend("save")
    BY <1>0, NoOtherFault DEF Gentle, Fault
  <2>3. \E c : Answer(To, <<c>>)
    BY <1>2 DEF ProcessSingle, send_tcu_positive_ack, send_tcu_negative_ack
  <2>4. ~Unheard'
    BY <1>0, <1>1, <2>3, AnswerOfTo
  <2> QED  BY <2>1, <2>2, <2>4
<1>3. ASSUME NEW kind \in Kind, ProcessMoreFrag(To, kind)
      PROVE  UNCHANGED <<phase, cli, struck>> /\ (Unheard' => Unheard)
  <2>1. /\ UNCHANGED <<phase, cli, struck>> /\ Receives(To, MoreFrag(kind))
        /\ Answer(To, <<>>)
    BY <1>3 DEF ProcessMoreFrag, sender
  <2>2. MoreFrag(kind) # LastFrag(kind) /\ MoreFrag(kind) # LastWindFrag(kind)
    BY FlagsDiffer
  <2>3. PICK w, a \in SeqNum : Cut(w) /\ Busy(w) /\ Travelling(w, a) /\ a # End(w)
    BY <2>1, <2>2, ArrivingFragment
  <2>4. End(w) \in Nat /\ a \in Nat /\ a < End(w)
    <3>1. End(w) \in SeqNum
      BY <2>3, WindowFacts
    <3>2. a <= End(w)
      BY <2>3 DEF Travelling
    <3> QED  BY <2>3, <3>1, <3>2, ModulusAssumption DEF SeqNum
  <2>5. ASSUME Pc = "wait" PROVE Len(net[To]) > 1
    <3>1. End(w) + 1 = a + Len(net[To])
      BY <2>3, <2>5 DEF Travelling, NextSeq
    <3>2. PICK e, l \in Nat : e = End(w) /\ l = Len(net[To])
      BY <1>0, <2>4
    <3> QED  BY <2>4, <3>1, <3>2
  <2>6. net'[To] = Tail(net[To])
    BY <1>0, <2>1, AnswerOfTo
  <2>7. ~Unheard'
    <3>1. SUFFICES ASSUME Unheard' PROVE FALSE
      OBVIOUS
    <3>2. Pc = "wait" /\ net'[To] = <<>>
      BY <2>1, <3>1 DEF Unheard, Line, Pc
    <3>3. PICK s \in Seq(Packet) : s = net[To]
      BY <1>0
    <3>4. Len(s) > 1 /\ Tail(s) = <<>>
      BY <2>5, <2>6, <3>2, <3>3
    <3>5. Len(Tail(s)) = Len(s) - 1
      BY <3>4
    <3>6. Len(Tail(s)) = 0
      BY <3>4
    <3>7. PICK l \in Nat : l = Len(s)
      BY <3>3
    <3> QED  BY <3>4, <3>5, <3>6, <3>7
  <2> QED  BY <2>1, <2>7
<1>4. ASSUME NEW kind \in Kind, ProcessLastWindFrag(To, kind) \/ ProcessLastFrag(To, kind)
      PROVE  UNCHANGED <<phase, cli, struck>> /\ (Unheard' => Unheard)
  <2>1. UNCHANGED <<phase, cli, struck>> /\ EndOfWindow(To, Data(To))
    BY <1>4 DEF ProcessLastWindFrag, ProcessLastFrag, sender
  <2>2. \E c : Answer(To, <<c>>)
    BY <2>1 DEF EndOfWindow, send_tcu_positive_ack, send_tcu_negative_ack
  <2>3. ~Unheard'
    BY <1>0, <1>1, <2>2, AnswerOfTo
  <2> QED  BY <2>1, <2>3
<1>5. ASSUME NEW kind \in Kind, Assemble(To, kind)
      PROVE  UNCHANGED <<phase, cli, struck>> /\ (Unheard' => Unheard)
  <2>1. /\ UNCHANGED <<phase, cli, net, seq_num, total_num, send_packets, ack_received>>
        /\ struck' = struck \/ Spend("save")
    BY <1>5 DEF Assemble, HandToUser, sender
  <2>2. ~Spend("save")
    BY <1>0, NoOtherFault DEF Gentle, Fault
  <2>3. Unheard' => Unheard
    BY <2>1 DEF Unheard, Line, Pc, First, Length, IsSingle
  <2> QED  BY <2>1, <2>2, <2>3
<1>6. "text" \in Kind /\ "file" \in Kind
  BY DEF Kind
<1>7. ~process_tcu_negative_ack(To) /\ ~process_tcu_positive_ack(To)
      /\ ~process_tcu_disconn_req(To)
  BY ArrivingFlags DEF process_tcu_negative_ack, process_tcu_positive_ack,
     process_tcu_disconn_req, Receives
<1>8. ~Ignore(To)
  BY ArrivingFlags, PhaseFacts DEF Ignore, Progress, Partner
<1> QED
  BY <1>2, <1>3, <1>4, <1>5, <1>6, <1>7, <1>8
     DEF Receiving, process_tcu_single_text,
         process_tcu_single_file, process_tcu_more_frag_text, process_tcu_more_frag_file,
         process_tcu_last_wind_frag_text, process_tcu_last_wind_frag_file,
         process_tcu_last_frag_text, process_tcu_last_frag_file, assemble_text, assemble_file

LEMMA EffortStep ==
    ASSUME Gentle, NoWrap, Progress, Sized, Effort, [Next]_vars PROVE Effort'
<1>0. /\ From \in Node /\ To \in Node /\ From # To /\ cli \in [Node -> CliState]
      /\ TypeOK /\ OneSender /\ cli[From].retry \in 0..3 /\ MaxRetries = 3
      /\ struck["window"] \in Nat /\ First \in Nat /\ Length \in Nat
      /\ phase \in [Node -> {HOLDOFF, NETWORK}] /\ HOLDOFF # NETWORK
      /\ ack_received \in [Node -> BOOLEAN]
      /\ net[From] \in Seq(Packet) /\ net[To] \in Seq(Packet)
  <2>1. struck["window"] \in Nat
    BY DEF Progress, TypeOK, Fault, Simulated
  <2>2. First \in Nat /\ Length \in Nat
    BY Shape DEF Gentle, Progress
  <2>3. cli[From].retry \in 0..3
    BY Shape DEF Gentle, Progress, MaxRetries
  <2>4. TypeOK /\ OneSender
    BY DEF Gentle, Progress
  <2>5. net[From] \in Seq(Packet) /\ net[To] \in Seq(Packet)
    BY <2>4, Shape
  <2>6. cli \in [Node -> CliState] /\ ack_received \in [Node -> BOOLEAN]
    BY <2>4 DEF TypeOK
  <2>7. phase \in [Node -> {HOLDOFF, NETWORK}] /\ HOLDOFF # NETWORK
    BY <2>4, PhaseFacts DEF TypeOK
  <2> QED  BY <2>1, <2>2, <2>3, <2>4, <2>5, <2>6, <2>7, Ends DEF MaxRetries
<1>1. ASSUME phase' = phase, cli'[From].retry = cli[From].retry,
             struck'["window"] >= struck["window"], struck'["window"] \in Nat, ~Unheard'
      PROVE  Effort'
  BY <1>0, <1>1 DEF Effort, GivenUp
<1>2. ASSUME phase' = phase, cli' = cli, struck' = struck, Unheard' => Unheard
      PROVE  Effort'
  BY <1>0, <1>2 DEF Effort, GivenUp
<1>3. ASSUME set_window_size(From) \/ set_dynamic_window(From) PROVE Effort'
  <2>1. Pc' = "idle" /\ phase' = phase /\ cli' = cli /\ struck' = struck
    BY <1>3 DEF set_window_size, set_dynamic_window, Idle, Pc
  <2> QED  BY <1>2, <2>1 DEF Unheard
<1>4. ASSUME NEW kind, SendSingle(From, kind) PROVE Effort'
  <2>1. /\ phase' = phase /\ cli'[From].retry = 0 /\ IsSingle(From)'
        /\ send_packet(From, DataPacket(Single(kind), 1, Len(sent[From]) + 1))
    BY <1>0, <1>4 DEF SendSingle, IsSingle, Progress, TypeOK
  <2>2. struck'["window"] >= struck["window"] /\ struck'["window"] \in Nat
    <3>1. TypeOK'
      BY TypeStep DEF Progress
    <3>2. struck'["window"] \in Nat
      BY <3>1 DEF TypeOK, Fault, Simulated
    <3>3. struck' = struck \/ Spend("drop") \/ Spend("corrupt")
      BY <2>1 DEF send_packet
    <3> QED  BY <1>0, <3>2, <3>3, Struck DEF Fault, Simulated
  <2>3. ~Unheard'
    BY <2>1 DEF Unheard
  <2> QED  BY <1>0, <2>1, <2>2, <2>3 DEF Effort, GivenUp
<1>5. ASSUME NEW kind, SendFragmented(From, kind) PROVE Effort'
  <2>1. /\ phase' = phase /\ cli'[From].retry = cli[From].retry /\ struck' = struck
        /\ Pc' = "loop"
    BY <1>0, <1>5 DEF SendFragmented, Pc, CliState
  <2> QED  BY <1>0, <1>1, <2>1 DEF Unheard
<1>6. ASSUME NextWindow(From) PROVE Effort'
  <2>1. StartWindow(From, 0) /\ phase' = phase
    BY <1>6 DEF NextWindow
  <2>2. /\ cli'[From].retry = 0
        /\ \/ Pc' = "window" /\ struck' = struck
           \/ Pc' = "wait" /\ struck'["window"] = struck["window"] + 1
    BY <1>0, <2>1, WindowStarted
  <2> QED  BY <1>0, <2>1, <2>2 DEF Effort, Unheard, GivenUp
<1>7. ASSUME Timeout(From) PROVE Effort'
  <2>1. /\ Pc = "wait" /\ RoundTripOver(From) /\ ~ack_received[From] /\ phase' = phase
        /\ StartWindow(From, cli[From].retry + 1)
    <3>1. ~Spend("early")
      BY NoOtherFault DEF Gentle, Progress, Fault
    <3> QED  BY <1>7, <3>1 DEF Timeout, Pc
  <2>2. PICK w \in SeqNum : Cut(w) /\ Ready(w)
    BY <2>1, Waits
  <2>3. Unheard
    BY <1>0, <2>1, <2>2 DEF Unheard, Ready, Cut, IsSingle
  <2>4. struck["window"] >= cli[From].retry + 1 /\ ~GivenUp
    BY <1>0, <2>1, <2>3 DEF Effort, Progress, Partner
  <2>5. /\ cli'[From].retry = cli[From].retry + 1
        /\ \/ Pc' = "window" /\ struck' = struck
           \/ Pc' = "wait" /\ struck'["window"] = struck["window"] + 1
    BY <1>0, <2>1, WindowStarted
  <2> QED  BY <1>0, <2>1, <2>4, <2>5 DEF Effort, Unheard, GivenUp
<1>8. ASSUME SendFragment(From) PROVE Effort'
  <2>1. phase' = phase /\ cli'[From].retry = cli[From].retry /\ Pc' = "window"
    BY <1>0, <1>8 DEF SendFragment, Pc, CliState
  <2>2. struck'["window"] >= struck["window"] /\ struck'["window"] \in Nat
    <3>1. TypeOK'
      BY TypeStep DEF Progress
    <3>2. struck'["window"] \in Nat
      BY <3>1 DEF TypeOK, Fault, Simulated
    <3>3. struck' = struck \/ Spend("drop") \/ Spend("corrupt")
      BY <1>8 DEF SendFragment, send_packet
    <3> QED  BY <1>0, <3>2, <3>3, Struck DEF Fault, Simulated
  <2> QED  BY <1>1, <2>1, <2>2 DEF Unheard
<1>9. ASSUME EndWindow(From) PROVE Effort'
  <2>1. /\ phase' = phase /\ cli'[From].retry = cli[From].retry /\ struck' = struck
        /\ Pc = "window" /\ ~InWindow(From)
        /\ UNCHANGED <<net, seq_num, total_num, send_packets, ack_received>>
    BY <1>0, <1>9 DEF EndWindow, Pc, CliState
  <2>2. ~Unheard'
    <3>1. SUFFICES ASSUME Unheard' PROVE FALSE
      OBVIOUS
    <3>2. ~IsSingle(From) /\ First <= Length /\ Line(<<>>, <<>>)
      BY <2>1, <3>1 DEF Unheard, IsSingle, First, Length, Line
    <3>3. PICK w \in SeqNum : Cut(w) /\ Ready(w)
      BY <2>1, <3>2, SilentLine
    <3>4. Busy(w)
      BY <2>1, <3>2, <3>3, NeverWraps
    <3>5. Plus(First, window_size[From]) = First + w /\ w \in Nat \ {0}
      BY <2>1, <3>3, <3>4, WindowFacts
    <3>6. cli[From].seq = First
      BY <2>1, <3>3 DEF Ready
    <3> QED  BY <1>0, <2>1, <3>2, <3>5, <3>6 DEF InWindow, First, Length
  <2> QED  BY <1>0, <1>1, <2>1, <2>2
<1>10. ASSUME AckSeen(From) PROVE Effort'
  <2>1. phase' = phase /\ cli'[From].retry = 0 /\ Pc' = "loop" /\ struck' = struck
    <3>1. ~Spend("early")
      BY NoOtherFault DEF Gentle, Progress, Fault
    <3> QED  BY <1>0, <1>10, <3>1 DEF AckSeen, Pc
  <2> QED  BY <1>0, <2>1 DEF Effort, Unheard, GivenUp
<1>11. ASSUME GiveUp(From) PROVE Effort'
  <2>1. /\ cli[From].retry = 3 /\ cli'[From].retry = 0 /\ Pc' = "loop" /\ struck' = struck
    BY <1>0, <1>11 DEF GiveUp, Pc
  <2> QED  BY <1>0, <2>1 DEF Effort, Unheard
<1>12. ASSUME EndSend(From) PROVE Effort'
  <2>1. /\ phase' = phase /\ cli'[From].retry = cli[From].retry /\ struck' = struck
        /\ Pc' = "idle"
    BY <1>0, <1>12 DEF EndSend, Pc, CliState
  <2> QED  BY <1>0, <1>1, <2>1 DEF Unheard
<1>13. ASSUME process_tcu_negative_ack(From) PROVE Effort'
  <2>1. /\ net[From] # <<>> /\ Data(From).flags = NegativeAck /\ ~GivenUp
        /\ UNCHANGED <<phase, cli, struck>>
    BY <1>13, PhaseFacts DEF process_tcu_negative_ack, Receives, Progress, Partner, GivenUp
  <2>2. IsSingle(From) \/ Data(From).seq \in DOMAIN send_packets[From]
    <3>1. ASSUME NEW w \in SeqNum, NEW i \in First..End(w), Cut(w), Repairing(w),
                 Line(<<Control(NegativeAck, i)>>, <<>>)
          PROVE  Data(From).seq \in DOMAIN send_packets[From]
      <4>1. Data(From).seq = i
        BY <3>1 DEF Line, Data, Control
      <4>2. /\ First \in Nat \ {0} /\ End(w) \in First..Length /\ Length \in Nat
            /\ Len(send_packets[From]) = Length /\ send_packets[From] \in Seq(Packet)
        BY <1>0, <3>1, WindowFacts, Shape DEF Repairing, Cut
      <4> QED  BY <4>1, <4>2
    <3>2. \A c : Line(<<c>>, <<>>) => Data(From) = c
      BY DEF Line, Data
    <3>3. \A i : Control(PositiveAck, i).flags # NegativeAck
      BY DEF Control, PositiveAck, NegativeAck
    <3> QED  BY <2>1, <3>1, <3>2, <3>3, AnswerArrives DEF SingleStage, IsSingle
  <2>3. \E p : Answer(From, <<p>>)
    BY <1>13, <2>2 DEF process_tcu_negative_ack
  <2>4. net'[To] # <<>>
    <3>1. PICK p : net'[To] = net[To] \o <<p>>
      BY <1>0, <2>3, AnswerOfFrom
    <3> QED  BY <1>0, <3>1
  <2> QED  BY <1>0, <1>1, <2>1, <2>4 DEF Unheard, Line
<1>14. ASSUME process_tcu_positive_ack(From) PROVE Effort'
  <2>1. ack_received'[From] /\ UNCHANGED <<phase, cli, struck>>
    BY <1>0, <1>14 DEF process_tcu_positive_ack, sender
  <2> QED  BY <1>0, <1>1, <2>1 DEF Unheard
<1>15. ASSUME Ignore(From) PROVE Effort'
  <2>1. Data(From).flags # DisconnAck
    BY <1>15, AnswerFlags DEF Ignore, PositiveAck, NegativeAck, DisconnAck
  <2>2. GivenUp /\ UNCHANGED <<phase, cli, struck>>
    BY <1>15, <2>1, PhaseFacts DEF Ignore, Progress, Partner, GivenUp, sender
  <2>3. Pc' # "wait"
    BY <2>2 DEF Progress, Partner, Pc
  <2> QED  BY <1>0, <1>1, <2>2, <2>3 DEF Unheard
<1>16. ASSUME Receiving(To) PROVE Effort'
  BY <1>2, <1>16, HeardStep
<1>17. ASSUME UNCHANGED vars PROVE Effort'
  <2>1. Unheard' => Unheard
    BY <1>17 DEF vars, Unheard, Line, Pc, First, Length, IsSingle
  <2> QED  BY <1>2, <1>17, <2>1 DEF vars
<1>18. ASSUME CannotRead(From) PROVE Effort'
  <2>1. Pc' = "idle" /\ phase' = phase /\ cli' = cli /\ struck' = struck
    BY <1>18 DEF CannotRead, MaySend, Idle, Pc
  <2> QED  BY <1>2, <2>1 DEF Unheard
<1> QED
  BY <1>3, <1>4, <1>5, <1>6, <1>7, <1>8, <1>9, <1>10, <1>11, <1>12, <1>13, <1>14, <1>15,
     <1>16, <1>17, <1>18, Actors, AnswerStep DEF User, Sending, send_text, send_file

LEMMA EffortInit ==
    ASSUME Gentle, Init PROVE Sized /\ Effort
<1>0. From \in Node /\ "window" \in Fault
  BY Ends DEF Gentle, Fault, Simulated
<1>1. Pc = "idle" /\ cli[From].retry = 0 /\ struck["window"] = 0 /\ phase[From] = NETWORK
  BY <1>0 DEF Init, Pc
<1> QED  BY <1>1, PhaseFacts DEF Sized, Effort, Unheard, GivenUp

\* A connection is given up for silence only after a window was lost on purpose
\* for every retry: corrupted packets alone never cost a message (node.cpp:412-443).
THEOREM GiveUpAlwaysJustified ==
    ASSUME Gentle, NoWrap PROVE Spec => []GiveUpJustified
<1> DEFINE Inv == Progress /\ Sized /\ Effort
<1>1. Init => Inv
  BY ProgressInit, EffortInit
<1>2. Inv /\ [Next]_vars => Inv'
  BY ProgressStep, SizedStep, EffortStep
<1>3. Inv => GiveUpJustified
  <2> SUFFICES ASSUME Progress, Effort, NEW n \in Node, phase[n] = HOLDOFF
               PROVE  struck["drop"] + struck["corrupt"] + struck["window"] + struck["lose"]
                        + struck["early"] >= MaxRetries
    BY DEF GiveUpJustified
  <2>1. n = From
    BY Ends, PhaseFacts DEF Gentle, Progress, Partner
  <2>2. struck["window"] >= MaxRetries
    BY <2>1 DEF Effort, GivenUp
  <2>3. /\ struck["drop"] \in Nat /\ struck["corrupt"] \in Nat /\ struck["window"] \in Nat
        /\ struck["lose"] \in Nat /\ struck["early"] \in Nat
    BY DEF Progress, TypeOK, Fault, Simulated
  <2> QED  BY <2>2, <2>3 DEF MaxRetries
<1> QED  BY <1>1, <1>2, <1>3, PTL DEF Spec
=============================================================================
