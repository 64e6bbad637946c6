---------------------------- MODULE CallerProofs ----------------------------
(***************************************************************************)
(* One user opens and closes connections, as often as he likes, and the    *)
(* peer's user lets him: then the keep-alive follows the connection, no    *)
(* two threads join it, and no command leaves a node half way, however     *)
(* many packets are lost, repeated or overtaken and however often either   *)
(* program ends and is started again.  Where no fault strikes at all, the  *)
(* two nodes agree whether they are connected.                             *)
(***************************************************************************)
EXTENDS ConnectionProofs

CallsOnly(n) == \A s \in Scenario : s.connect \cup s.disconnect \cup s.talk \subseteq {n}

\* One user gives all the commands.
OneUser == \E n \in Node : CallsOnly(n)

\* No packet takes longer than the timers.
InTime == \A s \in Scenario : s.faults["slow"] = 0

\* Where the user sends texts the network repeats no packet: the second
\* acknowledgment of a text would be taken for that of what is sent next.
NoEcho == \A s \in Scenario : s.talk = {} \/ s.faults["duplicate"] = 0

Orderly == OneUser /\ InTime /\ NoEcho

Caller   == CHOOSE n \in Node : CallsOnly(n)
Listener == Peer(Caller)

-----------------------------------------------------------------------------
(* What there is on the line *)

Beats    == {KaReq, KaAck}
Texts    == {DATA, PositiveAck}
Answers  == Beats \cup {ConnAck, DisconnAck, PositiveAck}
Requests == Beats \cup {ConnReq, DisconnReq, DATA}

Traffic == net[Caller] \in Seq(Answers) /\ net[Listener] \in Seq(Requests)

TextAt(k, i) == net[k][i] \in Texts
SomeText     == \E k \in Node : \E i \in DOMAIN net[k] : TextAt(k, i)

\* At most one text or acknowledgment of a text is under way, ...
OneText == \A k, l \in Node : \A i \in DOMAIN net[k], j \in DOMAIN net[l] :
              TextAt(k, i) /\ TextAt(l, j) => k = l /\ i = j

\* ... and the command that sent it waits for it.
TextAwaited ==
    /\ SomeText /\ running[Caller] =>
         /\ cli[Caller] = "wait" /\ ~ack_received[Caller]
         /\ phase[Caller] \in {CONNECT, DISCONNECT} => rx[Caller] = "acked"
    /\ SomeText => scenario.talk # {}

Line == Traffic /\ OneText /\ TextAwaited

-----------------------------------------------------------------------------
(* What the threads of the two nodes are at *)

\* The peer is asked, answers, and is idle in between; its keep-alive thread is
\* there from before the answer to a SYN until before the answer to a FIN.
Listening ==
    /\ rx[Listener] \in {"select", "accept", "greet", "greeted", "fin_join", "fin_ack",
                         "fin_acked"}
    /\ rx[Listener] = "select" =>
         \/ phase[Listener] = NETWORK /\ ka_running[Listener]
         \/ phase[Listener] \in {HOLDOFF, INITIALIZE} /\ ~Alive(Listener)
    /\ rx[Listener] = "accept" => phase[Listener] = CONNECT /\ ~Alive(Listener)
    /\ rx[Listener] \in {"greet", "greeted"} =>
         /\ phase[Listener] = CONNECT /\ ka_running[Listener]
         /\ ka[Listener] = "sleep" /\ ka_timer[Listener] > 0
    /\ rx[Listener] = "fin_join" =>
         phase[Listener] \in {DISCONNECT, HOLDOFF} /\ ~ka_running[Listener]
    /\ rx[Listener] \in {"fin_ack", "fin_acked"} =>
         phase[Listener] \in {DISCONNECT, HOLDOFF} /\ ~Alive(Listener)

\* What the caller's command line and receive threads can be at in each phase.
Calling ==
    /\ rx[Caller] \in {"select", "acked", "start", "closed_join"}
    /\ rx[Caller] = "acked" => phase[Caller] \in {CONNECT, DISCONNECT}
    /\ rx[Caller] = "start" => phase[Caller] \in {NETWORK, DISCONNECT}
    /\ rx[Caller] = "closed_join" => phase[Caller] \in {HOLDOFF, CONNECT}
    /\ cli[Caller] = "connect" => /\ phase[Caller] \in {HOLDOFF, INITIALIZE}
                                  /\ rx[Caller] \in {"select", "closed_join"}
    /\ cli[Caller] = "disconnect" => rx[Caller] # "closed_join"
    /\ cli[Caller] \in {"stop", "join"} => phase[Caller] = HOLDOFF
    /\ phase[Caller] \in {CONNECT, DISCONNECT} /\ rx[Caller] # "acked" =>
         (cli[Caller] = "wait" /\ ~ack_received[Caller]) \/ cli[Caller] = "expired"

\* Its keep-alive thread is there while the connection is up.
Keeping ==
    /\ rx[Caller] \in {"acked", "start"} => ~Alive(Caller)
    /\ rx[Caller] = "select" /\ phase[Caller] \in {HOLDOFF, INITIALIZE, CONNECT}
         => cli[Caller] \in {"stop", "join"} \/ ~Alive(Caller)
    /\ rx[Caller] = "select" /\ phase[Caller] = NETWORK => ka_running[Caller]
    /\ rx[Caller] = "closed_join" \/ cli[Caller] = "join" => ~ka_running[Caller]

\* When the caller's command gives up, no answer to it can still come.
GivingUp == \/ cli[Caller] = "wait" /\ cli_timer[Caller] = 0
            \/ cli[Caller] \in {"expired", "stop", "join"}

Silent == /\ \A n \in Node : net[n] \in Seq(Beats)
          /\ rx[Caller] = "select"
          /\ running[Listener] => rx[Listener] = "select"

Callers == Calling /\ Keeping /\ (GivingUp => Silent)

\* The inductive invariant.
CallInv == /\ Inv /\ Line
           /\ cli[Listener] = "idle"
           /\ running[Listener] => Listening
           /\ running[Caller] => Callers

-----------------------------------------------------------------------------
(* Who is who *)

LEMMA Persons ==
    ASSUME OneUser
    PROVE  /\ Caller \in Node /\ Listener \in Node /\ Caller # Listener
           /\ Node = {Caller, Listener} /\ CallsOnly(Caller)
           /\ Peer(Caller) = Listener /\ Peer(Listener) = Caller
<1>1. Caller \in Node /\ CallsOnly(Caller)
  BY DEF OneUser, Caller
<1>2. Listener \in Node /\ Listener # Caller /\ Peer(Listener) # Listener
      /\ Peer(Listener) \in Node
  BY <1>1, PeerFacts DEF Listener
<1>3. Node = {Caller, Listener}
  BY <1>1, <1>2, NodeAssumption
<1> QED
  BY <1>1, <1>2, <1>3 DEF Listener

\* Nobody but the caller gives a command.
LEMMA NoOtherUser ==
    ASSUME OneUser, TypeOK
    PROVE  ~connect(Listener) /\ ~disconnect(Listener) /\ ~send_text(Listener)
  BY Persons DEF CallsOnly, TypeOK, connect, disconnect, send_text

LEMMA NoSlowPacket ==
    ASSUME InTime, TypeOK
    PROVE  ~Spend("slow")
  BY DEF InTime, TypeOK, Spend, Fault

LEMMA PhasesDiffer ==
    /\ Active(NETWORK) /\ Active(CONNECT) /\ ~Active(DISCONNECT) /\ ~Active(HOLDOFF)
    /\ ~Active(INITIALIZE)
    /\ \A p \in HOLDOFF..DISCONNECT :
         /\ p \in {HOLDOFF, INITIALIZE, CONNECT, NETWORK, DISCONNECT}
         /\ Connectable(p) <=> p \in {HOLDOFF, INITIALIZE}
    /\ HOLDOFF # INITIALIZE /\ HOLDOFF # CONNECT /\ HOLDOFF # NETWORK /\ HOLDOFF # DISCONNECT
    /\ INITIALIZE # CONNECT /\ INITIALIZE # NETWORK /\ INITIALIZE # DISCONNECT
    /\ CONNECT # NETWORK /\ CONNECT # DISCONNECT /\ NETWORK # DISCONNECT
  BY DEF Active, Connectable, HOLDOFF, INITIALIZE, CONNECT, NETWORK, DISCONNECT

LEMMA PacketsDiffer ==
    /\ \A p \in Answers  : p # ConnReq /\ p # DisconnReq /\ p # DATA
    /\ \A p \in Requests : p # ConnAck /\ p # DisconnAck /\ p # PositiveAck
    /\ \A p \in Beats : /\ p # ConnReq /\ p # ConnAck /\ p # DisconnReq /\ p # DisconnAck
                        /\ p # DATA /\ p # PositiveAck
    /\ \A p \in {ConnReq, ConnAck, DisconnReq, DisconnAck, KaReq, KaAck} : p \notin Texts
    /\ ConnAck # DisconnAck /\ ConnAck # PositiveAck /\ DisconnAck # PositiveAck
    /\ ConnReq # DisconnReq /\ ConnReq # DATA /\ DisconnReq # DATA
<1>1. /\ ConnReq # ConnAck /\ ConnReq # DisconnReq /\ ConnReq # DisconnAck /\ ConnReq # KaReq
      /\ ConnReq # KaAck /\ ConnReq # PositiveAck /\ ConnReq # DATA
  BY DEF ConnReq, ConnAck, DisconnReq, DisconnAck, KaReq, KaAck, PositiveAck, DATA, Single, OfKind
<1>2. /\ ConnAck # DisconnReq /\ ConnAck # DisconnAck /\ ConnAck # KaReq /\ ConnAck # KaAck
      /\ ConnAck # PositiveAck /\ ConnAck # DATA
  BY DEF ConnReq, ConnAck, DisconnReq, DisconnAck, KaReq, KaAck, PositiveAck, DATA, Single, OfKind
<1>3. /\ DisconnReq # DisconnAck /\ DisconnReq # KaReq /\ DisconnReq # KaAck
      /\ DisconnReq # PositiveAck /\ DisconnReq # DATA
  BY DEF ConnReq, ConnAck, DisconnReq, DisconnAck, KaReq, KaAck, PositiveAck, DATA, Single, OfKind
<1>4. /\ DisconnAck # KaReq /\ DisconnAck # KaAck /\ DisconnAck # PositiveAck
      /\ DisconnAck # DATA
  BY DEF ConnReq, ConnAck, DisconnReq, DisconnAck, KaReq, KaAck, PositiveAck, DATA, Single, OfKind
<1>5. /\ KaReq # PositiveAck /\ KaReq # DATA /\ KaAck # PositiveAck /\ KaAck # DATA
      /\ PositiveAck # DATA
  BY DEF ConnReq, ConnAck, DisconnReq, DisconnAck, KaReq, KaAck, PositiveAck, DATA, Single, OfKind
<1> QED
  BY <1>1, <1>2, <1>3, <1>4, <1>5 DEF Answers, Requests, Beats, Texts

-----------------------------------------------------------------------------
(* What a step does to the line *)

\* Every text of t stands in s, at a place of its own.
Carried(s, t) == \E f : \A i \in DOMAIN t : t[i] \in Texts =>
    /\ f[i] \in DOMAIN s /\ s[f[i]] \in Texts
    /\ \A j \in DOMAIN t : t[j] \in Texts /\ f[i] = f[j] => i = j

LEMMA TextsCarried ==
    ASSUME \A k \in Node : Carried(net[k], net'[k])
    PROVE  (SomeText' => SomeText) /\ (OneText => OneText')
<1>1. ASSUME SomeText' PROVE SomeText
  <2>1. PICK k \in Node : \E i \in DOMAIN net'[k] : net'[k][i] \in Texts
    BY <1>1 DEF SomeText, TextAt
  <2> QED
    BY <2>1 DEF Carried, SomeText, TextAt
<1>2. ASSUME OneText, NEW k \in Node, NEW l \in Node,
             NEW i \in DOMAIN net'[k], NEW j \in DOMAIN net'[l],
             net'[k][i] \in Texts, net'[l][j] \in Texts
      PROVE  k = l /\ i = j
  <2>1. PICK f : \A x \in DOMAIN net'[k] : net'[k][x] \in Texts =>
             /\ f[x] \in DOMAIN net[k] /\ net[k][f[x]] \in Texts
             /\ \A y \in DOMAIN net'[k] : net'[k][y] \in Texts /\ f[x] = f[y] => x = y
    BY DEF Carried
  <2>2. PICK g : \A x \in DOMAIN net'[l] : net'[l][x] \in Texts =>
             /\ g[x] \in DOMAIN net[l] /\ net[l][g[x]] \in Texts
             /\ \A y \in DOMAIN net'[l] : net'[l][y] \in Texts /\ g[x] = g[y] => x = y
    BY DEF Carried
  <2>3. k = l
    BY <1>2, <2>1, <2>2 DEF OneText, TextAt
  <2>4. f[i] = f[j]
    BY <1>2, <2>1, <2>3 DEF OneText, TextAt
  <2> QED
    BY <1>2, <2>1, <2>3, <2>4
<1>3. ASSUME OneText PROVE OneText'
  BY <1>2, <1>3 DEF OneText, TextAt
<1> QED
  BY <1>1, <1>3

LEMMA SameCarried == ASSUME NEW s \in Seq(Packet) PROVE Carried(s, s)
<1> DEFINE f == [i \in DOMAIN s |-> i]
<1>1. \A i \in DOMAIN s : f[i] = i
  OBVIOUS
<1> HIDE DEF f
<1> QED
  BY <1>1 DEF Carried

LEMMA TailCarried == ASSUME NEW s \in Seq(Packet), s # <<>> PROVE Carried(s, Tail(s))
<1> DEFINE f == [i \in DOMAIN Tail(s) |-> i + 1]
<1>1. \A i \in DOMAIN Tail(s) : f[i] \in DOMAIN s /\ s[f[i]] = Tail(s)[i] /\ f[i] - 1 = i
  OBVIOUS
<1> HIDE DEF f
<1>2. \A i, j \in DOMAIN Tail(s) : f[i] = f[j] => i = j
  BY <1>1
<1> QED
  BY <1>1, <1>2 DEF Carried

LEMMA AppendCarried ==
    ASSUME NEW s \in Seq(Packet), NEW p \in Packet, p \notin Texts
    PROVE  Carried(s, Append(s, p))
<1> DEFINE f == [i \in DOMAIN s |-> i]
<1>1. \A i \in DOMAIN Append(s, p) : i \in DOMAIN s \/ Append(s, p)[i] = p
  OBVIOUS
<1>2. \A i \in DOMAIN s : f[i] = i /\ Append(s, p)[i] = s[i]
  OBVIOUS
<1> HIDE DEF f
<1> QED
  BY <1>1, <1>2 DEF Carried

LEMMA Removed ==
    ASSUME NEW S, NEW s \in Seq(S), NEW x \in 1..Len(s)
    PROVE  /\ RemoveAt(s, x) \in Seq(S) /\ Len(RemoveAt(s, x)) = Len(s) - 1
           /\ \A i \in 1..(Len(s) - 1) : RemoveAt(s, x)[i] = s[IF i < x THEN i ELSE i + 1]
<1> DEFINE b == SubSeq(s, 1, x - 1)
           c == SubSeq(s, x + 1, Len(s))
<1>1. /\ b \in Seq(S) /\ Len(b) = x - 1 /\ \A i \in 1..(x - 1) : b[i] = s[i]
      /\ Len(s) \in Nat /\ x \in Nat \ {0} /\ x <= Len(s)
  OBVIOUS
<1>2. c \in Seq(S) /\ Len(c) = Len(s) - x /\ \A i \in 1..(Len(s) - x) : c[i] = s[x + i]
  OBVIOUS
<1>3. RemoveAt(s, x) = b \o c
  BY DEF RemoveAt
<1> HIDE DEF b, c
<1>4. b \o c \in Seq(S) /\ Len(b \o c) = Len(s) - 1
  BY <1>1, <1>2
<1>5. ASSUME NEW i \in 1..(Len(s) - 1) PROVE (b \o c)[i] = s[IF i < x THEN i ELSE i + 1]
  <2>1. CASE i < x
    BY <1>1, <1>2, <2>1
  <2>2. CASE ~(i < x)
    <3>1. (b \o c)[i] = c[i - (x - 1)]
      BY <1>1, <1>2, <2>2
    <3>2. i - (x - 1) \in 1..(Len(s) - x) /\ x + (i - (x - 1)) = i + 1
      BY <1>1, <2>2
    <3> QED
      BY <1>2, <2>2, <3>1, <3>2
  <2> QED
    BY <2>1, <2>2
<1> QED
  BY <1>3, <1>4, <1>5

LEMMA RemoveCarried ==
    ASSUME NEW s \in Seq(Packet), NEW x \in 1..Len(s)
    PROVE  Carried(s, RemoveAt(s, x))
<1> DEFINE t == RemoveAt(s, x)
           f == [i \in DOMAIN t |-> IF i < x THEN i ELSE i + 1]
<1>1. Len(t) = Len(s) - 1 /\ t \in Seq(Packet)
  BY Removed
<1>2. \A i \in 1..Len(t) : t[i] = s[IF i < x THEN i ELSE i + 1]
  BY <1>1, Removed
<1>3. DOMAIN t = 1..Len(t) /\ Len(s) \in Nat /\ DOMAIN s = 1..Len(s)
  BY <1>1
<1> HIDE DEF t
<1>4. \A i \in DOMAIN t : f[i] \in DOMAIN s /\ s[f[i]] = t[i]
  BY <1>1, <1>2, <1>3
<1>5. \A i, j \in DOMAIN t : f[i] = f[j] => i = j
  BY <1>1, <1>3
<1> HIDE DEF f
<1> QED
  BY <1>4, <1>5 DEF Carried, t

LEMMA OvertakeCarried ==
    ASSUME NEW s \in Seq(Packet), NEW x \in 1..Len(s)
    PROVE  Carried(s, <<s[x]>> \o RemoveAt(s, x))
<1> DEFINE r == RemoveAt(s, x)
           t == <<s[x]>> \o r
           f == [i \in DOMAIN t |-> IF i = 1 THEN x ELSE IF i - 1 < x THEN i - 1 ELSE i]
<1>1. Len(r) = Len(s) - 1 /\ r \in Seq(Packet)
  BY Removed
<1>2. \A i \in 1..Len(r) : r[i] = s[IF i < x THEN i ELSE i + 1]
  BY <1>1, Removed
<1> HIDE DEF r
<1>3. Len(s) \in Nat /\ DOMAIN s = 1..Len(s) /\ Len(r) \in Nat
  BY <1>1
<1>4. DOMAIN t = 1..(1 + Len(r)) /\ t[1] = s[x] /\ \A i \in 2..(1 + Len(r)) : t[i] = r[i - 1]
  BY <1>1, <1>3
<1> HIDE DEF t
<1>5. \A i \in DOMAIN t : f[i] \in DOMAIN s /\ s[f[i]] = t[i]
  <2>1. TAKE i \in DOMAIN t
  <2>2. CASE i = 1
    BY <1>3, <1>4, <2>2
  <2>3. CASE i # 1
    <3>1. i \in 2..(1 + Len(r)) /\ i - 1 \in 1..Len(r)
      BY <1>3, <1>4, <2>3
    <3>2. t[i] = s[IF i - 1 < x THEN i - 1 ELSE (i - 1) + 1]
      BY <1>2, <1>4, <3>1
    <3>3. f[i] = IF i - 1 < x THEN i - 1 ELSE (i - 1) + 1
      BY <2>3, <3>1
    <3>4. f[i] \in 1..Len(s)
      BY <1>1, <1>3, <3>1, <3>3
    <3> QED
      BY <1>3, <3>2, <3>3, <3>4
  <2> QED
    BY <2>2, <2>3
<1>6. \A i, j \in DOMAIN t : f[i] = f[j] => i = j
  BY <1>1, <1>3, <1>4
<1> HIDE DEF f
<1> QED
  BY <1>5, <1>6 DEF Carried, t, r

ForNode(n) == IF n = Caller THEN Answers ELSE Requests
Hushed     == \A n \in Node : net[n] \in Seq(Beats)
LineKept   == Traffic' /\ OneText' /\ (SomeText' => SomeText)

LEMMA TrafficFacts ==
    ASSUME OneUser
    PROVE  /\ Traffic <=> \A n \in Node : net[n] \in Seq(ForNode(n))
           /\ Traffic' <=> \A n \in Node : net'[n] \in Seq(ForNode(n))
           /\ \A n \in Node : Beats \subseteq ForNode(n)
  BY Persons DEF Traffic, ForNode, Answers, Requests

LEMMA SeqOps ==
    ASSUME NEW S, NEW s \in Seq(S)
    PROVE  /\ s # <<>> => Tail(s) \in Seq(S)
           /\ \A p \in S : Append(s, p) \in Seq(S)
  OBVIOUS

\* A packet is taken in, ...
LEMMA Taken ==
    ASSUME OneUser, TypeOK, Traffic, OneText, NEW n \in Node, net[n] # <<>>, Take(n)
    PROVE  LineKept /\ (Hushed => Hushed')
<1>1. net'[n] = Tail(net[n]) /\ \A m \in Node : m # n => net'[m] = net[m]
  BY DEF Take, TypeOK
<1>2. \A m \in Node : net[m] \in Seq(Packet)
  BY DEF TypeOK, Packet
<1>3. \A m \in Node : Carried(net[m], net'[m])
  BY <1>1, <1>2, SameCarried, TailCarried
<1>4. ASSUME NEW S, NEW m \in Node, net[m] \in Seq(S) PROVE net'[m] \in Seq(S)
  <2>1. CASE m = n
    BY <1>1, <1>4, <2>1, SeqOps
  <2>2. CASE m # n
    BY <1>1, <1>4, <2>2
  <2> QED
    BY <2>1, <2>2
<1> QED
  BY <1>3, <1>4, TextsCarried, TrafficFacts DEF LineKept, Hushed

\* ... one that is no text is sent, ...
LEMMA Posted ==
    ASSUME OneUser, TypeOK, Traffic, OneText, NEW n \in Node,
           NEW p \in ForNode(Peer(n)), p \in Packet, p \notin Texts, send_packet(n, p)
    PROVE  LineKept /\ (p \in Beats /\ Hushed => Hushed')
<1>0. Peer(n) \in Node
  BY PeerFacts
<1>1. /\ net'[Peer(n)] = Append(net[Peer(n)], p)
      /\ \A m \in Node : m # Peer(n) => net'[m] = net[m]
  BY <1>0 DEF send_packet, TypeOK
<1>2. \A m \in Node : net[m] \in Seq(Packet)
  BY DEF TypeOK, Packet
<1>3. \A m \in Node : Carried(net[m], net'[m])
  BY <1>0, <1>1, <1>2, SameCarried, AppendCarried
<1>4. \A m \in Node : net[m] \in Seq(ForNode(m)) => net'[m] \in Seq(ForNode(m))
  <2> SUFFICES ASSUME NEW m \in Node, net[m] \in Seq(ForNode(m))
               PROVE  net'[m] \in Seq(ForNode(m))
    OBVIOUS
  <2>1. CASE m = Peer(n)
    BY <1>0, <1>1, <2>1, SeqOps
  <2>2. CASE m # Peer(n)
    BY <1>1, <2>2
  <2> QED
    BY <2>1, <2>2
<1>5. ASSUME p \in Beats, Hushed PROVE Hushed'
  <2> SUFFICES ASSUME NEW m \in Node PROVE net'[m] \in Seq(Beats)
    BY DEF Hushed
  <2>1. CASE m = Peer(n)
    BY <1>0, <1>1, <1>5, <2>1, SeqOps DEF Hushed
  <2>2. CASE m # Peer(n)
    BY <1>1, <1>5, <2>2 DEF Hushed
  <2> QED
    BY <2>1, <2>2
<1> QED
  BY <1>3, <1>4, <1>5, TextsCarried, TrafficFacts DEF LineKept

\* ... or is the answer to one that is taken in.
LEMMA Replied ==
    ASSUME OneUser, TypeOK, Traffic, OneText, NEW n \in Node, net[n] # <<>>,
           NEW p \in Beats, p \in Packet, p \notin Texts, Reply(n, p)
    PROVE  LineKept /\ (Hushed => Hushed')
<1>0. Peer(n) \in Node /\ Peer(n) # n
  BY PeerFacts
<1>1. /\ net'[Peer(n)] = Append(net[Peer(n)], p) /\ net'[n] = Tail(net[n])
      /\ \A m \in Node : m # Peer(n) /\ m # n => net'[m] = net[m]
  BY <1>0 DEF Reply, TypeOK
<1>2. \A m \in Node : net[m] \in Seq(Packet)
  BY DEF TypeOK, Packet
<1>3. \A m \in Node : Carried(net[m], net'[m])
  BY <1>0, <1>1, <1>2, SameCarried, AppendCarried, TailCarried
<1>4. ASSUME NEW m \in Node, NEW S, Beats \subseteq S, net[m] \in Seq(S)
      PROVE  net'[m] \in Seq(S)
  <2>1. CASE m = n
    BY <1>1, <1>4, <2>1, SeqOps
  <2>2. CASE m = Peer(n)
    BY <1>1, <1>4, <2>2, SeqOps
  <2>3. CASE m # n /\ m # Peer(n)
    BY <1>1, <1>4, <2>3
  <2> QED
    BY <2>1, <2>2, <2>3
<1>5. Hushed => Hushed'
  BY <1>4 DEF Hushed
<1>6. \A m \in Node : net[m] \in Seq(ForNode(m)) => net'[m] \in Seq(ForNode(m))
  BY <1>4, TrafficFacts
<1> QED
  BY <1>3, <1>5, <1>6, TextsCarried, TrafficFacts DEF LineKept

\* The network repeats no text.
LEMMA NoTextRepeated ==
    ASSUME NoEcho, TypeOK, TextAwaited, NEW n \in Node, Duplicate(n)
    PROVE  ~SomeText
<1>1. struck["duplicate"] < scenario.faults["duplicate"] /\ struck["duplicate"] \in Nat
  BY DEF Duplicate, Spend, TypeOK, Fault
<1>2. scenario.faults["duplicate"] # 0
  <2> SUFFICES ASSUME scenario.faults["duplicate"] = 0 PROVE FALSE
    OBVIOUS
  <2>1. PICK k \in Nat : k = struck["duplicate"]
    BY <1>1
  <2>2. k < 0
    BY <1>1, <2>1
  <2> QED
    BY <2>2
<1>3. scenario.talk = {}
  BY <1>2 DEF NoEcho, TypeOK
<1> QED
  BY <1>3 DEF TextAwaited

LEMMA Disturbed ==
    ASSUME OneUser, NoEcho, TypeOK, Line, NEW n \in Node, NetworkFault(n)
    PROVE  LineKept /\ (Hushed => Hushed')
<1>0. Traffic /\ OneText /\ TextAwaited
  BY DEF Line
<1>1. \A m \in Node : net[m] \in Seq(Packet)
  BY DEF TypeOK, Packet
<1>2. /\ \A m \in Node : m # n => net'[m] = net[m]
      /\ Carried(net[n], net'[n])
      /\ \A S : net[n] \in Seq(S) => net'[n] \in Seq(S)
  <2>1. CASE Lose(n)
    <3>1. PICK x \in 1..Len(net[n]) : net' = [net EXCEPT ![n] = RemoveAt(@, x)]
      BY <2>1 DEF Lose, Position
    <3>2. net'[n] = RemoveAt(net[n], x) /\ \A m \in Node : m # n => net'[m] = net[m]
      BY <3>1 DEF TypeOK
    <3> QED
      BY <1>1, <3>2, RemoveCarried, Removed
  <2>2. CASE Duplicate(n)
    <3>1. PICK x \in 1..Len(net[n]) : net' = [net EXCEPT ![n] = Append(@, @[x])]
      BY <2>2 DEF Duplicate, Position
    <3>2. net'[n] = Append(net[n], net[n][x]) /\ \A m \in Node : m # n => net'[m] = net[m]
      BY <3>1 DEF TypeOK
    <3>3. net[n][x] \notin Texts /\ net[n][x] \in Packet
      BY <1>0, <1>1, <2>2, NoTextRepeated DEF SomeText, TextAt
    <3>4. \A S : net[n] \in Seq(S) => Append(net[n], net[n][x]) \in Seq(S)
      OBVIOUS
    <3> QED
      BY <1>1, <3>2, <3>3, <3>4, AppendCarried
  <2>3. CASE Overtake(n)
    <3>1. PICK x \in 1..Len(net[n]) : net' = [net EXCEPT ![n] = <<@[x]>> \o RemoveAt(@, x)]
      BY <2>3 DEF Overtake, Position
    <3>2. /\ net'[n] = <<net[n][x]>> \o RemoveAt(net[n], x)
          /\ \A m \in Node : m # n => net'[m] = net[m]
      BY <3>1 DEF TypeOK
    <3>3. ASSUME NEW S, net[n] \in Seq(S) PROVE net'[n] \in Seq(S)
      <4>1. RemoveAt(net[n], x) \in Seq(S) /\ net[n][x] \in S
        BY <3>3, Removed
      <4> QED
        BY <3>2, <4>1
    <3> QED
      BY <1>1, <3>2, <3>3, OvertakeCarried
  <2> QED
    BY <2>1, <2>2, <2>3 DEF NetworkFault
<1>3. \A m \in Node : Carried(net[m], net'[m])
  BY <1>1, <1>2, SameCarried
<1>4. \A S : \A m \in Node : net[m] \in Seq(S) => net'[m] \in Seq(S)
  BY <1>2
<1>5. (Hushed => Hushed') /\ Traffic'
  BY <1>0, <1>4, TrafficFacts DEF Hushed
<1> QED
  BY <1>0, <1>3, <1>5, TextsCarried DEF LineKept

\* A text that is taken in was the only one, ...
LEMMA LastText ==
    ASSUME TypeOK, OneText, NEW n \in Node, net[n] # <<>>, Head(net[n]) \in Texts,
           NEW t, t = Tail(net[n])
    PROVE  /\ \A i \in DOMAIN t : t[i] \notin Texts
           /\ \A m \in Node : m # n => \A i \in DOMAIN net[m] : net[m][i] \notin Texts
<1>1. net[n] \in Seq(Packet) /\ 1 \in DOMAIN net[n] /\ net[n][1] \in Texts
  BY DEF TypeOK, Packet
<1>2. \A i \in DOMAIN t : t[i] = net[n][i + 1] /\ i + 1 \in DOMAIN net[n] /\ i + 1 # 1
  BY <1>1
<1> QED
  BY <1>1, <1>2 DEF OneText, TextAt

\* ... and its acknowledgment is the only one then.
LEMMA TextAnswered ==
    ASSUME OneUser, TypeOK, Traffic, OneText, net[Listener] # <<>>, Head(net[Listener]) = DATA,
           Reply(Listener, PositiveAck)
    PROVE  LineKept /\ SomeText
<1>0. /\ Caller \in Node /\ Listener \in Node /\ Caller # Listener /\ Peer(Listener) = Caller
      /\ Node = {Caller, Listener} /\ DATA \in Texts /\ PositiveAck \in Answers
  BY Persons DEF Texts, Answers
<1>1. /\ net'[Caller] = Append(net[Caller], PositiveAck)
      /\ net'[Listener] = Tail(net[Listener])
  BY <1>0 DEF Reply, TypeOK
<1>2. net[Caller] \in Seq(Answers) /\ net[Listener] \in Seq(Requests)
  BY DEF Traffic
<1>3. Traffic'
  BY <1>1, <1>2, <1>0 DEF Traffic
<1>4. /\ \A i \in DOMAIN net'[Listener] : net'[Listener][i] \notin Texts
      /\ \A i \in DOMAIN net[Caller] : net[Caller][i] \notin Texts
  BY <1>0, <1>1, LastText
<1>5. ASSUME NEW i \in DOMAIN net'[Caller], net'[Caller][i] \in Texts
      PROVE  i = Len(net[Caller]) + 1
  BY <1>1, <1>2, <1>4, <1>5
<1>6. OneText'
  BY <1>0, <1>4, <1>5 DEF OneText, TextAt
<1>7. SomeText
  <2>1. 1 \in DOMAIN net[Listener] /\ net[Listener][1] = DATA
    BY <1>2
  <2> QED
    BY <1>0, <2>1 DEF SomeText, TextAt
<1> QED
  BY <1>3, <1>6, <1>7 DEF LineKept

-----------------------------------------------------------------------------
(* While one of the two does something, the other keeps what it has *)

CallersView == <<running[Caller], phase[Caller], ack_received[Caller], ka_running[Caller],
                 cli[Caller], rx[Caller], ka[Caller], cli_timer[Caller], scenario>>

ListenersView == <<running[Listener], phase[Listener], ka_running[Listener], cli[Listener],
                   rx[Listener], ka[Listener], ka_timer[Listener]>>

\* What a step of the listener, or of the network, leaves the caller with.
ListenerStep == /\ UNCHANGED CallersView /\ LineKept /\ (Silent => Silent')
                /\ cli'[Listener] = "idle" /\ (running[Listener] => Listening)'

\* What a step of the caller leaves the listener with.
CallerStep == /\ UNCHANGED ListenersView /\ UNCHANGED scenario
              /\ Line' /\ (running[Caller] => Callers)'

LEMMA CallerWatches ==
    ASSUME CallInv, ListenerStep, Inv'
    PROVE  CallInv'
<1>1. Line'
  BY DEF CallInv, ListenerStep, CallersView, LineKept, Line, TextAwaited
<1>2. (running[Caller] => Callers)'
  BY DEF CallInv, ListenerStep, CallersView, Callers, Calling, Keeping, Alive, GivingUp
<1> QED
  BY <1>1, <1>2 DEF CallInv, ListenerStep

LEMMA ListenerWaits ==
    ASSUME CallInv, CallerStep, Inv'
    PROVE  CallInv'
  BY DEF CallInv, CallerStep, ListenersView, Listening, Alive

-----------------------------------------------------------------------------
(* The steps of the listener *)

LEMMA ListenerUser ==
    ASSUME Orderly, CallInv, User(Listener)
    PROVE  ListenerStep
<1>0. /\ OneUser /\ TypeOK /\ Line /\ Traffic /\ OneText /\ Caller # Listener
      /\ Caller \in Node /\ Listener \in Node /\ Node = {Caller, Listener}
  BY Persons DEF Orderly, CallInv, Inv, Line
<1>1. exit(Listener) \/ restart(Listener)
  BY <1>0, NoOtherUser DEF User
<1>2. LineKept /\ UNCHANGED net
  BY <1>0, <1>1 DEF exit, restart, LineKept, Traffic, OneText, SomeText, TextAt
<1>3. CASE exit(Listener)
  <2>1. UNCHANGED CallersView /\ ~running'[Listener]
    BY <1>0, <1>3 DEF exit, Spend, TypeOK, CallersView, keeper, line
  <2>2. Silent => Silent'
    BY <1>2, <1>3, <2>1 DEF exit, Silent
  <2>3. cli'[Listener] = "idle"
    BY <1>3 DEF exit, CallInv, line
  <2> QED
    BY <1>2, <2>1, <2>2, <2>3 DEF ListenerStep
<1>4. CASE restart(Listener)
  <2>1. UNCHANGED CallersView
    BY <1>0, <1>4 DEF restart, TypeOK, CallersView, bounds, faults
  <2>2. /\ rx'[Listener] = "select" /\ phase'[Listener] = INITIALIZE /\ ka'[Listener] = "none"
        /\ cli'[Listener] = "idle" /\ rx'[Caller] = rx[Caller]
    BY <1>0, <1>4 DEF restart, TypeOK
  <2>3. Silent => Silent'
    BY <1>2, <2>2 DEF Silent
  <2>4. Listening'
    BY <2>2, PhasesDiffer DEF Listening, Alive
  <2> QED
    BY <1>2, <2>1, <2>2, <2>3, <2>4 DEF ListenerStep
<1> QED
  BY <1>1, <1>3, <1>4

\* What comes in at the listener is a request or a beat, and only a beat while
\* nothing else is on the line.
LEMMA AtListener ==
    ASSUME Orderly, CallInv, running[Listener], net[Listener] # <<>>
    PROVE  /\ Head(net[Listener]) \in Requests
           /\ Hushed => Head(net[Listener]) \in Beats
<1>1. net[Listener] \in Seq(Requests) /\ Listener \in Node
  BY Persons DEF Orderly, CallInv, Line, Traffic
<1> QED
  BY <1>1 DEF Hushed

LEMMA ListenerAnswers ==
    ASSUME Orderly, CallInv, Receiving(Listener)
    PROVE  ListenerStep
<1>0. /\ OneUser /\ TypeOK /\ Line /\ Traffic /\ OneText /\ Caller # Listener
      /\ Caller \in Node /\ Listener \in Node /\ Node = {Caller, Listener}
      /\ Peer(Listener) = Caller /\ phase[Listener] \in HOLDOFF..DISCONNECT
      /\ cli[Listener] = "idle" /\ (running[Listener] => Listening)
  BY Persons DEF Orderly, CallInv, Inv, Line, TypeOK
<1>1. CASE process_tcu_conn_req(Listener)
  <2>1. /\ running[Listener] /\ rx[Listener] = "select" /\ net[Listener] # <<>>
        /\ Head(net[Listener]) = ConnReq /\ Connectable(phase[Listener]) /\ Take(Listener)
    BY <1>1 DEF process_tcu_conn_req, Receives, RxAt
  <2>2. LineKept /\ ~Silent
    BY <1>0, <2>1, Taken, AtListener, PacketsDiffer DEF Silent, Hushed
  <2>3. UNCHANGED CallersView /\ cli'[Listener] = "idle"
    BY <1>0, <1>1 DEF process_tcu_conn_req, CallersView, keeper, line, bounds, faults,
       new_phase, RxTo, TypeOK
  <2>4. /\ rx'[Listener] = "accept" /\ phase'[Listener] = CONNECT
        /\ ka'[Listener] = ka[Listener]
    BY <1>0, <1>1 DEF process_tcu_conn_req, keeper, new_phase, RxTo, TypeOK
  <2>5. Listening'
    BY <1>0, <2>1, <2>4, PhasesDiffer DEF Listening, Alive
  <2> QED
    BY <2>2, <2>3, <2>5 DEF ListenerStep
<1>2. CASE Accept(Listener)
  <2>1. UNCHANGED CallersView /\ UNCHANGED net /\ cli'[Listener] = "idle"
    BY <1>0, <1>2 DEF Accept, start_keep_alive, Sleep, KaTo, CallersView, line, bounds, faults,
       RxTo, TypeOK
  <2>2. /\ running[Listener] /\ rx[Listener] = "accept" /\ rx'[Listener] = "greet"
        /\ ka'[Listener] = "sleep" /\ ka_running'[Listener] /\ phase'[Listener] = phase[Listener]
        /\ ka_timer'[Listener] = IdleInterval
    BY <1>0, <1>2 DEF Accept, RxAt, RxTo, start_keep_alive, Sleep, KaTo, TypeOK
  <2>3. IdleInterval > 0
    BY TimerAssumption DEF Recent, MaxAttempts
  <2>4. Listening' /\ ~Silent
    BY <1>0, <2>2, <2>3 DEF Listening, Alive, Silent
  <2>5. LineKept
    BY <1>0, <2>1 DEF LineKept, Traffic, OneText, SomeText, TextAt
  <2> QED
    BY <2>1, <2>4, <2>5 DEF ListenerStep
<1>3. CASE send_tcu_conn_ack(Listener)
  <2>1. /\ UNCHANGED CallersView /\ cli'[Listener] = "idle"
        /\ UNCHANGED <<phase, ka_running, ka, ka_timer>>
    BY <1>0, <1>3 DEF send_tcu_conn_ack, Answer, CallersView, keeper, line, bounds, faults,
       RxTo, TypeOK
  <2>2. running[Listener] /\ rx[Listener] = "greet" /\ phase[Listener] = CONNECT
    BY <1>0, <1>3 DEF send_tcu_conn_ack, Answer, RxAt, Listening
  <2>3. send_packet(Listener, ConnAck) /\ rx'[Listener] = "greeted"
    BY <1>0, <1>3, <2>2 DEF send_tcu_conn_ack, Answer, RxTo, TypeOK
  <2>4. ConnAck \in ForNode(Caller)
    BY DEF ForNode, Answers
  <2>5. LineKept
    BY <1>0, <2>3, <2>4, Posted, PacketsDiffer, PacketFacts
  <2>6. Listening' /\ ~Silent
    BY <1>0, <2>1, <2>2, <2>3 DEF Listening, Alive, Silent
  <2> QED
    BY <2>1, <2>5, <2>6 DEF ListenerStep
<1>4. CASE Enter(Listener)
  <2>1. /\ UNCHANGED CallersView /\ UNCHANGED net /\ cli'[Listener] = "idle"
        /\ UNCHANGED <<ka_running, ka, ka_timer>>
    BY <1>0, <1>4 DEF Enter, new_phase, CallersView, keeper, line, bounds, faults, RxTo, TypeOK
  <2>2. /\ running[Listener] /\ rx'[Listener] = "select"
        /\ \/ rx[Listener] = "greeted"   /\ phase'[Listener] = NETWORK
           \/ rx[Listener] = "fin_acked" /\ phase'[Listener] = HOLDOFF
    BY <1>0, <1>4 DEF Enter, new_phase, RxAt, RxTo, TypeOK, Listening
  <2>3. Listening' /\ ~Silent
    BY <1>0, <2>1, <2>2, PhasesDiffer DEF Listening, Alive, Silent
  <2>4. LineKept
    BY <1>0, <2>1 DEF LineKept, Traffic, OneText, SomeText, TextAt
  <2> QED
    BY <2>1, <2>3, <2>4 DEF ListenerStep
<1>5. CASE process_tcu_disconn_req(Listener)
  <2>1. /\ running[Listener] /\ rx[Listener] = "select" /\ net[Listener] # <<>>
        /\ Head(net[Listener]) = DisconnReq /\ Take(Listener)
    BY <1>5 DEF process_tcu_disconn_req, Receives, RxAt
  <2>2. LineKept /\ ~Silent
    BY <1>0, <2>1, Taken, AtListener, PacketsDiffer DEF Silent, Hushed
  <2>3. UNCHANGED CallersView /\ cli'[Listener] = "idle"
    BY <1>0, <1>5 DEF process_tcu_disconn_req, CallersView, keeper, line, bounds, faults,
       new_phase, RxTo, TypeOK
  <2>4. /\ rx'[Listener] = "fin_join" /\ phase'[Listener] = DISCONNECT
        /\ ~ka_running'[Listener]
    BY <1>0, <1>5 DEF process_tcu_disconn_req, new_phase, RxTo, TypeOK
  <2>5. Listening'
    BY <2>4 DEF Listening
  <2> QED
    BY <2>2, <2>3, <2>5 DEF ListenerStep
<1>6. CASE send_tcu_disconn_ack(Listener)
  <2>1. /\ UNCHANGED CallersView /\ cli'[Listener] = "idle"
        /\ UNCHANGED <<phase, ka_running, ka, ka_timer>>
    BY <1>0, <1>6 DEF send_tcu_disconn_ack, Answer, CallersView, keeper, line, bounds, faults,
       RxTo, TypeOK
  <2>2. /\ running[Listener] /\ rx[Listener] = "fin_ack"
        /\ \/ send_packet(Listener, DisconnAck) /\ rx'[Listener] = "fin_acked"
           \/ UNCHANGED net /\ phase[Listener] # DISCONNECT /\ rx'[Listener] = "select"
    BY <1>0, <1>6 DEF send_tcu_disconn_ack, Answer, RxAt, RxTo, TypeOK
  <2>3. DisconnAck \in ForNode(Caller)
    BY DEF ForNode, Answers
  <2>4. LineKept
    <3>1. CASE UNCHANGED net
      BY <1>0, <3>1 DEF LineKept, Traffic, OneText, SomeText, TextAt
    <3> QED
      BY <1>0, <2>2, <2>3, <3>1, Posted, PacketsDiffer, PacketFacts
  <2>5. Listening' /\ ~Silent
    BY <1>0, <2>1, <2>2, PhasesDiffer DEF Listening, Alive, Silent
  <2> QED
    BY <2>1, <2>4, <2>5 DEF ListenerStep
<1>7. CASE RxJoin(Listener)
  <2>1. UNCHANGED CallersView /\ UNCHANGED net /\ cli'[Listener] = "idle"
    BY <1>0, <1>7 DEF RxJoin, Join, CallersView, line, bounds, faults, RxTo, TypeOK
  <2>2. /\ running[Listener] /\ rx[Listener] = "fin_join" /\ rx'[Listener] = "fin_ack"
        /\ ka'[Listener] = "none" /\ phase'[Listener] = phase[Listener]
    BY <1>0, <1>7 DEF RxJoin, Join, RxAt, RxTo, TypeOK, Listening
  <2>3. Listening' /\ ~Silent
    BY <1>0, <2>2 DEF Listening, Alive, Silent
  <2>4. LineKept
    BY <1>0, <2>1 DEF LineKept, Traffic, OneText, SomeText, TextAt
  <2> QED
    BY <2>1, <2>3, <2>4 DEF ListenerStep
<1>8. ASSUME \/ process_tcu_ka_req(Listener) \/ process_tcu_ka_ack(Listener)
             \/ process_tcu_single_text(Listener) \/ Ignore(Listener)
      PROVE  ListenerStep
  <2>1. /\ UNCHANGED CallersView /\ UNCHANGED ListenersView
        /\ UNCHANGED <<running, rx>>
    BY <1>8 DEF process_tcu_ka_req, process_tcu_ka_ack, process_tcu_single_text, Ignore,
       CallersView, ListenersView, keeper, line, bounds, faults
  <2>2. LineKept /\ (Silent => Hushed')
    <3>1. CASE process_tcu_ka_req(Listener)
      <4>1. /\ net[Listener] # <<>>
            /\ Reply(Listener, KaAck) \/ Take(Listener)
        BY <3>1 DEF process_tcu_ka_req, Receives
      <4>2. KaAck \in Beats
        BY DEF Beats
      <4> QED
        BY <1>0, <4>1, <4>2, Taken, Replied, PacketsDiffer, PacketFacts DEF Silent, Hushed
    <3>2. CASE process_tcu_ka_ack(Listener) \/ Ignore(Listener)
      <4>1. net[Listener] # <<>> /\ Take(Listener)
        BY <3>2 DEF process_tcu_ka_ack, Ignore, Receives
      <4> QED
        BY <1>0, <4>1, Taken DEF Silent, Hushed
    <3>3. CASE process_tcu_single_text(Listener)
      <4>1. /\ running[Listener] /\ net[Listener] # <<>> /\ Head(net[Listener]) = DATA
            /\ Reply(Listener, PositiveAck)
        BY <3>3 DEF process_tcu_single_text, Receives, RxAt
      <4> QED
        BY <1>0, <4>1, TextAnswered, AtListener, PacketsDiffer DEF Silent, Hushed
    <3> QED
      BY <1>8, <3>1, <3>2, <3>3
  <2>3. Silent => Silent'
    BY <2>1, <2>2 DEF Silent, Hushed
  <2>4. (running[Listener] => Listening)' /\ cli'[Listener] = "idle"
    BY <1>0, <2>1 DEF ListenersView, Listening, Alive
  <2> QED
    BY <2>1, <2>2, <2>3, <2>4 DEF ListenerStep
<1>9. ~process_tcu_conn_ack(Listener) /\ ~process_tcu_disconn_ack(Listener)
      /\ ~process_tcu_positive_ack(Listener)
  BY AtListener, PacketsDiffer DEF process_tcu_conn_ack, process_tcu_disconn_ack,
     process_tcu_positive_ack, Receives, RxAt
<1>10. ~Start(Listener)
  BY <1>0 DEF Start, RxAt, Listening
<1> QED
  BY <1>1, <1>2, <1>3, <1>4, <1>5, <1>6, <1>7, <1>8, <1>9, <1>10 DEF Receiving

LEMMA ListenerKeeps ==
    ASSUME Orderly, CallInv, keep_alive_loop(Listener)
    PROVE  ListenerStep
<1>0. /\ OneUser /\ TypeOK /\ Line /\ Traffic /\ OneText /\ Caller # Listener
      /\ Caller \in Node /\ Listener \in Node /\ Node = {Caller, Listener}
      /\ Peer(Listener) = Caller
      /\ cli[Listener] = "idle" /\ (running[Listener] => Listening)
  BY Persons DEF Orderly, CallInv, Inv, Line
<1>1. /\ running[Listener] /\ Listening /\ UNCHANGED <<running, rx>>
      /\ UNCHANGED CallersView /\ cli'[Listener] = "idle"
  BY <1>0 DEF keep_alive_loop, Wake, send_keep_alive_req, AttemptOver, Stopped, NoAnswer,
     KaAt, KaTo, Sleep, new_phase, CallersView, line, bounds, faults, TypeOK
<1>2. LineKept /\ (Hushed => Hushed')
  <2>1. CASE send_keep_alive_req(Listener)
    <3>1. KaReq \in ForNode(Caller) /\ KaReq \in Beats
      BY DEF ForNode, Answers, Beats
    <3> QED
      BY <1>0, <2>1, <3>1, Posted, PacketsDiffer, PacketFacts DEF send_keep_alive_req
  <2>2. CASE ~send_keep_alive_req(Listener)
    <3>1. UNCHANGED net
      BY <2>2 DEF keep_alive_loop, Wake, AttemptOver, Stopped, NoAnswer
    <3> QED
      BY <1>0, <3>1 DEF LineKept, Traffic, OneText, SomeText, TextAt, Hushed
  <2> QED
    BY <2>1, <2>2
<1>3. Silent => Silent'
  BY <1>1, <1>2 DEF Silent, Hushed
<1>4. CASE NoAnswer(Listener)
  <2>1. /\ ka[Listener] = "quit" /\ ka'[Listener] = "done" /\ ~ka_running'[Listener]
        /\ phase'[Listener] = HOLDOFF
    BY <1>0, <1>4 DEF NoAnswer, KaAt, KaTo, new_phase, TypeOK
  <2>2. Listening'
    BY <1>1, <2>1, PhasesDiffer DEF Listening, Alive
  <2> QED
    BY <1>1, <1>2, <1>3, <2>2 DEF ListenerStep
<1>5. CASE ~NoAnswer(Listener)
  <2>1. UNCHANGED <<phase, ka_running>> /\ ka[Listener] \in {"sleep", "probe", "await"}
    BY <1>5 DEF keep_alive_loop, Wake, send_keep_alive_req, AttemptOver, Stopped, KaAt
  <2>2. rx[Listener] \notin {"greet", "greeted"}
    <3>1. ASSUME rx[Listener] \in {"greet", "greeted"} PROVE FALSE
      <4>1. ka[Listener] = "sleep" /\ ka_running[Listener] /\ ka_timer[Listener] > 0
        BY <1>1, <3>1 DEF Listening
      <4> QED
        BY <1>5, <4>1 DEF keep_alive_loop, Wake, send_keep_alive_req, AttemptOver, Stopped, KaAt
    <3> QED
      BY <3>1
  <2>3. Listening'
    BY <1>1, <2>1, <2>2 DEF Listening, Alive
  <2> QED
    BY <1>1, <1>2, <1>3, <2>3 DEF ListenerStep
<1> QED
  BY <1>4, <1>5

\* No command of the listener is under way.
LEMMA ListenerIdles ==
    ASSUME CallInv
    PROVE  ~CommandLine(Listener) /\ ~JoinTwice(Listener)
  BY DEF CallInv, CommandLine, send_tcu_conn_req, send_tcu_disconn_req, Request, AckSeen, NoAck,
     Close, StopKeepAlive, JoinKeepAlive, JoinTwice, CliAt

LEMMA NetworkStep ==
    ASSUME Orderly, CallInv, NEW n \in Node, NetworkFault(n)
    PROVE  ListenerStep
<1>0. /\ OneUser /\ NoEcho /\ TypeOK /\ Line
      /\ cli[Listener] = "idle" /\ (running[Listener] => Listening)
  BY DEF Orderly, CallInv, Inv, Line
<1>1. LineKept /\ (Hushed => Hushed')
  BY <1>0, Disturbed
<1>2. UNCHANGED CallersView /\ UNCHANGED ListenersView /\ UNCHANGED <<running, rx>>
  BY DEF NetworkFault, Lose, Duplicate, Overtake, Spend, CallersView, ListenersView, keeper, line
<1>3. (running[Listener] => Listening)' /\ cli'[Listener] = "idle"
  BY <1>0, <1>2 DEF ListenersView, Listening, Alive
<1> QED
  BY <1>1, <1>2, <1>3 DEF ListenerStep, Silent, Hushed

-----------------------------------------------------------------------------
(* The steps of the caller *)

LEMMA CallerFacts ==
    ASSUME Orderly, CallInv
    PROVE  /\ OneUser /\ TypeOK /\ Traffic /\ OneText /\ TextAwaited /\ Caller # Listener
           /\ Caller \in Node /\ Listener \in Node /\ Node = {Caller, Listener}
           /\ Peer(Caller) = Listener /\ phase[Caller] \in HOLDOFF..DISCONNECT
           /\ (running[Caller] => Calling /\ Keeping /\ (GivingUp => Silent))
  BY Persons DEF Orderly, CallInv, Inv, Line, TypeOK, Callers

\* A command is given only when no text is on its way, ...
LEMMA NoTextLeft ==
    ASSUME CallInv, running[Caller], cli[Caller] # "wait" \/ ack_received[Caller]
    PROVE  ~SomeText
  BY DEF CallInv, Line, TextAwaited

\* ... so a text that is sent is the only one.
LEMMA TextSent ==
    ASSUME OneUser, TypeOK, Traffic, ~SomeText, send_packet(Caller, DATA)
    PROVE  Traffic' /\ OneText'
<1>0. /\ Caller \in Node /\ Listener \in Node /\ Caller # Listener /\ Peer(Caller) = Listener
      /\ Node = {Caller, Listener} /\ DATA \in Requests
  BY Persons DEF Requests
<1>1. net'[Listener] = Append(net[Listener], DATA) /\ net'[Caller] = net[Caller]
  BY <1>0 DEF send_packet, TypeOK
<1>2. net[Caller] \in Seq(Answers) /\ net[Listener] \in Seq(Requests)
  BY DEF Traffic
<1>3. Traffic'
  BY <1>0, <1>1, <1>2 DEF Traffic
<1>4. /\ \A i \in DOMAIN net[Caller] : net[Caller][i] \notin Texts
      /\ \A i \in DOMAIN net[Listener] : net[Listener][i] \notin Texts
  BY <1>0 DEF SomeText, TextAt
<1>5. ASSUME NEW i \in DOMAIN net'[Listener], net'[Listener][i] \in Texts
      PROVE  i = Len(net[Listener]) + 1
  BY <1>1, <1>2, <1>4, <1>5
<1>6. /\ \A i \in DOMAIN net'[Caller] : net'[Caller][i] \notin Texts
      /\ \A i, j \in DOMAIN net'[Listener] :
           net'[Listener][i] \in Texts /\ net'[Listener][j] \in Texts => i = j
  BY <1>1, <1>4, <1>5
<1>7. OneText'
  BY <1>0, <1>6 DEF OneText, TextAt
<1> QED
  BY <1>3, <1>7

LEMMA LineUntouched ==
    ASSUME UNCHANGED net, Traffic, OneText
    PROVE  LineKept /\ (Hushed' <=> Hushed)
  BY DEF LineKept, Traffic, OneText, SomeText, TextAt, Hushed

LEMMA CallerUser ==
    ASSUME Orderly, CallInv, User(Caller)
    PROVE  CallerStep
<1>0. /\ OneUser /\ TypeOK /\ Traffic /\ OneText /\ TextAwaited /\ Caller # Listener
      /\ Caller \in Node /\ Listener \in Node /\ Node = {Caller, Listener}
      /\ Peer(Caller) = Listener /\ phase[Caller] \in HOLDOFF..DISCONNECT
      /\ (running[Caller] => Calling /\ Keeping /\ (GivingUp => Silent))
  BY CallerFacts
<1>1. CASE connect(Caller) \/ disconnect(Caller)
  <2>1. /\ UNCHANGED <<running, phase, ack_received, ka_running, rx, ka, net, scenario>>
        /\ running[Caller] /\ cli[Caller] = "idle" /\ UNCHANGED ListenersView
        /\ \/ Connectable(phase[Caller]) /\ cli'[Caller] = "connect"
           \/ Active(phase[Caller]) /\ cli'[Caller] = "disconnect"
    BY <1>0, <1>1 DEF connect, disconnect, MayCommand, CliAt, CliTo, Command, keeper, faults,
       ListenersView, TypeOK
  <2>2. LineKept /\ ~SomeText
    BY <1>0, <2>1, LineUntouched, NoTextLeft
  <2>3. Line'
    BY <2>2 DEF Line, LineKept, TextAwaited
  <2>4. Calling' /\ Keeping' /\ ~GivingUp'
    <3>1. Calling'
      BY <1>0, <2>1, PhasesDiffer DEF Calling
    <3>2. Keeping'
      BY <1>0, <2>1 DEF Keeping, Alive
    <3> QED
      BY <2>1, <3>1, <3>2 DEF GivingUp
  <2> QED
    BY <2>1, <2>3, <2>4 DEF CallerStep, Callers
<1>2. CASE send_text(Caller)
  <2>1. /\ UNCHANGED <<running, phase, ka_running, rx, ka, scenario>>
        /\ running[Caller] /\ cli[Caller] = "idle" /\ UNCHANGED ListenersView
        /\ Active(phase[Caller]) /\ Caller \in scenario.talk
    BY <1>0, <1>2 DEF send_text, MayCommand, CliAt, Wait, Command, keeper, faults,
       ListenersView, TypeOK
  <2>2. /\ cli'[Caller] = "wait" /\ ~ack_received'[Caller]
        /\ cli_timer'[Caller] = ReceiveTimeout
    BY <1>0, <1>2 DEF send_text, Wait, TypeOK
  <2>3. Traffic' /\ OneText'
    BY <1>0, <1>2, <2>1, NoTextLeft, TextSent DEF send_text
  <2>4. ReceiveTimeout > 0
    BY TimerAssumption
  <2>5. phase[Caller] \in {CONNECT, DISCONNECT} => rx[Caller] = "acked"
    BY <1>0, <2>1 DEF Calling
  <2>6. Line'
    BY <2>1, <2>2, <2>3, <2>5 DEF Line, TextAwaited
  <2>7. Calling' /\ Keeping' /\ ~GivingUp'
    <3>1. Calling'
      BY <1>0, <2>1, <2>2, PhasesDiffer DEF Calling
    <3>2. Keeping'
      BY <1>0, <2>1, <2>2 DEF Keeping, Alive
    <3> QED
      BY <2>2, <2>4, <3>1, <3>2 DEF GivingUp
  <2> QED
    BY <2>1, <2>6, <2>7 DEF CallerStep, Callers
<1>3. CASE exit(Caller)
  <2>1. UNCHANGED ListenersView /\ UNCHANGED <<net, scenario>> /\ ~running'[Caller]
    BY <1>0, <1>3 DEF exit, Spend, keeper, line, ListenersView, TypeOK
  <2>2. LineKept
    BY <1>0, <2>1, LineUntouched
  <2>3. Line'
    BY <1>0, <2>1, <2>2 DEF Line, LineKept, TextAwaited
  <2> QED
    BY <2>1, <2>3 DEF CallerStep
<1>4. CASE restart(Caller)
  <2>1. /\ UNCHANGED ListenersView /\ UNCHANGED <<net, scenario>>
        /\ \A m \in Node : net[m] = <<>>
        /\ phase'[Caller] = INITIALIZE /\ cli'[Caller] = "idle" /\ rx'[Caller] = "select"
        /\ ka'[Caller] = "none" /\ ~ka_running'[Caller]
    BY <1>0, <1>4 DEF restart, bounds, faults, ListenersView, TypeOK
  <2>2. LineKept /\ ~SomeText
    BY <1>0, <2>1, LineUntouched DEF SomeText
  <2>3. Line'
    BY <2>2 DEF Line, LineKept, TextAwaited
  <2>4. Callers'
    BY <2>1, PhasesDiffer DEF Callers, Calling, Keeping, GivingUp, Alive
  <2> QED
    BY <2>1, <2>3, <2>4 DEF CallerStep
<1> QED
  BY <1>1, <1>2, <1>3, <1>4 DEF User

LEMMA CallerCommands ==
    ASSUME Orderly, CallInv, CommandLine(Caller)
    PROVE  CallerStep
<1>0. /\ OneUser /\ TypeOK /\ Traffic /\ OneText /\ TextAwaited /\ Caller # Listener
      /\ Caller \in Node /\ Listener \in Node /\ Node = {Caller, Listener}
      /\ Peer(Caller) = Listener /\ phase[Caller] \in HOLDOFF..DISCONNECT
      /\ (running[Caller] => Calling /\ Keeping /\ (GivingUp => Silent))
  BY CallerFacts
<1>1. /\ running[Caller] /\ Calling /\ Keeping /\ (GivingUp => Silent)
      /\ UNCHANGED <<running, rx, scenario>> /\ UNCHANGED ListenersView
  BY <1>0 DEF CommandLine, send_tcu_conn_req, send_tcu_disconn_req, Request, AckSeen, NoAck,
     Close, StopKeepAlive, JoinKeepAlive, Join, CliAt, CliTo, Wait, new_phase, keeper, line,
     bounds, faults, ListenersView, TypeOK
<1>2. ASSUME send_tcu_conn_req(Caller) \/ send_tcu_disconn_req(Caller)
      PROVE  Line' /\ Callers'
  <2>1. /\ UNCHANGED <<ka, ka_running>>
        /\ cli'[Caller] = "wait" /\ ~ack_received'[Caller] /\ cli_timer'[Caller] = ConfirmTimeout
        /\ \/ cli[Caller] = "connect" /\ phase'[Caller] = CONNECT
           \/ cli[Caller] = "disconnect" /\ phase'[Caller] = DISCONNECT
    BY <1>0, <1>2 DEF send_tcu_conn_req, send_tcu_disconn_req, Request, CliAt, Wait, new_phase,
       keeper, TypeOK
  <2>2. ~SomeText
    BY <1>1, <2>1, NoTextLeft
  <2>3. ConnReq \in ForNode(Listener) /\ DisconnReq \in ForNode(Listener)
    BY <1>0 DEF ForNode, Requests
  <2>4. LineKept
    BY <1>0, <1>2, <2>3, Posted, PacketsDiffer, PacketFacts
       DEF send_tcu_conn_req, send_tcu_disconn_req, Request
  <2>5. Line'
    BY <2>2, <2>4 DEF Line, LineKept, TextAwaited
  <2>6. ConfirmTimeout > 0
    BY TimerAssumption
  <2>7. Calling'
    BY <1>1, <2>1, PhasesDiffer DEF Calling
  <2>8. Keeping'
    BY <1>1, <2>1, PhasesDiffer DEF Calling, Keeping, Alive
  <2> QED
    BY <2>1, <2>5, <2>6, <2>7, <2>8 DEF Callers, GivingUp
<1>3. ASSUME AckSeen(Caller) PROVE Line' /\ Callers'
  <2>1. /\ UNCHANGED <<ka, ka_running, phase, net>> /\ cli[Caller] = "wait" /\ ack_received[Caller]
        /\ cli'[Caller] = "idle"
    BY <1>0, <1>3 DEF AckSeen, CliAt, keeper, TypeOK
  <2>2. LineKept /\ ~SomeText
    BY <1>0, <1>1, <2>1, NoTextLeft, LineUntouched
  <2>3. Line'
    BY <2>2 DEF Line, LineKept, TextAwaited
  <2>4. Calling'
    BY <1>1, <2>1 DEF Calling
  <2>5. Keeping'
    BY <1>1, <2>1 DEF Keeping, Alive
  <2> QED
    BY <2>1, <2>3, <2>4, <2>5 DEF Callers, GivingUp
<1>4. ASSUME \/ NoAck(Caller) \/ Close(Caller) \/ StopKeepAlive(Caller) \/ JoinKeepAlive(Caller)
      PROVE  Line' /\ Callers'
  <2>1. /\ UNCHANGED net /\ GivingUp /\ rx[Caller] = "select" /\ Silent
        /\ \/ cli[Caller] = "wait" /\ cli'[Caller] = "expired" /\ UNCHANGED <<ka, ka_running, phase>>
           \/ /\ cli[Caller] = "expired" /\ cli'[Caller] = "stop"
              /\ phase'[Caller] = HOLDOFF /\ UNCHANGED <<ka, ka_running>>
           \/ /\ cli[Caller] = "stop" /\ cli'[Caller] = "join"
              /\ ~ka_running'[Caller] /\ UNCHANGED <<ka, phase>>
           \/ /\ cli[Caller] = "join" /\ cli'[Caller] = "idle"
              /\ ka'[Caller] = "none" /\ UNCHANGED <<ka_running, phase>>
    BY <1>0, <1>1, <1>4 DEF NoAck, Close, StopKeepAlive, JoinKeepAlive, Join, CliAt, CliTo,
       new_phase, keeper, GivingUp, Silent, TypeOK
  <2>2. Silent'
    BY <1>1, <2>1 DEF Silent
  <2>3. LineKept /\ ~SomeText
    <3>1. \A n \in Node : \A i \in DOMAIN net[n] : net[n][i] \in Beats
      BY <2>1 DEF Silent
    <3>2. ~SomeText
      BY <3>1, PacketsDiffer DEF SomeText, TextAt, Texts
    <3> QED
      BY <1>0, <2>1, <3>2, LineUntouched
  <2>4. Line'
    BY <2>3 DEF Line, LineKept, TextAwaited
  <2>5. Calling'
    BY <1>1, <2>1, PhasesDiffer DEF Calling
  <2>6. Keeping'
    BY <1>1, <2>1, PhasesDiffer DEF Calling, Keeping, Alive
  <2> QED
    BY <2>2, <2>4, <2>5, <2>6 DEF Callers
<1> QED
  BY <1>1, <1>2, <1>3, <1>4 DEF CommandLine, CallerStep

\* What comes in at the caller is an answer or a beat.
LEMMA AtCaller ==
    ASSUME Orderly, CallInv, net[Caller] # <<>>
    PROVE  /\ Head(net[Caller]) \in Answers
           /\ Hushed => Head(net[Caller]) \in Beats
<1>1. net[Caller] \in Seq(Answers) /\ Caller \in Node
  BY Persons DEF Orderly, CallInv, Line, Traffic
<1> QED
  BY <1>1 DEF Hushed

LEMMA CallerReceives ==
    ASSUME Orderly, CallInv, Receiving(Caller)
    PROVE  CallerStep
<1>0. /\ OneUser /\ TypeOK /\ Traffic /\ OneText /\ TextAwaited /\ Caller # Listener
      /\ Caller \in Node /\ Listener \in Node /\ Node = {Caller, Listener}
      /\ Peer(Caller) = Listener /\ phase[Caller] \in HOLDOFF..DISCONNECT
      /\ (running[Caller] => Calling /\ Keeping /\ (GivingUp => Silent))
  BY CallerFacts
<1>1. UNCHANGED <<running, cli, cli_timer, scenario>> /\ UNCHANGED ListenersView
  BY <1>0 DEF Receiving, process_tcu_conn_req, Accept, send_tcu_conn_ack, process_tcu_conn_ack,
     Enter, Start, process_tcu_disconn_req, send_tcu_disconn_ack, process_tcu_disconn_ack, RxJoin,
     process_tcu_ka_req, process_tcu_ka_ack, process_tcu_single_text, process_tcu_positive_ack,
     Ignore, Answer, Join, start_keep_alive, Sleep, KaTo, RxTo, new_phase, keeper, line,
     bounds, faults, ListenersView, TypeOK
<1>2. ASSUME process_tcu_conn_ack(Caller) PROVE Line' /\ (running[Caller] => Callers)'
  <2>1. /\ running[Caller] /\ rx[Caller] = "select" /\ net[Caller] # <<>>
        /\ Head(net[Caller]) = ConnAck /\ Take(Caller) /\ phase[Caller] = CONNECT
        /\ UNCHANGED <<phase, ka, ka_running>> /\ rx'[Caller] = "acked" /\ ack_received'[Caller]
    BY <1>0, <1>2 DEF process_tcu_conn_ack, Receives, RxAt, RxTo, keeper, TypeOK
  <2>2. LineKept /\ ~Silent
    BY <1>0, <2>1, Taken, AtCaller, PacketsDiffer DEF Silent, Hushed
  <2>3. ~SomeText
    BY <1>0, <2>1 DEF TextAwaited
  <2>4. Line'
    BY <2>2, <2>3 DEF Line, LineKept, TextAwaited
  <2>5. ~GivingUp'
    BY <1>0, <1>1, <2>1, <2>2 DEF GivingUp
  <2>6. Calling'
    BY <1>0, <1>1, <2>1, PhasesDiffer DEF Calling
  <2>7. Keeping'
    BY <1>0, <1>1, <2>1, PhasesDiffer DEF Calling, Keeping, Alive
  <2> QED
    BY <2>4, <2>5, <2>6, <2>7 DEF Callers
<1>3. ASSUME Enter(Caller) PROVE Line' /\ (running[Caller] => Callers)'
  <2>1. /\ running[Caller] /\ rx[Caller] = "acked" /\ UNCHANGED <<net, ka, ka_running, ack_received>>
        /\ rx'[Caller] = "start" /\ phase'[Caller] = NETWORK
    BY <1>0, <1>3 DEF Enter, RxAt, RxTo, new_phase, keeper, TypeOK, Calling
  <2>2. LineKept /\ ~Silent
    BY <1>0, <2>1, LineUntouched DEF Silent
  <2>3. Line'
    BY <1>0, <1>1, <2>1, <2>2, PhasesDiffer DEF Line, LineKept, TextAwaited
  <2>4. ~GivingUp'
    BY <1>0, <1>1, <2>1, <2>2 DEF GivingUp
  <2>5. Calling'
    BY <1>0, <1>1, <2>1, <2>2, PhasesDiffer DEF Calling, GivingUp
  <2>6. Keeping'
    BY <1>0, <1>1, <2>1, <2>2, PhasesDiffer DEF Keeping, Alive, GivingUp
  <2> QED
    BY <2>3, <2>4, <2>5, <2>6 DEF Callers
<1>4. ASSUME Start(Caller) PROVE Line' /\ (running[Caller] => Callers)'
  <2>1. /\ running[Caller] /\ rx[Caller] = "start" /\ UNCHANGED <<net, phase, ack_received>>
        /\ rx'[Caller] = "select" /\ ka_running'[Caller]
    BY <1>0, <1>4 DEF Start, RxAt, RxTo, start_keep_alive, TypeOK
  <2>2. LineKept /\ ~Silent
    BY <1>0, <2>1, LineUntouched DEF Silent
  <2>3. ~GivingUp /\ (phase[Caller] = NETWORK \/ phase[Caller] = DISCONNECT)
    BY <1>0, <2>1, <2>2 DEF Calling
  <2>4. Line'
    BY <1>0, <1>1, <2>1, <2>2, <2>3, PhasesDiffer DEF Line, LineKept, TextAwaited
  <2>5. Calling'
    BY <1>0, <1>1, <2>1, <2>3, PhasesDiffer DEF Calling, GivingUp
  <2>6. Keeping'
    BY <1>0, <1>1, <2>1, <2>3, PhasesDiffer DEF Keeping, GivingUp
  <2> QED
    BY <1>1, <2>3, <2>4, <2>5, <2>6 DEF Callers, GivingUp
<1>5. ASSUME process_tcu_disconn_ack(Caller) PROVE Line' /\ (running[Caller] => Callers)'
  <2>1. /\ running[Caller] /\ rx[Caller] = "select" /\ net[Caller] # <<>>
        /\ Head(net[Caller]) = DisconnAck /\ Take(Caller) /\ phase[Caller] = DISCONNECT
        /\ phase'[Caller] = HOLDOFF /\ ~ka_running'[Caller] /\ rx'[Caller] = "closed_join"
    BY <1>0, <1>5 DEF process_tcu_disconn_ack, Receives, RxAt, RxTo, new_phase, TypeOK
  <2>2. LineKept /\ ~Silent
    BY <1>0, <2>1, Taken, AtCaller, PacketsDiffer DEF Silent, Hushed
  <2>3. ~SomeText
    BY <1>0, <2>1 DEF TextAwaited
  <2>4. Line'
    BY <2>2, <2>3 DEF Line, LineKept, TextAwaited
  <2>5. ~GivingUp'
    BY <1>0, <1>1, <2>1, <2>2 DEF GivingUp
  <2>6. Calling'
    BY <1>0, <1>1, <2>1, PhasesDiffer DEF Calling
  <2>7. Keeping'
    BY <2>1 DEF Keeping
  <2> QED
    BY <2>4, <2>5, <2>6, <2>7 DEF Callers
<1>6. ASSUME RxJoin(Caller) PROVE Line' /\ (running[Caller] => Callers)'
  <2>1. /\ running[Caller] /\ rx[Caller] = "closed_join"
        /\ UNCHANGED <<net, phase, ka_running, ack_received>>
        /\ rx'[Caller] = "select" /\ ka'[Caller] = "none"
    BY <1>0, <1>6 DEF RxJoin, Join, RxAt, RxTo, TypeOK, Calling
  <2>2. LineKept /\ ~Silent
    BY <1>0, <2>1, LineUntouched DEF Silent
  <2>3. ~GivingUp /\ phase[Caller] # NETWORK
    BY <1>0, <2>1, <2>2, PhasesDiffer DEF Calling
  <2>4. Line'
    BY <1>0, <1>1, <2>1, <2>2, PhasesDiffer DEF Line, LineKept, TextAwaited, Calling
  <2>5. Calling'
    BY <1>0, <1>1, <2>1, PhasesDiffer DEF Calling
  <2>6. Keeping'
    BY <1>0, <1>1, <2>1, <2>3, PhasesDiffer DEF Keeping, GivingUp, Alive
  <2> QED
    BY <1>1, <2>3, <2>4, <2>5, <2>6 DEF Callers, GivingUp
<1>7. ASSUME process_tcu_positive_ack(Caller) PROVE Line' /\ (running[Caller] => Callers)'
  <2>1. /\ running[Caller] /\ rx[Caller] = "select" /\ net[Caller] # <<>>
        /\ Head(net[Caller]) = PositiveAck /\ Take(Caller) /\ Active(phase[Caller])
        /\ UNCHANGED <<phase, ka, ka_running, rx>>
    BY <1>0, <1>7 DEF process_tcu_positive_ack, Receives, RxAt, keeper
  <2>2. LineKept /\ ~Silent
    BY <1>0, <2>1, Taken, AtCaller, PacketsDiffer DEF Silent, Hushed
  <2>3. SomeText /\ ~SomeText'
    <3>1. net'[Caller] = Tail(net[Caller]) /\ net'[Listener] = net[Listener]
          /\ PositiveAck \in Texts /\ net[Caller] \in Seq(Answers)
      BY <1>0, <2>1 DEF Take, TypeOK, Texts, Traffic
    <3>2. 1 \in DOMAIN net[Caller] /\ net[Caller][1] = PositiveAck
      BY <2>1, <3>1
    <3>3. /\ \A i \in DOMAIN net'[Caller] : net'[Caller][i] \notin Texts
          /\ \A i \in DOMAIN net[Listener] : net[Listener][i] \notin Texts
      BY <1>0, <2>1, <3>1, LastText
    <3> QED
      BY <1>0, <3>1, <3>2, <3>3 DEF SomeText, TextAt
  <2>4. phase[Caller] \notin {CONNECT, DISCONNECT}
    BY <1>0, <2>1, <2>3 DEF TextAwaited
  <2>5. Line'
    BY <2>2, <2>3 DEF Line, LineKept, TextAwaited
  <2>6. ~GivingUp'
    BY <1>0, <1>1, <2>1, <2>2 DEF GivingUp
  <2>7. Calling'
    BY <1>0, <1>1, <2>1, <2>4 DEF Calling
  <2>8. Keeping'
    BY <1>0, <1>1, <2>1 DEF Keeping, Alive
  <2> QED
    BY <2>5, <2>6, <2>7, <2>8 DEF Callers
<1>8. ASSUME process_tcu_ka_req(Caller) \/ process_tcu_ka_ack(Caller) \/ Ignore(Caller)
      PROVE  Line' /\ (running[Caller] => Callers)'
  <2>1. UNCHANGED <<phase, ka, ka_running, rx, ack_received>>
    BY <1>8 DEF process_tcu_ka_req, process_tcu_ka_ack, Ignore, keeper
  <2>2. LineKept /\ (Hushed => Hushed')
    <3>1. CASE process_tcu_ka_req(Caller)
      <4>1. net[Caller] # <<>> /\ (Reply(Caller, KaAck) \/ Take(Caller))
        BY <3>1 DEF process_tcu_ka_req, Receives
      <4>2. KaAck \in Beats
        BY DEF Beats
      <4> QED
        BY <1>0, <4>1, <4>2, Taken, Replied, PacketsDiffer, PacketFacts
    <3>2. CASE process_tcu_ka_ack(Caller) \/ Ignore(Caller)
      <4>1. net[Caller] # <<>> /\ Take(Caller)
        BY <3>2 DEF process_tcu_ka_ack, Ignore, Receives
      <4> QED
        BY <1>0, <4>1, Taken
    <3> QED
      BY <1>8, <3>1, <3>2
  <2>3. Silent => Silent'
    BY <1>1, <2>1, <2>2 DEF Silent, Hushed, ListenersView
  <2>4. Line'
    BY <1>0, <1>1, <2>1, <2>2 DEF Line, LineKept, TextAwaited
  <2>5. (running[Caller] => Callers)'
    BY <1>0, <1>1, <2>1, <2>3 DEF Callers, Calling, Keeping, Alive, GivingUp
  <2> QED
    BY <2>4, <2>5
<1>9. /\ ~process_tcu_conn_req(Caller) /\ ~process_tcu_disconn_req(Caller)
      /\ ~process_tcu_single_text(Caller)
  BY AtCaller, PacketsDiffer DEF process_tcu_conn_req, process_tcu_disconn_req,
     process_tcu_single_text, Receives, RxAt
<1>10. ~Accept(Caller) /\ ~send_tcu_conn_ack(Caller) /\ ~send_tcu_disconn_ack(Caller)
  BY <1>0 DEF Accept, send_tcu_conn_ack, send_tcu_disconn_ack, Answer, RxAt, Calling
<1> QED
  BY <1>1, <1>2, <1>3, <1>4, <1>5, <1>6, <1>7, <1>8, <1>9, <1>10 DEF Receiving, CallerStep

LEMMA CallerKeeps ==
    ASSUME Orderly, CallInv, keep_alive_loop(Caller)
    PROVE  CallerStep
<1>0. /\ OneUser /\ TypeOK /\ Traffic /\ OneText /\ TextAwaited /\ Caller # Listener
      /\ Caller \in Node /\ Listener \in Node /\ Node = {Caller, Listener}
      /\ Peer(Caller) = Listener /\ phase[Caller] \in HOLDOFF..DISCONNECT
      /\ (running[Caller] => Calling /\ Keeping /\ (GivingUp => Silent))
  BY CallerFacts
<1>1. /\ running[Caller] /\ Calling /\ Keeping /\ (GivingUp => Silent) /\ Alive(Caller)
      /\ UNCHANGED <<running, cli, rx, ack_received, cli_timer, scenario>>
      /\ UNCHANGED ListenersView
  BY <1>0 DEF keep_alive_loop, Wake, send_keep_alive_req, AttemptOver, Stopped, NoAnswer,
     KaAt, KaTo, Sleep, new_phase, line, bounds, faults, ListenersView, Alive, TypeOK
<1>2. LineKept /\ (Hushed => Hushed')
  <2>1. CASE send_keep_alive_req(Caller)
    <3>1. KaReq \in ForNode(Listener) /\ KaReq \in Beats
      BY <1>0 DEF ForNode, Requests, Beats
    <3> QED
      BY <1>0, <2>1, <3>1, Posted, PacketsDiffer, PacketFacts DEF send_keep_alive_req
  <2>2. CASE ~send_keep_alive_req(Caller)
    <3>1. UNCHANGED net
      BY <2>2 DEF keep_alive_loop, Wake, AttemptOver, Stopped, NoAnswer
    <3> QED
      BY <1>0, <3>1, LineUntouched
  <2> QED
    BY <2>1, <2>2
<1>3. Silent => Silent'
  BY <1>1, <1>2 DEF Silent, Hushed, ListenersView
<1>4. /\ rx[Caller] \notin {"acked", "start"}
      /\ \/ phase'[Caller] = HOLDOFF /\ ka'[Caller] = "done" /\ ~ka_running'[Caller]
         \/ UNCHANGED <<phase, ka_running>>
  <2>1. CASE NoAnswer(Caller)
    BY <1>0, <1>1, <2>1 DEF NoAnswer, KaAt, KaTo, new_phase, Keeping, TypeOK
  <2>2. CASE ~NoAnswer(Caller)
    BY <1>1, <2>2 DEF keep_alive_loop, Wake, send_keep_alive_req, AttemptOver, Stopped, Keeping
  <2> QED
    BY <2>1, <2>2
<1>5. Line'
  BY <1>0, <1>1, <1>2, <1>4, PhasesDiffer DEF Line, LineKept, TextAwaited
<1>6. Calling'
  BY <1>1, <1>4, PhasesDiffer DEF Calling
<1>7. Keeping'
  BY <1>1, <1>4, PhasesDiffer DEF Keeping, Alive
<1>8. GivingUp' => Silent'
  BY <1>1, <1>3 DEF GivingUp
<1> QED
  BY <1>1, <1>5, <1>6, <1>7, <1>8 DEF CallerStep, Callers

\* A command that joins the keep-alive thread does so while nothing is on the
\* line that would have a handler join it.
LEMMA CallerJoinsOnce ==
    ASSUME CallInv
    PROVE  ~JoinTwice(Caller)
  BY DEF CallInv, Callers, GivingUp, Silent, JoinTwice, CliAt, Joins

-----------------------------------------------------------------------------
(* The clock, and all the steps *)

\* A handler that is half way has something to do, unless it waits for a
\* keep-alive thread that is to go on.
LEMMA HandlersWait ==
    ASSUME TypeOK, NEW n \in Node, running[n], ~Busy(n)
    PROVE  rx[n] = "select" \/ (rx[n] \in Joins /\ Alive(n) /\ ka_running[n])
<1>1. rx[n] \in RxPc /\ ka[n] \in KaPc
  BY DEF TypeOK
<1>2. rx[n] = "select" \/ (rx[n] \in Joins /\ Alive(n))
  BY <1>1 DEF Busy
<1>3. Alive(n) => ka[n] \in {"sleep", "probe", "await", "quit"}
  BY <1>1 DEF Alive, KaPc
<1>4. Alive(n) => ka_running[n]
  BY <1>3 DEF Busy
<1> QED
  BY <1>2, <1>4

\* No packet is on its way when the clock ticks, and no handler half way.
LEMMA AllDone ==
    ASSUME Orderly, CallInv, Tick, NEW n \in Node
    PROVE  /\ running[n] => rx[n] = "select"
           /\ net[n] = <<>>
<1>0. /\ OneUser /\ InTime /\ TypeOK /\ Caller # Listener /\ Caller \in Node
      /\ Listener \in Node /\ Node = {Caller, Listener} /\ ~Busy(n)
      /\ (running[Caller] => Calling /\ Keeping) /\ (running[Listener] => Listening)
  BY Persons DEF Orderly, CallInv, Inv, Callers, Tick
<1>1. ASSUME running[n] PROVE rx[n] = "select"
  <2>0. rx[n] = "select" \/ (rx[n] \in Joins /\ Alive(n) /\ ka_running[n])
    BY <1>0, <1>1, HandlersWait
  <2>1. CASE n = Caller
    BY <1>0, <1>1, <2>0, <2>1 DEF Calling, Keeping, Joins
  <2>2. CASE n = Listener
    BY <1>0, <1>1, <2>0, <2>2 DEF Listening, Joins
  <2> QED
    BY <1>0, <2>1, <2>2
<1>2. ~Pending(n)
  BY <1>0, NoSlowPacket DEF Tick
<1> QED
  BY <1>1, <1>2 DEF Pending

LEMMA CallTick ==
    ASSUME Orderly, CallInv, Tick
    PROVE  CallInv'
<1>0. /\ OneUser /\ TypeOK /\ Traffic /\ OneText /\ TextAwaited /\ Caller # Listener
      /\ Caller \in Node /\ Listener \in Node /\ Node = {Caller, Listener}
      /\ (running[Caller] => Calling /\ Keeping) /\ (running[Listener] => Listening)
      /\ cli[Listener] = "idle" /\ InTime
  BY CallerFacts DEF CallInv, Orderly
<1>1. /\ UNCHANGED <<running, phase, ack_received, ka_running, cli, rx, ka, net, scenario>>
      /\ \A n \in Node : net[n] = <<>> /\ (running[n] => rx[n] = "select")
  BY <1>0, AllDone, NoSlowPacket DEF Tick, faults
<1>2. Inv'
  BY InvTick DEF CallInv
<1>3. LineKept
  BY <1>0, <1>1, LineUntouched
<1>4. Line'
  BY <1>0, <1>1, <1>3 DEF Line, LineKept, TextAwaited
<1>5. (running[Listener] => Listening)'
  BY <1>0, <1>1 DEF Listening, Alive
<1>6. (running[Caller] => Silent)'
  <2>1. <<>> \in Seq(Beats) /\ \A n \in Node : net'[n] = <<>>
    BY <1>1
  <2> QED
    BY <1>0, <1>1, <2>1 DEF Silent
<1>7. (running[Caller] => Calling)' /\ (running[Caller] => Keeping)'
  BY <1>0, <1>1 DEF Calling, Keeping, Alive
<1> QED
  BY <1>0, <1>1, <1>2, <1>4, <1>5, <1>6, <1>7 DEF CallInv, Callers

LEMMA CallStays ==
    ASSUME CallInv, UNCHANGED vars
    PROVE  CallInv'
<1>1. /\ UNCHANGED <<running, phase, ack_received, ka_running, cli, rx, ka, cli_timer, ka_timer,
                     net, scenario>>
      /\ Inv'
  BY InvNext DEF CallInv, vars
<1>2. Line'
  BY <1>1 DEF CallInv, Line, Traffic, OneText, TextAwaited, SomeText, TextAt
<1>3. (running[Listener] => Listening)'
  BY <1>1 DEF CallInv, Listening, Alive
<1>4. (running[Caller] => Callers)'
  BY <1>1 DEF CallInv, Callers, Calling, Keeping, GivingUp, Silent, Alive
<1> QED
  BY <1>1, <1>2, <1>3, <1>4 DEF CallInv

LEMMA CallInit ==
    ASSUME Orderly, Init
    PROVE  CallInv
<1>0. /\ Inv /\ Caller \in Node /\ Listener \in Node /\ Node = {Caller, Listener}
  BY InvInit, Persons DEF Orderly
<1>1. \A n \in Node : /\ phase[n] = INITIALIZE /\ cli[n] = "idle" /\ rx[n] = "select"
                      /\ ka[n] = "none" /\ net[n] = <<>>
  BY DEF Init
<1>2. Traffic /\ ~SomeText
  <2>1. net[Caller] = <<>> /\ net[Listener] = <<>>
    BY <1>0, <1>1
  <2>2. <<>> \in Seq(Answers) /\ <<>> \in Seq(Requests)
    OBVIOUS
  <2>3. Traffic
    BY <2>1, <2>2 DEF Traffic
  <2>4. ~SomeText
    BY <1>1 DEF SomeText
  <2> QED
    BY <2>3, <2>4
<1>3. Line
  BY <1>2 DEF Line, OneText, SomeText, TextAwaited
<1>4. Listening
  BY <1>0, <1>1, PhasesDiffer DEF Listening, Alive
<1>5. Callers
  BY <1>0, <1>1, PhasesDiffer DEF Callers, Calling, Keeping, GivingUp, Alive
<1> QED
  BY <1>0, <1>1, <1>3, <1>4, <1>5 DEF CallInv

LEMMA CallNext ==
    ASSUME Orderly, CallInv, [Next]_vars
    PROVE  CallInv'
<1>0. /\ Inv' /\ Node = {Caller, Listener}
  BY InvNext, CallerFacts DEF CallInv
<1>1. CASE Tick
  BY <1>1, CallTick
<1>2. CASE UNCHANGED vars
  BY <1>2, CallStays
<1>3. ASSUME NEW n \in Node, NetworkFault(n) PROVE CallInv'
  BY <1>0, <1>3, NetworkStep, CallerWatches
<1>4. ASSUME \/ User(Listener) \/ CommandLine(Listener) \/ Receiving(Listener)
             \/ keep_alive_loop(Listener) \/ JoinTwice(Listener)
      PROVE  CallInv'
  <2>1. ListenerStep
    BY <1>4, ListenerUser, ListenerAnswers, ListenerKeeps, ListenerIdles
  <2> QED
    BY <1>0, <2>1, CallerWatches
<1>5. ASSUME \/ User(Caller) \/ CommandLine(Caller) \/ Receiving(Caller)
             \/ keep_alive_loop(Caller) \/ JoinTwice(Caller)
      PROVE  CallInv'
  <2>1. CallerStep
    BY <1>5, CallerUser, CallerCommands, CallerReceives, CallerKeeps, CallerJoinsOnce
  <2> QED
    BY <1>0, <2>1, ListenerWaits
<1> QED
  BY <1>0, <1>1, <1>2, <1>3, <1>4, <1>5 DEF Next

LEMMA CallAlways ==
    ASSUME Orderly
    PROVE  Spec => []CallInv
<1>1. Init => CallInv
  BY CallInit
<1>2. CallInv /\ [Next]_vars => CallInv'
  BY CallNext
<1> QED
  BY <1>1, <1>2, PTL DEF Spec

-----------------------------------------------------------------------------
(* What follows *)

\* At rest, a node has a keep-alive thread that is meant to go on if and only
\* if its connection is up, at either end: start_keep_alive in the handlers of
\* SYN and SYN + ACK, and the three ways out of the connection, keep the two
\* together.
THEOREM KeepAliveAlwaysFollows ==
    ASSUME Orderly
    PROVE  Spec => []KeepAliveFollowsConnection
<1>1. CallInv => KeepAliveFollowsConnection
  <2> SUFFICES ASSUME CallInv, NEW n \in Node, AtRest(n)
               PROVE  phase[n] = NETWORK <=> ka_running[n] /\ Alive(n)
    BY DEF KeepAliveFollowsConnection
  <2>0. /\ running[n] /\ cli[n] = "idle" /\ rx[n] = "select" /\ ~Busy(n)
        /\ TypeOK /\ (ka_running[n] => Alive(n)) /\ Node = {Caller, Listener}
        /\ phase[n] \in HOLDOFF..DISCONNECT
    BY CallerFacts DEF AtRest, CliAt, RxAt, CallInv, Inv, Backed, TypeOK
  <2>1. CASE n = Caller
    BY <2>0, <2>1, PhasesDiffer DEF CallInv, Callers, Calling, Keeping
  <2>2. CASE n = Listener
    BY <2>0, <2>2, PhasesDiffer DEF CallInv, Listening
  <2> QED
    BY <2>0, <2>1, <2>2
<1> QED
  BY <1>1, CallAlways, PTL

\* The command line thread and the receive thread never wait for the same
\* keep-alive thread: when stop_keep_alive of a command that gave up joins it,
\* nothing is on the line that has a handler join it too.
THEOREM NeverJoinedTwice ==
    ASSUME Orderly
    PROVE  Spec => []NoDoubleJoin
<1>1. CallInv => NoDoubleJoin
  <2>1. CallInv => Node = {Caller, Listener} /\ ~CliAt(Listener, "join")
    BY CallerFacts DEF CallInv, CliAt
  <2>2. CallInv => ~(CliAt(Caller, "join") /\ rx[Caller] \in Joins)
    BY DEF CallInv, Callers, GivingUp, Silent, CliAt, Joins
  <2> QED
    BY <2>1, <2>2 DEF NoDoubleJoin
<1> QED
  BY <1>1, CallAlways, PTL

\* No command returns, and no handler ends, with the connection half open: the
\* two phases of a handshake are left by the handler of the answer or by the
\* command that waited for it, and by nothing in between.
THEOREM AlwaysSettled ==
    ASSUME Orderly
    PROVE  Spec => []ConnectSettled
<1>1. CallInv => ConnectSettled
  <2> SUFFICES ASSUME CallInv, NEW n \in Node, CliAt(n, "idle"), RxAt(n, "select")
               PROVE  phase[n] \in {HOLDOFF, INITIALIZE, NETWORK}
    BY DEF ConnectSettled
  <2>0. /\ running[n] /\ cli[n] = "idle" /\ rx[n] = "select"
        /\ Node = {Caller, Listener} /\ phase[n] \in HOLDOFF..DISCONNECT
    BY CallerFacts DEF CliAt, RxAt, CallInv, Inv, TypeOK
  <2>1. CASE n = Caller
    BY <2>0, <2>1, PhasesDiffer DEF CallInv, Callers, Calling
  <2>2. CASE n = Listener
    BY <2>0, <2>2, PhasesDiffer DEF CallInv, Listening
  <2> QED
    BY <2>0, <2>1, <2>2
<1> QED
  BY <1>1, CallAlways, PTL

-----------------------------------------------------------------------------
(* What the two nodes agree on, where nothing is lost *)

Controls == {ConnReq, ConnAck, DisconnReq, DisconnAck}

Has(s, p)  == \E i \in DOMAIN s : s[i] = p
Free(s)    == \A i \in DOMAIN s : s[i] \notin Controls
Only(s, p) == /\ Has(s, p)
              /\ \A i, j \in DOMAIN s : s[i] \in Controls /\ s[j] \in Controls => i = j

NoControl == Free(net[Caller]) /\ Free(net[Listener])

\* A probe that waits for its answer has not waited longer than the clock has
\* ticked since, and was answered before the first tick.
Probed(n) ==
    /\ ka[n] # "quit"
    /\ ka[n] = "await" =>
         /\ ka_timer[n] <= AttemptInterval
         /\ \/ age[n] + ka_timer[n] <= AttemptInterval
            \/ /\ ka_timer[n] = AttemptInterval
               /\ Has(net[Peer(n)], KaReq) \/ Has(net[n], KaAck)

Beating == \A n \in Node : Probed(n)

\* The listener has answered a SYN, or a FIN or none.
Greeted == \/ rx[Listener] = "greeted"
           \/ rx[Listener] = "select" /\ phase[Listener] = NETWORK
Rested  == \/ rx[Listener] = "fin_acked"
           \/ rx[Listener] = "select" /\ phase[Listener] \in {HOLDOFF, INITIALIZE}

\* A connection is down, being opened, up, or being closed.
Closed ==
    /\ NoControl /\ Rested
    /\ phase[Caller] \in {HOLDOFF, INITIALIZE} /\ rx[Caller] \in {"select", "closed_join"}
    /\ cli[Caller] # "disconnect" /\ (cli[Caller] = "connect" => rx[Caller] = "select")

Opening ==
    /\ Beating
    /\ phase[Caller] = CONNECT /\ rx[Caller] = "select"
    /\ cli[Caller] = "wait" /\ ~ack_received[Caller] /\ cli_timer[Caller] > 0
    /\ \/ Only(net[Listener], ConnReq) /\ Free(net[Caller]) /\ Rested
       \/ NoControl /\ rx[Listener] \in {"accept", "greet"}
       \/ Only(net[Caller], ConnAck) /\ Free(net[Listener]) /\ Greeted

Open ==
    /\ Beating /\ NoControl /\ Greeted
    /\ \/ rx[Caller] = "acked" /\ phase[Caller] = CONNECT
       \/ rx[Caller] \in {"start", "select"} /\ phase[Caller] = NETWORK
    /\ \/ cli[Caller] \in {"idle", "disconnect"}
       \/ cli[Caller] = "wait" /\ cli_timer[Caller] > 0 /\ (ack_received[Caller] \/ SomeText)

Closing ==
    /\ cli[Caller] \in {"wait", "expired"} /\ ~ack_received[Caller] /\ ~SomeText
    /\ rx[Caller] \in {"acked", "start", "select"}
    /\ rx[Listener] \notin {"accept", "greet"}
    /\ \/ /\ Only(net[Listener], DisconnReq) /\ Free(net[Caller])
          /\ rx[Listener] \notin {"fin_join", "fin_ack"}
       \/ NoControl /\ ~Greeted
       \/ Only(net[Caller], DisconnAck) /\ Free(net[Listener]) /\ Rested

Stages == Closed \/ Opening \/ Open \/ Closing

\* The user connects again only when the last connection is closed to the end:
\* the receive thread is through with process_tcu_disconn_ack.
Patience == \A n \in Node : connect(n) => rx[n] = "select"

Steady == Undisturbed => (\A n \in Node : running[n]) /\ Stages

-----------------------------------------------------------------------------

LEMMA ControlsTaken ==
    ASSUME NEW s \in Seq(Packet), s # <<>>
    PROVE  /\ Free(s) => Free(Tail(s)) /\ Head(s) \notin Controls
           /\ Head(s) \notin Controls => \A p \in Controls : Only(s, p) => Only(Tail(s), p)
           /\ Head(s) \in Controls =>
                \A p \in Controls : Only(s, p) => p = Head(s) /\ Free(Tail(s))
<1>1. 1 \in DOMAIN s /\ s[1] = Head(s)
  OBVIOUS
<1>2. \A i \in DOMAIN Tail(s) : Tail(s)[i] = s[i + 1] /\ i + 1 \in DOMAIN s /\ i + 1 # 1
  OBVIOUS
<1>3. \A i \in DOMAIN s : i # 1 => i - 1 \in DOMAIN Tail(s) /\ Tail(s)[i - 1] = s[i]
  OBVIOUS
<1>4. Free(s) => Free(Tail(s)) /\ Head(s) \notin Controls
  BY <1>1, <1>2 DEF Free
<1>5. ASSUME NEW p \in Controls, Only(s, p), Head(s) \notin Controls
      PROVE  Only(Tail(s), p)
  <2>1. Has(Tail(s), p)
    <3>1. PICK i \in DOMAIN s : s[i] = p
      BY <1>5 DEF Only, Has
    <3>2. i # 1
      BY <1>1, <1>5, <3>1
    <3> QED
      BY <1>3, <3>1, <3>2 DEF Has
  <2>2. ASSUME NEW i \in DOMAIN Tail(s), NEW j \in DOMAIN Tail(s),
               Tail(s)[i] \in Controls, Tail(s)[j] \in Controls
        PROVE  i = j
    <3>1. i + 1 = j + 1
      BY <1>2, <1>5, <2>2 DEF Only
    <3> QED
      BY <3>1
  <2> QED
    BY <2>1, <2>2 DEF Only
<1>6. ASSUME NEW p \in Controls, Only(s, p), Head(s) \in Controls
      PROVE  p = Head(s) /\ Free(Tail(s))
  <2>1. \A i \in DOMAIN s : s[i] \in Controls => i = 1
    BY <1>1, <1>6 DEF Only
  <2>2. p = Head(s)
    BY <1>1, <1>6, <2>1 DEF Only, Has
  <2> QED
    BY <1>2, <2>1, <2>2 DEF Free
<1> QED
  BY <1>4, <1>5, <1>6

LEMMA ControlsSent ==
    ASSUME NEW s \in Seq(Packet), NEW q \in Packet
    PROVE  /\ q \notin Controls => /\ Free(s) => Free(Append(s, q))
                                   /\ \A p \in Controls : Only(s, p) => Only(Append(s, q), p)
           /\ q \in Controls /\ Free(s) => Only(Append(s, q), q)
<1> DEFINE t == Append(s, q)
           e == Len(s) + 1
<1>1. /\ DOMAIN t = DOMAIN s \cup {e} /\ t[e] = q /\ \A i \in DOMAIN s : t[i] = s[i]
  OBVIOUS
<1> HIDE DEF t, e
<1>2. q \notin Controls /\ Free(s) => Free(t)
  BY <1>1 DEF Free
<1>3. ASSUME q \notin Controls, NEW p \in Controls, Only(s, p) PROVE Only(t, p)
  <2>1. Has(t, p)
    BY <1>1, <1>3 DEF Only, Has
  <2> QED
    BY <1>1, <1>3, <2>1 DEF Only
<1>4. q \in Controls /\ Free(s) => Only(t, q)
  BY <1>1 DEF Free, Only, Has
<1> QED
  BY <1>2, <1>3, <1>4 DEF t

LEMMA FoundAgain ==
    ASSUME NEW s \in Seq(Packet), NEW q
    PROVE  /\ s # <<>> /\ Has(s, q) /\ Head(s) # q => Has(Tail(s), q)
           /\ \A p \in Packet : Has(s, q) \/ p = q => Has(Append(s, p), q)
<1>1. ASSUME s # <<>>, Has(s, q), Head(s) # q PROVE Has(Tail(s), q)
  <2>1. PICK i \in DOMAIN s : s[i] = q
    BY <1>1 DEF Has
  <2>2. i # 1
    BY <1>1, <2>1
  <2>3. i - 1 \in DOMAIN Tail(s) /\ Tail(s)[i - 1] = s[i]
    BY <1>1, <2>2
  <2> QED
    BY <2>1, <2>3 DEF Has
<1>2. ASSUME NEW p \in Packet, Has(s, q) \/ p = q PROVE Has(Append(s, p), q)
  <2>1. /\ Len(s) + 1 \in DOMAIN Append(s, p) /\ Append(s, p)[Len(s) + 1] = p
        /\ \A i \in DOMAIN s : i \in DOMAIN Append(s, p) /\ Append(s, p)[i] = s[i]
    OBVIOUS
  <2> QED
    BY <1>2, <2>1 DEF Has
<1> QED
  BY <1>1, <1>2

LEMMA FoundBefore ==
    ASSUME NEW s \in Seq(Packet), NEW q
    PROVE  /\ s # <<>> /\ Has(Tail(s), q) => Has(s, q)
           /\ \A p \in Packet : Has(Append(s, p), q) /\ p # q => Has(s, q)
<1>1. ASSUME s # <<>>, Has(Tail(s), q) PROVE Has(s, q)
  <2>1. \A i \in DOMAIN Tail(s) : i + 1 \in DOMAIN s /\ Tail(s)[i] = s[i + 1]
    BY <1>1
  <2> QED
    BY <1>1, <2>1 DEF Has
<1>2. ASSUME NEW p \in Packet, Has(Append(s, p), q), p # q PROVE Has(s, q)
  <2>1. \A i \in DOMAIN Append(s, p) : Append(s, p)[i] # p =>
           i \in DOMAIN s /\ Append(s, p)[i] = s[i]
    OBVIOUS
  <2> QED
    BY <1>2, <2>1 DEF Has
<1> QED
  BY <1>1, <1>2

-----------------------------------------------------------------------------
(* Probes are answered *)

LEMMA ProbedStays ==
    ASSUME NEW n \in Node, Probed(n), UNCHANGED <<ka[n], ka_timer[n], age[n]>>,
           Has(net[Peer(n)], KaReq) => Has(net'[Peer(n)], KaReq) \/ Has(net'[n], KaAck),
           Has(net[n], KaAck) => Has(net'[n], KaAck)
    PROVE  Probed(n)'
  BY DEF Probed

LEMMA ProbedHeard ==
    ASSUME TypeOK, NEW n \in Node, Probed(n), UNCHANGED <<ka[n], ka_timer[n]>>, age'[n] = 0
    PROVE  Probed(n)'
<1>1. ka_timer[n] \in Nat
  BY TimerFacts DEF TypeOK
<1>2. ka[n] = "await" => age'[n] + ka_timer'[n] <= AttemptInterval
  BY <1>1 DEF Probed
<1> QED
  BY <1>2 DEF Probed

LEMMA SentStays ==
    ASSUME TypeOK, NEW m \in Node, NEW p \in Packet, send_packet(m, p)
    PROVE  /\ \A k \in Node, q \in Packet : Has(net[k], q) => Has(net'[k], q)
           /\ Has(net'[Peer(m)], p)
<1>0. Peer(m) \in Node
  BY PeerFacts
<1>1. /\ net'[Peer(m)] = Append(net[Peer(m)], p)
      /\ \A k \in Node : k # Peer(m) => net'[k] = net[k]
  BY <1>0 DEF send_packet, TypeOK
<1>2. \A k \in Node : net[k] \in Seq(Packet)
  BY DEF TypeOK, Packet
<1>3. Has(net'[Peer(m)], p)
  BY <1>0, <1>1, <1>2, FoundAgain
<1>4. ASSUME NEW k \in Node, NEW q \in Packet, Has(net[k], q) PROVE Has(net'[k], q)
  <2>1. CASE k = Peer(m)
    <3>1. net[k] \in Seq(Packet) /\ net'[k] = Append(net[k], p)
      BY <1>0, <1>1, <1>2, <2>1
    <3> QED
      BY <1>4, <3>1, FoundAgain
  <2>2. CASE k # Peer(m)
    BY <1>1, <1>4, <2>2
  <2> QED
    BY <2>1, <2>2
<1> QED
  BY <1>3, <1>4

LEMMA BeatsUnderCommands ==
    ASSUME TypeOK, Beating, NEW m \in Node,
           connect(m) \/ disconnect(m) \/ send_text(m) \/ CommandLine(m)
    PROVE  Beating'
<1>1. \A k \in Node, q \in Packet : Has(net[k], q) => Has(net'[k], q)
  <2>1. CASE UNCHANGED net
    BY <2>1
  <2>2. CASE \E p \in Packet : send_packet(m, p)
    BY <2>2, SentStays
  <2> QED
    BY <2>1, <2>2, PacketFacts DEF connect, disconnect, send_text, CommandLine, send_tcu_conn_req,
       send_tcu_disconn_req, Request, AckSeen, NoAck, Close, StopKeepAlive, JoinKeepAlive
<1>2. \/ UNCHANGED <<ka, ka_timer, age>>
      \/ /\ ka' = [ka EXCEPT ![m] = "none"] /\ UNCHANGED <<ka_timer, age>>
  BY DEF connect, disconnect, send_text, CommandLine, send_tcu_conn_req,
     send_tcu_disconn_req, Request, AckSeen, NoAck, Close, StopKeepAlive, JoinKeepAlive, Join,
     keeper
<1> SUFFICES ASSUME NEW n \in Node PROVE Probed(n)'
  BY DEF Beating
<1>3. Probed(n) /\ Peer(n) \in Node
  BY PeerFacts DEF Beating
<1>4. CASE ka'[n] = "none"
  BY <1>4 DEF Probed
<1>5. CASE UNCHANGED <<ka[n], ka_timer[n], age[n]>>
  BY <1>1, <1>3, <1>5, ProbedStays, PacketFacts
<1> QED
  BY <1>2, <1>4, <1>5 DEF TypeOK

LEMMA BeatsUnderHandlers ==
    ASSUME TypeOK, Beating, NEW m \in Node, running[m], Receiving(m),
           \A n \in Node : ka[n] = "await" => Active(phase[Peer(n)])
    PROVE  Beating'
<1>0. Peer(m) \in Node /\ Peer(m) # m /\ Peer(Peer(m)) = m /\ Node = {m, Peer(m)}
  BY PeerFacts, NodeAssumption
<1>1. \A k \in Node : net[k] \in Seq(Packet)
  BY DEF TypeOK, Packet
<1>2. Probed(m) /\ Probed(Peer(m))
  BY <1>0 DEF Beating
<1>3. ASSUME \/ Accept(m) \/ Start(m) \/ RxJoin(m) \/ Enter(m)
             \/ send_tcu_conn_ack(m) \/ send_tcu_disconn_ack(m)
      PROVE  Beating'
  <2>1. \A k \in Node, q \in Packet : Has(net[k], q) => Has(net'[k], q)
    <3>1. CASE UNCHANGED net
      BY <3>1
    <3>2. CASE \E p \in Packet : send_packet(m, p)
      BY <3>2, SentStays
    <3> QED
      BY <1>3, <3>1, <3>2, PacketFacts DEF Accept, Start, RxJoin, Enter, send_tcu_conn_ack,
         send_tcu_disconn_ack, Answer
  <2>2. \/ UNCHANGED <<ka, ka_timer, age>>
        \/ /\ \E pc \in {"none", "sleep"} : ka' = [ka EXCEPT ![m] = pc]
           /\ ka_timer'[Peer(m)] = ka_timer[Peer(m)]
           /\ UNCHANGED age
    BY <1>0, <1>3 DEF Accept, Start, RxJoin, Enter, send_tcu_conn_ack, send_tcu_disconn_ack, Answer,
       start_keep_alive, Sleep, KaTo, Join, keeper, TypeOK
  <2> SUFFICES ASSUME NEW n \in Node PROVE Probed(n)'
    BY DEF Beating
  <2>3. Probed(n) /\ Peer(n) \in Node
    BY PeerFacts DEF Beating
  <2>4. CASE ka'[n] \in {"none", "sleep"}
    BY <2>4 DEF Probed
  <2>5. CASE UNCHANGED <<ka[n], ka_timer[n], age[n]>>
    BY <2>1, <2>3, <2>5, ProbedStays, PacketFacts
  <2> QED
    BY <1>0, <2>2, <2>4, <2>5 DEF TypeOK
<1>4. ASSUME net[m] # <<>>, net'[m] = Tail(net[m]), UNCHANGED <<ka, ka_timer>>,
             \/ net'[Peer(m)] = net[Peer(m)] /\ (Head(net[m]) = KaReq => ka[Peer(m)] # "await")
             \/ \E p \in Packet : /\ net'[Peer(m)] = Append(net[Peer(m)], p)
                                  /\ Head(net[m]) = KaReq => p = KaAck,
             age'[Peer(m)] = age[Peer(m)],
             age'[m] = 0 \/ (age'[m] = age[m] /\ Head(net[m]) # KaAck)
      PROVE  Beating'
  <2>1. \A q : Has(net[m], q) /\ Head(net[m]) # q => Has(net'[m], q)
    BY <1>1, <1>4, FoundAgain
  <2>2. \A q : Has(net[Peer(m)], q) => Has(net'[Peer(m)], q)
    <3> SUFFICES ASSUME NEW q, Has(net[Peer(m)], q) PROVE Has(net'[Peer(m)], q)
      OBVIOUS
    <3>1. CASE net'[Peer(m)] = net[Peer(m)]
      BY <3>1
    <3>2. ASSUME NEW p \in Packet, net'[Peer(m)] = Append(net[Peer(m)], p)
          PROVE  Has(net'[Peer(m)], q)
      BY <1>0, <1>1, <3>2, FoundAgain
    <3> QED
      BY <1>4, <3>1, <3>2
  <2>3. Probed(Peer(m))'
    <3>1. CASE ka[Peer(m)] = "await" /\ Head(net[m]) = KaReq
      <4>0. net'[Peer(m)] = Append(net[Peer(m)], KaAck) /\ net[Peer(m)] \in Seq(Packet)
        BY <1>0, <1>1, <1>4, <3>1
      <4>1. Has(net'[Peer(m)], KaAck)
        BY <4>0, FoundAgain, PacketFacts
      <4> QED
        BY <1>0, <1>2, <1>4, <4>1, ProbedStays
    <3>2. CASE ka[Peer(m)] # "await"
      BY <1>0, <1>2, <1>4, <3>2 DEF Probed
    <3>3. CASE Head(net[m]) # KaReq
      BY <1>0, <1>2, <1>4, <2>1, <2>2, <3>3, ProbedStays
    <3> QED
      BY <3>1, <3>2, <3>3
  <2>4. Probed(m)'
    <3>1. CASE age'[m] = 0
      BY <1>2, <1>4, <3>1, ProbedHeard
    <3>2. CASE age'[m] = age[m] /\ Head(net[m]) # KaAck
      BY <1>0, <1>2, <1>4, <2>1, <2>2, <3>2, ProbedStays
    <3> QED
      BY <1>4, <3>1, <3>2
  <2> QED
    BY <1>0, <2>3, <2>4 DEF Beating
<1>5. ASSUME \/ process_tcu_conn_req(m) \/ process_tcu_conn_ack(m) \/ process_tcu_disconn_req(m)
             \/ process_tcu_disconn_ack(m) \/ process_tcu_ka_req(m) \/ process_tcu_ka_ack(m)
             \/ process_tcu_single_text(m) \/ process_tcu_positive_ack(m) \/ Ignore(m)
      PROVE  Beating'
  <2>1. net[m] # <<>> /\ UNCHANGED <<ka, ka_timer>>
    BY <1>5 DEF process_tcu_conn_req, process_tcu_conn_ack, process_tcu_disconn_req,
       process_tcu_disconn_ack, process_tcu_ka_req, process_tcu_ka_ack, process_tcu_single_text,
       process_tcu_positive_ack, Ignore, Receives, keeper
  <2>2. age'[Peer(m)] = age[Peer(m)] /\ (age'[m] = 0 \/ (age'[m] = age[m] /\ Ignore(m)))
    BY <1>0, <1>5 DEF process_tcu_conn_req, process_tcu_conn_ack, process_tcu_disconn_req,
       process_tcu_disconn_ack, process_tcu_ka_req, process_tcu_ka_ack, process_tcu_single_text,
       process_tcu_positive_ack, Ignore, update_last_activity, TypeOK
  <2>3. Ignore(m) => Head(net[m]) \notin Beats
    BY PacketsDiffer DEF Ignore, Unexpected
  <2>4. \/ Take(m) /\ (Head(net[m]) = KaReq => ~Active(phase[m]))
        \/ \E p \in Packet : Reply(m, p) /\ (Head(net[m]) = KaReq => p = KaAck)
    <3>1. CASE process_tcu_ka_req(m)
      BY <3>1, PacketFacts DEF process_tcu_ka_req
    <3>2. CASE process_tcu_single_text(m)
      BY <3>2, PacketFacts, PacketsDiffer DEF process_tcu_single_text, Receives, Beats
    <3>3. CASE Ignore(m)
      BY <2>3, <3>3 DEF Ignore, Beats
    <3>4. CASE \/ process_tcu_conn_req(m) \/ process_tcu_conn_ack(m)
               \/ process_tcu_disconn_req(m) \/ process_tcu_disconn_ack(m)
      BY <3>4, PacketsDiffer DEF process_tcu_conn_req, process_tcu_conn_ack,
         process_tcu_disconn_req, process_tcu_disconn_ack, Receives, Beats
    <3>5. CASE process_tcu_ka_ack(m) \/ process_tcu_positive_ack(m)
      <4>1. KaAck # KaReq /\ PositiveAck # KaReq
        BY DEF KaAck, KaReq, PositiveAck, Single, OfKind
      <4> QED
        BY <3>5, <4>1 DEF process_tcu_ka_ack, process_tcu_positive_ack, Receives
    <3> QED
      BY <1>5, <3>1, <3>2, <3>3, <3>4, <3>5
  <2>5. /\ net'[m] = Tail(net[m])
        /\ \/ /\ net'[Peer(m)] = net[Peer(m)]
              /\ Head(net[m]) = KaReq => ka[Peer(m)] # "await"
           \/ \E p \in Packet : /\ net'[Peer(m)] = Append(net[Peer(m)], p)
                                /\ Head(net[m]) = KaReq => p = KaAck
    BY <1>0, <2>4 DEF Take, Reply, TypeOK
  <2> QED
    BY <1>4, <2>1, <2>2, <2>3, <2>5 DEF Beats
<1> QED
  BY <1>3, <1>5 DEF Receiving

LEMMA BeatsUnderProbes ==
    ASSUME TypeOK, Beating, NEW m \in Node, keep_alive_loop(m), Alive(m) => ka_running[m]
    PROVE  Beating' /\ ~NoAnswer(m)
<1>0. Peer(m) \in Node /\ Peer(m) # m /\ Peer(Peer(m)) = m /\ Node = {m, Peer(m)}
  BY PeerFacts, NodeAssumption
<1>1. Probed(m) /\ Probed(Peer(m)) /\ age[m] \in Nat /\ ka_timer[m] \in Nat
  BY <1>0, TimerFacts DEF Beating, TypeOK
<1>2. ~NoAnswer(m) /\ ~Stopped(m)
  BY <1>1 DEF NoAnswer, Stopped, KaAt, Probed, Alive
<1>3. /\ ka'[Peer(m)] = ka[Peer(m)] /\ ka_timer'[Peer(m)] = ka_timer[Peer(m)] /\ UNCHANGED age
      /\ UNCHANGED net \/ send_packet(m, KaReq)
  BY <1>0 DEF keep_alive_loop, Wake, send_keep_alive_req, AttemptOver, Stopped, NoAnswer, Sleep,
     KaTo, TypeOK
<1>4. Probed(Peer(m))'
  <2>1. CASE UNCHANGED net
    BY <1>0, <1>1, <1>3, <2>1, ProbedStays
  <2>2. CASE send_packet(m, KaReq)
    BY <1>0, <1>1, <1>3, <2>2, ProbedStays, SentStays, PacketFacts
  <2> QED
    BY <1>3, <2>1, <2>2
<1>5. ASSUME Wake(m) PROVE Probed(m)'
  BY <1>5 DEF Wake, KaTo, TypeOK, Probed
<1>6. ASSUME send_keep_alive_req(m) PROVE Probed(m)'
  <2>1. /\ ka'[m] = "await" /\ ka_timer'[m] = AttemptInterval
        /\ Has(net'[Peer(m)], KaReq)
    BY <1>6, SentStays, PacketFacts DEF send_keep_alive_req, Sleep, KaTo, TypeOK
  <2> QED
    BY <2>1, TimerAssumption DEF Probed
<1>7. ASSUME AttemptOver(m) PROVE Probed(m)'
  <2>1. age[m] <= AttemptInterval
    BY <1>1, <1>7, TimerAssumption DEF AttemptOver, KaAt, Probed
  <2>2. is_activity_recent(m)
    BY <1>1, <2>1, TimerAssumption DEF is_activity_recent, Recent, MaxAttempts
  <2>3. ka'[m] = "sleep"
    BY <1>7, <2>2 DEF AttemptOver, Sleep, KaTo, TypeOK
  <2> QED
    BY <2>3 DEF Probed
<1>8. Probed(m)'
  BY <1>2, <1>5, <1>6, <1>7 DEF keep_alive_loop
<1> QED
  BY <1>0, <1>2, <1>4, <1>8 DEF Beating

LEMMA BeatsUnderTick ==
    ASSUME Orderly, CallInv, Beating, Tick, \A n \in Node : running[n]
    PROVE  Beating'
<1> SUFFICES ASSUME NEW n \in Node PROVE Probed(n)'
  BY DEF Beating
<1>1. /\ TypeOK /\ Probed(n) /\ Peer(n) \in Node /\ ~Busy(n) /\ UNCHANGED ka
      /\ age[n] \in 0..IdleInterval /\ ka_timer[n] \in 0..IdleInterval /\ IdleInterval \in Nat
  BY PeerFacts, TimerFacts DEF CallInv, Inv, Beating, Tick, TypeOK
<1>2. net[Peer(n)] = <<>> /\ net[n] = <<>>
  BY <1>1, AllDone
<1>3. ka[n] = "await" => /\ ka_timer[n] <= AttemptInterval
                         /\ age[n] + ka_timer[n] <= AttemptInterval /\ ka_timer[n] # 0
  BY <1>1, <1>2 DEF Probed, Has, Busy
<1>4. /\ ka_timer'[n] = IF ka_timer[n] > 0 THEN ka_timer[n] - 1 ELSE 0
      /\ age'[n] = IF age[n] < IdleInterval THEN age[n] + 1 ELSE age[n]
  BY DEF Tick, Down
<1>5. ka[n] = "await" => /\ ka_timer'[n] <= AttemptInterval
                         /\ age'[n] + ka_timer'[n] <= AttemptInterval
  BY <1>1, <1>3, <1>4, TimerAssumption
<1> QED
  BY <1>1, <1>5 DEF Probed

-----------------------------------------------------------------------------
(* What the steps of a thread do to the stage *)

LEMMA ListenerHandles ==
    ASSUME Orderly, CallInv, running[Listener], Receiving(Listener)
    PROVE  \/ /\ rx[Listener] = "select" /\ rx'[Listener] = "accept"
              /\ net[Listener] # <<>> /\ Head(net[Listener]) = ConnReq
              /\ net'[Listener] = Tail(net[Listener]) /\ net'[Caller] = net[Caller]
           \/ rx[Listener] = "accept" /\ rx'[Listener] = "greet" /\ UNCHANGED net
           \/ /\ rx[Listener] = "greet" /\ rx'[Listener] = "greeted"
              /\ net'[Listener] = net[Listener] /\ net'[Caller] = Append(net[Caller], ConnAck)
           \/ /\ rx[Listener] = "greeted" /\ rx'[Listener] = "select"
              /\ phase'[Listener] = NETWORK /\ UNCHANGED net
           \/ /\ rx[Listener] = "fin_acked" /\ rx'[Listener] = "select"
              /\ phase'[Listener] = HOLDOFF /\ UNCHANGED net
           \/ /\ rx[Listener] = "select" /\ rx'[Listener] = "fin_join"
              /\ net[Listener] # <<>> /\ Head(net[Listener]) = DisconnReq
              /\ net'[Listener] = Tail(net[Listener]) /\ net'[Caller] = net[Caller]
           \/ rx[Listener] = "fin_join" /\ rx'[Listener] = "fin_ack" /\ UNCHANGED net
           \/ /\ rx[Listener] = "fin_ack" /\ rx'[Listener] = "fin_acked"
              /\ net'[Listener] = net[Listener] /\ net'[Caller] = Append(net[Caller], DisconnAck)
           \/ /\ rx[Listener] = "fin_ack" /\ rx'[Listener] = "select" /\ UNCHANGED net
              /\ phase'[Listener] = HOLDOFF
           \/ /\ rx[Listener] = "select" /\ UNCHANGED <<rx, phase>> /\ net[Listener] # <<>>
              /\ Head(net[Listener]) \in Controls => Unexpected(Listener, Head(net[Listener]))
              /\ net'[Listener] = Tail(net[Listener])
              /\ \/ net'[Caller] = net[Caller]
                    /\ (Head(net[Listener]) = DATA => ~Active(phase[Listener]))
                 \/ net'[Caller] = Append(net[Caller], KaAck) /\ Head(net[Listener]) # DATA
                 \/ net'[Caller] = Append(net[Caller], PositiveAck)
<1>0. /\ OneUser /\ TypeOK /\ Caller # Listener /\ Caller \in Node /\ Listener \in Node
      /\ Peer(Listener) = Caller /\ phase[Listener] \in HOLDOFF..DISCONNECT /\ Listening
  BY Persons DEF Orderly, CallInv, Inv, TypeOK
<1>1. ASSUME process_tcu_conn_req(Listener) \/ process_tcu_disconn_req(Listener)
      PROVE  /\ rx[Listener] = "select" /\ net[Listener] # <<>>
             /\ net'[Listener] = Tail(net[Listener]) /\ net'[Caller] = net[Caller]
             /\ \/ rx'[Listener] = "accept" /\ Head(net[Listener]) = ConnReq
                \/ rx'[Listener] = "fin_join" /\ Head(net[Listener]) = DisconnReq
  BY <1>0, <1>1 DEF process_tcu_conn_req, process_tcu_disconn_req, Receives, RxAt, RxTo, Take,
     TypeOK
<1>2. ASSUME Accept(Listener) \/ RxJoin(Listener)
      PROVE  /\ UNCHANGED net
             /\ \/ rx[Listener] = "accept" /\ rx'[Listener] = "greet"
                \/ rx[Listener] = "fin_join" /\ rx'[Listener] = "fin_ack"
  BY <1>0, <1>2 DEF Accept, RxJoin, RxAt, RxTo, TypeOK, Listening
<1>3. ASSUME send_tcu_conn_ack(Listener)
      PROVE  /\ rx[Listener] = "greet" /\ rx'[Listener] = "greeted"
             /\ net'[Listener] = net[Listener] /\ net'[Caller] = Append(net[Caller], ConnAck)
  BY <1>0, <1>3 DEF send_tcu_conn_ack, Answer, RxAt, RxTo, send_packet, TypeOK, Listening
<1>4. ASSUME Enter(Listener)
      PROVE  /\ rx'[Listener] = "select" /\ UNCHANGED net
             /\ \/ rx[Listener] = "greeted" /\ phase'[Listener] = NETWORK
                \/ rx[Listener] = "fin_acked" /\ phase'[Listener] = HOLDOFF
  BY <1>0, <1>4 DEF Enter, RxAt, RxTo, new_phase, TypeOK, Listening
<1>5. ASSUME send_tcu_disconn_ack(Listener)
      PROVE  /\ rx[Listener] = "fin_ack"
             /\ \/ /\ rx'[Listener] = "fin_acked" /\ net'[Listener] = net[Listener]
                   /\ net'[Caller] = Append(net[Caller], DisconnAck)
                \/ rx'[Listener] = "select" /\ UNCHANGED net /\ phase'[Listener] = HOLDOFF
  BY <1>0, <1>5 DEF send_tcu_disconn_ack, Answer, RxAt, RxTo, send_packet, TypeOK, Listening
<1>6. ASSUME \/ process_tcu_ka_req(Listener) \/ process_tcu_ka_ack(Listener)
             \/ process_tcu_single_text(Listener) \/ Ignore(Listener)
      PROVE  /\ rx[Listener] = "select" /\ UNCHANGED <<rx, phase>> /\ net[Listener] # <<>>
             /\ Head(net[Listener]) \in Controls => Unexpected(Listener, Head(net[Listener]))
             /\ net'[Listener] = Tail(net[Listener])
             /\ \/ net'[Caller] = net[Caller]
                   /\ (Head(net[Listener]) = DATA => ~Active(phase[Listener]))
                \/ net'[Caller] = Append(net[Caller], KaAck) /\ Head(net[Listener]) # DATA
                \/ net'[Caller] = Append(net[Caller], PositiveAck)
  <2>0. /\ KaReq \notin Controls /\ KaAck \notin Controls /\ DATA \notin Controls
        /\ KaReq # DATA /\ KaAck # DATA
    BY PacketsDiffer DEF Controls, Beats, Texts
  <2>1. CASE process_tcu_ka_req(Listener) \/ process_tcu_ka_ack(Listener)
    BY <1>0, <2>0, <2>1 DEF process_tcu_ka_req, process_tcu_ka_ack, Receives, RxAt, Take, Reply,
       TypeOK
  <2>2. CASE process_tcu_single_text(Listener)
    BY <1>0, <2>0, <2>2 DEF process_tcu_single_text, Receives, RxAt, Reply, TypeOK
  <2>3. CASE Ignore(Listener)
    <3>1. Unexpected(Listener, DATA) => ~Active(phase[Listener])
      BY PacketsDiffer DEF Unexpected, Requests
    <3> QED
      BY <1>0, <2>3, <3>1 DEF Ignore, Take, TypeOK
  <2> QED
    BY <1>6, <2>1, <2>2, <2>3
<1>7. ~process_tcu_conn_ack(Listener) /\ ~process_tcu_disconn_ack(Listener)
      /\ ~process_tcu_positive_ack(Listener)
  BY AtListener, PacketsDiffer DEF process_tcu_conn_ack, process_tcu_disconn_ack,
     process_tcu_positive_ack, Receives, RxAt
<1>8. ~Start(Listener)
  BY <1>0 DEF Start, RxAt, Listening
<1> QED
  BY <1>1, <1>2, <1>3, <1>4, <1>5, <1>6, <1>7, <1>8 DEF Receiving

LEMMA CallerHandles ==
    ASSUME Orderly, CallInv, running[Caller], Receiving(Caller)
    PROVE  /\ UNCHANGED <<running, cli, cli_timer>> /\ UNCHANGED ListenersView
           /\ \/ /\ rx[Caller] = "select" /\ rx'[Caller] = "acked"
                 /\ UNCHANGED phase /\ ack_received'[Caller]
                 /\ net[Caller] # <<>> /\ Head(net[Caller]) = ConnAck
                 /\ net'[Caller] = Tail(net[Caller]) /\ net'[Listener] = net[Listener]
              \/ /\ rx[Caller] = "acked" /\ rx'[Caller] = "start" /\ phase'[Caller] = NETWORK
                 /\ UNCHANGED <<net, ack_received>>
              \/ /\ rx[Caller] \in {"start", "closed_join"} /\ rx'[Caller] = "select"
                 /\ UNCHANGED <<net, phase, ack_received>>
              \/ /\ rx[Caller] = "select" /\ rx'[Caller] = "closed_join"
                 /\ phase'[Caller] = HOLDOFF /\ phase[Caller] = DISCONNECT
                 /\ net[Caller] # <<>> /\ Head(net[Caller]) = DisconnAck
                 /\ net'[Caller] = Tail(net[Caller]) /\ net'[Listener] = net[Listener]
              \/ /\ rx[Caller] = "select" /\ UNCHANGED <<rx, phase>> /\ net[Caller] # <<>>
                 /\ Head(net[Caller]) \in Controls => Unexpected(Caller, Head(net[Caller]))
                 /\ net'[Caller] = Tail(net[Caller])
                 /\ \/ net'[Listener] = net[Listener]
                    \/ net'[Listener] = Append(net[Listener], KaAck)
                 /\ \/ ack_received'[Caller] /\ Head(net[Caller]) = PositiveAck
                    \/ /\ UNCHANGED ack_received
                       /\ Head(net[Caller]) = PositiveAck => ~Active(phase[Caller])
<1>0. /\ OneUser /\ TypeOK /\ Caller # Listener /\ Caller \in Node /\ Listener \in Node
      /\ Peer(Caller) = Listener /\ Calling
  BY CallerFacts
<1>1. UNCHANGED <<running, cli, cli_timer>> /\ UNCHANGED ListenersView
  BY <1>0 DEF Receiving, process_tcu_conn_req, Accept, send_tcu_conn_ack, process_tcu_conn_ack,
     Enter, Start, process_tcu_disconn_req, send_tcu_disconn_ack, process_tcu_disconn_ack, RxJoin,
     process_tcu_ka_req, process_tcu_ka_ack, process_tcu_single_text, process_tcu_positive_ack,
     Ignore, Answer, Join, start_keep_alive, Sleep, KaTo, RxTo, new_phase, keeper, line,
     ListenersView, TypeOK
<1>2. ASSUME process_tcu_conn_ack(Caller)
      PROVE  /\ rx[Caller] = "select" /\ rx'[Caller] = "acked"
             /\ UNCHANGED phase /\ ack_received'[Caller]
             /\ net[Caller] # <<>> /\ Head(net[Caller]) = ConnAck
             /\ net'[Caller] = Tail(net[Caller]) /\ net'[Listener] = net[Listener]
  BY <1>0, <1>2 DEF process_tcu_conn_ack, Receives, RxAt, RxTo, Take, TypeOK
<1>3. ASSUME Enter(Caller)
      PROVE  /\ rx[Caller] = "acked" /\ rx'[Caller] = "start" /\ phase'[Caller] = NETWORK
             /\ UNCHANGED <<net, ack_received>>
  BY <1>0, <1>3 DEF Enter, RxAt, RxTo, new_phase, TypeOK, Calling
<1>4. ASSUME Start(Caller) \/ RxJoin(Caller)
      PROVE  /\ rx[Caller] \in {"start", "closed_join"} /\ rx'[Caller] = "select"
             /\ UNCHANGED <<net, phase, ack_received>>
  BY <1>0, <1>4 DEF Start, RxJoin, RxAt, RxTo, TypeOK, Calling
<1>5. ASSUME process_tcu_disconn_ack(Caller)
      PROVE  /\ rx[Caller] = "select" /\ rx'[Caller] = "closed_join"
             /\ phase'[Caller] = HOLDOFF /\ phase[Caller] = DISCONNECT
             /\ net[Caller] # <<>> /\ Head(net[Caller]) = DisconnAck
             /\ net'[Caller] = Tail(net[Caller]) /\ net'[Listener] = net[Listener]
  BY <1>0, <1>5 DEF process_tcu_disconn_ack, Receives, RxAt, RxTo, new_phase, Take, TypeOK
<1>6. ASSUME \/ process_tcu_ka_req(Caller) \/ process_tcu_ka_ack(Caller)
             \/ process_tcu_positive_ack(Caller) \/ Ignore(Caller)
      PROVE  /\ rx[Caller] = "select" /\ UNCHANGED <<rx, phase>> /\ net[Caller] # <<>>
             /\ Head(net[Caller]) \in Controls => Unexpected(Caller, Head(net[Caller]))
             /\ net'[Caller] = Tail(net[Caller])
             /\ \/ net'[Listener] = net[Listener]
                \/ net'[Listener] = Append(net[Listener], KaAck)
             /\ \/ ack_received'[Caller] /\ Head(net[Caller]) = PositiveAck
                \/ /\ UNCHANGED ack_received
                   /\ Head(net[Caller]) = PositiveAck => ~Active(phase[Caller])
  <2>0. /\ KaReq \notin Controls /\ KaAck \notin Controls /\ PositiveAck \notin Controls
        /\ KaReq # PositiveAck /\ KaAck # PositiveAck
    BY PacketsDiffer DEF Controls, Beats, Texts
  <2>1. CASE process_tcu_ka_req(Caller) \/ process_tcu_ka_ack(Caller)
    BY <1>0, <2>0, <2>1 DEF process_tcu_ka_req, process_tcu_ka_ack, Receives, RxAt, Take, Reply,
       TypeOK
  <2>2. CASE process_tcu_positive_ack(Caller)
    BY <1>0, <2>0, <2>2 DEF process_tcu_positive_ack, Receives, RxAt, Take, TypeOK
  <2>3. CASE Ignore(Caller)
    <3>1. Unexpected(Caller, PositiveAck) => ~Active(phase[Caller])
      BY PacketsDiffer DEF Unexpected, Answers
    <3> QED
      BY <1>0, <2>3, <3>1 DEF Ignore, Take, TypeOK
  <2> QED
    BY <1>6, <2>1, <2>2, <2>3
<1>7. /\ ~process_tcu_conn_req(Caller) /\ ~process_tcu_disconn_req(Caller)
      /\ ~process_tcu_single_text(Caller)
  BY AtCaller, PacketsDiffer DEF process_tcu_conn_req, process_tcu_disconn_req,
     process_tcu_single_text, Receives, RxAt
<1>8. ~Accept(Caller) /\ ~send_tcu_conn_ack(Caller) /\ ~send_tcu_disconn_ack(Caller)
  BY <1>0 DEF Accept, send_tcu_conn_ack, send_tcu_disconn_ack, Answer, RxAt, Calling
<1> QED
  BY <1>1, <1>2, <1>3, <1>4, <1>5, <1>6, <1>7, <1>8 DEF Receiving

-----------------------------------------------------------------------------
(* The stages are left by one another *)

LEMMA StageFacts ==
    ASSUME Orderly, CallInv, \A n \in Node : running[n]
    PROVE  /\ OneUser /\ TypeOK /\ Traffic /\ OneText /\ Caller # Listener
           /\ Caller \in Node /\ Listener \in Node /\ Node = {Caller, Listener}
           /\ Peer(Caller) = Listener /\ Peer(Listener) = Caller
           /\ net[Caller] \in Seq(Packet) /\ net[Listener] \in Seq(Packet)
           /\ phase[Caller] \in HOLDOFF..DISCONNECT /\ phase[Listener] \in HOLDOFF..DISCONNECT
           /\ running[Caller] /\ running[Listener]
           /\ Listening /\ Calling /\ Keeping /\ (GivingUp => Silent) /\ TextAwaited
  BY CallerFacts, Persons DEF CallInv, TypeOK, Packet

LEMMA ControlFacts ==
    /\ Controls \subseteq Packet /\ ConnReq \in Controls /\ ConnAck \in Controls
    /\ DisconnReq \in Controls /\ DisconnAck \in Controls
    /\ KaReq \notin Controls /\ KaAck \notin Controls
    /\ DATA \notin Controls /\ PositiveAck \notin Controls
    /\ ConnReq # ConnAck /\ ConnReq # DisconnReq /\ ConnReq # DisconnAck
    /\ ConnAck # DisconnReq /\ ConnAck # DisconnAck /\ DisconnReq # DisconnAck
<1>1. /\ ConnReq # ConnAck /\ ConnReq # DisconnReq /\ ConnReq # DisconnAck
      /\ ConnAck # DisconnReq /\ ConnAck # DisconnAck /\ DisconnReq # DisconnAck
  BY DEF ConnReq, ConnAck, DisconnReq, DisconnAck, Single, OfKind
<1> QED
  BY <1>1, PacketFacts, PacketsDiffer DEF Controls, Beats, Texts

LEMMA OnlyFacts ==
    ASSUME NEW s, NEW p \in Controls, Only(s, p)
    PROVE  ~Free(s) /\ \A q \in Controls : Only(s, q) => q = p
  BY DEF Only, Free, Has

\* A node that watches the connection while it is opened or open means to go
\* on, and its peer answers probes.
LEMMA StageBeats ==
    ASSUME Orderly, CallInv, \A n \in Node : running[n], Opening \/ Open
    PROVE  \A n \in Node : /\ Alive(n) => ka_running[n]
                           /\ ka[n] = "await" => Active(phase[Peer(n)])
<1>0. /\ Node = {Caller, Listener} /\ Peer(Caller) = Listener /\ Peer(Listener) = Caller
      /\ Listening /\ Calling /\ Keeping
  BY StageFacts
<1>1. Active(phase[Caller])
  BY PhasesDiffer DEF Opening, Open
<1>2. Alive(Listener) => ka_running[Listener]
  <2>1. CASE Greeted
    BY <1>0, <2>1, PhasesDiffer DEF Listening, Greeted
  <2>2. CASE Rested
    BY <1>0, <2>2, PhasesDiffer DEF Listening, Rested
  <2>3. CASE rx[Listener] \in {"accept", "greet"}
    BY <1>0, <2>3 DEF Listening
  <2> QED
    BY <2>1, <2>2, <2>3 DEF Opening, Open
<1>3. CASE Opening
  <2>1. ~Alive(Caller)
    BY <1>0, <1>3 DEF Keeping, Opening
  <2> QED
    BY <1>0, <1>1, <1>2, <2>1 DEF Alive
<1>4. CASE Open
  <2>1. Active(phase[Listener])
    BY <1>0, <1>4, PhasesDiffer DEF Open, Greeted, Listening
  <2>2. Alive(Caller) => ka_running[Caller]
    BY <1>0, <1>4 DEF Open, Keeping
  <2> QED
    BY <1>0, <1>1, <1>2, <2>1, <2>2
<1> QED
  BY <1>3, <1>4

LEMMA ListenerMoves ==
    ASSUME Orderly, CallInv, \A n \in Node : running[n], Stages, Receiving(Listener)
    PROVE  Stages'
<1>0. /\ OneUser /\ TypeOK /\ Caller # Listener /\ Caller \in Node /\ Listener \in Node
      /\ net[Caller] \in Seq(Packet) /\ net[Listener] \in Seq(Packet)
      /\ phase[Listener] \in HOLDOFF..DISCONNECT /\ running[Listener] /\ Listening
      /\ Traffic /\ TextAwaited /\ Node = {Caller, Listener}
  BY StageFacts
<1>1. /\ UNCHANGED CallersView /\ (SomeText' => SomeText)
      /\ (Opening \/ Open => Beating')
  <2>1. ListenerStep
    BY ListenerAnswers
  <2>2. ASSUME Opening \/ Open PROVE Beating'
    BY <1>0, <2>2, StageBeats, BeatsUnderHandlers DEF Opening, Open
  <2> QED
    BY <2>1, <2>2 DEF ListenerStep, LineKept
<1> DEFINE L == net[Listener]
           C == net[Caller]
<1>2. /\ L # <<>> => /\ Free(L) => Free(Tail(L)) /\ Head(L) \notin Controls
                     /\ Head(L) \notin Controls =>
                          \A p \in Controls : Only(L, p) => Only(Tail(L), p)
                     /\ Head(L) \in Controls =>
                          \A p \in Controls : Only(L, p) => p = Head(L) /\ Free(Tail(L))
      /\ \A q \in Packet \ Controls : /\ Free(C) => Free(Append(C, q))
                                      /\ \A p \in Controls : Only(C, p) => Only(Append(C, q), p)
      /\ \A q \in Controls : Free(C) => Only(Append(C, q), q)
  BY <1>0, ControlFacts, ControlsTaken, ControlsSent
<1>3. ASSUME rx[Listener] = "select", rx'[Listener] = "accept", L # <<>>, Head(L) = ConnReq,
             net'[Listener] = Tail(L), net'[Caller] = C
      PROVE  Stages'
  <2>1. ~Free(L) /\ ~Only(L, DisconnReq)
    BY <1>2, <1>3, ControlFacts
  <2>2. Opening /\ Only(L, ConnReq) /\ Free(C)
    BY <2>1 DEF Stages, Closed, Opening, Open, Closing, NoControl
  <2>3. Free(Tail(L))
    BY <1>2, <1>3, <2>2, ControlFacts
  <2> QED
    BY <1>1, <1>3, <2>2, <2>3 DEF Stages, Opening, NoControl, CallersView
<1>4. ASSUME rx[Listener] = "accept", rx'[Listener] = "greet", UNCHANGED net
      PROVE  Stages'
  <2>1. Opening /\ NoControl
    BY <1>4 DEF Stages, Closed, Opening, Open, Closing, Greeted, Rested
  <2> QED
    BY <1>1, <1>4, <2>1 DEF Stages, Opening, NoControl, CallersView
<1>5. ASSUME rx[Listener] = "greet", rx'[Listener] = "greeted", net'[Listener] = L,
             net'[Caller] = Append(C, ConnAck)
      PROVE  Stages'
  <2>1. Opening /\ NoControl
    BY <1>5 DEF Stages, Closed, Opening, Open, Closing, Greeted, Rested
  <2>2. Only(Append(C, ConnAck), ConnAck)
    BY <1>2, <2>1, ControlFacts DEF NoControl
  <2> QED
    BY <1>1, <1>5, <2>1, <2>2 DEF Stages, Opening, NoControl, CallersView, Greeted
<1>6. ASSUME rx[Listener] = "greeted", rx'[Listener] = "select", phase'[Listener] = NETWORK,
             UNCHANGED net
      PROVE  Stages'
  <2>1. CASE Opening
    BY <1>1, <1>6, <2>1 DEF Stages, Opening, NoControl, CallersView, Greeted, Rested
  <2>2. CASE Open
    BY <1>1, <1>6, <2>2, PhasesDiffer DEF Stages, Open, NoControl, CallersView, Greeted, SomeText, TextAt
  <2>3. CASE Closing
    BY <1>1, <1>6, <2>3 DEF Stages, Closing, NoControl, CallersView, Greeted, Rested
  <2> QED
    BY <1>6, <2>1, <2>2, <2>3 DEF Stages, Closed, Rested
<1>7. ASSUME rx[Listener] = "fin_acked", rx'[Listener] = "select", phase'[Listener] = HOLDOFF,
             UNCHANGED net
      PROVE  Stages'
  <2>0. Rested' /\ ~Greeted'
    BY <1>7, PhasesDiffer DEF Rested, Greeted
  <2>1. CASE Closed
    BY <1>1, <1>7, <2>0, <2>1 DEF Stages, Closed, NoControl, CallersView
  <2>2. CASE Opening
    BY <1>1, <1>7, <2>0, <2>2 DEF Stages, Opening, NoControl, CallersView, Greeted
  <2>3. CASE Closing
    BY <1>1, <1>7, <2>0, <2>3 DEF Stages, Closing, NoControl, CallersView
  <2> QED
    BY <1>7, <2>1, <2>2, <2>3 DEF Stages, Open, Greeted
<1>8. ASSUME rx[Listener] = "select", rx'[Listener] = "fin_join", L # <<>>, Head(L) = DisconnReq,
             net'[Listener] = Tail(L), net'[Caller] = C
      PROVE  Stages'
  <2>1. ~Free(L) /\ ~Only(L, ConnReq)
    BY <1>2, <1>8, ControlFacts
  <2>2. Closing /\ Only(L, DisconnReq) /\ Free(C)
    BY <2>1 DEF Stages, Closed, Opening, Open, Closing, NoControl
  <2>3. Free(Tail(L))
    BY <1>2, <1>8, <2>2, ControlFacts
  <2> QED
    BY <1>1, <1>8, <2>2, <2>3 DEF Stages, Closing, NoControl, CallersView, Greeted
<1>9. ASSUME rx[Listener] = "fin_join", rx'[Listener] = "fin_ack", UNCHANGED net
      PROVE  Stages'
  <2>1. Closing /\ NoControl
    BY <1>9 DEF Stages, Closed, Opening, Open, Closing, Greeted, Rested
  <2> QED
    BY <1>1, <1>9, <2>1 DEF Stages, Closing, NoControl, CallersView, Greeted
<1>10. ASSUME rx[Listener] = "fin_ack", rx'[Listener] = "fin_acked", net'[Listener] = L,
             net'[Caller] = Append(C, DisconnAck)
      PROVE  Stages'
  <2>1. Closing /\ NoControl
    BY <1>10 DEF Stages, Closed, Opening, Open, Closing, Greeted, Rested
  <2>2. Only(Append(C, DisconnAck), DisconnAck)
    BY <1>2, <2>1, ControlFacts DEF NoControl
  <2> QED
    BY <1>1, <1>10, <2>1, <2>2 DEF Stages, Closing, NoControl, CallersView, Rested
<1>11. ASSUME rx[Listener] = "fin_ack", rx'[Listener] = "select", phase'[Listener] = HOLDOFF,
             UNCHANGED net
      PROVE  Stages'
  <2>1. Closing /\ NoControl
    BY <1>11 DEF Stages, Closed, Opening, Open, Closing, Greeted, Rested
  <2> QED
    BY <1>1, <1>11, <2>1, PhasesDiffer DEF Stages, Closing, NoControl, CallersView, Greeted
<1>12. ASSUME rx[Listener] = "select", UNCHANGED <<rx, phase>>, L # <<>>,
              Head(L) \in Controls => Unexpected(Listener, Head(L)),
              net'[Listener] = Tail(L),
              \/ net'[Caller] = C /\ (Head(L) = DATA => ~Active(phase[Listener]))
              \/ net'[Caller] = Append(C, KaAck) /\ Head(L) # DATA
              \/ net'[Caller] = Append(C, PositiveAck)
       PROVE  Stages'
  <2>0. /\ (Free(C) => Free(net'[Caller])) /\ (Free(L) => Free(net'[Listener]))
        /\ \A p \in Controls : Only(C, p) => Only(net'[Caller], p)
        /\ Head(L) \notin Controls => \A p \in Controls : Only(L, p) => Only(net'[Listener], p)
        /\ (Rested' <=> Rested) /\ (Greeted' <=> Greeted)
        /\ KaAck \in Packet \ Controls /\ PositiveAck \in Packet \ Controls
    BY <1>2, <1>12, ControlFacts, PacketFacts DEF Rested, Greeted
  <2>1. CASE Closed
    BY <1>1, <1>12, <2>0, <2>1 DEF Stages, Closed, NoControl, CallersView
  <2>2. CASE Opening
    <3>1. Head(L) \notin Controls
      <4>1. CASE Only(L, ConnReq) /\ Rested
        <5>1. Connectable(phase[Listener])
          BY <1>0, <1>12, <4>1, PhasesDiffer DEF Rested
        <5>2. ~Unexpected(Listener, ConnReq)
          BY <5>1, ControlFacts DEF Unexpected
        <5> QED
          BY <1>2, <1>12, <4>1, <5>2, ControlFacts
      <4>2. CASE Free(L)
        BY <1>2, <1>12, <4>2
      <4> QED
        BY <1>12, <2>2, <4>1, <4>2 DEF Opening, NoControl
    <3> QED
      BY <1>1, <1>12, <2>0, <2>2, <3>1, ControlFacts DEF Stages, Opening, NoControl, CallersView
  <2>3. CASE Open
    <3>1. Active(phase[Listener])
      BY <1>12, <2>3, PhasesDiffer DEF Open, Greeted
    <3>2. SomeText => SomeText'
      <4> SUFFICES ASSUME SomeText PROVE SomeText'
        OBVIOUS
      <4>1. PICK k \in Node, p \in Texts : Has(net[k], p)
        BY DEF SomeText, TextAt, Has
      <4>2. CASE k = Caller
        <5>1. Has(net'[Caller], p)
          <6>1. Texts \subseteq Packet
            BY PacketFacts DEF Texts
          <6>2. \A q \in Packet : Has(Append(C, q), p)
            BY <1>0, <4>1, <4>2, FoundAgain
          <6> QED
            BY <1>12, <4>1, <4>2, <6>2, PacketFacts
        <5> QED
          BY <1>0, <5>1 DEF SomeText, TextAt, Has
      <4>3. CASE k = Listener /\ Head(L) # DATA
        <5>1. p # PositiveAck
          BY <1>0, <4>1, <4>3, PacketsDiffer DEF Traffic, Has
        <5>2. Has(net'[Listener], p)
          BY <1>0, <1>12, <4>1, <4>3, <5>1, FoundAgain DEF Texts
        <5> QED
          BY <1>0, <5>2 DEF SomeText, TextAt, Has
      <4>4. CASE Head(L) = DATA
        <5>0. net'[Caller] = Append(C, PositiveAck)
          BY <1>12, <3>1, <4>4
        <5>1. Has(net'[Caller], PositiveAck)
          BY <1>0, <5>0, FoundAgain, PacketFacts
        <5> QED
          BY <1>0, <5>1 DEF SomeText, TextAt, Has, Texts
      <4> QED
        BY <1>0, <4>2, <4>3, <4>4
    <3> QED
      BY <1>1, <2>0, <2>3, <3>2 DEF Stages, Open, NoControl, CallersView
  <2>4. CASE Closing
    <3>1. CASE Head(L) \notin Controls
      BY <1>1, <1>12, <2>0, <2>4, <3>1, ControlFacts DEF Stages, Closing, NoControl, CallersView
    <3>2. CASE Head(L) \in Controls
      <4>1. Only(L, DisconnReq) /\ Free(C)
        BY <1>2, <1>12, <2>4, <3>2 DEF Closing, NoControl
      <4>2. Head(L) = DisconnReq /\ Free(Tail(L))
        BY <1>2, <1>12, <3>2, <4>1, ControlFacts
      <4>3. ~Active(phase[Listener])
        BY <1>12, <3>2, <4>2, ControlFacts DEF Unexpected
      <4>4. ~Greeted
        BY <1>12, <4>3, PhasesDiffer DEF Greeted
      <4> QED
        BY <1>1, <1>12, <2>0, <2>4, <4>1, <4>2, <4>4 DEF Stages, Closing, NoControl, CallersView
    <3> QED
      BY <3>1, <3>2
  <2> QED
    BY <2>1, <2>2, <2>3, <2>4 DEF Stages
<1> QED
  BY <1>0, <1>3, <1>4, <1>5, <1>6, <1>7, <1>8, <1>9, <1>10, <1>11, <1>12, ListenerHandles

\* A probe on the line changes nothing for the handshakes.
LEMMA ProbeAdds ==
    ASSUME Orderly, CallInv, \A n \in Node : running[n], NEW m \in Node, keep_alive_loop(m)
    PROVE  /\ SomeText' <=> SomeText
           /\ \A k \in Node : /\ Free(net[k]) => Free(net'[k])
                              /\ \A p \in Controls : Only(net[k], p) => Only(net'[k], p)
<1>0. /\ TypeOK /\ KaReq \in Packet /\ KaReq \notin Controls /\ KaReq \notin Texts
      /\ \A k \in Node : net[k] \in Seq(Packet)
  BY StageFacts, PacketFacts, ControlFacts, PacketsDiffer DEF TypeOK, Packet
<1>1. \A k \in Node : net'[k] = net[k] \/ net'[k] = Append(net[k], KaReq)
  <2>1. UNCHANGED net \/ send_packet(m, KaReq)
    BY DEF keep_alive_loop, Wake, send_keep_alive_req, AttemptOver, Stopped, NoAnswer
  <2>2. ASSUME send_packet(m, KaReq), NEW k \in Node
        PROVE  net'[k] = net[k] \/ net'[k] = Append(net[k], KaReq)
    <3>1. net' = [net EXCEPT ![Peer(m)] = Append(@, KaReq)] /\ net \in [Node -> Seq(Packet)]
      BY <1>0, <2>2 DEF send_packet, TypeOK, Packet
    <3> QED
      BY <3>1
  <2> QED
    BY <2>1, <2>2
<1>2. ASSUME NEW k \in Node
      PROVE  /\ Free(net[k]) => Free(net'[k])
             /\ \A p \in Controls : Only(net[k], p) => Only(net'[k], p)
             /\ \A p \in Texts : Has(net'[k], p) <=> Has(net[k], p)
  <2>1. CASE net'[k] = net[k]
    BY <2>1
  <2>2. CASE net'[k] = Append(net[k], KaReq)
    <3>1. net[k] \in Seq(Packet)
      BY <1>0
    <3>2. /\ Free(net[k]) => Free(Append(net[k], KaReq))
          /\ \A p \in Controls : Only(net[k], p) => Only(Append(net[k], KaReq), p)
      BY <1>0, <3>1, ControlsSent
    <3>3. \A p \in Texts : Has(Append(net[k], KaReq), p) <=> Has(net[k], p)
      BY <1>0, <3>1, FoundAgain, FoundBefore
    <3> QED
      BY <2>2, <3>2, <3>3
  <2> QED
    BY <1>1, <2>1, <2>2
<1>3. SomeText  <=> \E k \in Node, p \in Texts : Has(net[k], p)
  BY DEF SomeText, TextAt, Has
<1>4. SomeText' <=> \E k \in Node, p \in Texts : Has(net'[k], p)
  BY DEF SomeText, TextAt, Has
<1> QED
  BY <1>2, <1>3, <1>4

LEMMA ListenerProbes ==
    ASSUME Orderly, CallInv, \A n \in Node : running[n], Stages, keep_alive_loop(Listener)
    PROVE  Stages'
<1>0. TypeOK /\ Caller # Listener /\ Caller \in Node /\ Listener \in Node
  BY StageFacts
<1>1. /\ UNCHANGED CallersView /\ (SomeText' <=> SomeText)
      /\ (Opening \/ Open => Beating' /\ ~NoAnswer(Listener))
  <2>1. ListenerStep /\ (SomeText' <=> SomeText)
    BY <1>0, ListenerKeeps, ProbeAdds
  <2>2. ASSUME Opening \/ Open PROVE Beating' /\ ~NoAnswer(Listener)
    BY <1>0, <2>2, StageBeats, BeatsUnderProbes DEF Opening, Open
  <2> QED
    BY <2>1, <2>2 DEF ListenerStep
<1>2. /\ rx'[Listener] = rx[Listener]
      /\ \/ phase'[Listener] = phase[Listener]
         \/ NoAnswer(Listener) /\ phase'[Listener] = HOLDOFF
  BY <1>0 DEF keep_alive_loop, Wake, send_keep_alive_req, AttemptOver, Stopped, NoAnswer,
     new_phase, TypeOK
<1>3. \A k \in {Caller, Listener} :
        /\ Free(net[k]) => Free(net'[k])
        /\ \A p \in Controls : Only(net[k], p) => Only(net'[k], p)
  BY <1>0, ProbeAdds
<1>4. (Rested => Rested') /\ (~Greeted => ~Greeted')
  BY <1>2, PhasesDiffer DEF Rested, Greeted
<1>5. Opening \/ Open => (Greeted => Greeted')
  BY <1>1, <1>2 DEF Greeted
<1>6. CASE Closed
  BY <1>1, <1>3, <1>4, <1>6 DEF Stages, Closed, NoControl, CallersView
<1>7. CASE Opening
  BY <1>1, <1>2, <1>3, <1>4, <1>5, <1>7, ControlFacts DEF Stages, Opening, NoControl, CallersView
<1>8. CASE Open
  BY <1>1, <1>3, <1>5, <1>8 DEF Stages, Open, NoControl, CallersView
<1>9. CASE Closing
  BY <1>1, <1>2, <1>3, <1>4, <1>9, ControlFacts DEF Stages, Closing, NoControl, CallersView
<1> QED
  BY <1>6, <1>7, <1>8, <1>9 DEF Stages

LEMMA CallerProbes ==
    ASSUME Orderly, CallInv, \A n \in Node : running[n], Stages, keep_alive_loop(Caller)
    PROVE  Stages'
<1>0. TypeOK /\ Caller # Listener /\ Caller \in Node /\ Listener \in Node
  BY StageFacts
<1>1. /\ UNCHANGED <<rx, cli, cli_timer, ack_received>> /\ phase'[Listener] = phase[Listener]
      /\ \/ UNCHANGED phase
         \/ NoAnswer(Caller) /\ phase'[Caller] = HOLDOFF
  BY <1>0 DEF keep_alive_loop, Wake, send_keep_alive_req, AttemptOver, Stopped, NoAnswer,
     new_phase, line, TypeOK
<1>2. /\ SomeText' <=> SomeText
      /\ \A k \in {Caller, Listener} :
           /\ Free(net[k]) => Free(net'[k])
           /\ \A p \in Controls : Only(net[k], p) => Only(net'[k], p)
  BY <1>0, ProbeAdds
<1>3. ASSUME Opening \/ Open PROVE Beating' /\ UNCHANGED phase
  BY <1>0, <1>1, <1>3, StageBeats, BeatsUnderProbes DEF Opening, Open
<1>4. (Rested' <=> Rested) /\ (Greeted' <=> Greeted)
  BY <1>1 DEF Rested, Greeted
<1>5. CASE Closed
  BY <1>1, <1>2, <1>4, <1>5 DEF Stages, Closed, NoControl
<1>6. CASE Opening
  BY <1>1, <1>2, <1>3, <1>4, <1>6, ControlFacts DEF Stages, Opening, NoControl
<1>7. CASE Open
  BY <1>1, <1>2, <1>3, <1>4, <1>7 DEF Stages, Open, NoControl
<1>8. CASE Closing
  BY <1>1, <1>2, <1>4, <1>8, ControlFacts DEF Stages, Closing, NoControl
<1> QED
  BY <1>5, <1>6, <1>7, <1>8 DEF Stages

LEMMA CallerMoves ==
    ASSUME Orderly, CallInv, \A n \in Node : running[n], Stages, Receiving(Caller)
    PROVE  Stages'
<1>0. /\ OneUser /\ TypeOK /\ Caller # Listener /\ Caller \in Node /\ Listener \in Node
      /\ net[Caller] \in Seq(Packet) /\ net[Listener] \in Seq(Packet)
      /\ phase[Caller] \in HOLDOFF..DISCONNECT /\ running[Caller] /\ Calling
      /\ Traffic /\ TextAwaited /\ Node = {Caller, Listener}
  BY StageFacts
<1>1. /\ UNCHANGED <<cli, cli_timer>> /\ (Rested' <=> Rested) /\ (Greeted' <=> Greeted)
      /\ rx'[Listener] = rx[Listener] /\ (Opening \/ Open => Beating')
  <2>1. UNCHANGED <<cli, cli_timer>> /\ UNCHANGED ListenersView
    BY <1>0, CallerHandles
  <2>2. ASSUME Opening \/ Open PROVE Beating'
    BY <1>0, <2>2, StageBeats, BeatsUnderHandlers DEF Opening, Open
  <2> QED
    BY <2>1, <2>2 DEF ListenersView, Rested, Greeted
<1> DEFINE L == net[Listener]
           C == net[Caller]
<1>2. /\ C # <<>> => /\ Free(C) => Free(Tail(C)) /\ Head(C) \notin Controls
                     /\ Head(C) \notin Controls =>
                          \A p \in Controls : Only(C, p) => Only(Tail(C), p)
                     /\ Head(C) \in Controls =>
                          \A p \in Controls : Only(C, p) => p = Head(C) /\ Free(Tail(C))
      /\ \A q \in Packet \ Controls : /\ Free(L) => Free(Append(L, q))
                                      /\ \A p \in Controls : Only(L, p) => Only(Append(L, q), p)
  BY <1>0, ControlsTaken, ControlsSent
<1>3. C # <<>> /\ Head(C) = PositiveAck => SomeText
  <2>1. C # <<>> => 1 \in DOMAIN C /\ C[1] = Head(C)
    BY <1>0
  <2> QED
    BY <1>0, <2>1 DEF SomeText, TextAt, Texts
<1>5. /\ net'[Caller] = C \/ (C # <<>> /\ net'[Caller] = Tail(C))
      /\ net'[Listener] = L \/ net'[Listener] = Append(L, KaAck)
  BY <1>0, CallerHandles
<1>4. SomeText' => SomeText
  <2> SUFFICES ASSUME SomeText' PROVE SomeText
    OBVIOUS
  <2>1. PICK k \in Node, p \in Texts : Has(net'[k], p)
    BY DEF SomeText, TextAt, Has
  <2>2. net[k] \in Seq(Packet) /\ KaAck \in Packet /\ KaAck # p
    BY <1>0, <2>1, PacketFacts, PacketsDiffer
  <2>4. \/ net'[k] = net[k] \/ (net[k] # <<>> /\ net'[k] = Tail(net[k]))
        \/ net'[k] = Append(net[k], KaAck)
    BY <1>0, <1>5
  <2>3. Has(net[k], p)
    BY <2>1, <2>2, <2>4, FoundBefore
  <2> QED
    BY <2>1, <2>3 DEF SomeText, TextAt, Has
<1>6. (C # <<>> => Head(C) # PositiveAck) /\ SomeText => SomeText'
  <2> SUFFICES ASSUME C # <<>> => Head(C) # PositiveAck, SomeText PROVE SomeText'
    OBVIOUS
  <2>1. PICK k \in Node, p \in Texts : Has(net[k], p)
    BY DEF SomeText, TextAt, Has
  <2>2. CASE k = Caller
    <3>1. p # DATA
      BY <1>0, <2>1, <2>2, PacketsDiffer DEF Traffic, Has
    <3>2. C # <<>> => Head(C) # p
      BY <3>1 DEF Texts
    <3>3. Has(net'[Caller], p)
      BY <1>0, <1>5, <2>1, <2>2, <3>2, FoundAgain
    <3> QED
      BY <1>0, <3>3 DEF SomeText, TextAt, Has
  <2>3. CASE k = Listener
    <3>1. KaAck \in Packet
      BY PacketFacts
    <3>2. Has(Append(L, KaAck), p)
      BY <1>0, <2>1, <2>3, <3>1, FoundAgain
    <3>3. Has(net'[Listener], p)
      BY <1>5, <2>1, <2>3, <3>2
    <3> QED
      BY <1>0, <3>3 DEF SomeText, TextAt, Has
  <2> QED
    BY <1>0, <2>2, <2>3
<1>7. ASSUME rx[Caller] = "select", rx'[Caller] = "acked", UNCHANGED phase, ack_received'[Caller],
             C # <<>>, Head(C) = ConnAck, net'[Caller] = Tail(C), net'[Listener] = L
      PROVE  Stages'
  <2>1. ~Free(C) /\ ~Only(C, DisconnAck)
    BY <1>2, <1>7, ControlFacts
  <2>2. Opening /\ Only(C, ConnAck) /\ Free(L) /\ Greeted
    BY <2>1 DEF Stages, Closed, Opening, Open, Closing, NoControl
  <2>3. Free(Tail(C))
    BY <1>2, <1>7, <2>2, ControlFacts
  <2> QED
    BY <1>1, <1>7, <2>2, <2>3 DEF Stages, Opening, Open, NoControl
<1>8. ASSUME rx[Caller] = "acked", rx'[Caller] = "start", phase'[Caller] = NETWORK,
             UNCHANGED <<net, ack_received>>
      PROVE  Stages'
  <2>1. SomeText' <=> SomeText
    BY <1>8 DEF SomeText, TextAt
  <2>2. CASE Open
    BY <1>1, <1>8, <2>1, <2>2 DEF Stages, Open, NoControl
  <2>3. CASE Closing
    BY <1>1, <1>8, <2>1, <2>3 DEF Stages, Closing, NoControl
  <2> QED
    BY <1>8, <2>2, <2>3 DEF Stages, Closed, Opening
<1>9. ASSUME rx[Caller] \in {"start", "closed_join"}, rx'[Caller] = "select",
             UNCHANGED <<net, phase, ack_received>>
      PROVE  Stages'
  <2>1. SomeText' <=> SomeText
    BY <1>9 DEF SomeText, TextAt
  <2>2. CASE Closed
    BY <1>1, <1>9, <2>2 DEF Stages, Closed, NoControl
  <2>3. CASE Open
    BY <1>1, <1>9, <2>1, <2>3, PhasesDiffer DEF Stages, Open, NoControl
  <2>4. CASE Closing
    BY <1>1, <1>9, <2>1, <2>4 DEF Stages, Closing, NoControl
  <2> QED
    BY <1>9, <2>2, <2>3, <2>4 DEF Stages, Opening
<1>10. ASSUME rx[Caller] = "select", rx'[Caller] = "closed_join", phase'[Caller] = HOLDOFF,
              phase[Caller] = DISCONNECT, C # <<>>, Head(C) = DisconnAck,
              net'[Caller] = Tail(C), net'[Listener] = L
       PROVE  Stages'
  <2>1. ~Free(C) /\ ~Only(C, ConnAck)
    BY <1>2, <1>10, ControlFacts
  <2>2. Closing /\ Only(C, DisconnAck) /\ Free(L) /\ Rested
    BY <2>1 DEF Stages, Closed, Opening, Open, Closing, NoControl
  <2>3. Free(Tail(C))
    BY <1>2, <1>10, <2>2, ControlFacts
  <2> QED
    BY <1>1, <1>10, <2>2, <2>3 DEF Stages, Closing, Closed, NoControl
<1>11. ASSUME rx[Caller] = "select", UNCHANGED <<rx, phase>>, C # <<>>,
              Head(C) \in Controls => Unexpected(Caller, Head(C)),
              net'[Caller] = Tail(C), net'[Listener] = L \/ net'[Listener] = Append(L, KaAck),
              \/ ack_received'[Caller] /\ Head(C) = PositiveAck
              \/ UNCHANGED ack_received /\ (Head(C) = PositiveAck => ~Active(phase[Caller]))
       PROVE  Stages'
  <2>0. /\ (Free(L) => Free(net'[Listener])) /\ (Free(C) => Free(net'[Caller]))
        /\ \A p \in Controls : Only(L, p) => Only(net'[Listener], p)
        /\ Head(C) \notin Controls => \A p \in Controls : Only(C, p) => Only(net'[Caller], p)
        /\ Free(C) => Head(C) \notin Controls
        /\ KaAck \in Packet \ Controls
    BY <1>2, <1>11, ControlFacts, PacketFacts
  <2>1. CASE Closed
    BY <1>1, <1>11, <2>0, <2>1 DEF Stages, Closed, NoControl
  <2>2. CASE Opening
    <3>1. Head(C) \notin Controls
      <4>1. CASE Only(C, ConnAck)
        <5>1. ~Unexpected(Caller, ConnAck)
          BY <2>2, ControlFacts DEF Unexpected, Opening
        <5> QED
          BY <1>2, <1>11, <4>1, <5>1, ControlFacts
      <4>2. CASE Free(C)
        BY <2>0, <4>2
      <4> QED
        BY <2>2, <4>1, <4>2 DEF Opening, NoControl
    <3>2. ~ack_received'[Caller]
      <4>1. ~SomeText
        BY <1>0, <2>2 DEF TextAwaited, Opening
      <4> QED
        BY <1>3, <1>11, <2>2, <4>1 DEF Opening
    <3> QED
      BY <1>1, <1>11, <2>0, <2>2, <3>1, <3>2, ControlFacts DEF Stages, Opening, NoControl
  <2>3. CASE Open
    <3>1. Active(phase[Caller])
      BY <1>11, <2>3, PhasesDiffer DEF Open
    <3>2. ack_received[Caller] \/ SomeText => (ack_received[Caller] \/ SomeText)'
      BY <1>6, <1>11, <3>1
    <3> QED
      BY <1>1, <1>11, <2>0, <2>3, <3>2 DEF Stages, Open, NoControl
  <2>4. CASE Closing
    <3>1. ~SomeText' /\ ~ack_received'[Caller]
      BY <1>3, <1>4, <1>11, <2>4 DEF Closing
    <3>2. CASE Head(C) \notin Controls
      BY <1>1, <1>11, <2>0, <2>4, <3>1, <3>2, ControlFacts DEF Stages, Closing, NoControl
    <3>3. CASE Head(C) \in Controls
      <4>1. Only(C, DisconnAck) /\ Free(L) /\ Rested
        BY <2>0, <2>4, <3>3 DEF Closing, NoControl
      <4>2. Free(Tail(C))
        BY <1>2, <1>11, <3>3, <4>1, ControlFacts
      <4>3. ~Greeted
        BY <4>1, PhasesDiffer DEF Rested, Greeted
      <4> QED
        BY <1>1, <1>11, <2>0, <2>4, <3>1, <4>1, <4>2, <4>3 DEF Stages, Closing, NoControl
    <3> QED
      BY <3>2, <3>3
  <2> QED
    BY <2>1, <2>2, <2>3, <2>4 DEF Stages
<1> QED
  BY <1>0, <1>7, <1>8, <1>9, <1>10, <1>11, CallerHandles

LEMMA CallerAsks ==
    ASSUME Orderly, CallInv, \A n \in Node : running[n], Stages,
           connect(Caller) \/ disconnect(Caller) \/ send_text(Caller),
           connect(Caller) => rx[Caller] = "select"
    PROVE  Stages'
<1>0. /\ TypeOK /\ Caller # Listener /\ Caller \in Node /\ Listener \in Node
      /\ net[Caller] \in Seq(Packet) /\ net[Listener] \in Seq(Packet) /\ Peer(Caller) = Listener
      /\ phase[Caller] \in HOLDOFF..DISCONNECT
  BY StageFacts
<1>1. /\ UNCHANGED <<rx, phase>> /\ cli[Caller] = "idle"
      /\ (Rested' <=> Rested) /\ (Greeted' <=> Greeted)
  BY DEF connect, disconnect, send_text, MayCommand, CliAt, Rested, Greeted
<1>2. Beating => Beating'
  BY <1>0, BeatsUnderCommands
<1>3. ASSUME connect(Caller) PROVE Stages'
  <2>1. UNCHANGED net /\ cli'[Caller] = "connect" /\ Connectable(phase[Caller])
    BY <1>0, <1>3 DEF connect, CliTo, TypeOK
  <2>2. Closed
    BY <1>0, <1>1, <2>1, PhasesDiffer DEF Stages, Opening, Open, Closing
  <2> QED
    BY <1>1, <1>3, <2>1, <2>2 DEF Stages, Closed, NoControl
<1>4. ASSUME disconnect(Caller) \/ send_text(Caller) PROVE Open
  <2>1. Active(phase[Caller])
    BY <1>4 DEF disconnect, send_text
  <2> QED
    BY <1>0, <1>1, <2>1, PhasesDiffer DEF Stages, Closed, Opening, Closing
<1>5. ASSUME disconnect(Caller) PROVE Stages'
  <2>1. UNCHANGED net /\ cli'[Caller] = "disconnect"
    BY <1>0, <1>5 DEF disconnect, CliTo, TypeOK
  <2>2. Open
    BY <1>4, <1>5
  <2> QED
    BY <1>1, <1>2, <2>1, <2>2 DEF Stages, Open, NoControl
<1>6. ASSUME send_text(Caller) PROVE Stages'
  <2>1. /\ cli'[Caller] = "wait" /\ cli_timer'[Caller] = ReceiveTimeout
        /\ net'[Listener] = Append(net[Listener], DATA) /\ net'[Caller] = net[Caller]
    BY <1>0, <1>6 DEF send_text, Wait, send_packet, TypeOK
  <2>2. Open
    BY <1>4, <1>6
  <2>3. DATA \in Packet /\ DATA \notin Controls /\ ReceiveTimeout > 0
    BY PacketFacts, ControlFacts, TimerAssumption
  <2>4. Free(net'[Listener]) /\ Free(net'[Caller])
    BY <1>0, <2>1, <2>2, <2>3, ControlsSent DEF Open, NoControl
  <2>5. Has(net'[Listener], DATA)
    BY <1>0, <2>1, <2>3, FoundAgain
  <2>6. SomeText'
    BY <1>0, <2>5 DEF SomeText, TextAt, Has, Texts
  <2> QED
    BY <1>1, <1>2, <2>1, <2>2, <2>3, <2>4, <2>6 DEF Stages, Open, NoControl
<1> QED
  BY <1>3, <1>5, <1>6

LEMMA CallerCarriesOut ==
    ASSUME Orderly, CallInv, \A n \in Node : running[n], Stages, CommandLine(Caller)
    PROVE  Stages'
<1>0. /\ OneUser /\ TypeOK /\ Traffic /\ OneText /\ Caller # Listener
      /\ Caller \in Node /\ Listener \in Node /\ Peer(Caller) = Listener
      /\ Node = {Caller, Listener} /\ running[Listener] /\ running[Caller]
      /\ net[Caller] \in Seq(Packet) /\ net[Listener] \in Seq(Packet)
      /\ phase[Caller] \in HOLDOFF..DISCONNECT
      /\ Listening /\ Keeping /\ (GivingUp => Silent)
  BY StageFacts
<1>1. /\ UNCHANGED rx /\ (Rested' <=> Rested) /\ (Greeted' <=> Greeted)
  <2>1. UNCHANGED rx /\ phase'[Listener] = phase[Listener]
    BY <1>0 DEF CommandLine, send_tcu_conn_req, send_tcu_disconn_req, Request, AckSeen, NoAck,
       Close, StopKeepAlive, JoinKeepAlive, Join, new_phase, keeper, TypeOK
  <2> QED
    BY <2>1 DEF Rested, Greeted
<1>2. Beating => Beating'
  BY <1>0, BeatsUnderCommands
<1>3. ASSUME send_tcu_conn_req(Caller) PROVE Stages'
  <2>1. /\ cli[Caller] = "connect" /\ phase'[Caller] = CONNECT /\ UNCHANGED ka
        /\ cli'[Caller] = "wait" /\ ~ack_received'[Caller] /\ cli_timer'[Caller] = ConfirmTimeout
        /\ net'[Listener] = Append(net[Listener], ConnReq) /\ net'[Caller] = net[Caller]
    BY <1>0, <1>3 DEF send_tcu_conn_req, Request, CliAt, Wait, new_phase, send_packet, keeper,
       TypeOK
  <2>2. Closed
    BY <2>1 DEF Stages, Opening, Open, Closing
  <2>3. ~Alive(Caller)
    BY <1>0, <2>1, <2>2 DEF Keeping, Closed
  <2>4. ~Alive(Listener)
    BY <1>0, <2>2, PhasesDiffer DEF Listening, Closed, Rested
  <2>5. Beating'
    BY <1>0, <2>1, <2>3, <2>4 DEF Beating, Probed, Alive
  <2>6. Only(net'[Listener], ConnReq) /\ Free(net'[Caller])
    BY <1>0, <2>1, <2>2, ControlsSent, ControlFacts DEF Closed, NoControl
  <2>7. ConfirmTimeout > 0
    BY TimerAssumption
  <2> QED
    BY <1>1, <2>1, <2>2, <2>5, <2>6, <2>7 DEF Stages, Closed, Opening
<1>4. ASSUME send_tcu_disconn_req(Caller) PROVE Stages'
  <2>1. /\ cli[Caller] = "disconnect" /\ cli'[Caller] = "wait" /\ ~ack_received'[Caller]
        /\ net'[Listener] = Append(net[Listener], DisconnReq) /\ net'[Caller] = net[Caller]
        /\ send_packet(Caller, DisconnReq)
    BY <1>0, <1>4 DEF send_tcu_disconn_req, Request, CliAt, Wait, send_packet, TypeOK
  <2>2. Open
    BY <2>1 DEF Stages, Closed, Opening, Closing
  <2>3. Only(net'[Listener], DisconnReq) /\ Free(net'[Caller])
    BY <1>0, <2>1, <2>2, ControlsSent, ControlFacts DEF Open, NoControl
  <2>4. ~SomeText'
    <3>1. ~SomeText
      BY <1>0, <2>1, NoTextLeft
    <3>2. DisconnReq \in ForNode(Listener)
      BY <1>0 DEF ForNode, Requests
    <3> QED
      BY <1>0, <2>1, <3>1, <3>2, Posted, PacketsDiffer, PacketFacts DEF LineKept
  <2> QED
    BY <1>1, <2>1, <2>2, <2>3, <2>4 DEF Stages, Open, Greeted, Closing
<1>5. ASSUME AckSeen(Caller) PROVE Stages'
  <2>1. /\ cli[Caller] = "wait" /\ ack_received[Caller] /\ cli'[Caller] = "idle"
        /\ UNCHANGED <<net, phase>>
    BY <1>0, <1>5 DEF AckSeen, CliAt, TypeOK
  <2>2. Closed \/ Open
    BY <2>1 DEF Stages, Opening, Closing
  <2> QED
    BY <1>1, <1>2, <2>1, <2>2 DEF Stages, Closed, Open, NoControl
<1>6. ASSUME NoAck(Caller) PROVE Stages'
  <2>1. /\ cli[Caller] = "wait" /\ cli_timer[Caller] = 0 /\ cli'[Caller] = "expired"
        /\ UNCHANGED <<net, phase, ack_received>>
    BY <1>0, <1>6 DEF NoAck, CliAt, CliTo, TypeOK
  <2>2. Closed \/ Closing
    BY <2>1 DEF Stages, Opening, Open
  <2>3. SomeText' <=> SomeText
    BY <2>1 DEF SomeText, TextAt
  <2> QED
    BY <1>1, <2>1, <2>2, <2>3 DEF Stages, Closed, Closing, NoControl
<1>7. ASSUME Close(Caller) PROVE Stages'
  <2>1. /\ cli[Caller] = "expired" /\ cli'[Caller] = "stop" /\ phase'[Caller] = HOLDOFF
        /\ UNCHANGED net
    BY <1>0, <1>7 DEF Close, CliAt, CliTo, new_phase, TypeOK
  <2>2. NoControl /\ rx[Caller] = "select" /\ rx[Listener] = "select"
    <3>1. Silent
      BY <1>0, <2>1 DEF GivingUp
    <3>2. \A p \in Beats : p \notin Controls
      BY PacketsDiffer DEF Controls
    <3>3. NoControl
      BY <1>0, <3>1, <3>2 DEF Silent, NoControl, Free
    <3> QED
      BY <1>0, <3>1, <3>3 DEF Silent
  <2>3. Rested
    <3>1. CASE Closed
      BY <3>1 DEF Closed
    <3>2. CASE Closing
      <4>1. ~Greeted \/ Rested
        BY <2>2, <3>2, ControlFacts, OnlyFacts DEF Closing, NoControl
      <4> QED
        BY <1>0, <2>2, <4>1 DEF Listening, Greeted, Rested
    <3> QED
      BY <2>1, <3>1, <3>2 DEF Stages, Opening, Open
  <2> QED
    BY <1>1, <2>1, <2>2, <2>3 DEF Stages, Closed, NoControl
<1>8. ASSUME StopKeepAlive(Caller) \/ JoinKeepAlive(Caller) PROVE Stages'
  <2>1. /\ cli[Caller] \in {"stop", "join"} /\ cli'[Caller] \in {"join", "idle"}
        /\ UNCHANGED <<net, phase>>
    BY <1>0, <1>8 DEF StopKeepAlive, JoinKeepAlive, CliAt, CliTo, TypeOK
  <2>2. Closed
    BY <2>1 DEF Stages, Opening, Open, Closing
  <2> QED
    BY <1>1, <2>1, <2>2 DEF Stages, Closed, NoControl
<1> QED
  BY <1>3, <1>4, <1>5, <1>6, <1>7, <1>8 DEF CommandLine

\* When the clock ticks nothing is on the line, so a command that has not been
\* answered by then was given while there was no connection to open or close.
LEMMA StagesTick ==
    ASSUME Orderly, CallInv, \A n \in Node : running[n], Stages, Tick
    PROVE  Stages'
<1>0. Caller \in Node /\ Listener \in Node
  BY StageFacts
<1>1. UNCHANGED <<phase, ack_received, cli, rx, net>> /\ \A n \in Node : ~Busy(n)
  BY DEF Tick
<1>2. \A n \in Node : net[n] = <<>> /\ rx[n] = "select"
  BY AllDone
<1>3. ~SomeText /\ \A n \in Node, p \in Controls : ~Only(net[n], p)
  BY <1>2 DEF SomeText, Only, Has
<1>4. UNCHANGED <<SomeText, NoControl, Rested, Greeted>>
  BY <1>1 DEF SomeText, TextAt, NoControl, Rested, Greeted
<1>5. CASE Closed
  BY <1>1, <1>4, <1>5 DEF Stages, Closed
<1>6. CASE Opening
  BY <1>0, <1>2, <1>3, <1>6, ControlFacts DEF Opening
<1>7. CASE Open
  <2>1. Beating'
    BY <1>7, BeatsUnderTick DEF Open
  <2>2. cli[Caller] \in {"idle", "disconnect"}
    BY <1>0, <1>1, <1>3, <1>7 DEF Open, Busy
  <2> QED
    BY <1>1, <1>4, <1>7, <2>1, <2>2 DEF Stages, Open
<1>8. CASE Closing
  BY <1>1, <1>4, <1>8 DEF Stages, Closing
<1> QED
  BY <1>5, <1>6, <1>7, <1>8 DEF Stages

LEMMA StagesStay ==
    ASSUME Stages, UNCHANGED vars
    PROVE  Stages'
<1>1. UNCHANGED <<phase, ack_received, cli, rx, ka, cli_timer, ka_timer, age, net>>
  BY DEF vars
<1> QED
  BY <1>1 DEF Stages, Closed, Opening, Open, Closing, NoControl, Rested, Greeted, Beating, Probed,
     SomeText, TextAt

LEMMA UndisturbedBefore ==
    ASSUME TypeOK, Undisturbed', [Next]_vars
    PROVE  /\ Undisturbed
           /\ \A n \in Node : ~NetworkFault(n) /\ ~exit(n)
<1>1. \A f \in Fault : ~Spend(f)
  BY DEF Spend, TypeOK, Undisturbed
<1>2. \A n \in Node : ~NetworkFault(n) /\ ~exit(n)
  BY <1>1 DEF NetworkFault, Lose, Duplicate, Overtake, exit, Fault
<1>3. UNCHANGED struck
  <2>1. CASE Tick
    BY <1>1, <2>1 DEF Tick, faults, Fault
  <2>2. CASE UNCHANGED vars
    BY <2>2 DEF vars
  <2>3. ASSUME NEW n \in Node, User(n) PROVE UNCHANGED struck
    BY <1>2, <2>3 DEF User, connect, disconnect, send_text, restart, bounds, faults
  <2>4. ASSUME NEW n \in Node, CommandLine(n) PROVE UNCHANGED struck
    BY <2>4 DEF CommandLine, send_tcu_conn_req, send_tcu_disconn_req, Request, AckSeen, NoAck,
       Close, StopKeepAlive, JoinKeepAlive, bounds, faults
  <2>5. ASSUME NEW n \in Node, Receiving(n) PROVE UNCHANGED struck
    BY <2>5 DEF Receiving, process_tcu_conn_req, Accept, send_tcu_conn_ack, process_tcu_conn_ack,
       Enter, Start, process_tcu_disconn_req, send_tcu_disconn_ack, process_tcu_disconn_ack,
       RxJoin, process_tcu_ka_req, process_tcu_ka_ack, process_tcu_single_text,
       process_tcu_positive_ack, Ignore, Answer, bounds, faults
  <2>6. ASSUME NEW n \in Node, keep_alive_loop(n) \/ JoinTwice(n) PROVE UNCHANGED struck
    BY <2>6 DEF keep_alive_loop, Wake, send_keep_alive_req, AttemptOver, Stopped, NoAnswer,
       JoinTwice, bounds, faults
  <2> QED
    BY <1>2, <2>1, <2>2, <2>3, <2>4, <2>5, <2>6 DEF Next
<1> QED
  BY <1>2, <1>3 DEF Undisturbed

LEMMA SteadyInit ==
    ASSUME Orderly, Init
    PROVE  Steady
<1>0. Caller \in Node /\ Listener \in Node
  BY Persons DEF Orderly
<1>1. \A n \in Node : /\ phase[n] = INITIALIZE /\ cli[n] = "idle" /\ rx[n] = "select"
                      /\ net[n] = <<>> /\ running[n]
  BY DEF Init
<1>2. NoControl
  BY <1>0, <1>1 DEF NoControl, Free
<1> QED
  BY <1>0, <1>1, <1>2 DEF Steady, Stages, Closed, Rested

LEMMA SteadyNext ==
    ASSUME Orderly, CallInv, Steady, [Next]_vars, [Patience]_vars
    PROVE  Steady'
<1> SUFFICES ASSUME Undisturbed' PROVE (\A n \in Node : running'[n]) /\ Stages'
  BY DEF Steady
<1>0. /\ TypeOK /\ OneUser /\ Undisturbed /\ Stages /\ Node = {Caller, Listener}
      /\ \A n \in Node : running[n] /\ ~NetworkFault(n) /\ ~exit(n) /\ ~restart(n)
      /\ Caller \in Node
  <2>1. TypeOK /\ OneUser /\ Node = {Caller, Listener}
    BY CallerFacts
  <2>2. Undisturbed /\ \A n \in Node : ~NetworkFault(n) /\ ~exit(n)
    BY <2>1, UndisturbedBefore
  <2> QED
    BY <2>1, <2>2 DEF Steady, restart
<1>1. CASE UNCHANGED vars
  BY <1>0, <1>1, StagesStay DEF vars
<1>2. CASE Tick
  BY <1>0, <1>2, StagesTick DEF Tick
<1>3. ASSUME NEW n \in Node, User(n), Patience PROVE UNCHANGED running /\ Stages'
  <2>1. UNCHANGED running
    BY <1>0, <1>3 DEF User, connect, disconnect, send_text
  <2>2. n = Caller /\ (connect(n) \/ disconnect(n) \/ send_text(n))
    BY <1>0, <1>3, NoOtherUser DEF User
  <2>3. connect(Caller) => rx[Caller] = "select"
    BY <1>0, <1>3 DEF Patience
  <2> QED
    BY <1>0, <2>1, <2>2, <2>3, CallerAsks
<1>4. ASSUME NEW n \in Node, CommandLine(n) PROVE UNCHANGED running /\ Stages'
  <2>1. UNCHANGED running
    BY <1>4 DEF CommandLine, send_tcu_conn_req, send_tcu_disconn_req, Request, AckSeen, NoAck,
       Close, StopKeepAlive, JoinKeepAlive
  <2> QED
    BY <1>0, <1>4, <2>1, ListenerIdles, CallerCarriesOut
<1>5. ASSUME NEW n \in Node, Receiving(n) PROVE UNCHANGED running /\ Stages'
  <2>1. UNCHANGED running
    BY <1>5 DEF Receiving, process_tcu_conn_req, Accept, send_tcu_conn_ack, process_tcu_conn_ack,
       Enter, Start, process_tcu_disconn_req, send_tcu_disconn_ack, process_tcu_disconn_ack,
       RxJoin, process_tcu_ka_req, process_tcu_ka_ack, process_tcu_single_text,
       process_tcu_positive_ack, Ignore, Answer
  <2> QED
    BY <1>0, <1>5, <2>1, ListenerMoves, CallerMoves
<1>6. ASSUME NEW n \in Node, keep_alive_loop(n) PROVE UNCHANGED running /\ Stages'
  <2>1. UNCHANGED running
    BY <1>6 DEF keep_alive_loop, Wake, send_keep_alive_req, AttemptOver, Stopped, NoAnswer
  <2> QED
    BY <1>0, <1>6, <2>1, ListenerProbes, CallerProbes
<1>7. \A n \in Node : ~JoinTwice(n)
  BY <1>0, ListenerIdles, CallerJoinsOnce
<1>8. CASE Next /\ Patience /\ ~UNCHANGED vars
  BY <1>0, <1>2, <1>3, <1>4, <1>5, <1>6, <1>7, <1>8 DEF Next
<1> QED
  BY <1>1, <1>8

\* When all is quiet both nodes take the connection to be up, or neither does,
\* as long as no fault has struck: a command to open or to close a connection
\* is answered before the clock ticks, so none gives up, and a probe is too, so
\* neither keep-alive does.
THEOREM PeersAlwaysAgree ==
    ASSUME Orderly
    PROVE  Spec /\ [][Patience]_vars => []PeersAgree
<1>1. Init => Steady
  BY SteadyInit
<1>2. CallInv /\ Steady /\ [Next]_vars /\ [Patience]_vars => Steady'
  BY SteadyNext
<1>3. CallInv /\ Steady => PeersAgree
  <2> SUFFICES ASSUME CallInv, Steady, Quiet, Undisturbed, NEW m \in Node, NEW n \in Node,
                      phase[m] = NETWORK
               PROVE  phase[n] = NETWORK
    BY DEF PeersAgree
  <2>1. /\ Stages /\ Node = {Caller, Listener} /\ Caller \in Node /\ Listener \in Node
        /\ \A k \in Node : running[k]
    BY CallerFacts DEF Steady
  <2>2. \A k \in Node : cli[k] = "idle" /\ rx[k] = "select"
    BY DEF Quiet, AtRest, CliAt, RxAt
  <2>3. Closed \/ Open
    BY <2>1, <2>2 DEF Stages, Opening, Closing
  <2>4. CASE Closed
    BY <2>1, <2>2, <2>4, PhasesDiffer DEF Closed, Rested
  <2>5. CASE Open
    BY <2>1, <2>2, <2>5 DEF Open, Greeted
  <2> QED
    BY <2>3, <2>4, <2>5
<1> QED
  BY <1>1, <1>2, <1>3, CallAlways, PTL DEF Spec
=============================================================================
