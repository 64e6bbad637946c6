# HelloPeer: specification and verification

HelloPeer is a chat and file-transfer program for two machines.  Its protocol,
TCU, runs over UDP: a two-way handshake opens and closes a connection, a
keep-alive watches it, and messages longer than a packet are cut into fragments
that travel in windows, repaired by negative acknowledgments and timeouts.
This directory holds TLA+ models of that program, the TLC runs that check them
on small instances, and proofs that TLAPS checks for every instance.
Paths below are relative to `src/`.

## 1. Inventory

| Part | Code | State | Operations |
|---|---|---|---|
| Data transfer | `entities/node.cpp` 390-537, 698-1083, 1234-1535 | `_send_packets`, `_received_packets`, `_seq_num`, `_last_num`, `_total_num`, `_window_size`, `_dynamic_window`, `_ack_received` | `send_text`, `send_file`, `send_window`, `wait_for_recv_ack`, eight data handlers, ACK and NACK handlers, assembly |
| Connection | `entities/node.cpp` 184-298, 390-443, 608-696, 1085-1232; `protocols/tcu.cpp` 213-238 | `_pcb.phase`, `_pcb.last_activity`, `_ack_received`, `_keep_alive_running`, `_keep_alive_thread` | connect, disconnect, six control handlers, `keep_alive_loop`, `start_keep_alive`, `stop_keep_alive` |
| Packet format | `protocols/tcu.h`, `protocols/tcu.cpp` | header: number, flags, length, checksum | `to_buff`, `from_buff`, CRC16 |
| Fault simulation | `node.cpp` 139-176, 338-388, 1234-1240 | three rates | lose or corrupt a packet, lose a window |
| Messages and files | `node.cpp` 94-123, 446-537, 1259-1493 | `_file_path`, `_max_frag_size`, the disk | cutting, numbering, assembly, `save_file`, `set_path`, `set_max_frag_size` |
| File container | `entities/file.*` | name, size, bytes | `to_buff`, `from_buff` |
| 24-bit integers | `types/uint24_t.*` | a value | arithmetic modulo 2^24, byte order |
| Set-up and life cycle | `node.cpp` 7-92, 184-238, `main.cpp` | ports, address, `_receive_running`, the two threads | constructor, `set_port`, `set_dest`, `start_receiving`, `stop_receiving`, destructor |
| Socket | `entities/socket.*` | a descriptor | open, close |
| Command line | `tools/cli.*` | | reads commands, one at a time; `exit`, end of input |
| Logger, dissector | `tools/logger.*`, `wireshark/tcu.lua` | | text |

A node runs three threads.  The **command line** thread executes one command at
a time and blocks in it, polling `_ack_received` every 100 ms.  The **receive**
thread takes one packet at a time and runs its handler.  The **keep-alive**
thread sleeps, probes, and closes the connection when nothing answers.  They
share the fields of `Node`, some of them atomic, none protected as a group; the
other two join the keep-alive thread.  The peers interact by UDP datagrams only,
which may be lost, duplicated or reordered.

What is hard here, and what makes each part correct:

- *Data transfer*: `_seq_num` serves the sender (start of its window, moved by
  the receive thread) and the receiver (where to look for gaps).  State left by
  one message is read by the next; an acknowledgment says little about what it
  acknowledges; resends meet late answers.  Correct means: every message is
  handed over once, whole, in order; "complete" is said only of such messages;
  a connection is given up only with cause; sending ends.
- *Connection*: three threads write the phase, each testing it first and setting
  it later.  Correct means: both ends agree when all is quiet; the keep-alive
  runs exactly while the connection is up; commands return; a dead peer is
  noticed.

- *Messages and files*: every length is stored in a field narrower than the
  variable it comes from, a file passes through five representations, and
  `save_file` looks twice at a path the command line may be assigning.  Correct
  means: what is shown or saved is what was sent, and "complete" is said of
  messages the receiver has dealt with.
- *Life cycle*: the main thread ends two threads, one of which may be starting or
  waiting for the other.  Correct means: a node that was set up listens, no
  thread outlives the node, and the program ends.

`PROJECT.json` lists the hazards one by one, at the line where each bites.

## 2. Modules

| Module | Models |
|---|---|
| `Tcu` | phases, flags and packet kinds of `protocols/tcu.h` |
| `Transfer` | the data path of two connected nodes, both roles in each |
| `Delivery` | what the data path promises: messages reach the peer's user at most once, in order, whole, and are confirmed only then; `Transfer` is checked to implement it |
| `Connection` | handshakes, keep-alive, waiting and timeouts, exits and restarts |
| `Uint24` | the operators of `uint24_t` and its byte order, for bytes of any size |
| `Files` | the bytes of messages: container, fragments, packets, assembly, saving; uses `Uint24` |
| `Program` | one program from start to end: set-up, the three threads, both ways out; uses `Tcu` |
| `MCTransfer`, `MCConnection`, `MCFiles`, `MCProgram` | the instances: scenarios, budgets of faults, files, disks |
| `TransferProofs`, `ConnectionProofs`, `Uint24Proofs`, `FilesProofs`, `ProgramProofs` | theorems about the module each is named after |
| `DeliveryProofs` | theorems about `Transfer` with one sender and bit errors, refinement of `Delivery` among them |
| `CallerProofs` | theorems about `Connection` with one user who gives commands |
| `JoinProofs` | that the fragments of a buffer make up the buffer, for `FilesProofs` |

The modules share vocabulary (`Tcu`, `Uint24`), not state.  `Transfer` takes a
connection that is up for granted and follows message numbers; `Connection` has
one text in one packet; `Files` takes a channel that delivers and follows
bytes; `Program` has a peer that may send anything.  What each takes for
granted of another is the subject of the other's properties.

### Transfer

State: one variable per field of `Node`, named after it, for each node; `cli`
(where the command line thread is, its loop variable and its count of retries),
`assembling` (the receive thread between acknowledging the last fragment and
assembling), `net` (packets under way to each node), and three history
variables: what was `sent`, reported `completed`, and `delivered`.

Each handler is one action, except that the acknowledgment of a whole message
and its assembly are two, because the peer may react in between.
`send_window` is a step per fragment, since the receive thread moves `_seq_num`
under it.  The handlers for texts and files have the same body with one flag
more, and are instances of one definition; each is an action of `Next` under
its own name.  A file that cannot be opened or read is a step of `send_file` too
(`CannotRead`): nothing is sent, but the packets kept for resending are gone and
`_seq_num` is one.  A body is the number of the message it was cut from, and a packet
whose checksum fails is `Garbled`: the handlers look at nothing else.  Since
fragment `i` of a message carries number `i`, "whole and unchanged" can be read
off the assembled buffer.

Faults: those the program simulates (lost packet, corrupt packet, lost window),
those of UDP (lost, duplicated, overtaken), a failed save, and `early`.  How
often each may strike in one behaviour is a budget, a function from faults to
numbers; `Budgets` is a set of them, and a behaviour starts with one.
The last fault needs a word.  The command line thread polls every 100 ms, on a
network whose round trip is far shorter; `RoundTripOver` says that when it looks,
nothing of its transfer is under way and the peer has assembled what it acknowledged.
Nothing in the code enforces this: there is a sleep of 100 ms and a flag (421-429).
`early` is a look that breaks the rule, and it is a fault with a budget like the
others.  So what a run or a theorem with no early look says, it says of networks and
disks faster than the polling; no property only repeats the rule, and what becomes of a
request that outlives its message is told under "Where the properties stop holding".

### Connection

Time is a counter of five-second ticks: `ConfirmTimeout` and `AttemptInterval`
are one tick in the code as well; the two long intervals are shortened and keep
their order (`TimerAssumption`).  Work takes milliseconds, so a tick comes when
no thread has work and no packet is undelivered, or when a packet is `slow`,
which is a fault.  Handlers are cut where another thread's step matters: around
`start_keep_alive` and `stop_keep_alive` (flag, then join), between test and
assignment of the phase in `send_tcu_conn_req` and `send_tcu_disconn_req`,
between sending an answer and entering the next phase, and between
`_ack_received = true` and `NETWORK` in `process_tcu_conn_ack`.  Two joins of one
thread are undefined in C++: the model lets them go well or end the program
(`JoinTwice`).  The data path is one text of one packet.  A `Scenario` says which
users connect, disconnect and talk, and has the budgets of the faults.

### Uint24 and Files

A byte has `Base` values and a number three bytes, so that TLC can fill numbers up
(`Base = 2`: eight numbers) and the theorems hold for 256.  `Wrap` is `& 0xFFFFFF`;
`hton24` and `ntoh24` move the bytes as the shifts do.

A buffer is a sequence of cells; a length takes one cell, whatever its width.
`NewFile`, `to_buff` and `from_buff` are the functions of `entities/file.cpp`: the
name length wraps in its byte, the size in four (`SizeModulus`), and a name of 255
bytes fills an array with no room for its end (`CString`).  `Fragments` cuts as
`send_text` and `send_file` do, with the count cut to three bytes (`Count`); a count
of `Modulus - 1` is the loop that never ends (`Endless`), a count of zero the
message that is "complete" without a packet (`NothingToSend`).  The receiver is
`ProcessSingle`, `ProcessFragment`, `Assemble`, and `save_file` in two steps, the
look at the path (`CheckPath`, `InvalidPath`) and the use of it (`Write`,
`CannotOpen`), because the other thread assigns the path in two steps as well: the
string is `Torn` in between.  Neither looks at what the disk allows: opening the file
fails silently in a directory that takes no new file (`locked`), and so does writing
on a `full` disk, where some beginning of the file, of a length in `Room`, is left and
the user is told the name as if all were well.  So `shown` has only the name of a file, `saved` what the
disk holds, and `HandedIntact` speaks of both.

### Program

State: the two ports (`junk` is what an uninitialised field may hold and is not
zero), the socket, the phase, and where each of the three threads is.  `Stops` is
the order in which `stop_receiving` and `stop_keep_alive` do their steps; the `exit`
command goes through it once before the destructor does, an end of input does not.
Undefined behaviour is a choice: `FD_SET` of a closed descriptor aborts or not.
`send_tcu_conn_req` is one step that nobody answers: it matters here because it
makes the system bind the socket.

## 3. Runs

Pass:

| Run | Instance | Shows |
|---|---|---|
| `SingleTransfer` | a text of 2, 3, 5 or 7 fragments, windows of 1, 2, 3, 5 or dynamic; up to 3 lost and 2 corrupt packets and 1 lost window, or 3 overtakings | delivered intact, complete only then, gaps asked for where they are, given up with cause, no fragment becomes a control packet, implements `Delivery` |
| `Stream` | two messages of 1 or 10, texts and files, window 3 or dynamic; 3 bit errors | intact, confirmed truthfully, gaps asked for where they are, implements `Delivery`, whatever counters and flags the first message, or a file that could not be read, left behind |
| `Settling` | lengths and windows up to the modulus of 8, windows longer than the message; any packet and 3 windows lost; fairness | sums wrap, "complete" is true, the window never outruns the receiver, every send command returns |
| `Hostile` | a text or a file of 3; one early look, overtaking, duplicate, bit error and failed save | nothing invented, provenance of every body |
| `Session` | `a` connects, both talk, both disconnect, no fault; or both connect and disconnect, and a packet is slower than the timers | peers agree whenever all is quiet; no command or handler leaves a node half way |
| `Recovery` | `a` connects, talks, disconnects; one packet lost and one exit or crash, or one lost, one duplicated and one overtaking; fairness | keep-alive follows the connection, no double join, commands return, half-open connections end |
| `Files` | two messages: texts of 5 and 8 cells, files of 5 to 9, one of them longer than its size field and one whose name fills its array; fragments of 1, 2 or 5; two paths, each creatable, on a full disk, closed to the program, blocked or impossible; one path command; fairness | intact, or on a full disk the beginning; one message in the buffer; complete means accounted for; a file is lost for three reasons only; every message that fits settles |
| `Program` | the whole state space; fairness | threads joined, ready when set up, the program ends |

Violations, each a disagreement between the code and what its comments or
documents say (details under `findings` in `PROJECT.json`):

| Run | What happens |
|---|---|
| `SecondMessage` | dynamic window, two short messages, no fault: the second is assembled from a part of it |
| `BothSend` | both send: fragments are skipped, no fault |
| `UnansweredFin` | a FIN that meets the keep-alive among its probes is not answered |
| `PathIgnored` | a path that is a plain file is taken on, and the good path given next is refused for it |

### Where the properties stop holding

The instances of the passing runs are chosen; outside them the models have
behaviours that break the same properties.  They were found with the instances
named here, which have no run of their own:

| Property | Instance | What happens |
|---|---|---|
| `GiveUpJustified` | `Total = {1}`, one `drop` | a packet of a one-packet message that is lost is not sent again, because `send_window` counts to a `_total_num` that `send_text` did not set (`node.cpp` 1245); the connection is closed |
| `DeliveredIntact` | `Total = {3}`, `WindowSize = {2}`, one `lose` | the last acknowledgment is lost after the receiver has cleared its buffer (862, 462); the repeated window is delivered as a message of its own |
| `DeliveredIntact` | `Total = {2}`, `WindowSize = {2}`, one `reorder`, one `corrupt` | the last fragment comes first and is garbled; the next one finds an empty buffer and resets the counters (758-764): the gap is not noticed |
| `WindowBacked` | the instance of `Settling` with a `drop` more | the fragment asked for again carries the end-of-window flag from then on (1026); when it is lost too, the window that is repeated after the timeout has two ends, is acknowledged twice, and moves on by two (1066) |
| `DataStaysData` | the instance of `Hostile` | a late negative acknowledgment, answered after the window size or the length has changed, turns a fragment into a FIN with a payload (1026, 1032) |
| `ConnectSettled` | `a` connects, talks, disconnects, four commands; one duplicate, one overtaking, one loss | a late acknowledgment of data ends the wait for SYN + ACK (399), and the node stays in CONNECT |
| `KeepAliveFollowsConnection` | both connect, two commands | the timeout of one attempt closes and stops in two steps (407-408): it stops the keep-alive of the connection a SYN opened in between |
| `NoDoubleJoin`, `CommandsReturn` | `a` connects, both disconnect, two commands | both threads join the keep-alive thread; or a command waits for one that nobody stops |
| `KeepAliveFollowsConnection`, `NoDoubleJoin` | `a` connects and disconnects, one slow packet | SYN + ACK arrives when the wait for it has just run out: its handler starts a keep-alive thread (636) while, or after, the command closes the connection and joins (407-408) |
| `PeersAgree` | `a` connects, talks, disconnects, three commands | `HOLDOFF` set late by the ending keep-alive (289) overwrites the CONNECT of a user who reconnects at once |

A negative acknowledgment that outlives its message finds the packets and counters of the
next, or none.  With one early look, up to two bit errors and nothing else none does:
the receiver still asks only for what the sender waits for.  It takes a second fault, such
as two early looks and a bit error, or an early look, an overtaking, a duplicate and a bit error, for
one to be handled after its message was reported complete; the row of `DataStaysData` is
what it may then do.

Lengths that do not fit (`Fits` in `Files`): a message of 2^24 - 1 fragments is
never done being cut; of a multiple of 2^24, nothing is sent and "complete" is
printed; of more, only the first fragments are.  A file of 4 GiB or more arrives with its
size modulo 2^32.  The properties of `Files` are about the other messages; the
instance has both, so that the one kind is seen not to disturb the other.

At the end of input, unlike after `exit`, the node is `DEAD` while its receive thread
still runs, and `DEAD` is a phase that accepts a SYN: the peer is answered by a program
on its way out, and the keep-alive thread this starts is joined by the destructor.

The keep-alive loop probes every five minutes on a busy connection too, though
`tcu.h:113` speaks of five minutes without activity: the loop counts from its
own start (`node.cpp` 247), and a message answered five seconds earlier does not hold
the probes off.  The model has it so (`Wake`); no property is about it.

Bounds.  Two nodes are the whole system.  Messages of up to seven fragments in
windows of one to three have a first, a middle and a last position in a window,
full and partial last windows, and more windows than the counters of one window
can confuse; 10 fragments is where the dynamic window exceeds one
(`dynamic_window_size`).  Sequence numbers have 24 bits; a modulus of 8 with
lengths up to 6 and windows up to 7 lets every sum of the code wrap, 16 or 32
keeps the ordinary case.  Two messages are enough for state left by one to meet
the next.  Each fault has a budget: three retries absorb three lost windows,
three packets and two bit errors hit every position of a window and its repair.
Three commands are connect, talk, disconnect, or connect, disconnect, connect.
`Files`: eight numbers and a size field of three bits put messages on either side
of every limit, names of 1 to 3 cells with `NameMax = 3` one on it.  On a full disk, `Room = {0, 1}` leaves nothing of a file
or a part of it; the four disks of `AnyDisk` have every kind of path.  Two messages are
the least that can mix in the receive buffer, one path command the least that can meet
a save.  `Program` needs no bound.  Runs of `Transfer` and `Files` set
`CHECK_DEADLOCK FALSE`: when the messages are sent the system is done, and the sender
of an endless message or the receive thread that read beyond a buffer has stopped.
In `Connection` time goes on, and in `Program` the end is a step.

Fairness.  `Transfer!Fairness`: the operating system schedules both threads.
`Connection!Fairness` and `Program!Fairness`: it schedules the three threads, and
time passes.  `Files!Fairness`: it schedules the receive thread and lets a command
that was given go on.  No user command, exit, restart or fault is ever forced.

## 4. Proofs

### TransferProofs

For all nodes, moduli, lengths, window sizes, message
counts and budgets that satisfy the assumptions of `Transfer`:

- `TypeCorrect`: `Spec => []TypeOK`.  Needs `SizesAssumption`: a length
  below the modulus, so that counters stay sequence numbers.
- `OriginAlways`: `Spec => []Origin`: every body with a valid checksum that is
  stored, assembled, or under way in either direction is a fragment of the message it names.
- `NothingIsInvented`: `Spec => []NothingInvented`: every body handed to a
  user is a fragment of a message the peer's user sent.

`NothingInvented` alone is not inductive: a delivered body comes from the
receive buffer, that from the network, that from the sender's buffer.  The
inductive invariant is `IInv == TypeOK /\ Origin /\ NothingInvented`; `Origin`
states provenance for every place a body can be in.  The proof has a lemma per
action; faults of the network only remove, repeat or move packets, which the
lemmas about sequences cover.  TLC checks the three parts in `Settling` and
`Hostile`.

### DeliveryProofs

What "Where the properties stop holding" lists needs a second sender, a packet the
network loses, repeats or overtakes, a look before the answer is there, or a second message
with windows of one
fragment.  `Gentle` excludes these: `OneSender`, `BitErrorsOnly` (every budget is zero
except those for corrupted packets and lost windows, which are as large as one
likes; a window is lost whole, before a packet of it is sent, so this is the code's own
simulation and not a loss on the line), and `WideWindows` (windows of
one only if one message is sent).  `Stream` is such an instance.  For all lengths, moduli,
window sizes, numbers of messages and budgets that are `Gentle`:

- `IntactAlways`, `CompleteAlways`, `WindowAlwaysBacked`, `NackAlwaysInWindow` and
  `DataAlwaysData`: `Spec => []P` for `DeliveredIntact`, `CompleteImpliesDelivered`,
  `WindowBacked`, `NackInWindow` and `DataStaysData`.
- `DeliveryImplemented`: `Spec => ImplementsDelivery`, the refinement of `Delivery`.
  `Outcome` sorts the steps into those that send a message, hand one over, confirm the
  latest, or do nothing the user sees.
- `GiveUpAlwaysJustified`: `Spec => []GiveUpJustified`, if also `NoWrap`: a length and a
  window do not add up to the modulus.  Otherwise a window that reaches the last
  sequence number would end before it starts, and nothing would be sent.

They follow from one inductive invariant (`ProgressAlways`),
`Progress == TypeOK /\ Setting /\ Partner /\ Arrivals /\ Stage`.  `Arrivals` is what the
receiver's user holds; none of it is inductive without `Stage`, which says where the
message under way is: `Quiet`, `SingleStage`, or `FragmentedStage(w)` with windows of
size `w`.  A fragmented message is `Cut` (its packets carry its number, and the flags of their
place in the window or those a repair gave them), and its window is `Ready` (not sent),
`InFlight` (from fragment `a` on it is on the line or unsent, before `a` the receiver has
what was not corrupted), `Repairing` (one gap is being asked for or filled), `Acked`, or the
message is `Over`.  Each stage gives the contents of both lines, of the receive buffer
and of the receiver's two counters.  The counters matter most: `_seq_num` and `_last_num`
of the receiver survive a message, and `Synced \/ ToSync(w)` says that they cannot hide a
gap: either they lie before the window, or the first fragment that arrives resets them.
With windows of one there is no such fragment, which is the disagreement that
`SecondMessage` shows.  The proof has a lemma per handler and stage.  For
`GiveUpJustified` the invariant grows by `Effort`: how many windows were lost in a row when
the retries are at their count, and that nothing of them is under way.

### ConnectionProofs

For any two nodes, timers in the order of `tcu.h`, scenarios and budgets:

- `TypeCorrect`: `Spec => []TypeOK`.  That a thread sends at most three probes and
  that a timer never exceeds its interval need arithmetic on each way into a state.
- `FlagIsServed`: `_keep_alive_running` is up only while a keep-alive thread looks at
  it.

The inductive invariant adds to the types that a thread about to sleep or to probe
has a probe left (`Backed`).

### CallerProofs

`Orderly` is: one user gives all the commands (`OneUser`), no packet is slower than the
timers (`InTime`), and where texts are sent no packet is repeated (`NoEcho`).  "Where the
properties stop holding" has a behaviour for each of the three: two users connect or
disconnect at the same time, a SYN + ACK meets the command that has given it up, or a
second acknowledgment of a text ends the wait for a SYN + ACK.  Everything else is free:
the number of commands and how soon one follows another, the timers in their order, and
any number of packets lost or overtaken (and repeated, where no texts are sent), exits,
crashes and restarts of either program.
`scenario` never changes, so the theorems speak of each scenario by itself; `Dying` of
`Recovery` is one of them.  Then:

- `KeepAliveAlwaysFollows`: `Spec => []KeepAliveFollowsConnection`.
- `NeverJoinedTwice`: `Spec => []NoDoubleJoin`.
- `AlwaysSettled`: `Spec => []ConnectSettled`.
- `PeersAlwaysAgree`: `Spec /\ [][Patience]_vars => []PeersAgree`.

The first three follow from one inductive invariant, `CallInv`.  `Line`: requests go one way and
answers the other, and at most one text or acknowledgment of a text is under way, for
which the command that sent it still waits; so no acknowledgment is taken for another.
`Listening` and `Calling` say what the threads of the two nodes can be at in each
phase, and `Keeping` when the caller has a keep-alive thread.  The part that ties the
nodes together is `GivingUp => Silent`: from the moment the wait of a command runs out
until its `stop_keep_alive` has joined, nothing but keep-alive packets is on the line and
no handler is half way at either end, because a tick of the clock finds all packets
handled.  Without it, a late SYN + ACK would start a keep-alive thread while the command
line joins the last one.  The proof is in two halves: a step of the network or of the
listener (`ListenerStep`) leaves the caller's half of the invariant alone, and the
reverse (`CallerStep`).

`PeersAlwaysAgree` has one hypothesis more, `Patience`: the user does not connect while
the receive thread is still in `process_tcu_disconn_ack`, joining the keep-alive thread.
The row of `PeersAgree` under "Where the properties stop holding" is what happens to a
user who does.  Its invariant, `Steady`, says what the first three theorems need not
know: while no fault has struck, both programs run, and the two nodes are together in one of
four stages, of which a command leads to the next: `Closed`, `Opening`, `Open`, `Closing`.
`Opening` and `Closing` say where the handshake is: the request is the only control
packet on the line (`Only`), or the listener is half way through its handler, or the
answer is the only one.  Two arguments about time keep the stages in this order.  A
command still waiting for its answer when the clock ticks would be one whose packets are
still on the line, or that was given with no connection to close; so nobody gives up
while `Opening` or `Open` (`StagesTick`).  And a probe that waits has been answered before
the first tick (`Probed`: the age of the last packet and the time left of the wait add up
to no more than the wait), so neither keep-alive ends the connection (`BeatsUnderProbes`).

### Uint24Proofs, JoinProofs and FilesProofs

For bytes of any size: results fit in three bytes (`ResultsFit`), differences undo sums
across a wrap (`MinusUndoesPlus`), `hton24` reverses the bytes (`NetworkOrder`), and a
number survives the wire (`SequenceNumbersSurvive`).  The arithmetic rests on a lemma
about division with remainder (`DivMod`) and its uniqueness.

`ContainerSurvives`: `from_buff` of `to_buff` is the file, if its lengths fit.
`FragmentsTile`: every byte of a message lies in exactly one fragment, with no fragment
longer than the fragment size.  `LossIsExplained`:
`Spec => LossExplained`, for all texts, files, disks, paths and bounds: a file is lost
without a word only if the path was assigned while it was being saved, the directory or its disk takes no
file, or the name fills its array; the inductive
invariant says that a path that was looked at and not assigned since is a directory
(`CheckedPath`), and that the name of a file being saved is no longer than its array.

`JoinedWhole`: the fragments of a buffer, put together by number, are the buffer, for
every length and fragment size whose count fits.  Joining is recursive over the
fragments; the proof is an induction over a set of numbers (those up to which the join
is a prefix of the buffer), since the library's theorems about induction take an operator.

For all texts, files, fragment sizes, disks, paths and bounds: `FilesTypes`
(`[]TypeOK`), `BufferHoldsOneMessage` (`[]OneMessage`), `MessagesAreHandedIntact`
(`[]HandedIntact`) and `CompleteIsAccountedFor` (`[]Accounted`).  Their invariant is
`MessageInv`: what is under way belongs to the message that waits for its acknowledgment
(`FlightInv`), so do the fragments kept, until a message is complete and the buffer is
all of it (`BufferInv`), and a file being saved is one that was sent (`IncomingInv`).  That
the sender may go on while a fragmented file is being saved, but not while one of a single
packet is, is what keeps two messages from meeting in the buffer.

### ProgramProofs

For any number of probes and any memory the constructor finds: `TypeCorrect`,
`ThreadsJoined` (`Spec => []NoThreadOutlivesNode`) and `Listening`
(`Spec => []ReadyWhenSet`).  The invariant has two parts.  `Joined`: past the join of
`stop_receiving` there is no receive thread, so nobody who could start a keep-alive
thread past the join of `stop_keep_alive`; this is why the order of the two calls in the
destructor matters.  `Prompt`: at the prompt the receive thread has been started exactly if
its flag is up, and it cannot have ended.

### What is only model-checked

The properties of `Transfer` outside `Gentle`, that is with packets the network loses or
overtakes: they hold only for some budgets, so no invariant for all of them exists, and
`SingleTransfer` and `Settling` check the instances where they do.  The properties of
`Connection` outside `Orderly`: two users at once in `Session`, a repeated packet among
texts in `Recovery`; and `PeersAgree` where both users disconnect, in `Session`.  And
liveness, which TLAPS cannot prove under fairness.

## 5. Not modelled

- Logging, help, history and the dissector: they change no state of a node.  Parsing is
  left out but for the port that is no number, which ends the program.
- The options of the socket and the calls of the operating system: sockets are open,
  bound or closed, and UDP is what it may do to a packet.
- CRC16 as a computation: a checksum tells whether the bytes are those sent.
  Undetected corruption (1 in 65536) is left out.
- Torn accesses to the plain fields of `Node`: each access is one step.  Two exceptions
  are modelled because a property turns on them: the path that is read while it is
  assigned, and the descriptor that is read while it is closed.  A third is left out: the
  receive thread may look into `_send_packets` (1017) while the next command clears it
  (1264, 1364), if a negative acknowledgment outlives its message.  A handler is one
  step here, so the model has the order of the two and not their overlap, which C++
  leaves undefined.
- Products and comparisons of `uint24_t`: the program uses no product, and comparisons are
  those of the values.
- Copies and moves of `File` and `tcu_packet`: they give equal objects.
- What reading beyond a buffer or into an unterminated name does beyond the outcomes
  named in `Files`.

## 6. Order of the work

1. `Tcu`, `Transfer`, `Delivery`, their runs, and the proof that nothing is invented.
2. `Connection` and its runs; then its proofs.
3. `Uint24`, `Files`, `Program`, their runs and proofs.

4. What the data path delivers, as theorems: `DeliveryProofs`; what the files are, to the
   byte: `JoinProofs`, `FilesProofs`; what one user makes of the connection: `CallerProofs`.

Left for later, in the order of what it would add: an abstract connection of two
peers that `Connection` implements where the peers agree (the stages of `Steady` are its
states); the connect command of
`Program` with its wait, composed with `Connection`.
