-------------------------------- MODULE Files --------------------------------
(***************************************************************************)
(* The bytes of a message, from the user who sends a text or a file to the *)
(* user who is shown it or finds it on the disk: the container of a file   *)
(* (entities/file.cpp), fragments and their packets (protocols/tcu.cpp),   *)
(* assembly, and saving (entities/node.cpp), while the receiving user      *)
(* changes the directory that files go to.                                 *)
(*                                                                         *)
(* One node sends and the other receives; a node does both, with separate  *)
(* variables.  How fragments get across is in Transfer: here they arrive   *)
(* whole, in any order, and the sender learns when all of them have.       *)
(*                                                                         *)
(* A buffer is a sequence of cells: a byte of a name or of data, or a      *)
(* length, which takes one cell whatever its width.                        *)
(*                                                                         *)
(* Definitions marked "mutation" are plausible slips in the code next to   *)
(* which they stand; no part of Next uses them.                            *)
(***************************************************************************)
EXTENDS Uint24, Sequences, FiniteSets, SequencesExt

CONSTANTS
    NameMax,       \* FILE_NAME_MAX_LEN, and the longest name a disk takes: 255
    SizeModulus,   \* 2^32 in the code: the width of the size of a file
    Text,          \* the texts users send
    File,          \* the files they send: a name and data each
    FragSize,      \* the fragment sizes they set
    DefaultSize,   \* TCU_MAX_PAYLOAD_LEN, the size before they set one
    Path,          \* the directories a user names
    Torn,          \* a path read while it is being overwritten
    Home,          \* the default path
    Disks,         \* what may be found under the paths at the start
    Room,          \* bytes a full disk may still take
    MaxMessages,   \* bound: messages sent
    MaxPaths       \* bound: set_path commands

\* Under a path there is a directory, one on a full disk, one that takes no new
\* files, something else, nothing where a directory can be created, or nothing
\* where it cannot.
Standing == {"dir", "full", "locked", "other", "absent", "orphan"}

Min2(a, b) == IF a < b THEN a ELSE b

ASSUME WidthAssumption == NameMax \in Nat /\ SizeModulus \in Nat \ {0}
ASSUME MessageAssumption ==
    /\ Text \subseteq Seq(Nat)
    /\ File \subseteq [name : Seq(Nat), data : Seq(Nat)]
    /\ \A f \in File : Len(f.name) <= NameMax
    /\ FragSize \cup {DefaultSize} \subseteq Nat \ {0}
ASSUME PathAssumption ==
    /\ Home \in Path /\ Torn \notin Path
    /\ Disks \subseteq [Path \cup {Torn} -> Standing]
    /\ \A disk \in Disks : disk[Torn] = "orphan"
ASSUME BoundsAssumption == Room \subseteq Nat /\ MaxMessages \in Nat /\ MaxPaths \in Nat

VARIABLES
    max_frag_size,    \* sender: _max_frag_size
    cli,              \* sender: where its command line thread is
    acked,            \* sender: whether the last acknowledgment has arrived
    flight,           \* the buffers on their way
    received_packets, \* receiver: _received_packets
    rx,               \* receiver: where its receive thread is
    incoming,         \* receiver: the file it is about to save
    file_path,        \* receiver: _file_path
    user,             \* receiver: the path its command line is assigning, if any
    paths,            \* set_path commands so far
    disk,             \* receiver: what is found under each path
    moved,            \* history: _file_path was assigned since rx looked at it
    saved,            \* receiver: the files on its disk
    shown,            \* history: the texts and files its user was told of
    refused,          \* history: messages its user was told "invalid path" for
    lost,             \* history: messages nobody was told of
    sent,             \* history: the messages the sender was told to send
    completed         \* history: those reported "complete"

sender  == <<max_frag_size, cli, sent, completed>>
outcome == <<saved, shown, refused, lost>>
setting == <<file_path, user, paths>>
vars == <<max_frag_size, cli, acked, flight, received_packets, rx, incoming,
          file_path, user, paths, disk, moved, saved, shown, refused, lost,
          sent, completed>>

-----------------------------------------------------------------------------
(* The container of a file *)

\* File::File: the header holds what its fields have room for.
NewFile(name, data) ==
    LET size == Len(data) % SizeModulus IN
    [name_length |-> Len(name) % (NameMax + 1),
     file_name   |-> name,
     file_size   |-> size,
     data        |-> SubSeq(data, 1, size)]

to_buff(f) == <<f.name_length>> \o f.file_name \o <<f.file_size>> \o f.data

SizeAt(b) == b[1] + 2

\* The buffer is as long as its two lengths say.
Whole(b) == /\ b \in Seq(Nat) /\ Len(b) >= 2 /\ Len(b) >= SizeAt(b)
            /\ Len(b) = SizeAt(b) + b[SizeAt(b)]

SkipNoSize(b) ==                                                \* mutation
    NewFile([i \in 1..b[1] |-> b[1 + i]], [i \in 1..b[SizeAt(b)] |-> b[b[1] + 1 + i]])
from_buff(b) ==
    NewFile([i \in 1..b[1] |-> b[1 + i]], [i \in 1..b[SizeAt(b)] |-> b[SizeAt(b) + i]])

\* file_name as a C string: a name that fills its array is not terminated, and
\* goes on into the size next to it unless that begins with a zero byte.
CString(f) ==
    IF Len(f.file_name) < NameMax THEN {f.file_name}
    ELSE {f.file_name, Append(f.file_name, f.file_size)}

-----------------------------------------------------------------------------
(* Fragments and packets *)

FloorCount(len, m) == Wrap(len \div m)                          \* mutation
\* _total_num: how many fragments of size m make up len bytes, in three bytes.
Count(len, m) == Wrap((len + m - 1) \div m)

Fragment(bytes, i, m) == SubSeq(bytes, (i - 1) * m + 1, Min2(i * m, Len(bytes)))

FragmentsFromZero(k, kind, bytes, m) ==                         \* mutation
    IF Len(bytes) <= m
    THEN {[seq |-> 1, form |-> "single", kind |-> kind, payload |-> bytes, msg |-> k]}
    ELSE {[seq |-> i - 1, form |-> IF i = Count(Len(bytes), m) THEN "last" ELSE "more",
           kind |-> kind, payload |-> Fragment(bytes, i, m), msg |-> k]
             : i \in 1..Count(Len(bytes), m)}
\* What a packet says of itself; "msg" is the message it belongs to.
Fragments(k, kind, bytes, m) ==
    IF Len(bytes) <= m
    THEN {[seq |-> 1, form |-> "single", kind |-> kind, payload |-> bytes, msg |-> k]}
    ELSE {[seq |-> i, form |-> IF i = Count(Len(bytes), m) THEN "last" ELSE "more",
           kind |-> kind, payload |-> Fragment(bytes, i, m), msg |-> k]
             : i \in 1..Count(Len(bytes), m)}

\* tcu_packet::to_buff and from_buff, but for the checksum: see Transfer.
OnWire(p)   == [p EXCEPT !.seq = hton24(@)]
UnswappedFromWire(b) == b                                       \* mutation
FromWire(b) == [b EXCEPT !.seq = ntoh24(@)]

-----------------------------------------------------------------------------
(* The sender's command line thread *)

set_max_frag_size ==
    /\ cli = "idle"
    /\ max_frag_size' \in FragSize
    /\ UNCHANGED <<cli, acked, flight, received_packets, rx, incoming, setting, disk,
                   moved, outcome, sent, completed>>

Bytes(message) ==
    IF message.kind = "text" THEN message.data
    ELSE to_buff(NewFile(message.name, message.data))

\* The loop that cuts a message never ends if its count is the largest number
\* there is: the loop variable wraps before it exceeds it.
Endless(len, m) == len > m /\ Count(len, m) = Modulus - 1

Send(message) ==
    /\ cli = "idle" /\ Len(sent) < MaxMessages
    /\ sent' = Append(sent, message)
    /\ IF Endless(Len(Bytes(message)), max_frag_size)
       THEN cli' = "endless" /\ UNCHANGED flight
       ELSE /\ cli' = "sending"
            /\ flight' = flight \cup {OnWire(p) : p \in
                 Fragments(Len(sent'), message.kind, Bytes(message), max_frag_size)}
    /\ acked' = FALSE
    /\ UNCHANGED <<max_frag_size, completed, received_packets, rx, incoming, setting,
                   disk, moved, outcome>>

\* "frag" is history: the fragment size a message was sent with.
send_text == \E t \in Text :
    Send([kind |-> "text", name |-> <<>>, data |-> t, frag |-> max_frag_size])
send_file == \E f \in File :
    Send([kind |-> "file", name |-> f.name, data |-> f.data, frag |-> max_frag_size])

\* With a count of zero there is no window to send and none to wait for.
NothingToSend ==
    LET len == Len(Bytes(Last(sent))) IN
    len > max_frag_size /\ Count(len, max_frag_size) = 0

CompleteUnacked ==                                              \* mutation
    /\ cli = "sending"
    /\ cli' = "idle"
    /\ completed' = completed \cup {Len(sent)}
    /\ UNCHANGED <<max_frag_size, sent, acked, flight, received_packets, rx, incoming,
                   setting, disk, moved, outcome>>

Complete ==
    /\ cli = "sending" /\ (acked \/ NothingToSend)
    /\ cli' = "idle"
    /\ completed' = completed \cup {Len(sent)}
    /\ UNCHANGED <<max_frag_size, sent, acked, flight, received_packets, rx, incoming,
                   setting, disk, moved, outcome>>

-----------------------------------------------------------------------------
(* The receiver's receive thread *)

\* A text is printed; a file is unpacked, and saved in the steps below.  A
\* container cut short is read beyond its end, which may give anything: here,
\* a file the thread cannot save, or the end of the thread.
Unpack(k, kind, bytes, single) ==
    \/ /\ kind = "text"
       /\ shown' = shown \cup {[msg |-> k, name |-> <<>>, data |-> bytes]}
       /\ rx' = "select"
       /\ UNCHANGED incoming
    \/ /\ kind = "file" /\ Whole(bytes)
       /\ incoming' = [msg |-> k, file |-> from_buff(bytes), single |-> single]
       /\ rx' = "check"
       /\ UNCHANGED shown
    \/ /\ kind = "file" /\ ~Whole(bytes)
       /\ rx' \in {"select", "gone"}
       /\ UNCHANGED <<incoming, shown>>

\* A message in one packet: a file is saved before it is acknowledged.
ProcessSingle ==
    /\ rx = "select"
    /\ \E b \in flight :
         LET p == FromWire(b) IN
         /\ p.form = "single"
         /\ flight' = flight \ {b}
         /\ Unpack(p.msg, p.kind, p.payload, TRUE)
         /\ acked' = (p.kind = "text")
    /\ UNCHANGED <<sender, received_packets, setting, disk, moved, saved, refused, lost>>

Held(buffer) == {p.seq : p \in buffer}

\* All fragments up to the last one are there.
IsComplete(buffer) == \E p \in buffer : p.form = "last" /\ Held(buffer) = 1..p.seq

\* A fragment is kept; the last to be missing is acknowledged, which lets the
\* sender go on, before the message is put together.
ProcessFragment ==
    /\ rx = "select"
    /\ \E b \in flight :
         /\ FromWire(b).form # "single"
         /\ flight' = flight \ {b}
         /\ received_packets' = received_packets \cup {FromWire(b)}
    /\ IF IsComplete(received_packets')
       THEN acked' = TRUE /\ rx' = "assemble"
       ELSE UNCHANGED <<acked, rx>>
    /\ UNCHANGED <<sender, incoming, setting, disk, moved, outcome>>

\* The fragments in the order of their numbers.
Numbered(buffer, i) == CHOOSE p \in buffer : Cardinality({q \in buffer : q.seq <= p.seq}) = i
Joined(buffer) ==
    FlattenSeq([i \in 1..Cardinality(buffer) |-> Numbered(buffer, i).payload])

AssembleAndKeep ==                                              \* mutation
    /\ rx = "assemble"
    /\ \E p \in received_packets :
         p.form = "last" /\ Unpack(p.msg, p.kind, Joined(received_packets), FALSE)
    /\ UNCHANGED <<sender, acked, flight, received_packets, setting, disk, moved, saved,
                   refused, lost>>

\* assemble_text and assemble_file.
Assemble ==
    /\ rx = "assemble"
    /\ received_packets' = {}
    /\ \E p \in received_packets :
         p.form = "last" /\ Unpack(p.msg, p.kind, Joined(received_packets), FALSE)
    /\ UNCHANGED <<sender, acked, flight, setting, disk, moved, saved, refused, lost>>

\* save_file returns; its caller acknowledges a file that came in one packet.
EndSave ==
    /\ rx' = "select"
    /\ acked' = (acked \/ incoming.single)
    /\ UNCHANGED <<sender, flight, received_packets, incoming, setting>>

CheckNothing ==                                                 \* mutation
    /\ rx = "check" /\ rx' = "open" /\ moved' = FALSE
    /\ UNCHANGED <<sender, acked, flight, received_packets, incoming, setting, disk, outcome>>

\* stat finds a directory, or mkdir creates one.
Usable(path)  == disk[path] \notin {"other", "orphan"}
Created(path) == [disk EXCEPT ![path] = IF @ = "absent" THEN "dir" ELSE @]

\* save_file first looks at the path, and creates it if it can, ...
CheckPath ==
    /\ rx = "check"
    /\ Usable(file_path) /\ disk' = Created(file_path)
    /\ rx' = "open" /\ moved' = FALSE
    /\ UNCHANGED <<sender, acked, flight, received_packets, incoming, setting, outcome>>

InvalidPath ==
    /\ rx = "check" /\ ~Usable(file_path)
    /\ refused' = refused \cup {incoming.msg}
    /\ EndSave
    /\ UNCHANGED <<disk, moved, saved, shown, lost>>

\* What a write that nobody checks leaves on the disk under a path.
Written(path, data) ==
    IF disk[path] = "full" THEN {SubSeq(data, 1, Min2(n, Len(data))) : n \in Room}
    ELSE {data}

\* ... and then builds the name of the file from what the path is by now.  A
\* file of that name is overwritten; the user is told the name.
Write ==
    /\ rx = "open" /\ disk[file_path] \in {"dir", "full"}
    /\ \E name \in CString(incoming.file), data \in Written(file_path, incoming.file.data) :
         /\ Len(name) <= NameMax
         /\ saved' = {f \in saved : f.path # file_path \/ f.name # name}
               \cup {[path |-> file_path, name |-> name, data |-> data, msg |-> incoming.msg]}
         /\ shown' = shown \cup {[msg |-> incoming.msg, name |-> name, data |-> <<>>]}
    /\ EndSave
    /\ UNCHANGED <<disk, moved, refused, lost>>

\* A file that cannot be opened is only logged.
CannotOpen ==
    /\ rx = "open"
    /\ disk[file_path] # "dir" \/ \E name \in CString(incoming.file) : Len(name) > NameMax
    /\ lost' = lost \cup {incoming.msg}
    /\ EndSave
    /\ UNCHANGED <<disk, moved, saved, shown, refused>>

-----------------------------------------------------------------------------
(* The receiver's command line thread *)

\* set_path looks at the path that is in force, not at the new one, ...
set_path(p) ==
    /\ user = "idle" /\ paths < MaxPaths
    /\ paths' = paths + 1
    /\ IF Usable(file_path)
       THEN /\ disk' = Created(file_path)
            /\ user' = p /\ file_path' = Torn /\ moved' = TRUE
       ELSE UNCHANGED <<disk, user, file_path, moved>>
    /\ UNCHANGED <<sender, acked, flight, received_packets, rx, incoming, outcome>>

\* ... and assigns a string that the receive thread may be reading.
Assign ==
    /\ user # "idle"
    /\ file_path' = user
    /\ user' = "idle" /\ moved' = TRUE
    /\ UNCHANGED <<sender, acked, flight, received_packets, rx, incoming, paths, disk, outcome>>

-----------------------------------------------------------------------------
Init ==
    /\ max_frag_size = DefaultSize
    /\ cli = "idle" /\ acked = FALSE /\ flight = {}
    /\ received_packets = {} /\ rx = "select"
    /\ incoming = [msg |-> 0, file |-> NewFile(<<>>, <<>>), single |-> FALSE]
    /\ file_path = Home /\ user = "idle" /\ paths = 0
    /\ disk \in Disks /\ moved = FALSE
    /\ saved = {} /\ shown = {} /\ refused = {} /\ lost = {}
    /\ sent = <<>> /\ completed = {}

Sending   == set_max_frag_size \/ send_text \/ send_file \/ Complete
Receiving == \/ ProcessSingle \/ ProcessFragment \/ Assemble
             \/ CheckPath \/ InvalidPath \/ Write \/ CannotOpen

Next == \/ Sending \/ Receiving \/ Assign
        \/ \E p \in Path : set_path(p)

Spec == Init /\ [][Next]_vars

\* The receive thread runs, a user's command is carried out to its end, and so
\* is the sender's; no user has to give one.
Fairness == WF_vars(Receiving) /\ WF_vars(Assign) /\ WF_vars(Complete)
FairSpec == Spec /\ Fairness
-----------------------------------------------------------------------------
(* Properties *)

Name == {f.name : f \in File} \cup {<<>>}
Sent == [kind : {"text", "file"}, name : Name, data : Text \cup {f.data : f \in File},
         frag : FragSize \cup {DefaultSize}]

\* Type invariant: each thread is at a step it has, packets on their way and kept
\* are numbered from one in three bytes, and a header holds what its fields can.
TypeOK ==
    /\ max_frag_size \in FragSize \cup {DefaultSize}
    /\ cli \in {"idle", "sending", "endless"} /\ acked \in BOOLEAN
    /\ \A p \in {FromWire(b) : b \in flight} \cup received_packets :
          /\ p.seq \in 1..(Modulus - 1) /\ p.form \in {"single", "more", "last"}
          /\ p.msg \in DOMAIN sent
    /\ \A b \in flight : b.seq \in Values
    /\ incoming.file.name_length \in 0..NameMax
    /\ incoming.file.file_size \in 0..(SizeModulus - 1)
    /\ rx \in {"select", "assemble", "check", "open", "gone"}
    /\ file_path \in Path \cup {Torn} /\ user \in Path \cup {"idle"}
    /\ paths \in 0..MaxPaths /\ disk \in [Path \cup {Torn} -> Standing]
    /\ moved \in BOOLEAN
    /\ sent \in Seq(Sent)
    /\ refused \cup lost \cup completed \subseteq DOMAIN sent

\* Message k has fewer fragments than a number of three bytes counts, and fewer
\* bytes than the size in its header.
Fits(k) ==
    /\ (Len(Bytes(sent[k])) + sent[k].frag - 1) \div sent[k].frag < Modulus - 1
    /\ Len(sent[k].data) < SizeModulus

\* What the user is shown and what is on the disk is a message as it was sent,
\* under its name and with all its bytes, whatever its size, the size of the
\* fragments and the order they come in (node.cpp:1300-1336, 1430-1465, 446-502,
\* file.cpp:68-120) - for the messages whose lengths fit their fields.  Only on a
\* full disk a file may be the beginning of what was sent (node.cpp:533).
HandedIntact ==
    /\ \A t \in shown : Fits(t.msg) =>
          /\ t.name = sent[t.msg].name
          /\ sent[t.msg].kind = "text" => t.data = sent[t.msg].data
    /\ \A f \in saved : Fits(f.msg) =>
          /\ f.name = sent[f.msg].name
          /\ IsPrefix(f.data, sent[f.msg].data)
          /\ disk[f.path] # "full" => f.data = sent[f.msg].data

\* The buffer of the receiver never holds fragments of two messages, although
\* the sender goes on to the next one while a file is still being saved: it is
\* emptied before the first of them is handled (node.cpp:462, 490, 769).
OneMessage ==
    \A p, q \in received_packets : p.msg = q.msg /\ (p.seq = q.seq => p = q)

\* "complete" means that the message has come to something the code accounts
\* for: the receiver has it in hand, or has shown it, refused it for its path or
\* logged that it could not be opened (node.cpp:504-537, 1421-1426, 1479-1483).
InHand(k) == \/ rx = "assemble" /\ \E p \in received_packets : p.msg = k
             \/ rx \in {"check", "open"} /\ incoming.msg = k
Accounted ==
    \A k \in completed : Fits(k) =>
        InHand(k) \/ k \in refused \cup lost \/ \E f \in shown : f.msg = k

\* A file is lost without a word to the user for three reasons only: the path was
\* assigned between the two times save_file reads it (node.cpp:508, 524), its
\* name fills the array that has no room for its end (file.cpp:13), or the
\* directory, whose permissions nobody looks at, takes no file (node.cpp:527).
LossExplained ==
    [][lost' # lost => \/ moved \/ disk[file_path] \in {"full", "locked"}
                       \/ Len(incoming.file.file_name) >= NameMax]_vars

\* What makes it so: a path that has been looked at and not assigned since is a
\* directory, and stays one.
CheckedPath == rx = "open" /\ ~moved => disk[file_path] \in {"dir", "full", "locked"}

\* A message that fits, after others that did, is reported complete: whatever
\* comes of it on the receiver's disk, the sender does not wait for ever
\* (node.cpp:862-863, 742-744).
Settles ==
    \A k \in 1..MaxMessages :
        (Len(sent) = k /\ \A j \in 1..k : Fits(j)) ~> k \in completed

\* A path at which files could be saved, given by the user, is taken on.
PathTakesEffect ==
    [][\A p \in Path : set_path(p) /\ disk[p] \in {"dir", "absent"} => user' = p]_vars
=============================================================================
