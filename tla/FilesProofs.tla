---------------------------- MODULE FilesProofs ----------------------------
(***************************************************************************)
(* For every width of the fields, every file and every set of paths: the   *)
(* container of a file gives back what was put in, fragments cover a       *)
(* buffer once, what is handed to the user is a message as it was sent,    *)
(* "complete" is accounted for, and the code loses a file unheard only for *)
(* the three reasons LossExplained names.                                  *)
(***************************************************************************)
EXTENDS JoinProofs

\* A file comes out of its container as it went in, name and data, as long as
\* its size fits the header (file.cpp:7-21, 68-120).
THEOREM ContainerSurvives ==
    ASSUME NEW name \in Seq(Nat), Len(name) <= NameMax,
           NEW data \in Seq(Nat), Len(data) < SizeModulus
    PROVE  LET f == NewFile(name, data) IN
           /\ Whole(to_buff(f))
           /\ from_buff(to_buff(f)) = f
           /\ f.file_name = name /\ f.data = data
<1> DEFINE f == NewFile(name, data)
           b == to_buff(f)
<1>1. Len(name) \in Nat /\ Len(data) \in Nat /\ NameMax \in Nat /\ SizeModulus \in Nat
  BY WidthAssumption
<1>2. Len(name) % (NameMax + 1) = Len(name) /\ Len(data) % SizeModulus = Len(data)
  <2>1. SizeModulus \in Nat /\ SizeModulus > 0 /\ Len(data) \in 0..(SizeModulus - 1)
    BY <1>1, SMT
  <2>2. Len(name) % (NameMax + 1) = Len(name)
    <3> DEFINE d == NameMax + 1
    <3>1. d \in Nat /\ d > 0 /\ Len(name) \in 0..(d - 1)  BY <1>1, SMT
    <3> HIDE DEF d
    <3>2. Len(name) % d = Len(name)  BY <3>1, SmallRemainder
    <3> QED  BY <3>2 DEF d
  <2>3. Len(data) % SizeModulus = Len(data)  BY <2>1, SmallRemainder, Zenon
  <2> QED  BY <2>2, <2>3
<1>3. SubSeq(data, 1, Len(data)) = data
  BY SMT
<1>4. f = [name_length |-> Len(name), file_name |-> name,
           file_size |-> Len(data), data |-> data]
  BY <1>2, <1>3 DEF NewFile
<1>5. b = <<Len(name)>> \o name \o <<Len(data)>> \o data
  BY <1>4 DEF to_buff
<1> HIDE DEF b, f
<1>6. /\ b \in Seq(Nat) /\ Len(b) = Len(name) + Len(data) + 2
      /\ b[1] = Len(name) /\ b[Len(name) + 2] = Len(data)
  BY <1>1, <1>5, SMT
<1>7. /\ \A i \in 1..Len(name) : b[1 + i] = name[i]
      /\ \A i \in 1..Len(data) : b[Len(name) + 2 + i] = data[i]
  <2> DEFINE p == <<Len(name)>> \o name
             q == p \o <<Len(data)>>
  <2>1. p \in Seq(Nat) /\ Len(p) = Len(name) + 1 /\ \A i \in 1..Len(name) : p[1 + i] = name[i]
    BY <1>1, SMT
  <2> HIDE DEF p
  <2>2. q \in Seq(Nat) /\ Len(q) = Len(name) + 2 /\ \A i \in 1..Len(p) : q[i] = p[i]
    BY <1>1, <2>1, SMT
  <2> HIDE DEF q
  <2>3. /\ \A i \in 1..Len(q) : (q \o data)[i] = q[i]
        /\ \A i \in 1..Len(data) : (q \o data)[Len(q) + i] = data[i]
    <3>1. q \in Seq(Nat) /\ Len(q) \in Nat /\ Len(data) \in Nat
      BY <1>1, <2>2
    <3>2. ASSUME NEW i \in 1..Len(q) PROVE (q \o data)[i] = q[i]
      BY <3>1, SMT
    <3>3. ASSUME NEW i \in 1..Len(data) PROVE (q \o data)[Len(q) + i] = data[i]
      BY <3>1, SMT
    <3> QED
      BY <3>2, <3>3
  <2>4. b = q \o data
    BY <1>5 DEF p, q
  <2>5. \A i \in 1..Len(name) : b[1 + i] = name[i]
    <3> TAKE i \in 1..Len(name)
    <3>1. 1 + i \in 1..Len(p) /\ 1 + i \in 1..Len(q)  BY <1>1, <2>1, <2>2
    <3> QED  BY <2>1, <2>2, <2>3, <2>4, <3>1
  <2> QED
    BY <2>2, <2>3, <2>4, <2>5
<1>8. Whole(b)
  BY <1>1, <1>6, SMT DEF Whole, SizeAt
<1>9. /\ [i \in 1..b[1] |-> b[1 + i]] = name
      /\ [i \in 1..b[SizeAt(b)] |-> b[SizeAt(b) + i]] = data
  <2>1. name = [i \in 1..Len(name) |-> name[i]] /\ data = [i \in 1..Len(data) |-> data[i]]
    OBVIOUS
  <2>2. [i \in 1..Len(name) |-> b[1 + i]] = [i \in 1..Len(name) |-> name[i]]
    BY <1>7
  <2>3. [i \in 1..Len(data) |-> b[Len(name) + 2 + i]] = [i \in 1..Len(data) |-> data[i]]
    BY <1>7
  <2>4. SizeAt(b) = Len(name) + 2 /\ b[SizeAt(b)] = Len(data)
    BY <1>1, <1>6 DEF SizeAt
  <2> QED  BY <1>6, <2>1, <2>2, <2>3, <2>4
<1>10. from_buff(b) = f
  BY <1>9 DEF from_buff, f
<1> QED  BY <1>4, <1>8, <1>10 DEF b, f

\* Every byte of a buffer is in one of its fragments, and in one only
\* (node.cpp:1301-1316, 1431-1445).
THEOREM FragmentsTile ==
    ASSUME NEW len \in Nat, NEW m \in Nat \ {0}, NEW j \in 1..len
    PROVE  LET holds(i) == (i - 1) * m + 1 <= j /\ j <= Min2(i * m, len) IN
           /\ \E i \in 1..((len + m - 1) \div m) : holds(i)
           /\ \A h, i \in Nat : holds(h) /\ holds(i) => h = i
<1> DEFINE holds(i) == (i - 1) * m + 1 <= j /\ j <= Min2(i * m, len)
           q == (j - 1) \div m
           r == (j - 1) % m
           t == (len + m - 1) \div m
           s == (len + m - 1) % m
<1>1. /\ j - 1 = q * m + r /\ q \in Int /\ r \in 0..(m - 1) /\ q >= 0
      /\ len + m - 1 = t * m + s /\ t \in Int /\ s \in 0..(m - 1)
  BY SMT
<1> HIDE DEF q, r, t, s
<1>2. (q + 1) * m = q * m + m /\ (q + 1 - 1) * m = q * m
  BY <1>1, SMT
<1>3. holds(q + 1)
  BY <1>1, <1>2, SMT DEF Min2
<1>4. q + 1 <= t
  <2>1. SUFFICES ASSUME t <= q PROVE FALSE  BY <1>1, SMT
  <2>2. t * m <= q * m  BY <1>1, <2>1, SMT
  <2> QED  BY <1>1, <2>2, SMT
<1>5. ASSUME NEW h \in Nat, NEW i \in Nat, holds(h), holds(i) PROVE ~(h < i)
  <2>1. SUFFICES ASSUME h < i PROVE FALSE  OBVIOUS
  <2>2. h * m <= (i - 1) * m  BY <2>1, SMT
  <2> QED  BY <1>5, <2>2, SMT DEF Min2
<1>6. ASSUME NEW h \in Nat, NEW i \in Nat, holds(h), holds(i) PROVE h = i
  BY <1>5, <1>6, SMT
<1>7. q + 1 \in 1..t  BY <1>1, <1>4, SMT
<1> QED  BY <1>3, <1>6, <1>7 DEF t

-----------------------------------------------------------------------------
(* Files that are lost *)

\* What a header holds, its fields have room for.
Header(f) == f.name_length \in 0..NameMax /\ f.file_size \in 0..(SizeModulus - 1)

LEMMA HeaderFits ==
    ASSUME NEW name, NEW data, Len(name) \in Nat, Len(data) \in Nat
    PROVE  Header(NewFile(name, data))
<1> DEFINE width == NameMax + 1
<1>1. width \in Nat \ {0} /\ NameMax \in Nat /\ width - 1 = NameMax /\ SizeModulus \in Nat \ {0}
  BY WidthAssumption
<1> HIDE DEF width
<1>2. Len(name) % width \in 0..(width - 1)
  BY <1>1, SMT
<1>3. Len(data) % SizeModulus \in 0..(SizeModulus - 1)
  BY <1>1, SMT
<1>4. Len(name) % (NameMax + 1) = Len(name) % width
  BY DEF width
<1>5. Len(name) % (NameMax + 1) \in 0..NameMax
  BY <1>1, <1>2, <1>4
<1> QED
  BY <1>3, <1>5 DEF Header, NewFile

Inv == /\ disk \in [Path \cup {Torn} -> Standing]
       /\ file_path \in Path \cup {Torn}
       /\ user \in Path \cup {"idle"}
       /\ Len(incoming.file.file_name) \in Nat
       /\ Header(incoming.file)
       /\ CheckedPath

LEMMA UnpackedName ==
    ASSUME NEW b, Whole(b)
    PROVE  Len(from_buff(b).file_name) \in Nat /\ Header(from_buff(b))
<1> DEFINE name == [i \in 1..b[1] |-> b[1 + i]]
           data == [i \in 1..b[SizeAt(b)] |-> b[SizeAt(b) + i]]
<1>1. b[1] \in Nat /\ b[SizeAt(b)] \in Nat
  <2>1. b \in Seq(Nat) /\ Len(b) >= 2  BY DEF Whole
  <2>2. b[1] \in Nat  BY <2>1
  <2>3. SizeAt(b) \in 1..Len(b)  BY <2>1, <2>2 DEF Whole, SizeAt
  <2> QED  BY <2>1, <2>2, <2>3
<1>2. Len(name) = b[1] /\ Len(data) = b[SizeAt(b)]  BY <1>1
<1>3. from_buff(b) = NewFile(name, data)  BY DEF from_buff
<1> HIDE DEF name, data
<1>4. NewFile(name, data).file_name = name  BY DEF NewFile
<1> QED  BY <1>1, <1>2, <1>3, <1>4, HeaderFits

LEMMA UnpackKeepsName ==
    ASSUME NEW k, NEW kind, NEW bytes, NEW single, Unpack(k, kind, bytes, single),
           Len(incoming.file.file_name) \in Nat, Header(incoming.file)
    PROVE  Len(incoming'.file.file_name) \in Nat /\ Header(incoming'.file) /\ rx' # "open"
<1>1. CASE UNCHANGED incoming  BY <1>1 DEF Unpack
<1>2. CASE Whole(bytes) /\ incoming' = [msg |-> k, file |-> from_buff(bytes), single |-> single]
           /\ rx' = "check"
  BY <1>2, UnpackedName
<1> QED  BY <1>1, <1>2 DEF Unpack

LEMMA InvInit == Init => Inv
<1>1. ASSUME Init PROVE Len(incoming.file.file_name) \in Nat /\ Header(incoming.file)
  <2>1. incoming.file = NewFile(<<>>, <<>>)  BY <1>1 DEF Init
  <2>2. Header(NewFile(<<>>, <<>>)) /\ NewFile(<<>>, <<>>).file_name = <<>>
    BY HeaderFits DEF NewFile
  <2> QED  BY <2>1, <2>2
<1> QED  BY <1>1, PathAssumption DEF Init, Inv, CheckedPath

LEMMA InvNext == Inv /\ [Next]_vars => Inv'
<1> SUFFICES ASSUME Inv, [Next]_vars PROVE Inv'
  OBVIOUS
<1> USE DEF Inv, CheckedPath, Standing
<1>1. CASE set_max_frag_size  BY <1>1 DEF set_max_frag_size, setting
<1>2. CASE send_text  BY <1>2 DEF send_text, Send, setting
<1>3. CASE send_file  BY <1>3 DEF send_file, Send, setting
<1>4. CASE Complete  BY <1>4 DEF Complete, setting
<1>5. CASE ProcessSingle
  <2>1. rx' # "open" /\ Len(incoming'.file.file_name) \in Nat /\ Header(incoming'.file)
    BY <1>5, UnpackKeepsName DEF ProcessSingle
  <2> QED  BY <1>5, <2>1 DEF ProcessSingle, setting
<1>6. CASE ProcessFragment
  <2>1. rx' # "open"  BY <1>6 DEF ProcessFragment
  <2> QED  BY <1>6, <2>1 DEF ProcessFragment, setting
<1>7. CASE Assemble
  <2>1. rx' # "open" /\ Len(incoming'.file.file_name) \in Nat /\ Header(incoming'.file)
    BY <1>7, UnpackKeepsName DEF Assemble
  <2> QED  BY <1>7, <2>1 DEF Assemble, setting
<1>8. CASE CheckPath  BY <1>8 DEF CheckPath, Usable, Created, setting
<1>9. CASE InvalidPath  BY <1>9 DEF InvalidPath, EndSave, setting
<1>10. CASE Write  BY <1>10 DEF Write, EndSave, setting
<1>11. CASE CannotOpen  BY <1>11 DEF CannotOpen, EndSave, setting
<1>12. CASE Assign  BY <1>12 DEF Assign
<1>13. ASSUME NEW p \in Path, set_path(p) PROVE Inv'
  BY <1>13 DEF set_path, Usable, Created
<1>14. CASE UNCHANGED vars  BY <1>14 DEF vars
<1> QED
  BY <1>1, <1>2, <1>3, <1>4, <1>5, <1>6, <1>7, <1>8, <1>9, <1>10, <1>11, <1>12, <1>13, <1>14
  DEF Next, Sending, Receiving

\* A disk that is full stays so.
LEMMA FullStays ==
    ASSUME Inv, disk' = Created(file_path)
    PROVE  \A p \in Path \cup {Torn} : disk'[p] = "full" <=> disk[p] = "full"
  BY DEF Inv, Created, Standing

LEMMA InvAlways == Spec => []Inv
  BY InvInit, InvNext, PTL DEF Spec

\* A file is lost unheard only if its path was assigned while it was being
\* saved, its name fills the array, or the directory, on a full disk or without
\* the permission, takes no file (node.cpp:504-531, file.cpp:13).
THEOREM LossIsExplained == Spec => LossExplained
<1>1. ASSUME Inv, [Next]_vars
      PROVE  [lost' # lost => \/ moved \/ disk[file_path] \in {"full", "locked"}
                              \/ Len(incoming.file.file_name) >= NameMax]_vars
  <2> SUFFICES ASSUME Next, lost' # lost
               PROVE  \/ moved \/ disk[file_path] \in {"full", "locked"}
                      \/ Len(incoming.file.file_name) >= NameMax
    BY <1>1
  <2>1. CannotOpen
    BY DEF Next, Sending, Receiving, set_max_frag_size, send_text, send_file, Send, Complete,
           ProcessSingle, ProcessFragment, Assemble, CheckPath, InvalidPath, Write, Assign,
           set_path, outcome
  <2>2. CASE disk[file_path] # "dir"
    BY <1>1, <2>1, <2>2 DEF CannotOpen, Inv, CheckedPath
  <2>3. CASE \E name \in CString(incoming.file) : Len(name) > NameMax
    <3>1. CASE Len(incoming.file.file_name) < NameMax
      <4>1. \A name \in CString(incoming.file) : name = incoming.file.file_name
        BY <3>1 DEF CString
      <4>2. Len(incoming.file.file_name) > NameMax  BY <2>3, <4>1
      <4> QED  BY <1>1, <3>1, <4>2, WidthAssumption DEF Inv
    <3> QED  BY <1>1, <3>1, WidthAssumption DEF Inv
  <2> QED  BY <2>1, <2>2, <2>3 DEF CannotOpen
<1> QED  BY <1>1, InvAlways, PTL DEF Spec, LossExplained

-----------------------------------------------------------------------------
(* Messages and their parts *)

\* The packets of message k, whether it is too long for one, and whether its
\* lengths fit their fields.
Parts(k, s) == Fragments(k, s.kind, Bytes(s), s.frag)
Long(s)     == Len(Bytes(s)) > s.frag
Short(s)    == /\ (Len(Bytes(s)) + s.frag - 1) \div s.frag < Modulus - 1
               /\ Len(s.data) < SizeModulus

LEMMA FitsIsShort == ASSUME NEW k PROVE Fits(k) <=> Short(sent[k])
  BY DEF Fits, Short

LEMMA SentShape ==
    ASSUME NEW s \in Sent
    PROVE  /\ s.name \in Seq(Nat) /\ Len(s.name) <= NameMax
           /\ s.data \in Seq(Nat) /\ s.frag \in Nat \ {0}
           /\ s.kind \in {"text", "file"}
           /\ Bytes(s) \in Seq(Nat)
<1>1. /\ s.name \in Name /\ s.data \in Text \cup {f.data : f \in File}
      /\ s.frag \in FragSize \cup {DefaultSize} /\ s.kind \in {"text", "file"}
  BY DEF Sent
<1>2. s.name \in Seq(Nat) /\ Len(s.name) <= NameMax
  <2>1. CASE s.name = <<>>
    BY <2>1, WidthAssumption
  <2>2. ASSUME NEW f \in File, s.name = f.name PROVE s.name \in Seq(Nat) /\ Len(s.name) <= NameMax
    BY <2>2, MessageAssumption
  <2> QED
    BY <1>1, <2>1, <2>2 DEF Name
<1>3. s.data \in Seq(Nat)
  BY <1>1, MessageAssumption
<1>4. s.frag \in Nat \ {0}
  BY <1>1, MessageAssumption
<1>5. CASE s.kind = "text"
  BY <1>1, <1>2, <1>3, <1>4, <1>5 DEF Bytes
<1>6. CASE s.kind = "file"
  <2> DEFINE size == Len(s.data) % SizeModulus
             head == Len(s.name) % (NameMax + 1)
  <2>1. size \in Nat /\ size <= Len(s.data) /\ head \in Nat
    <3>1. Len(s.data) \in Nat /\ Len(s.name) \in Nat /\ NameMax + 1 \in Nat \ {0}
      BY <1>2, <1>3, WidthAssumption
    <3> QED
      BY <3>1, WidthAssumption, RemainderBounded
  <2> HIDE DEF size, head
  <2>2. SubSeq(s.data, 1, size) \in Seq(Nat)
    BY <1>3, <2>1
  <2>3. <<head>> \o s.name \o <<size>> \o SubSeq(s.data, 1, size) \in Seq(Nat)
    BY <1>2, <2>1, <2>2
  <2>4. Bytes(s) = <<head>> \o s.name \o <<size>> \o SubSeq(s.data, 1, size)
    BY <1>6 DEF Bytes, to_buff, NewFile, head, size
  <2> QED
    BY <1>1, <1>2, <1>3, <1>4, <2>3, <2>4
<1> QED
  BY <1>1, <1>5, <1>6

\* What the packets of a message say of it, also after a way over the wire.
LEMMA PartShape ==
    ASSUME NEW k, NEW s \in Sent, NEW p \in Parts(k, s)
    PROVE  /\ p.msg = k /\ p.kind = s.kind /\ p.seq \in 1..(Modulus - 1)
           /\ p.form \in {"single", "more", "last"}
           /\ p.form = "single" <=> ~Long(s)
           /\ p.form = "single" => p.payload = Bytes(s)
           /\ FromWire(OnWire(p)) = p
           /\ OnWire(p).msg = k /\ OnWire(p).form = p.form /\ OnWire(p).seq \in Values
<1> DEFINE b == Bytes(s)
           c == Count(Len(b), s.frag)
<1>1. Len(b) \in Nat /\ s.frag \in Nat
  BY SentShape
<1>2. c \in Nat /\ \A i \in 1..c : i \in 1..(Modulus - 1)
  <2>1. c \in Values
    BY <1>1, SentShape, CountInRange
  <2> HIDE DEF c
  <2> QED
    BY <2>1, ModulusPositive DEF Values
<1>3. \E i \in 1..(Modulus - 1), f \in {"single", "more", "last"} : \E d :
         /\ p = [seq |-> i, form |-> f, kind |-> s.kind, payload |-> d, msg |-> k]
         /\ f = "single" <=> ~Long(s)
         /\ f = "single" => d = b
  <2>1. CASE Len(b) <= s.frag
    <3>1. p = [seq |-> 1, form |-> "single", kind |-> s.kind, payload |-> b, msg |-> k]
      BY <2>1 DEF Parts, Fragments
    <3>2. 1 \in 1..(Modulus - 1) /\ ~Long(s)
      BY <1>1, <2>1, ModulusPositive, BaseAssumption DEF Long
    <3> QED
      BY <3>1, <3>2
  <2>2. CASE ~(Len(b) <= s.frag)
    <3>1. PICK i \in 1..c :
             p = [seq |-> i, form |-> IF i = c THEN "last" ELSE "more",
                  kind |-> s.kind, payload |-> Fragment(b, i, s.frag), msg |-> k]
      BY <2>2 DEF Parts, Fragments
    <3>2. i \in 1..(Modulus - 1) /\ Long(s)
      BY <1>1, <1>2, <2>2 DEF Long
    <3> QED
      BY <3>1, <3>2
  <2> QED
    BY <2>1, <2>2
<1>4. PICK i \in 1..(Modulus - 1), f \in {"single", "more", "last"} : \E d :
         /\ p = [seq |-> i, form |-> f, kind |-> s.kind, payload |-> d, msg |-> k]
         /\ f = "single" <=> ~Long(s)
         /\ f = "single" => d = b
  BY <1>3
<1>5. PICK d :
         /\ p = [seq |-> i, form |-> f, kind |-> s.kind, payload |-> d, msg |-> k]
         /\ f = "single" <=> ~Long(s)
         /\ f = "single" => d = b
  BY <1>4
<1>6. OnWire(p) = [seq |-> hton24(i), form |-> f, kind |-> s.kind, payload |-> d, msg |-> k]
  BY <1>5 DEF OnWire
<1>7. hton24(i) \in Values /\ ntoh24(hton24(i)) = i
  <2>1. i \in Values
    BY ModulusPositive DEF Values
  <2> QED
    BY <2>1, NetworkOrder, SequenceNumbersSurvive
<1>8. FromWire(OnWire(p)) = p
  BY <1>5, <1>6, <1>7 DEF FromWire
<1> QED
  BY <1>5, <1>6, <1>7, <1>8

\* The number of a packet tells it from the others of its message.
LEMMA PartOfNumber ==
    ASSUME NEW k, NEW s, NEW p \in Parts(k, s), NEW q \in Parts(k, s), p.seq = q.seq
    PROVE  p = q
  BY DEF Parts, Fragments

\* A buffer that holds all numbers up to the last holds the whole message.
LEMMA CompleteIsAll ==
    ASSUME NEW k, NEW s \in Sent, Long(s), NEW R \in SUBSET Parts(k, s), IsComplete(R)
    PROVE  R = Parts(k, s)
<1> DEFINE c == Count(Len(Bytes(s)), s.frag)
<1>1. PICK p \in R : p.form = "last" /\ Held(R) = 1..p.seq
  BY DEF IsComplete
<1>2. \A q \in Parts(k, s) : q.seq \in 1..c /\ (q.form = "last" => q.seq = c)
  BY SentShape DEF Parts, Fragments, Long
<1>3. ASSUME NEW q \in Parts(k, s) PROVE q \in R
  <2>1. q.seq \in Held(R)
    BY <1>1, <1>2
  <2>2. PICK r \in R : r.seq = q.seq
    BY <2>1 DEF Held
  <2> QED
    BY <2>2, PartOfNumber
<1> QED
  BY <1>3

\* A message whose count of fragments wraps to zero has none, and does not fit.
LEMMA NoPartsNoFit ==
    ASSUME NEW k, NEW s \in Sent, Long(s), Count(Len(Bytes(s)), s.frag) = 0
    PROVE  Parts(k, s) = {} /\ ~Short(s)
<1>1. Len(Bytes(s)) \in Nat /\ s.frag \in Nat \ {0}
  BY SentShape
<1>2. Parts(k, s) = {}
  BY <1>1 DEF Parts, Fragments, Long
<1>3. ASSUME Short(s) PROVE FALSE
  <2>1. (Len(Bytes(s)) + s.frag - 1) \div s.frag < Modulus
    <3>1. Modulus \in Nat \ {0} /\ Base \in Nat
      BY ModulusPositive, BaseAssumption
    <3> QED  BY <1>1, <1>3, <3>1, CountInRange DEF Short
  <2>2. Count(Len(Bytes(s)), s.frag) > 1
    BY <1>1, <2>1, CountCovers DEF Long
  <2> QED
    BY <2>2
<1> QED
  BY <1>2, <1>3

\* The parts of a message that fits, put together, are its bytes, ...
LEMMA PartsJoin ==
    ASSUME NEW k, NEW s \in Sent, Long(s), Short(s)
    PROVE  Joined(Parts(k, s)) = Bytes(s)
<1>1. Len(Bytes(s)) \in Nat /\ s.frag \in Nat \ {0} /\ Bytes(s) \in Seq(Nat)
  BY SentShape
<1>2. (Len(Bytes(s)) + s.frag - 1) \div s.frag < Modulus
  BY <1>1, ModulusPositive, BaseAssumption, CountInRange DEF Short
<1> QED
  BY <1>1, <1>2, JoinedWhole DEF Parts, Long

\* ... and those of a file that fits are unpacked to what the user sent.
LEMMA FileUnpacks ==
    ASSUME NEW s \in Sent, s.kind = "file", Short(s)
    PROVE  /\ Whole(Bytes(s)) /\ from_buff(Bytes(s)) = NewFile(s.name, s.data)
           /\ NewFile(s.name, s.data).file_name = s.name
           /\ NewFile(s.name, s.data).data = s.data
<1>1. s.name \in Seq(Nat) /\ Len(s.name) <= NameMax /\ s.data \in Seq(Nat)
      /\ Len(s.data) < SizeModulus
  BY SentShape DEF Short
<1>2. Bytes(s) = to_buff(NewFile(s.name, s.data))
  BY DEF Bytes
<1> QED
  BY <1>1, <1>2, ContainerSurvives

\* A message that fits one packet is one packet.
LEMMA OnePart ==
    ASSUME NEW k, NEW s \in Sent, ~Long(s), NEW p \in Parts(k, s), NEW q \in Parts(k, s)
    PROVE  p = q
  BY SentShape DEF Parts, Fragments, Long

-----------------------------------------------------------------------------
(* The invariant: where the packets of the current message are, what the    *)
(* receive thread is at work on, and what has become of the messages so far *)

Current == Len(sent)
Waiting == cli = "sending" /\ ~acked

Types ==
    /\ max_frag_size \in FragSize \cup {DefaultSize}
    /\ cli \in {"idle", "sending", "endless"} /\ acked \in BOOLEAN
    /\ rx \in {"select", "assemble", "check", "open", "gone"}
    /\ paths \in 0..MaxPaths /\ moved \in BOOLEAN
    /\ sent \in Seq(Sent)
    /\ refused \cup lost \cup completed \subseteq DOMAIN sent

SentInv ==
    /\ cli # "idle" => Current \in DOMAIN sent /\ sent[Current].frag = max_frag_size
    /\ \A k \in DOMAIN sent : sent[k].kind = "text" => sent[k].name = <<>>

\* What is on its way belongs to the message that waits for its acknowledgment,
FlightInv ==
    \A b \in flight : Waiting /\ \E p \in Parts(Current, sent[Current]) : b = OnWire(p)

\* and so do the fragments kept, which have come off the wire, until a message
\* is complete: then the buffer is that message.
BufferInv ==
    /\ rx # "assemble" => \A p \in received_packets :
          /\ Waiting /\ rx = "select" /\ Long(sent[Current])
          /\ p \in Parts(Current, sent[Current]) /\ OnWire(p) \notin flight
    /\ rx = "assemble" => \E k \in DOMAIN sent :
          /\ Long(sent[k]) /\ received_packets = Parts(k, sent[k])
          /\ \E p \in received_packets : p.form = "last"
          /\ k = Current => acked

\* The file being saved is one that was sent; the sender still waits for it if
\* it came in one packet, and no more if it did not.
IncomingInv ==
    rx \in {"check", "open"} =>
       LET k == incoming.msg IN
       /\ k \in DOMAIN sent /\ sent[k].kind = "file"
       /\ Short(sent[k]) => incoming.file = NewFile(sent[k].name, sent[k].data)
       /\ incoming.single \in BOOLEAN
       /\ incoming.single => k = Current /\ Waiting /\ flight = {} /\ ~Long(sent[k])
       /\ ~incoming.single /\ k = Current => acked

Told(t) ==
    /\ t.msg \in DOMAIN sent
    /\ Short(sent[t.msg]) => /\ t.name = sent[t.msg].name
                             /\ sent[t.msg].kind = "text" => t.data = sent[t.msg].data
Stored(f) ==
    /\ f.msg \in DOMAIN sent /\ f.path \in Path \cup {Torn}
    /\ Short(sent[f.msg]) => /\ f.name = sent[f.msg].name
                             /\ IsPrefix(f.data, sent[f.msg].data)
                             /\ disk[f.path] # "full" => f.data = sent[f.msg].data
HandedInv == (\A t \in shown : Told(t)) /\ (\A f \in saved : Stored(f))

AccountedFor(k) == InHand(k) \/ k \in refused \cup lost \/ \E f \in shown : f.msg = k

AccountedInv ==
    \A k \in DOMAIN sent :
       Short(sent[k]) /\ (k \in completed \/ (k = Current /\ acked)) => AccountedFor(k)

MessageInv == /\ Types /\ SentInv /\ FlightInv /\ BufferInv
              /\ IncomingInv /\ HandedInv /\ AccountedInv

LEMMA MessageInvInit == Init => MessageInv
<1> SUFFICES ASSUME Init PROVE MessageInv
  OBVIOUS
<1>1. sent = <<>> /\ DOMAIN sent = {} /\ sent \in Seq(Sent)
  BY DEF Init
<1>2. Types
  <2>1. refused \cup lost \cup completed \subseteq DOMAIN sent
    BY DEF Init
  <2>2. paths \in 0..MaxPaths
    BY BoundsAssumption DEF Init
  <2> QED
    BY <1>1, <2>1, <2>2 DEF Init, Types
<1> QED
  BY <1>1, <1>2 DEF Init, MessageInv, SentInv, FlightInv, BufferInv, IncomingInv, HandedInv,
     AccountedInv

-----------------------------------------------------------------------------
(* Steps of the sender *)

LEMMA SizeStep == MessageInv /\ set_max_frag_size => MessageInv'
<1> SUFFICES ASSUME MessageInv, set_max_frag_size PROVE MessageInv'
  OBVIOUS
<1> USE DEF MessageInv, set_max_frag_size, setting, outcome, Current, Waiting
<1>1. Types' /\ SentInv'  BY DEF Types, SentInv
<1>2. FlightInv' /\ BufferInv'  BY DEF FlightInv, BufferInv
<1>3. IncomingInv' /\ HandedInv'  BY DEF IncomingInv, HandedInv, Told, Stored
<1>4. AccountedInv'  BY DEF AccountedInv, AccountedFor, InHand
<1> QED  BY <1>1, <1>2, <1>3, <1>4

LEMMA SendStep ==
    ASSUME MessageInv, NEW message \in Sent, message.frag = max_frag_size,
           message.kind = "text" => message.name = <<>>, Send(message)
    PROVE  MessageInv'
<1> DEFINE K == Len(sent)
           n == K + 1
<1>1. /\ K \in Nat /\ DOMAIN sent = 1..K
      /\ sent' = Append(sent, message) /\ sent' \in Seq(Sent)
      /\ Len(sent') = n /\ DOMAIN sent' = 1..n /\ n \notin DOMAIN sent
      /\ sent'[n] = message /\ \A k \in DOMAIN sent : k \in DOMAIN sent' /\ sent'[k] = sent[k]
  BY DEF Send, MessageInv, Types
<1>2. cli = "idle" /\ flight = {} /\ (rx # "assemble" => received_packets = {})
  BY DEF Send, MessageInv, FlightInv, BufferInv, Waiting
<1>3. \/ /\ cli' = "endless" /\ flight' = {}
      \/ /\ cli' = "sending"
         /\ flight' = {OnWire(p) : p \in Parts(n, message)}
  BY <1>1, <1>2 DEF Send, Parts
<1>4. /\ acked' = FALSE
      /\ UNCHANGED <<max_frag_size, completed, received_packets, rx, incoming, paths, disk,
                     moved, saved, shown, refused, lost>>
  BY DEF Send, setting, outcome
<1> HIDE DEF K, n
<1>5. Types' /\ SentInv'
  <2>1. Types'
    BY <1>1, <1>3, <1>4 DEF MessageInv, Types
  <2>2. Current' = n /\ n \in DOMAIN sent'
    BY <1>1 DEF Current, n, K
  <2>3. \A k \in DOMAIN sent' : k = n \/ k \in DOMAIN sent
    BY <1>1 DEF n
  <2> QED
    BY <1>1, <1>4, <2>1, <2>2, <2>3 DEF MessageInv, SentInv
<1>6. FlightInv'
  <2>1. Current' = n
    BY <1>1 DEF Current
  <2> QED
    BY <1>1, <1>3, <1>4, <2>1 DEF FlightInv, Waiting
<1>7. BufferInv'
  <2>1. rx = "assemble" => \E k \in DOMAIN sent' :
          /\ Long(sent'[k]) /\ received_packets = Parts(k, sent'[k])
          /\ \E p \in received_packets : p.form = "last"
          /\ k # n
    BY <1>1 DEF MessageInv, BufferInv
  <2> QED
    BY <1>1, <1>2, <1>4, <2>1 DEF BufferInv, Current
<1>8. IncomingInv'
  <2>1. rx \in {"check", "open"} => ~incoming.single
    BY <1>2 DEF MessageInv, IncomingInv, Waiting
  <2> QED
    BY <1>1, <1>4, <2>1 DEF MessageInv, IncomingInv, Current
<1>9. HandedInv'
  BY <1>1, <1>4 DEF MessageInv, HandedInv, Told, Stored
<1>10. AccountedInv'
  <2> SUFFICES ASSUME NEW k \in DOMAIN sent', Short(sent'[k]), k \in completed
               PROVE  AccountedFor(k)'
    BY <1>4 DEF AccountedInv
  <2>1. k \in DOMAIN sent
    BY DEF MessageInv, Types
  <2> QED
    BY <1>1, <1>4, <2>1 DEF MessageInv, AccountedInv, AccountedFor, InHand
<1> QED
  BY <1>5, <1>6, <1>7, <1>8, <1>9, <1>10 DEF MessageInv

LEMMA SendTextStep == MessageInv /\ send_text => MessageInv'
<1> SUFFICES ASSUME MessageInv, NEW t \in Text,
                    Send([kind |-> "text", name |-> <<>>, data |-> t, frag |-> max_frag_size])
             PROVE  MessageInv'
  BY DEF send_text
<1> DEFINE m == [kind |-> "text", name |-> <<>>, data |-> t, frag |-> max_frag_size]
<1>1. m \in Sent /\ m.frag = max_frag_size /\ m.name = <<>>
  BY DEF MessageInv, Types, Sent, Name
<1> HIDE DEF m
<1> QED
  BY <1>1, SendStep DEF m

LEMMA SendFileStep == MessageInv /\ send_file => MessageInv'
<1> SUFFICES ASSUME MessageInv, NEW f \in File,
                    Send([kind |-> "file", name |-> f.name, data |-> f.data,
                          frag |-> max_frag_size])
             PROVE  MessageInv'
  BY DEF send_file
<1> DEFINE m == [kind |-> "file", name |-> f.name, data |-> f.data, frag |-> max_frag_size]
<1>1. m \in Sent /\ m.frag = max_frag_size /\ m.kind # "text"
  BY DEF MessageInv, Types, Sent, Name
<1> HIDE DEF m
<1> QED
  BY <1>1, SendStep DEF m

LEMMA CompleteStep == MessageInv /\ Complete => MessageInv'
<1> SUFFICES ASSUME MessageInv, Complete PROVE MessageInv'
  OBVIOUS
<1>1. /\ cli = "sending" /\ cli' = "idle" /\ completed' = completed \cup {Current}
      /\ UNCHANGED <<max_frag_size, sent, acked, flight, received_packets, rx, incoming, paths,
                     disk, moved, saved, shown, refused, lost>>
  BY DEF Complete, setting, outcome, Current
<1>2. Current \in DOMAIN sent /\ sent[Current].frag = max_frag_size /\ sent[Current] \in Sent
  BY <1>1 DEF MessageInv, SentInv, Types, Current
<1>3. \/ acked
      \/ /\ Parts(Current, sent[Current]) = {} /\ ~Short(sent[Current])
         /\ Long(sent[Current])
  <2> SUFFICES ASSUME NothingToSend
               PROVE  /\ Parts(Current, sent[Current]) = {} /\ ~Short(sent[Current])
                      /\ Long(sent[Current])
    BY DEF Complete
  <2>1. /\ Long(sent[Current])
        /\ Count(Len(Bytes(sent[Current])), sent[Current].frag) = 0
    BY <1>2 DEF NothingToSend, Long, Last, Current
  <2> QED
    BY <1>2, <2>1, NoPartsNoFit
<1>4. flight = {} /\ (rx # "assemble" => received_packets = {})
      /\ (rx \in {"check", "open"} => ~incoming.single)
  BY <1>1, <1>3 DEF MessageInv, FlightInv, BufferInv, IncomingInv, Waiting
<1>5. Types' /\ SentInv'
  BY <1>1, <1>2 DEF MessageInv, Types, SentInv
<1>6. FlightInv' /\ BufferInv'
  BY <1>1, <1>4 DEF MessageInv, FlightInv, BufferInv, Current
<1>7. IncomingInv' /\ HandedInv'
  BY <1>1, <1>4 DEF MessageInv, IncomingInv, HandedInv, Told, Stored, Current
<1>8. AccountedInv'
  BY <1>1, <1>3 DEF MessageInv, AccountedInv, AccountedFor, InHand, Current
<1> QED
  BY <1>5, <1>6, <1>7, <1>8 DEF MessageInv

-----------------------------------------------------------------------------
(* Steps of the receiver *)

\* What comes of a message that is unpacked: a text is shown, a file that fits
\* is the one that was sent, and anything else was too long for its fields.
LEMMA UnpackedMessage ==
    ASSUME NEW k \in DOMAIN sent, sent[k] \in Sent, NEW bytes, NEW single,
           sent[k].kind = "text" => sent[k].name = <<>>,
           Short(sent[k]) => bytes = Bytes(sent[k]),
           Unpack(k, sent[k].kind, bytes, single)
    PROVE  \/ /\ sent[k].kind = "text" /\ rx' = "select" /\ UNCHANGED incoming
              /\ \E f : /\ shown' = shown \cup {f} /\ f.msg = k
                        /\ Short(sent[k]) => f.name = sent[k].name /\ f.data = sent[k].data
           \/ /\ sent[k].kind = "file" /\ rx' = "check" /\ UNCHANGED shown
              /\ incoming'.msg = k /\ incoming'.single = single
              /\ Short(sent[k]) => incoming'.file = NewFile(sent[k].name, sent[k].data)
           \/ /\ sent[k].kind = "file" /\ ~Short(sent[k]) /\ rx' \in {"select", "gone"}
              /\ UNCHANGED <<incoming, shown>>
<1>1. CASE /\ sent[k].kind = "text"
           /\ shown' = shown \cup {[msg |-> k, name |-> <<>>, data |-> bytes]}
           /\ rx' = "select" /\ UNCHANGED incoming
  <2> DEFINE f == [msg |-> k, name |-> <<>>, data |-> bytes]
  <2>1. f.msg = k /\ f.name = <<>> /\ f.data = bytes
    OBVIOUS
  <2>2. Bytes(sent[k]) = sent[k].data
    BY <1>1 DEF Bytes
  <2> HIDE DEF f
  <2> QED
    BY <1>1, <2>1, <2>2 DEF f
<1>2. CASE /\ sent[k].kind = "file" /\ Whole(bytes)
           /\ incoming' = [msg |-> k, file |-> from_buff(bytes), single |-> single]
           /\ rx' = "check" /\ UNCHANGED shown
  BY <1>2, FileUnpacks
<1>3. CASE /\ sent[k].kind = "file" /\ ~Whole(bytes)
           /\ rx' \in {"select", "gone"} /\ UNCHANGED <<incoming, shown>>
  BY <1>3, FileUnpacks
<1> QED
  BY <1>1, <1>2, <1>3 DEF Unpack

LEMMA SingleStep == MessageInv /\ ProcessSingle => MessageInv'
<1> SUFFICES ASSUME MessageInv, ProcessSingle PROVE MessageInv'
  OBVIOUS
<1> DEFINE K == Current
           s == sent[K]
<1>1. PICK b \in flight :
        /\ FromWire(b).form = "single" /\ flight' = flight \ {b}
        /\ Unpack(FromWire(b).msg, FromWire(b).kind, FromWire(b).payload, TRUE)
        /\ acked' = (FromWire(b).kind = "text")
  BY DEF ProcessSingle
<1>2. /\ rx = "select"
      /\ UNCHANGED <<max_frag_size, cli, sent, completed, received_packets, paths, disk,
                     moved, saved, refused, lost>>
  BY DEF ProcessSingle, sender, setting
<1>3. cli = "sending" /\ acked = FALSE /\ K \in DOMAIN sent /\ s \in Sent
  BY <1>1 DEF MessageInv, FlightInv, SentInv, Types, Waiting
<1>4. PICK p \in Parts(K, s) : b = OnWire(p)
  BY <1>1 DEF MessageInv, FlightInv
<1> HIDE DEF s
<1>5. FromWire(b) = p /\ p.msg = K /\ p.kind = s.kind /\ ~Long(s) /\ p.payload = Bytes(s)
  BY <1>1, <1>3, <1>4, PartShape
<1>6. flight' = {} /\ received_packets = {}
  <2>1. \A d \in flight : d = b
    BY <1>3, <1>4, <1>5, OnePart DEF MessageInv, FlightInv, s
  <2>2. received_packets = {}
    BY <1>2, <1>5 DEF MessageInv, BufferInv, s
  <2> QED
    BY <1>1, <2>1, <2>2
<1>7. Unpack(K, s.kind, Bytes(s), TRUE) /\ acked' = (s.kind = "text")
  BY <1>1, <1>5
<1>8. s.kind = "text" => s.name = <<>>
  BY <1>3 DEF MessageInv, SentInv, s
<1>9. \/ /\ s.kind = "text" /\ rx' = "select" /\ UNCHANGED incoming
         /\ \E f : /\ shown' = shown \cup {f} /\ f.msg = K
                   /\ Short(s) => f.name = s.name /\ f.data = s.data
      \/ /\ s.kind = "file" /\ rx' = "check" /\ UNCHANGED shown
         /\ incoming'.msg = K /\ incoming'.single = TRUE
         /\ Short(s) => incoming'.file = NewFile(s.name, s.data)
      \/ /\ s.kind = "file" /\ ~Short(s) /\ rx' \in {"select", "gone"}
         /\ UNCHANGED <<incoming, shown>>
  BY <1>3, <1>7, <1>8, UnpackedMessage, Zenon DEF s
<1>10. K' = K /\ s' = s /\ (s.kind = "file" => acked' = FALSE)
  BY <1>2, <1>7 DEF Current, s
<1>11. Types' /\ SentInv'
  BY <1>2, <1>7, <1>9 DEF MessageInv, Types, SentInv, Current
<1>12. FlightInv' /\ BufferInv'
  BY <1>2, <1>6, <1>9 DEF FlightInv, BufferInv
<1>13. IncomingInv'
  <2> SUFFICES ASSUME rx' \in {"check", "open"} PROVE IncomingInv'
    BY DEF IncomingInv
  <2>1. /\ s.kind = "file" /\ incoming'.msg = K /\ incoming'.single = TRUE
        /\ Short(s) => incoming'.file = NewFile(s.name, s.data)
    BY <1>9
  <2>2. Waiting'
    BY <1>2, <1>3, <1>10, <2>1 DEF Waiting
  <2>3. K \in DOMAIN sent' /\ sent'[K] = s
    BY <1>2, <1>3 DEF s
  <2> QED
    BY <1>5, <1>6, <1>10, <2>1, <2>2, <2>3 DEF IncomingInv
<1>14. HandedInv'
  <2>1. \A f \in saved' : Stored(f)'
    BY <1>2 DEF MessageInv, HandedInv, Stored
  <2>2. \A t \in shown : Told(t)'
    BY <1>2 DEF MessageInv, HandedInv, Told
  <2>3. ASSUME NEW f, f.msg = K, Short(s) => f.name = s.name /\ f.data = s.data
        PROVE  Told(f)'
    BY <1>2, <1>3, <2>3 DEF Told, s
  <2> QED
    BY <1>9, <2>1, <2>2, <2>3 DEF HandedInv
<1>15. AccountedInv'
  <2> SUFFICES ASSUME NEW k \in DOMAIN sent, Short(sent[k]), k \in completed \/ (k = K /\ acked')
               PROVE  AccountedFor(k)'
    BY <1>2, <1>10 DEF AccountedInv
  <2>1. CASE k \in completed
    <3>1. k \in refused \cup lost \/ \E f \in shown : f.msg = k
      BY <1>2, <2>1 DEF MessageInv, AccountedInv, AccountedFor, InHand
    <3> QED
      BY <1>2, <1>9, <3>1 DEF AccountedFor
  <2>2. CASE k = K /\ acked'
    BY <1>2, <1>7, <1>9, <2>2 DEF AccountedFor
  <2> QED
    BY <2>1, <2>2
<1> QED
  BY <1>11, <1>12, <1>13, <1>14, <1>15 DEF MessageInv

LEMMA FragmentStep == MessageInv /\ ProcessFragment => MessageInv'
<1> SUFFICES ASSUME MessageInv, ProcessFragment PROVE MessageInv'
  OBVIOUS
<1> DEFINE K == Current
           s == sent[K]
<1>1. PICK b \in flight :
        /\ FromWire(b).form # "single" /\ flight' = flight \ {b}
        /\ received_packets' = received_packets \cup {FromWire(b)}
  BY DEF ProcessFragment
<1>2. /\ rx = "select"
      /\ UNCHANGED <<max_frag_size, cli, sent, completed, incoming, paths, disk, moved,
                     saved, shown, refused, lost>>
      /\ IF IsComplete(received_packets')
         THEN acked' = TRUE /\ rx' = "assemble" ELSE UNCHANGED <<acked, rx>>
  BY DEF ProcessFragment, sender, setting, outcome
<1>3. cli = "sending" /\ acked = FALSE /\ K \in DOMAIN sent /\ s \in Sent
  BY <1>1 DEF MessageInv, FlightInv, SentInv, Types, Waiting
<1>4. PICK p \in Parts(K, s) : b = OnWire(p)
  BY <1>1 DEF MessageInv, FlightInv
<1> HIDE DEF s
<1>5. FromWire(b) = p /\ Long(s)
  BY <1>1, <1>3, <1>4, PartShape
<1>6. K' = K /\ s' = s
  BY <1>2 DEF Current, s
<1>7. /\ received_packets' \in SUBSET Parts(K, s)
      /\ \A q \in received_packets' : OnWire(q) \notin flight'
  BY <1>1, <1>2, <1>4, <1>5 DEF MessageInv, BufferInv, s
<1>8. Types' /\ SentInv'
  BY <1>2 DEF MessageInv, Types, SentInv, Current
<1>9. CASE ~IsComplete(received_packets')
  <2>1. acked' = acked /\ rx' = rx
    BY <1>2, <1>9
  <2>2. FlightInv'
    BY <1>1, <1>2, <1>6, <2>1 DEF MessageInv, FlightInv, Waiting, s
  <2>3. BufferInv'
    BY <1>2, <1>3, <1>5, <1>6, <1>7, <2>1 DEF BufferInv, Waiting, s
  <2>4. IncomingInv' /\ HandedInv'
    BY <1>2, <2>1 DEF MessageInv, IncomingInv, HandedInv, Told, Stored
  <2>5. AccountedInv'
    BY <1>2, <1>6, <2>1 DEF MessageInv, AccountedInv, AccountedFor, InHand
  <2> QED
    BY <1>8, <2>2, <2>3, <2>4, <2>5 DEF MessageInv
<1>10. CASE IsComplete(received_packets')
  <2>1. received_packets' = Parts(K, s)
    BY <1>3, <1>5, <1>7, <1>10, CompleteIsAll
  <2>2. flight' = {}
    BY <1>1, <1>7, <2>1 DEF MessageInv, FlightInv, s
  <2>3. acked' = TRUE /\ rx' = "assemble"
    BY <1>2, <1>10
  <2>4. \E q \in received_packets' : q.form = "last"
    BY <1>10 DEF IsComplete
  <2>5. FlightInv' /\ BufferInv'
    BY <1>2, <1>3, <1>5, <1>6, <2>1, <2>2, <2>3, <2>4 DEF FlightInv, BufferInv, s
  <2>6. IncomingInv' /\ HandedInv'
    BY <1>2, <2>3 DEF MessageInv, IncomingInv, HandedInv, Told, Stored
  <2>7. AccountedInv'
    <3>1. InHand(K)'
      <4>1. \E q \in received_packets' : q.msg = K
        BY <1>3, <2>1, <2>4, PartShape
      <4> QED
        BY <1>6, <2>3, <4>1 DEF InHand
    <3> SUFFICES ASSUME NEW k \in DOMAIN sent, Short(sent[k]), k \in completed, k # K
                 PROVE  AccountedFor(k)'
      BY <1>2, <1>6, <3>1 DEF AccountedInv, AccountedFor
    <3>2. k \in refused \cup lost \/ \E f \in shown : f.msg = k
      BY <1>2 DEF MessageInv, AccountedInv, AccountedFor, InHand
    <3> QED
      BY <1>2, <3>2 DEF AccountedFor
  <2> QED
    BY <1>8, <2>5, <2>6, <2>7 DEF MessageInv
<1> QED
  BY <1>9, <1>10

LEMMA AssembleStep == MessageInv /\ Assemble => MessageInv'
<1> SUFFICES ASSUME MessageInv, Assemble PROVE MessageInv'
  OBVIOUS
<1>1. PICK k \in DOMAIN sent :
        /\ Long(sent[k]) /\ received_packets = Parts(k, sent[k])
        /\ k = Current => acked
  BY DEF Assemble, MessageInv, BufferInv
<1>2. /\ rx = "assemble" /\ received_packets' = {}
      /\ UNCHANGED <<max_frag_size, cli, sent, completed, acked, flight, paths, disk, moved,
                     saved, refused, lost>>
  BY DEF Assemble, sender, setting
<1>3. sent[k] \in Sent /\ (sent[k].kind = "text" => sent[k].name = <<>>)
  BY DEF MessageInv, Types, SentInv
<1>4. Unpack(k, sent[k].kind, Joined(received_packets), FALSE)
  <2>1. PICK p \in received_packets :
          Unpack(p.msg, p.kind, Joined(received_packets), FALSE)
    BY DEF Assemble
  <2>2. p.msg = k /\ p.kind = sent[k].kind
    BY <1>1, <1>3, <2>1, PartShape
  <2> QED
    BY <2>1, <2>2
<1>5. Short(sent[k]) => Joined(received_packets) = Bytes(sent[k])
  BY <1>1, <1>3, PartsJoin
<1>6. \/ /\ sent[k].kind = "text" /\ rx' = "select" /\ UNCHANGED incoming
         /\ \E f : /\ shown' = shown \cup {f} /\ f.msg = k
                   /\ Short(sent[k]) => f.name = sent[k].name /\ f.data = sent[k].data
      \/ /\ sent[k].kind = "file" /\ rx' = "check" /\ UNCHANGED shown
         /\ incoming'.msg = k /\ incoming'.single = FALSE
         /\ Short(sent[k]) => incoming'.file = NewFile(sent[k].name, sent[k].data)
      \/ /\ sent[k].kind = "file" /\ ~Short(sent[k]) /\ rx' \in {"select", "gone"}
         /\ UNCHANGED <<incoming, shown>>
  BY <1>3, <1>4, <1>5, UnpackedMessage, Zenon
<1>7. Types' /\ SentInv'
  BY <1>2, <1>6 DEF MessageInv, Types, SentInv, Current
<1>8. FlightInv' /\ BufferInv'
  BY <1>2, <1>6 DEF MessageInv, FlightInv, BufferInv, Waiting, Current
<1>9. IncomingInv'
  BY <1>1, <1>2, <1>6 DEF IncomingInv, Current
<1>10. HandedInv'
  <2>1. \A f \in saved' : Stored(f)'
    BY <1>2 DEF MessageInv, HandedInv, Stored
  <2>2. \A t \in shown : Told(t)'
    BY <1>2 DEF MessageInv, HandedInv, Told
  <2>3. ASSUME NEW f, f.msg = k,
               Short(sent[k]) => f.name = sent[k].name /\ f.data = sent[k].data
        PROVE  Told(f)'
    BY <1>2, <2>3 DEF Told
  <2> QED
    BY <1>6, <2>1, <2>2, <2>3 DEF HandedInv
<1>11. AccountedInv'
  <2> SUFFICES ASSUME NEW j \in DOMAIN sent, Short(sent[j]),
                      j \in completed \/ (j = Current /\ acked)
               PROVE  AccountedFor(j)'
    BY <1>2 DEF AccountedInv, Current
  <2>1. AccountedFor(j)
    BY DEF MessageInv, AccountedInv
  <2>2. CASE j \in refused \cup lost \/ \E f \in shown : f.msg = j
    BY <1>2, <1>6, <2>2 DEF AccountedFor
  <2>3. CASE InHand(j)
    <3>1. j = k
      BY <1>1, <1>2, <1>3, <2>3, PartShape DEF InHand
    <3> QED
      BY <1>6, <3>1 DEF AccountedFor, InHand
  <2> QED
    BY <2>1, <2>2, <2>3 DEF AccountedFor
<1> QED
  BY <1>7, <1>8, <1>9, <1>10, <1>11 DEF MessageInv

LEMMA CheckStep == Inv /\ MessageInv /\ CheckPath => MessageInv'
<1> SUFFICES ASSUME Inv, MessageInv, CheckPath PROVE MessageInv'
  OBVIOUS
<1>1. /\ rx = "check" /\ rx' = "open" /\ moved' = FALSE
      /\ UNCHANGED <<max_frag_size, cli, sent, completed, acked, flight, received_packets,
                     incoming, paths, saved, shown, refused, lost>>
  BY DEF CheckPath, sender, setting, outcome
<1>2. Types' /\ SentInv'
  BY <1>1 DEF MessageInv, Types, SentInv, Current
<1>3. FlightInv' /\ BufferInv'
  BY <1>1 DEF MessageInv, FlightInv, BufferInv, Waiting, Current
<1>4. IncomingInv' /\ HandedInv'
  <2>1. \A p \in Path \cup {Torn} : disk'[p] = "full" <=> disk[p] = "full"
    BY FullStays DEF CheckPath
  <2>2. HandedInv'
    BY <1>1, <2>1 DEF MessageInv, HandedInv, Told, Stored
  <2> QED
    BY <1>1, <2>2 DEF MessageInv, IncomingInv, Waiting, Current
<1>5. AccountedInv'
  BY <1>1 DEF MessageInv, AccountedInv, AccountedFor, InHand, Current
<1> QED
  BY <1>2, <1>3, <1>4, <1>5 DEF MessageInv

\* The ends of a save: the user has been told, or the file is lost, before the
\* sender may be.
LEMMA EndSaveStep ==
    ASSUME MessageInv, rx \in {"check", "open"}, EndSave, moved' = moved,
           shown \subseteq shown' /\ refused \subseteq refused' /\ lost \subseteq lost',
           incoming.msg \in refused' \cup lost' \/ \E f \in shown' : f.msg = incoming.msg,
           refused' \cup lost' \subseteq refused \cup lost \cup {incoming.msg}, HandedInv'
    PROVE  MessageInv'
<1>1. /\ rx' = "select" /\ acked' = (acked \/ incoming.single)
      /\ UNCHANGED <<max_frag_size, cli, sent, completed, flight, received_packets,
                     incoming, paths>>
  BY DEF EndSave, sender, setting
<1>2. /\ incoming.msg \in DOMAIN sent /\ received_packets = {} /\ incoming.single \in BOOLEAN
      /\ incoming.single => flight = {} /\ incoming.msg = Current
  BY DEF MessageInv, BufferInv, IncomingInv
<1>3. acked' \in BOOLEAN
  BY <1>1
<1>4. Types' /\ SentInv'
  <2>1. (refused \cup lost \cup completed)' \subseteq DOMAIN sent
    BY <1>1, <1>2 DEF MessageInv, Types
  <2> QED
    BY <1>1, <1>3, <2>1 DEF MessageInv, Types, SentInv, Current
<1>5. FlightInv'
  <2>1. CASE incoming.single
    BY <1>1, <1>2, <2>1 DEF FlightInv
  <2>2. CASE ~incoming.single
    BY <1>1, <2>2 DEF MessageInv, FlightInv, Waiting, Current, Types
  <2> QED
    BY <2>1, <2>2
<1>6. BufferInv' /\ IncomingInv'
  BY <1>1, <1>2 DEF BufferInv, IncomingInv
<1>7. AccountedInv'
  <2> SUFFICES ASSUME NEW k \in DOMAIN sent, Short(sent[k]),
                      k \in completed \/ (k = Current /\ (acked \/ incoming.single)),
                      k # incoming.msg
               PROVE  AccountedFor(k)'
    BY <1>1 DEF AccountedInv, AccountedFor, Current
  <2>1. k \in refused \cup lost \/ \E f \in shown : f.msg = k
    BY <1>2 DEF MessageInv, AccountedInv, AccountedFor, InHand
  <2> QED
    BY <2>1 DEF AccountedFor
<1> QED
  BY <1>4, <1>5, <1>6, <1>7 DEF MessageInv

LEMMA InvalidPathStep == MessageInv /\ InvalidPath => MessageInv'
<1> SUFFICES ASSUME MessageInv, InvalidPath PROVE MessageInv'
  OBVIOUS
<1>1. /\ rx = "check" /\ refused' = refused \cup {incoming.msg} /\ EndSave
      /\ UNCHANGED <<disk, moved, saved, shown, lost, sent>>
  BY DEF InvalidPath, EndSave, sender
<1>2. HandedInv'
  BY <1>1 DEF MessageInv, HandedInv, Told, Stored
<1> QED
  BY <1>1, <1>2, EndSaveStep

LEMMA CannotOpenStep == MessageInv /\ CannotOpen => MessageInv'
<1> SUFFICES ASSUME MessageInv, CannotOpen PROVE MessageInv'
  OBVIOUS
<1>1. /\ rx = "open" /\ lost' = lost \cup {incoming.msg} /\ EndSave
      /\ UNCHANGED <<disk, moved, saved, shown, refused, sent>>
  BY DEF CannotOpen, EndSave, sender
<1>2. HandedInv'
  BY <1>1 DEF MessageInv, HandedInv, Told, Stored
<1> QED
  BY <1>1, <1>2, EndSaveStep

\* A name with room for its end is the one that was sent; one that fills the
\* array is taken with the size behind it, which no disk takes, or alone.
LEMMA NameOnDisk ==
    ASSUME NEW s \in Sent, NEW name \in CString(NewFile(s.name, s.data)), Len(name) <= NameMax
    PROVE  name = s.name
<1> DEFINE f == NewFile(s.name, s.data)
<1>1. f.file_name = s.name /\ s.name \in Seq(Nat) /\ Len(s.name) <= NameMax
  BY SentShape DEF NewFile
<1>2. name = s.name \/ (name = Append(s.name, f.file_size) /\ ~(Len(s.name) < NameMax))
  BY <1>1 DEF CString
<1>3. CASE name = Append(s.name, f.file_size) /\ ~(Len(s.name) < NameMax)
  <2>1. Len(name) = Len(s.name) + 1
    BY <1>1, <1>3
  <2> QED
    BY <1>1, <1>3, <2>1, WidthAssumption
<1> QED
  BY <1>2, <1>3

\* What a write leaves on the disk is the data, or on a full disk its beginning.
LEMMA WrittenPart ==
    ASSUME NEW path, NEW data \in Seq(Nat), NEW part \in Written(path, data)
    PROVE  IsPrefix(part, data) /\ (disk[path] # "full" => part = data)
<1>1. CASE disk[path] # "full"
  <2>1. part = data  BY <1>1 DEF Written
  <2>2. Len(data) <= Len(data) /\ SubSeq(data, 1, Len(data)) = SubSeq(data, 1, Len(data))
    OBVIOUS
  <2> QED  BY <2>1, <2>2 DEF IsPrefix
<1>2. CASE disk[path] = "full"
  <2>1. PICK n \in Room : part = SubSeq(data, 1, Min2(n, Len(data)))
    BY <1>2 DEF Written
  <2> DEFINE l == Min2(n, Len(data))
  <2>2. l \in 0..Len(data)
    BY BoundsAssumption DEF Min2
  <2> HIDE DEF l
  <2>3. part = SubSeq(data, 1, l)
    BY <2>1 DEF l
  <2>4. Len(part) = l /\ part \in Seq(Nat)
    BY <2>2, <2>3
  <2>5. SubSeq(part, 1, Len(part)) = part
    BY <2>4
  <2> QED
    BY <1>2, <2>2, <2>3, <2>4, <2>5 DEF IsPrefix
<1> QED
  BY <1>1, <1>2

LEMMA WriteStep == Inv /\ MessageInv /\ Write => MessageInv'
<1> SUFFICES ASSUME Inv, MessageInv, Write PROVE MessageInv'
  OBVIOUS
<1> DEFINE k == incoming.msg
<1>1. PICK name \in CString(incoming.file), data \in Written(file_path, incoming.file.data) :
        /\ Len(name) <= NameMax
        /\ saved' = {f \in saved : f.path # file_path \/ f.name # name}
               \cup {[path |-> file_path, name |-> name, data |-> data, msg |-> k]}
        /\ shown' = shown \cup {[msg |-> k, name |-> name, data |-> <<>>]}
  BY DEF Write
<1>2. rx = "open" /\ EndSave /\ UNCHANGED <<disk, moved, refused, lost, sent>>
  BY DEF Write, EndSave, sender
<1>3. /\ k \in DOMAIN sent /\ sent[k] \in Sent /\ sent[k].kind = "file"
      /\ Short(sent[k]) => incoming.file = NewFile(sent[k].name, sent[k].data)
  BY <1>2 DEF MessageInv, IncomingInv, Types
<1>4. Short(sent[k]) => name = sent[k].name /\ incoming.file.data = sent[k].data
  BY <1>1, <1>3, NameOnDisk, FileUnpacks
<1>5. HandedInv'
  <2>1. \A t \in shown : Told(t)'
    BY <1>2 DEF MessageInv, HandedInv, Told
  <2>2. \A f \in saved : Stored(f)'
    BY <1>2 DEF MessageInv, HandedInv, Stored
  <2>3. ASSUME NEW t, t.msg = k, t.name = name PROVE Told(t)'
    BY <1>2, <1>3, <1>4, <2>3 DEF Told
  <2>4. ASSUME NEW f, f.path = file_path, f.name = name, f.data = data, f.msg = k
        PROVE  Stored(f)'
    <3>1. file_path \in Path \cup {Torn}
      BY DEF Inv
    <3>2. Short(sent[k]) => /\ IsPrefix(data, sent[k].data)
                            /\ disk[file_path] # "full" => data = sent[k].data
      BY <1>1, <1>3, <1>4, SentShape, WrittenPart
    <3> QED
      BY <1>2, <1>3, <1>4, <2>4, <3>1, <3>2 DEF Stored
  <2> QED
    BY <1>1, <2>1, <2>2, <2>3, <2>4 DEF HandedInv
<1>6. \E f \in shown' : f.msg = k
  <2> DEFINE f == [msg |-> k, name |-> name, data |-> <<>>]
  <2>1. f \in shown' /\ f.msg = k
    BY <1>1
  <2> QED
    BY <2>1
<1> QED
  BY <1>1, <1>2, <1>5, <1>6, EndSaveStep

\* Steps of the receiving user, who handles no message.
LEMMA PathStep ==
    ASSUME MessageInv, moved' \in BOOLEAN, paths' \in 0..MaxPaths,
           \A p \in Path \cup {Torn} : disk'[p] = "full" <=> disk[p] = "full",
           UNCHANGED <<sender, acked, flight, received_packets, rx, incoming, outcome>>
    PROVE  MessageInv'
<1> USE DEF MessageInv, sender, outcome, Current, Waiting
<1>1. Types' /\ SentInv'  BY DEF Types, SentInv
<1>2. FlightInv' /\ BufferInv'  BY DEF FlightInv, BufferInv
<1>3. IncomingInv' /\ HandedInv'  BY DEF IncomingInv, HandedInv, Told, Stored
<1>4. AccountedInv'  BY DEF AccountedInv, AccountedFor, InHand
<1> QED  BY <1>1, <1>2, <1>3, <1>4

LEMMA MessageInvNext == Inv /\ MessageInv /\ [Next]_vars => MessageInv'
<1> SUFFICES ASSUME Inv, MessageInv, [Next]_vars PROVE MessageInv'
  OBVIOUS
<1>1. CASE Sending
  BY <1>1, SizeStep, SendTextStep, SendFileStep, CompleteStep DEF Sending
<1>2. CASE Receiving
  BY <1>2, SingleStep, FragmentStep, AssembleStep, CheckStep, InvalidPathStep, WriteStep,
     CannotOpenStep DEF Receiving
<1>3. CASE Assign
  BY <1>3, PathStep DEF Assign, MessageInv, Types
<1>4. ASSUME NEW p \in Path, set_path(p) PROVE MessageInv'
  <2>1. moved' \in BOOLEAN /\ paths' \in 0..MaxPaths
    <3>1. paths \in 0..MaxPaths /\ paths < MaxPaths /\ paths' = paths + 1 /\ moved \in BOOLEAN
      BY <1>4 DEF set_path, MessageInv, Types
    <3>2. moved' \in BOOLEAN
      BY <1>4, <3>1, Zenon DEF set_path
    <3>3. paths' \in 0..MaxPaths
      BY <3>1, BoundsAssumption
    <3> QED
      BY <3>2, <3>3
  <2>2. \A q \in Path \cup {Torn} : disk'[q] = "full" <=> disk[q] = "full"
    BY <1>4, FullStays DEF set_path
  <2> QED
    BY <1>4, <2>1, <2>2, PathStep DEF set_path
<1>5. CASE UNCHANGED vars
  BY <1>5, PathStep DEF vars, sender, outcome, MessageInv, Types
<1> QED
  BY <1>1, <1>2, <1>3, <1>4, <1>5 DEF Next

LEMMA MessageInvAlways == Spec => []MessageInv
  BY MessageInvInit, MessageInvNext, InvAlways, PTL DEF Spec

-----------------------------------------------------------------------------
(* What follows from it *)

\* Every thread is at a step it has, packets on their way and kept are of messages
\* that were sent and numbered from one in three bytes, and a header holds what
\* its fields have room for (file.cpp:7-21, node.cpp:1300-1336, 1430-1465, 755-790).
THEOREM FilesTypes == Spec => []TypeOK
<1>1. ASSUME MessageInv, Inv PROVE TypeOK
  <2>1. \A k \in DOMAIN sent : sent[k] \in Sent
    BY <1>1 DEF MessageInv, Types
  <2>2. ASSUME NEW b \in flight
        PROVE  /\ b.seq \in Values /\ FromWire(b).seq \in 1..(Modulus - 1)
               /\ FromWire(b).form \in {"single", "more", "last"}
               /\ FromWire(b).msg \in DOMAIN sent
    <3>1. Current \in DOMAIN sent /\ \E q \in Parts(Current, sent[Current]) : b = OnWire(q)
      BY <1>1 DEF MessageInv, FlightInv, SentInv, Waiting
    <3> QED
      BY <2>1, <3>1, PartShape
  <2>3. ASSUME NEW p \in received_packets
        PROVE  /\ p.seq \in 1..(Modulus - 1) /\ p.form \in {"single", "more", "last"}
               /\ p.msg \in DOMAIN sent
    <3>1. \E k \in DOMAIN sent : p \in Parts(k, sent[k])
      BY <1>1 DEF MessageInv, BufferInv, SentInv, Waiting
    <3> QED
      BY <2>1, <3>1, PartShape
  <2>4. incoming.file.name_length \in 0..NameMax
        /\ incoming.file.file_size \in 0..(SizeModulus - 1)
    BY <1>1 DEF Inv, Header
  <2> QED
    BY <1>1, <2>2, <2>3, <2>4 DEF MessageInv, Inv, Types, TypeOK
<1> QED
  BY <1>1, MessageInvAlways, InvAlways, PTL

\* Fragments of two messages are never put together, although the sender goes
\* on while a file is being saved (node.cpp:462, 490, 769).
THEOREM BufferHoldsOneMessage == Spec => []OneMessage
<1>1. ASSUME MessageInv PROVE OneMessage
  <2>1. CASE received_packets = {}
    BY <2>1 DEF OneMessage
  <2>2. ASSUME NEW k \in DOMAIN sent, received_packets \subseteq Parts(k, sent[k])
        PROVE  OneMessage
    <3>1. sent[k] \in Sent
      BY <1>1 DEF MessageInv, Types
    <3>2. \A p, q \in Parts(k, sent[k]) : p.msg = q.msg /\ (p.seq = q.seq => p = q)
      BY <3>1, PartShape, PartOfNumber
    <3> QED
      BY <2>2, <3>2 DEF OneMessage
  <2>3. \/ received_packets = {}
        \/ \E k \in DOMAIN sent : received_packets \subseteq Parts(k, sent[k])
    BY <1>1 DEF MessageInv, BufferInv, SentInv, Waiting
  <2> QED
    BY <2>1, <2>2, <2>3
<1> QED
  BY <1>1, MessageInvAlways, PTL

\* What the user is shown and what is on the disk is a message as it was sent,
\* for all messages whose lengths fit their fields, whatever the size of the
\* fragments and the order they come in (node.cpp:1300-1336, 1430-1465, 446-502,
\* file.cpp:68-120).
THEOREM MessagesAreHandedIntact == Spec => []HandedIntact
<1>1. MessageInv => HandedIntact
  BY FitsIsShort DEF MessageInv, HandedInv, Told, Stored, HandedIntact
<1> QED
  BY <1>1, MessageInvAlways, PTL

\* A message reported complete is in the receiver's hands, or its user was shown
\* it or told why not, or it is lost (node.cpp:504-537, 1421-1426, 1479-1483).
THEOREM CompleteIsAccountedFor == Spec => []Accounted
<1>1. MessageInv => Accounted
  BY FitsIsShort DEF MessageInv, Types, AccountedInv, AccountedFor, Accounted
<1> QED
  BY <1>1, MessageInvAlways, PTL
=============================================================================
