--------------------------- MODULE TcpServerProofs ---------------------------
(***************************************************************************)
(* Proofs about the TCP server and its connections, for any number of      *)
(* connections, peers, senders and frames, and for any pieces the reads    *)
(* return, and about the packets that daemon and client exchange over one. *)
(***************************************************************************)
EXTENDS TcpServer, Protocol, TLAPS, SequenceTheorems, FiniteSetTheorems

USE DEF StartsWrite, QueuePopped, AppendPieces

-----------------------------------------------------------------------------
(***************************************************************************)
(* Reading: the stream of pieces between the peer and tryParsePacket().    *)
(***************************************************************************)

Piece == [frame : Nat, part : Nat]

\* What was read and not yet parsed, what a read has put into readBuffer_, what is under way.
Stream(c) == (receiveBuffer[c] \o readBuffer[c]) \o wire[c]

\* The frame that begins at place i of stream s is there piece by piece, as far as the stream
\* goes, and the next frame begins behind it.
FrameAt(s, i, sent) ==
    LET f == s[i].frame IN
    /\ f \in 1..Len(sent)
    /\ \A j \in 1..Len(s) : i <= j /\ j < i + Size(sent[f]) =>
          s[j] = [frame |-> f, part |-> (j - i) + 1]
    /\ i + Size(sent[f]) <= Len(s) => s[i + Size(sent[f])] = [frame |-> f + 1, part |-> 1]

\* Nothing of the last frame sent is missing.
CompleteAt(s, i, sent) ==
    LET f == s[i].frame IN
    /\ i + Size(sent[f]) <= Len(s) + 1
    /\ i + Size(sent[f]) = Len(s) + 1 => f = Len(sent)

\* A stream that begins with frame n + 1 of what the peer has sent.
Framed(s, n, sent) ==
    /\ n <= Len(sent)
    /\ s # <<>> => s[1] = [frame |-> n + 1, part |-> 1]
    /\ \A i \in 1..Len(s) : s[i].part = 1 => FrameAt(s, i, sent)

\* While the peer has not closed, nothing was lost.
Complete(s, n, sent) ==
    /\ s = <<>> => n = Len(sent)
    /\ \A i \in 1..Len(s) : s[i].part = 1 => CompleteAt(s, i, sent)

ReadTypeOK ==
    /\ rd \in [Conns -> {"new", "pending", "ready", "none"}]
    /\ readBuffer \in [Conns -> Seq(Piece)]
    /\ receiveBuffer \in [Conns -> Seq(Piece)]
    /\ wire \in [Conns -> Seq(Piece)]
    /\ peerSent \in [Conns -> Seq(Kinds)]
    /\ peerClosed \in [Conns -> BOOLEAN]
    /\ delivered \in [Conns -> Seq(Nat)]

ReadInv(c) ==
    /\ rd[c] # "ready" => readBuffer[c] = <<>>
    /\ Framed(Stream(c), Len(delivered[c]), peerSent[c])
    /\ ~peerClosed[c] => Complete(Stream(c), Len(delivered[c]), peerSent[c])
    /\ \A n \in 1..Len(delivered[c]) : delivered[c][n] = n /\ peerSent[c][n] \in Good

ReadIInv == ReadTypeOK /\ \A c \in Conns : ReadInv(c)

-----------------------------------------------------------------------------
(***************************************************************************)
(* Writing: the packets between sendPacket() and the network.              *)
(***************************************************************************)

\* The numbered packets in a queue, and that they are in the order of their numbers.
Packets(q) == {q[n] : n \in 1..Len(q)} \ {Ping, Stop}
Ordered(q) ==
    \A m, n \in 1..Len(q) : m < n /\ q[m] \notin {Ping, Stop} /\ q[n] \notin {Ping, Stop} => q[m] < q[n]

\* The packets that have still to be put on the network.
ToWrite(c) == IF written[c] THEN Packets(Tail(writeQueue[c])) ELSE Packets(writeQueue[c])

WriteTypeOK ==
    /\ posted \in [Conns -> Seq(Nat \cup {Stop})]
    /\ writeQueue \in [Conns -> Seq(Nat)]
    /\ writes \in [Conns -> {0, 1}]
    /\ written \in [Conns -> BOOLEAN]
    /\ sends \in [Conns -> Nat]
    /\ out \in [Conns -> Seq(Nat)]

WriteInv(c) ==
    /\ Ordered(writeQueue[c]) /\ Ordered(posted[c])
    /\ \A x \in Packets(writeQueue[c]), y \in Packets(posted[c]) : x < y
    /\ \A x \in Packets(writeQueue[c]) : x <= sends[c]
    /\ Len(out[c]) <= sends[c]
    /\ ToWrite(c) \cup Packets(posted[c]) = (Len(out[c]) + 1)..sends[c]
    /\ \A n \in 1..Len(out[c]) : out[c][n] = n
    /\ writes[c] = 1 => writeQueue[c] # <<>>
    /\ written[c] => writes[c] = 1

WriteIInv == WriteTypeOK /\ \A c \in Conns : WriteInv(c)

-----------------------------------------------------------------------------
(***************************************************************************)
(* The sessions of the server and the list of the sink.                    *)
(***************************************************************************)

Stopping(c) == \E n \in 1..Len(posted[c]) : posted[c][n] = Stop

SessionTypeOK ==
    /\ open \in [Conns -> BOOLEAN]
    /\ sessions \subseteq Conns

SessionInv ==
    /\ connections = sessions
    /\ \A c \in Conns : rd[c] = "new" => ~open[c] /\ c \notin sessions /\ posted[c] = <<>>
    /\ \A c \in Conns : io = c => rd[c] = "none"
    /\ \A c \in sessions : ~Stopping(c)

SessionIInv == SessionTypeOK /\ SessionInv /\ SessionsHaveSockets

-----------------------------------------------------------------------------
(* Queues of packets. *)

LEMMA PacketsAppended ==
    ASSUME NEW q \in Seq(Int), NEW x \in Int
    PROVE  /\ Packets(Append(q, x)) = Packets(q) \cup ({x} \ {Ping, Stop})
           /\ Ordered(q) /\ (x \in {Ping, Stop} \/ \A y \in Packets(q) : y < x) => Ordered(Append(q, x))
<1>1. /\ Len(Append(q, x)) = Len(q) + 1 /\ Len(q) \in Nat
      /\ \A n \in 1..(Len(q) + 1) : Append(q, x)[n] = IF n = Len(q) + 1 THEN x ELSE q[n]
  OBVIOUS
<1> DEFINE r == Append(q, x)
<1> HIDE DEF r
<1>2. Packets(r) = Packets(q) \cup ({x} \ {Ping, Stop})
  <2>1. {r[n] : n \in 1..Len(r)} = {q[n] : n \in 1..Len(q)} \cup {x}
    <3>1. \A y : y \in {r[n] : n \in 1..Len(r)} => y \in {q[n] : n \in 1..Len(q)} \cup {x}
      BY <1>1 DEF r
    <3>2. ASSUME NEW n \in 1..Len(q) PROVE q[n] \in {r[k] : k \in 1..Len(r)}
      <4>1. n \in 1..Len(r) /\ r[n] = q[n] BY <1>1 DEF r
      <4> QED BY <4>1
    <3>3. x \in {r[n] : n \in 1..Len(r)}
      <4>1. Len(r) \in 1..Len(r) /\ r[Len(r)] = x BY <1>1 DEF r
      <4> QED BY <4>1
    <3> QED BY <3>1, <3>2, <3>3
  <2> QED BY <2>1 DEF Packets
<1>3. ASSUME Ordered(q), x \in {Ping, Stop} \/ \A y \in Packets(q) : y < x PROVE Ordered(r)
  <2> SUFFICES ASSUME NEW m \in 1..Len(r), NEW n \in 1..Len(r), m < n,
                      r[m] \notin {Ping, Stop}, r[n] \notin {Ping, Stop}
               PROVE  r[m] < r[n]
    BY DEF Ordered
  <2>1. m \in 1..Len(q) /\ r[m] = q[m] BY <1>1 DEF r
  <2>2. CASE n = Len(q) + 1
    <3>1. r[n] = x BY <2>2, <1>1 DEF r
    <3>2. q[m] \in Packets(q) BY <2>1 DEF Packets
    <3> QED BY <1>3, <2>1, <3>1, <3>2
  <2>3. CASE n # Len(q) + 1
    <3>1. n \in 1..Len(q) /\ r[n] = q[n] BY <2>3, <1>1 DEF r
    <3> QED BY <1>3, <2>1, <3>1 DEF Ordered
  <2> QED BY <2>2, <2>3
<1> QED BY <1>2, <1>3 DEF r

LEMMA PacketsPopped ==
    ASSUME NEW q \in Seq(Int), q # <<>>
    PROVE  /\ Packets(q) = Packets(Tail(q)) \cup ({Head(q)} \ {Ping, Stop})
           /\ Ordered(q) => /\ Ordered(Tail(q))
                            /\ Head(q) \notin {Ping, Stop} => \A y \in Packets(Tail(q)) : Head(q) < y
<1>1. /\ Len(q) \in Nat /\ Len(q) >= 1 /\ Len(Tail(q)) = Len(q) - 1 /\ Head(q) = q[1]
      /\ \A n \in 1..(Len(q) - 1) : Tail(q)[n] = q[n + 1]
  OBVIOUS
<1> DEFINE t == Tail(q)
<1> HIDE DEF t
<1>2. {q[n] : n \in 1..Len(q)} = {t[n] : n \in 1..Len(t)} \cup {Head(q)}
  <2>1. ASSUME NEW n \in 1..Len(q) PROVE q[n] \in {t[k] : k \in 1..Len(t)} \cup {Head(q)}
    <3>1. CASE n = 1 BY <3>1, <1>1
    <3>2. CASE n # 1
      <4>1. n - 1 \in 1..Len(t) /\ t[n - 1] = q[n] BY <3>2, <1>1 DEF t
      <4> QED BY <4>1
    <3> QED BY <3>1, <3>2
  <2>2. ASSUME NEW n \in 1..Len(t) PROVE t[n] \in {q[k] : k \in 1..Len(q)}
    <3>1. n + 1 \in 1..Len(q) /\ t[n] = q[n + 1] BY <1>1 DEF t
    <3> QED BY <3>1
  <2>3. Head(q) \in {q[k] : k \in 1..Len(q)}
    <3>1. 1 \in 1..Len(q) BY <1>1
    <3> QED BY <3>1, <1>1
  <2> QED BY <2>1, <2>2, <2>3
<1>3. ASSUME Ordered(q) PROVE Ordered(t)
  <2> SUFFICES ASSUME NEW m \in 1..Len(t), NEW n \in 1..Len(t), m < n,
                      t[m] \notin {Ping, Stop}, t[n] \notin {Ping, Stop}
               PROVE  t[m] < t[n]
    BY DEF Ordered
  <2>1. /\ m + 1 \in 1..Len(q) /\ n + 1 \in 1..Len(q) /\ m + 1 < n + 1
        /\ t[m] = q[m + 1] /\ t[n] = q[n + 1]
    BY <1>1 DEF t
  <2> QED BY <2>1, <1>3 DEF Ordered
<1>4. ASSUME Ordered(q), Head(q) \notin {Ping, Stop}, NEW y \in Packets(t) PROVE Head(q) < y
  <2>1. PICK n \in 1..Len(t) : y = t[n] /\ y \notin {Ping, Stop} BY <1>4 DEF Packets
  <2>2. /\ n + 1 \in 1..Len(q) /\ 1 \in 1..Len(q) /\ 1 < n + 1 /\ y = q[n + 1]
    BY <2>1, <1>1 DEF t
  <2> QED BY <2>1, <2>2, <1>1, <1>4 DEF Ordered
<1> QED BY <1>2, <1>3, <1>4 DEF Packets, t

\* The smallest of a range of packets, and what is left without it.
LEMMA FirstOfRange ==
    ASSUME NEW a \in Nat, NEW b \in Nat, NEW x \in Int, NEW R,
           x \notin R, {x} \cup R = (a + 1)..b, \A y \in R : x < y
    PROVE  x = a + 1 /\ R = (a + 2)..b /\ a + 1 <= b
<1>1. x \in (a + 1)..b /\ R \subseteq (a + 1)..b /\ x \in Nat BY SMT
<1>2. x = a + 1
  <2>1. a + 1 \in (a + 1)..b BY <1>1
  <2>2. a + 1 \in {x} \cup R BY <2>1
  <2> QED BY <2>2, <1>1
<1>3. \A y : y \in R <=> y \in (a + 1)..b /\ y # x BY <1>1
<1>4. \A y : y \in (a + 1)..b /\ y # x <=> y \in (a + 2)..b BY <1>2
<1>5. R = (a + 2)..b BY <1>3, <1>4
<1> QED BY <1>1, <1>2, <1>5

-----------------------------------------------------------------------------
(* The invariant of the writers. *)

\* A connection none of whose queues changes.
WriteSame(c) ==
    /\ posted'[c] = posted[c] /\ writeQueue'[c] = writeQueue[c] /\ writes'[c] = writes[c]
    /\ written'[c] = written[c] /\ sends'[c] = sends[c] /\ out'[c] = out[c]

LEMMA WriteInvKept == ASSUME NEW c \in Conns, WriteInv(c), WriteSame(c) PROVE WriteInv(c)'
BY DEF WriteInv, WriteSame, ToWrite

LEMMA WriteInvInit == ConnInit => WriteIInv
<1> SUFFICES ASSUME ConnInit PROVE WriteIInv OBVIOUS
<1>1. WriteTypeOK BY DEF ConnInit, WriteTypeOK
<1>2. ASSUME NEW c \in Conns PROVE WriteInv(c)
  <2>1. /\ posted[c] = <<>> /\ writeQueue[c] = <<>> /\ writes[c] = 0 /\ ~written[c]
        /\ sends[c] = 0 /\ out[c] = <<>>
    BY DEF ConnInit
  <2>2. Packets(<<>>) = {} /\ Ordered(<<>>) BY DEF Packets, Ordered
  <2>3. 1..0 = {} /\ Len(<<>>) = 0 OBVIOUS
  <2> QED BY <2>1, <2>2, <2>3 DEF WriteInv, ToWrite
<1> QED BY <1>1, <1>2 DEF WriteIInv

LEMMA WriteInvStep == ASSUME WriteIInv, [Next]_allVars PROVE WriteIInv'
<1> USE DEF Ping, Stop
<1>a. WriteTypeOK /\ \A c \in Conns : WriteInv(c) BY DEF WriteIInv
<1>b. ASSUME NEW c \in Conns
      PROVE  /\ posted[c] \in Seq(Nat \cup {Stop}) /\ writeQueue[c] \in Seq(Nat)
             /\ posted[c] \in Seq(Int) /\ writeQueue[c] \in Seq(Int)
             /\ writes[c] \in {0, 1} /\ written[c] \in BOOLEAN
             /\ sends[c] \in Nat /\ out[c] \in Seq(Nat) /\ Len(out[c]) \in Nat
  BY <1>a, <1>b DEF WriteTypeOK
<1>c. ASSUME UNCHANGED <<posted, writeQueue, writes, written, sends, out>> PROVE WriteIInv'
  <2>1. \A c \in Conns : WriteSame(c) BY <1>c DEF WriteSame
  <2> QED BY <1>a, <1>c, <2>1, WriteInvKept DEF WriteIInv, WriteTypeOK
<1>1. ASSUME NEW c \in Conns, SendPacket(c) PROVE WriteIInv'
  <2> DEFINE x == sends[c] + 1
  <2>1. /\ sends' = [sends EXCEPT ![c] = x] /\ posted' = [posted EXCEPT ![c] = Append(posted[c], x)]
        /\ UNCHANGED <<writeQueue, writes, written, out>>
    BY <1>1, <1>a DEF SendPacket, writeVars, WriteTypeOK
  <2>2. \A d \in Conns : d # c => WriteSame(d) BY <2>1, <1>a DEF WriteSame, WriteTypeOK
  <2>3. x \in Nat /\ x \notin {Ping, Stop} /\ x \in Int BY <1>b
  <2>4. posted'[c] = Append(posted[c], x) /\ sends'[c] = x BY <2>1, <1>a DEF WriteTypeOK
  <2>5. WriteTypeOK'
    <3>1. Append(posted[c], x) \in Seq(Nat \cup {Stop}) BY <1>b, <2>3
    <3> QED BY <2>1, <2>3, <3>1, <1>a DEF WriteTypeOK
  <2>6. \A y \in ToWrite(c) \cup Packets(posted[c]) : y < x
    <3>1. ToWrite(c) \cup Packets(posted[c]) = (Len(out[c]) + 1)..sends[c] BY <1>a DEF WriteInv
    <3>2. \A y \in (Len(out[c]) + 1)..sends[c] : y < x BY <1>b
    <3> QED BY <3>1, <3>2
  <2>7. /\ Packets(posted'[c]) = Packets(posted[c]) \cup {x}
        /\ Ordered(posted'[c])
    BY <2>3, <2>4, <2>6, <1>a, <1>b, PacketsAppended DEF WriteInv
  <2>8. (Len(out[c]) + 1)..x = ((Len(out[c]) + 1)..sends[c]) \cup {x} /\ Len(out[c]) <= x
    BY <1>a, <1>b DEF WriteInv
  <2>9. \A y \in Packets(writeQueue[c]) : y <= sends[c] /\ y < x
    <3>1. Packets(writeQueue[c]) \subseteq Int BY <1>b DEF Packets
    <3> QED BY <3>1, <1>a, <1>b DEF WriteInv
  <2>10. ToWrite(c)' = ToWrite(c) BY <2>1 DEF ToWrite
  <2> HIDE DEF x
  <2>11. WriteInv(c)'
    <3>1. ToWrite(c)' \cup Packets(posted'[c]) = (Len(out'[c]) + 1)..sends'[c]
      BY <2>1, <2>4, <2>7, <2>8, <2>10, <1>a DEF WriteInv
    <3>2. \A u \in Packets(writeQueue'[c]), y \in Packets(posted'[c]) : u < y
      BY <2>1, <2>7, <2>9, <1>a DEF WriteInv
    <3>3. \A u \in Packets(writeQueue'[c]) : u <= sends'[c]
      <4>1. \A u \in Packets(writeQueue[c]) : u \in Int BY <1>b DEF Packets
      <4> QED BY <4>1, <2>1, <2>4, <2>9, <1>b DEF x
    <3> QED BY <2>1, <2>4, <2>7, <2>8, <3>1, <3>2, <3>3, <1>a DEF WriteInv
  <2> QED BY <2>2, <2>5, <2>11, <1>a, WriteInvKept DEF WriteIInv
<1>2. ASSUME NEW c \in Conns, RunSend(c) PROVE WriteIInv'
  <2> DEFINE x == Head(posted[c])
  <2>1. /\ posted[c] # <<>> /\ x # Stop
        /\ writeQueue' = [writeQueue EXCEPT ![c] = Append(writeQueue[c], x)]
        /\ writes' = IF writeQueue[c] = <<>> THEN [writes EXCEPT ![c] = writes[c] + 1] ELSE writes
        /\ posted' = [posted EXCEPT ![c] = Tail(posted[c])]
        /\ UNCHANGED <<written, sends, out>>
    BY <1>2, <1>a DEF RunSend, WriteTypeOK
  <2>2. \A d \in Conns : d # c => WriteSame(d) BY <2>1, <1>a DEF WriteSame, WriteTypeOK
  <2>3. x \in Nat /\ x \in Int /\ Tail(posted[c]) \in Seq(Nat \cup {Stop}) BY <2>1, <1>b
  <2>4. writeQueue'[c] = Append(writeQueue[c], x) /\ posted'[c] = Tail(posted[c])
    BY <2>1, <1>a DEF WriteTypeOK
  <2> HIDE DEF x
  <2>5. writes'[c] = 1 \/ (writeQueue[c] # <<>> /\ writes'[c] = writes[c])
    <3>1. writeQueue[c] = <<>> => writes[c] = 0 BY <1>a, <1>b DEF WriteInv
    <3> QED BY <3>1, <2>1, <1>a DEF WriteTypeOK
  <2>6. WriteTypeOK'
    <3>1. Append(writeQueue[c], x) \in Seq(Nat) BY <1>b, <2>3
    <3>2. writes' \in [Conns -> {0, 1}]
      <4>1. CASE writeQueue[c] = <<>>
        <5>1. writes[c] = 0 BY <4>1, <1>a, <1>b DEF WriteInv
        <5> QED BY <4>1, <5>1, <2>1, <1>a DEF WriteTypeOK
      <4> QED BY <4>1, <2>1, <1>a DEF WriteTypeOK
    <3> QED BY <2>1, <2>3, <3>1, <3>2, <1>a DEF WriteTypeOK
  <2>7. /\ Packets(posted[c]) = Packets(posted'[c]) \cup ({x} \ {Ping, Stop})
        /\ Ordered(posted'[c])
        /\ x \notin {Ping, Stop} => \A y \in Packets(posted'[c]) : x < y
    BY <2>1, <2>4, <1>a, <1>b, PacketsPopped DEF WriteInv, x
  <2>8. /\ Packets(writeQueue'[c]) = Packets(writeQueue[c]) \cup ({x} \ {Ping, Stop})
        /\ Ordered(writeQueue'[c])
    <3>1. x \notin {Ping, Stop} => \A y \in Packets(writeQueue[c]) : y < x
      BY <2>7, <1>a DEF WriteInv
    <3> QED BY <3>1, <2>3, <2>4, <1>a, <1>b, PacketsAppended DEF WriteInv
  <2>9. ToWrite(c)' = ToWrite(c) \cup ({x} \ {Ping, Stop})
    <3>0. ToWrite(c)' = IF written'[c] THEN Packets(Tail(writeQueue'[c])) ELSE Packets(writeQueue'[c])
      BY DEF ToWrite
    <3>1. CASE ~written[c] BY <3>0, <3>1, <2>1, <2>8 DEF ToWrite
    <3>2. CASE written[c]
      <4>1. writeQueue[c] # <<>> BY <3>2, <1>a DEF WriteInv
      <4>2. Tail(writeQueue'[c]) = Append(Tail(writeQueue[c]), x)
        BY <4>1, <2>3, <2>4, <1>b, SMTT(30)
      <4>3. Tail(writeQueue[c]) \in Seq(Int) BY <4>1, <1>b
      <4>4. Packets(Append(Tail(writeQueue[c]), x)) = Packets(Tail(writeQueue[c])) \cup ({x} \ {Ping, Stop})
        BY <4>3, <2>3, PacketsAppended
      <4> QED BY <3>0, <3>2, <4>2, <4>4, <2>1 DEF ToWrite
    <3> QED BY <3>1, <3>2, <1>b
  <2>10. WriteInv(c)'
    <3>1. ToWrite(c)' \cup Packets(posted'[c]) = (Len(out'[c]) + 1)..sends'[c]
      BY <2>1, <2>7, <2>9, <1>a DEF WriteInv
    <3>2. \A u \in Packets(writeQueue'[c]), y \in Packets(posted'[c]) : u < y
      BY <2>7, <2>8, <1>a DEF WriteInv
    <3>3. \A u \in Packets(writeQueue'[c]) : u <= sends'[c]
      <4>1. x \notin {Ping, Stop} => x \in (Len(out[c]) + 1)..sends[c] BY <2>7, <1>a DEF WriteInv
      <4> QED BY <4>1, <2>1, <2>8, <1>a, <1>b DEF WriteInv
    <3>4. writeQueue'[c] # <<>>
      <4>1. Len(Append(writeQueue[c], x)) = Len(writeQueue[c]) + 1 /\ Len(writeQueue[c]) \in Nat
        BY <2>3, <1>b
      <4> QED BY <4>1, <2>4
    <3>5. written[c] => writes'[c] = 1 BY <2>5, <1>a DEF WriteInv
    <3> QED BY <2>1, <2>7, <2>8, <3>1, <3>2, <3>3, <3>4, <3>5, <1>a DEF WriteInv
  <2> QED BY <2>2, <2>6, <2>10, <1>a, WriteInvKept DEF WriteIInv
<1>3. ASSUME NEW c \in Conns, RunStop(c) PROVE WriteIInv'
  <2>1. /\ posted[c] # <<>> /\ Head(posted[c]) = Stop
        /\ posted' = [posted EXCEPT ![c] = Tail(posted[c])]
        /\ UNCHANGED <<writeQueue, writes, written, out, sends>>
    BY <1>3, <1>a DEF RunStop, writeVars, WriteTypeOK
  <2>2. \A d \in Conns : d # c => WriteSame(d) BY <2>1, <1>a DEF WriteSame, WriteTypeOK
  <2>3. Tail(posted[c]) \in Seq(Nat \cup {Stop}) /\ posted'[c] = Tail(posted[c])
    BY <2>1, <1>a, <1>b DEF WriteTypeOK
  <2>4. WriteTypeOK' BY <2>1, <2>3, <1>a DEF WriteTypeOK
  <2>5. Packets(posted'[c]) = Packets(posted[c]) /\ Ordered(posted'[c])
    <3>1. Packets(posted[c]) = Packets(Tail(posted[c])) \cup ({Stop} \ {Ping, Stop})
      BY <2>1, <1>b, PacketsPopped
    <3>2. Ordered(Tail(posted[c])) BY <2>1, <1>a, <1>b, PacketsPopped DEF WriteInv
    <3> QED BY <2>3, <3>1, <3>2
  <2>6. ToWrite(c)' = ToWrite(c) BY <2>1 DEF ToWrite
  <2>7. WriteInv(c)' BY <2>1, <2>5, <2>6, <1>a DEF WriteInv
  <2> QED BY <2>2, <2>4, <2>7, <1>a, WriteInvKept DEF WriteIInv
<1>4. ASSUME NEW c \in Conns, WriteReady(c) PROVE WriteIInv'
  <2> DEFINE x == Head(writeQueue[c])
  <2>1. /\ writes[c] > 0 /\ ~written[c]
        /\ written' = [written EXCEPT ![c] = TRUE]
        /\ out' = IF x = Ping THEN out ELSE [out EXCEPT ![c] = Append(out[c], x)]
        /\ UNCHANGED <<posted, writeQueue, writes, sends>>
    BY <1>4, <1>a DEF WriteReady, WriteTypeOK
  <2>2. \A d \in Conns : d # c => WriteSame(d) BY <2>1, <1>a DEF WriteSame, WriteTypeOK
  <2>3. writes[c] = 1 /\ writeQueue[c] # <<>> BY <2>1, <1>a, <1>b DEF WriteInv
  <2>4. x \in Nat /\ x # Stop /\ x \in Int BY <2>3, <1>b
  <2>5. /\ Packets(writeQueue[c]) = Packets(Tail(writeQueue[c])) \cup ({x} \ {Ping, Stop})
        /\ x # Ping => \A y \in Packets(Tail(writeQueue[c])) : x < y
    BY <2>3, <2>4, <1>a, <1>b, PacketsPopped DEF WriteInv
  <2> HIDE DEF x
  <2>6. ToWrite(c)' = Packets(Tail(writeQueue[c])) /\ written'[c]
    BY <2>1, <1>a DEF ToWrite, WriteTypeOK
  <2>7. WriteTypeOK'
    <3>1. Append(out[c], x) \in Seq(Nat) BY <2>4, <1>b
    <3> QED BY <2>1, <3>1, <1>a DEF WriteTypeOK
  <2>8. ToWrite(c) = Packets(writeQueue[c]) BY <2>1 DEF ToWrite
  <2>9. CASE x = Ping
    <3>1. ToWrite(c)' = ToWrite(c) BY <2>5, <2>6, <2>8, <2>9
    <3>2. WriteInv(c)' BY <2>1, <2>3, <2>9, <3>1, <1>a DEF WriteInv
    <3> QED BY <2>2, <2>7, <3>2, <1>a, WriteInvKept DEF WriteIInv
  <2>10. CASE x # Ping
    <3> DEFINE R == Packets(Tail(writeQueue[c])) \cup Packets(posted[c])
    <3>1. {x} \cup R = (Len(out[c]) + 1)..sends[c]
      BY <2>4, <2>5, <2>8, <2>10, <1>a DEF WriteInv
    <3>2. \A y \in R : x < y BY <2>4, <2>5, <2>10, <1>a DEF WriteInv
    <3>3. x \notin R BY <3>2, <2>4
    <3> HIDE DEF R
    <3>4. x = Len(out[c]) + 1 /\ R = (Len(out[c]) + 2)..sends[c] /\ Len(out[c]) + 1 <= sends[c]
      BY <3>1, <3>2, <3>3, <2>4, <1>b, FirstOfRange
    <3>5. out'[c] = Append(out[c], x) BY <2>1, <2>10, <1>a DEF WriteTypeOK
    <3>6. Len(out'[c]) = Len(out[c]) + 1 /\ \A n \in 1..Len(out'[c]) : out'[c][n] = n
      BY <3>4, <3>5, <2>4, <1>a, <1>b DEF WriteInv
    <3>7. ToWrite(c)' \cup Packets(posted'[c]) = (Len(out'[c]) + 1)..sends'[c]
      <4>1. (Len(out[c]) + 1) + 1 = Len(out[c]) + 2 BY <1>b
      <4> QED BY <4>1, <2>1, <2>6, <3>4, <3>6 DEF R
    <3>8. WriteInv(c)' BY <2>1, <2>3, <3>4, <3>6, <3>7, <1>a DEF WriteInv
    <3> QED BY <2>2, <2>7, <3>8, <1>a, WriteInvKept DEF WriteIInv
  <2> QED BY <2>9, <2>10
<1>5. ASSUME NEW c \in Conns, WriteHandler(c) PROVE WriteIInv'
  <2> DEFINE q == Tail(writeQueue[c])
  <2>1. /\ writes[c] > 0 /\ written[c]
        /\ written' = [written EXCEPT ![c] = FALSE]
        /\ writeQueue' = [writeQueue EXCEPT ![c] = q]
        /\ writes' = IF q = <<>> THEN [writes EXCEPT ![c] = writes[c] - 1] ELSE writes
        /\ UNCHANGED <<posted, sends, out>>
    BY <1>5, <1>a DEF WriteHandler, WriteTypeOK
  <2>2. \A d \in Conns : d # c => WriteSame(d) BY <2>1, <1>a DEF WriteSame, WriteTypeOK
  <2>3. writes[c] = 1 /\ writeQueue[c] # <<>> BY <2>1, <1>a, <1>b DEF WriteInv
  <2>4. q \in Seq(Nat) BY <2>3, <1>b
  <2>5. Packets(q) \subseteq Packets(writeQueue[c]) /\ Ordered(q)
    BY <2>3, <1>a, <1>b, PacketsPopped DEF WriteInv
  <2>6. ToWrite(c) = Packets(q) BY <2>1 DEF ToWrite
  <2> HIDE DEF q
  <2>7. WriteTypeOK'
    <3>1. writes' \in [Conns -> {0, 1}] BY <2>1, <2>3, <1>a DEF WriteTypeOK
    <3> QED BY <2>1, <2>4, <3>1, <1>a DEF WriteTypeOK
  <2>8. writeQueue'[c] = q /\ ~written'[c] /\ (writes'[c] = 1 => q # <<>>)
    BY <2>1, <2>3, <1>a DEF WriteTypeOK
  <2>9. ToWrite(c)' = ToWrite(c) BY <2>6, <2>8 DEF ToWrite
  <2>10. WriteInv(c)' BY <2>1, <2>5, <2>8, <2>9, <1>a DEF WriteInv
  <2> QED BY <2>2, <2>7, <2>10, <1>a, WriteInvKept DEF WriteIInv
<1>6. ASSUME NEW c \in Conns, WriteFails(c) PROVE WriteIInv'
  <2>1. /\ writes[c] > 0 /\ ~written[c] /\ writes' = [writes EXCEPT ![c] = writes[c] - 1]
        /\ UNCHANGED <<posted, writeQueue, written, sends, out>>
    BY <1>6, <1>a DEF WriteFails, WriteTypeOK
  <2>2. \A d \in Conns : d # c => WriteSame(d) BY <2>1, <1>a DEF WriteSame, WriteTypeOK
  <2>3. writes[c] = 1 BY <2>1, <1>b
  <2>4. WriteTypeOK' /\ writes'[c] = 0 BY <2>1, <2>3, <1>a DEF WriteTypeOK
  <2>5. ToWrite(c)' = ToWrite(c) BY <2>1 DEF ToWrite
  <2>6. WriteInv(c)' BY <2>1, <2>4, <2>5, <1>a DEF WriteInv
  <2> QED BY <2>2, <2>4, <2>6, <1>a, WriteInvKept DEF WriteIInv
<1>7. CASE Heartbeat
  <2>1. posted' = [c \in Conns |-> posted[c] \o BeatPosts(c)]
        /\ UNCHANGED <<writeQueue, writes, written, sends, out>>
    BY <1>7 DEF Heartbeat, writeVars
  <2>2. ASSUME NEW c \in Conns
        PROVE  /\ posted'[c] \in Seq(Nat \cup {Stop}) /\ Packets(posted'[c]) = Packets(posted[c])
               /\ Ordered(posted'[c])
    <3>1. BeatPosts(c) \in {<<>>, <<Ping>>, <<Stop>>} BY DEF BeatPosts
    <3>2. CASE BeatPosts(c) = <<>>
      <4>1. posted'[c] = posted[c] BY <2>1, <3>2, <1>b, ConcatEmptySeq
      <4> QED BY <4>1, <1>a, <1>b DEF WriteInv
    <3>3. CASE BeatPosts(c) # <<>>
      <4>1. PICK x \in {Ping, Stop} : BeatPosts(c) = <<x>> BY <3>1, <3>3
      <4>2. posted'[c] = Append(posted[c], x)
        <5>1. x \in Nat \cup {Stop} /\ posted[c] \in Seq(Nat \cup {Stop}) BY <1>b
        <5>2. Append(posted[c], x) = posted[c] \o <<x>> BY <5>1, AppendIsConcat
        <5> QED BY <5>2, <2>1, <4>1
      <4>3. Append(posted[c], x) \in Seq(Nat \cup {Stop}) BY <1>b
      <4>4. x \in Int /\ {x} \ {Ping, Stop} = {} OBVIOUS
      <4>5. Packets(Append(posted[c], x)) = Packets(posted[c]) \cup ({x} \ {Ping, Stop})
            /\ Ordered(Append(posted[c], x))
        BY <4>4, <1>a, <1>b, PacketsAppended DEF WriteInv
      <4> QED BY <4>2, <4>3, <4>4, <4>5
    <3> QED BY <3>2, <3>3
  <2>3. WriteTypeOK'
    <3>1. posted' \in [Conns -> Seq(Nat \cup {Stop})] BY <2>1, <2>2
    <3> QED BY <2>1, <3>1, <1>a DEF WriteTypeOK
  <2>4. ASSUME NEW c \in Conns PROVE WriteInv(c)'
    <3>1. ToWrite(c)' = ToWrite(c) BY <2>1 DEF ToWrite
    <3> QED BY <2>1, <2>2, <3>1, <1>a DEF WriteInv
  <2> QED BY <2>3, <2>4 DEF WriteIInv
<1>8. ASSUME NEW c \in Conns,
             Accept(c) \/ ReadSide(c) \/ PeerSide(c)
      PROVE  UNCHANGED <<posted, writeQueue, writes, written, sends, out>>
  BY <1>8 DEF Accept, Connect, ReadSide, Reading, ReadReady, ReadHandler, ParseIncomplete, Receive,
       ParseFrame, ReadCloses, ReadFails, ParseReject, PeerSide, Peer, PeerSend, PeerClose, writeVars
<1>9. ASSUME NEW w \in Senders, SinkCopy(w) \/ PostHeartbeat \/ Tick \/ UNCHANGED allVars
      PROVE  UNCHANGED <<posted, writeQueue, writes, written, sends, out>>
  BY <1>9 DEF SinkCopy, PostHeartbeat, Tick, connVars, writeVars, allVars
<1>10. PostHeartbeat \/ Tick \/ UNCHANGED allVars
       => UNCHANGED <<posted, writeQueue, writes, written, sends, out>>
  BY DEF PostHeartbeat, Tick, connVars, writeVars, allVars
<1>11. ASSUME NEW w \in Senders, NEW c \in Conns, SinkSend(w, c) PROVE SendPacket(c)
  BY <1>11 DEF SinkSend
<1> QED BY <1>1, <1>2, <1>3, <1>4, <1>5, <1>6, <1>7, <1>8, <1>9, <1>10, <1>11, <1>c
     DEF Next, PostSide, Posted, WriteSide, Writing, WriteCloses

-----------------------------------------------------------------------------
(* The invariant of the sessions. *)

LEMMA SessionInit == Init => SessionIInv
<1> SUFFICES ASSUME Init PROVE SessionIInv OBVIOUS
<1>1. SessionTypeOK BY DEF Init, ConnInit, SessionTypeOK
<1>2. SessionInv BY TcpConnectionAssumption DEF Init, ConnInit, SessionInv
<1>3. SessionsHaveSockets BY DEF Init, ConnInit, SessionsHaveSockets
<1> QED BY <1>1, <1>2, <1>3 DEF SessionIInv

LEMMA StoppingAppended ==
    ASSUME NEW S, NEW q \in Seq(S), NEW x \in S
    PROVE  (\E n \in 1..Len(Append(q, x)) : Append(q, x)[n] = Stop)
           <=> (x = Stop \/ \E n \in 1..Len(q) : q[n] = Stop)
<1>1. /\ Len(Append(q, x)) = Len(q) + 1 /\ Len(q) \in Nat
      /\ \A n \in 1..(Len(q) + 1) : Append(q, x)[n] = IF n = Len(q) + 1 THEN x ELSE q[n]
  OBVIOUS
<1>2. Len(q) + 1 \in 1..(Len(q) + 1) /\ \A n \in 1..Len(q) : n \in 1..(Len(q) + 1) /\ n # Len(q) + 1
  BY <1>1
<1>3. \A n \in 1..(Len(q) + 1) : n # Len(q) + 1 => n \in 1..Len(q) BY <1>1
<1> QED BY <1>1, <1>2, <1>3, Zenon

LEMMA StoppingPopped ==
    ASSUME NEW S, NEW q \in Seq(S), q # <<>>
    PROVE  (\E n \in 1..Len(q) : q[n] = Stop)
           <=> (Head(q) = Stop \/ \E n \in 1..Len(Tail(q)) : Tail(q)[n] = Stop)
<1>1. /\ Len(q) \in Nat /\ Len(q) >= 1 /\ Len(Tail(q)) = Len(q) - 1 /\ Head(q) = q[1]
      /\ \A n \in 1..(Len(q) - 1) : Tail(q)[n] = q[n + 1]
  OBVIOUS
<1>2. ASSUME NEW n \in 1..Len(q), q[n] = Stop
      PROVE  Head(q) = Stop \/ \E k \in 1..Len(Tail(q)) : Tail(q)[k] = Stop
  <2>1. n # 1 => n - 1 \in 1..Len(Tail(q)) /\ Tail(q)[n - 1] = q[n] BY <1>1
  <2> QED BY <1>1, <1>2, <2>1
<1>3. ASSUME NEW k \in 1..Len(Tail(q)), Tail(q)[k] = Stop PROVE \E n \in 1..Len(q) : q[n] = Stop
  <2>1. k + 1 \in 1..Len(q) /\ q[k + 1] = Stop BY <1>1, <1>3
  <2> QED BY <2>1
<1>4. 1 \in 1..Len(q) BY <1>1
<1> QED BY <1>1, <1>2, <1>3, <1>4

\* The handlers that close a socket take its session with them.
LEMMA ClosingKeepsSessions ==
    ASSUME ReadTypeOK, SessionIInv, NEW c \in Conns,
           NEW r \in {"none", "pending"}, rd' = [rd EXCEPT ![c] = r] \/ rd' = rd,
           (io' = io /\ io = Idle) \/ (io = c /\ io' = Idle),
           Closed(c), RemoveSession(c), posted' = posted
    PROVE  SessionIInv'
<1>a. SessionTypeOK /\ SessionInv /\ SessionsHaveSockets BY DEF SessionIInv
<1>1. /\ ~open'[c] /\ (rd'[c] = "new" => rd[c] = "new")
      /\ \A d \in Conns : d # c => open'[d] = open[d] /\ rd'[d] = rd[d]
      /\ sessions' = sessions \ {c} /\ connections' = connections \ {c}
  BY <1>a DEF Closed, RemoveSession, SessionTypeOK, ReadTypeOK
<1>2. SessionTypeOK' BY <1>a DEF SessionTypeOK, Closed, RemoveSession
<1>3. \A d \in Conns : Stopping(d)' <=> Stopping(d) BY DEF Stopping
<1>4. SessionInv'
  <2>1. \A d \in Conns : io' # d BY TcpConnectionAssumption
  <2>2. connections' = sessions' BY <1>a, <1>1 DEF SessionInv
  <2>3. \A d \in sessions' : ~Stopping(d)' BY <1>a, <1>1, <1>3 DEF SessionInv, SessionTypeOK
  <2>4. \A d \in Conns : rd'[d] = "new" => ~open'[d] /\ d \notin sessions' /\ posted'[d] = <<>>
    BY <1>a, <1>1 DEF SessionInv
  <2> QED BY <2>1, <2>2, <2>3, <2>4 DEF SessionInv
<1>5. SessionsHaveSockets'
  <2>1. \A d \in sessions : d \in Conns BY <1>a DEF SessionTypeOK
  <2> QED BY <1>a, <1>1, <1>3, <2>1 DEF SessionsHaveSockets, Stopping
<1> QED BY <1>2, <1>4, <1>5 DEF SessionIInv

LEMMA SessionStep ==
    ASSUME ReadTypeOK, WriteTypeOK, SessionIInv, [Next]_allVars
    PROVE  SessionIInv'
<1>a. SessionTypeOK /\ SessionInv /\ SessionsHaveSockets BY DEF SessionIInv
<1>b. /\ open \in [Conns -> BOOLEAN] /\ sessions \subseteq Conns
      /\ rd \in [Conns -> {"new", "pending", "ready", "none"}]
      /\ posted \in [Conns -> Seq(Nat \cup {Stop})]
      /\ connections = sessions
  BY <1>a DEF SessionTypeOK, ReadTypeOK, WriteTypeOK, SessionInv
<1>c. ASSUME UNCHANGED <<open, posted, sessions, connections>>, NEW c \in Conns,
             \/ UNCHANGED <<rd, io>>
             \/ /\ rd[c] = "pending" /\ rd' = [rd EXCEPT ![c] = "ready"] /\ io' = io
             \/ /\ io = Idle /\ rd[c] = "ready" /\ rd' = [rd EXCEPT ![c] = "none"] /\ io' = c
             \/ /\ io = c /\ rd' = [rd EXCEPT ![c] = "pending"] /\ io' = Idle
      PROVE  SessionIInv'
  <2>0. io = c => rd[c] = "none" BY <1>a DEF SessionInv
  <2>1. \A d \in Conns : /\ rd'[d] = "new" <=> rd[d] = "new"
                         /\ io' = d => rd'[d] = "none"
                         /\ Stopping(d)' <=> Stopping(d)
    BY <1>a, <1>b, <1>c, <2>0, TcpConnectionAssumption DEF Stopping, SessionInv
  <2>2. SessionTypeOK' /\ SessionInv'
    BY <1>a, <1>b, <1>c, <2>1 DEF SessionTypeOK, SessionInv
  <2>3. ASSUME NEW d \in sessions PROVE open'[d] /\ (rd'[d] \in {"pending", "ready"} \/ io' = d)
    <3>1. d \in Conns /\ open[d] /\ (rd[d] \in {"pending", "ready"} \/ io = d)
      BY <1>a, <1>b DEF SessionsHaveSockets
    <3> QED BY <3>1, <1>b, <1>c, TcpConnectionAssumption
  <2>4. SessionsHaveSockets' BY <1>a, <1>c, <2>1, <2>3 DEF SessionsHaveSockets, Stopping
  <2> QED BY <2>2, <2>4 DEF SessionIInv
<1>1. ASSUME NEW c \in Conns, Accept(c) PROVE SessionIInv'
  <2>1. /\ rd[c] = "new" /\ io = Idle
        /\ open' = [open EXCEPT ![c] = TRUE] /\ rd' = [rd EXCEPT ![c] = "pending"]
        /\ sessions' = sessions \cup {c} /\ connections' = connections \cup {c}
        /\ io' = io /\ posted' = posted
    BY <1>1 DEF Accept, Connect
  <2>2. posted[c] = <<>> /\ ~Stopping(c) BY <2>1, <1>a DEF SessionInv, Stopping
  <2>3. \A d \in Conns : Stopping(d)' <=> Stopping(d) BY <2>1 DEF Stopping
  <2>4. SessionTypeOK' BY <2>1, <1>b DEF SessionTypeOK
  <2>5. SessionInv' BY <2>1, <2>2, <2>3, <1>a, <1>b DEF SessionInv
  <2>6. SessionsHaveSockets' BY <2>1, <2>3, <1>a, <1>b DEF SessionsHaveSockets, Stopping
  <2> QED BY <2>4, <2>5, <2>6 DEF SessionIInv
<1>2. ASSUME NEW c \in Conns, ReadSide(c) PROVE SessionIInv'
  <2>1. CASE Reading(c) /\ UNCHANGED serverVars
    <3>1. UNCHANGED <<open, posted, sessions, connections>>
      BY <2>1 DEF Reading, ReadReady, ReadHandler, ParseIncomplete, serverVars
    <3>2. CASE \E k \in 1..Len(wire[c]) : ReadReady(c, k) BY <3>1, <3>2, <1>c DEF ReadReady
    <3>3. CASE ReadHandler(c) BY <3>1, <3>3, <1>c DEF ReadHandler
    <3>4. CASE ParseIncomplete(c) BY <3>1, <3>4, <1>c DEF ParseIncomplete, ReadAgain
    <3> QED BY <2>1, <3>2, <3>3, <3>4 DEF Reading
  <2>2. CASE Receive(c)
    <3>1. UNCHANGED <<open, posted, sessions, connections, rd, io>> BY <2>2 DEF Receive, ParseFrame
    <3> QED BY <3>1, <1>c
  <2>3. CASE ReadCloses(c) /\ Disconnects(c)
    <3>1. RemoveSession(c) /\ Closed(c) /\ posted' = posted
      BY <2>3 DEF Disconnects, ReadCloses, ReadFails, ParseReject
    <3>2. CASE ReadFails(c) BY <3>1, <3>2, ClosingKeepsSessions DEF ReadFails
    <3>3. CASE ParseReject(c) BY <3>1, <3>3, ClosingKeepsSessions DEF ParseReject, ReadAgain
    <3> QED BY <2>3, <3>2, <3>3 DEF ReadCloses
  <2> QED BY <1>2, <2>1, <2>2, <2>3 DEF ReadSide
<1>3. ASSUME NEW c \in Conns, PostSide(c) PROVE SessionIInv'
  <2>1. /\ posted[c] # <<>> /\ posted' = [posted EXCEPT ![c] = Tail(posted[c])]
        /\ UNCHANGED <<rd, io, sessions, connections>>
    BY <1>3, <1>b DEF PostSide, Posted, RunSend, RunStop, serverVars, readVars
  <2>2. /\ \A d \in Conns : d # c => posted'[d] = posted[d]
        /\ posted'[c] = Tail(posted[c]) /\ posted[c] \in Seq(Nat \cup {Stop})
    BY <2>1, <1>b
  <2>3. \A d \in Conns : d # c => (Stopping(d)' <=> Stopping(d)) BY <2>2 DEF Stopping
  <2>4. Stopping(c) <=> (Head(posted[c]) = Stop \/ Stopping(c)')
    <3>1. (\E n \in 1..Len(posted[c]) : posted[c][n] = Stop)
          <=> (Head(posted[c]) = Stop \/ \E n \in 1..Len(Tail(posted[c])) : Tail(posted[c])[n] = Stop)
      BY <2>1, <2>2, StoppingPopped
    <3> QED BY <2>2, <3>1, Zenon DEF Stopping
  <2>5. rd[c] # "new" BY <2>1, <1>a DEF SessionInv
  <2>6. CASE RunSend(c)
    <3>1. open' = open /\ Head(posted[c]) # Stop BY <2>6 DEF RunSend
    <3>2. \A d \in Conns : Stopping(d)' <=> Stopping(d) BY <3>1, <2>3, <2>4
    <3>3. SessionTypeOK' BY <2>1, <3>1, <1>b DEF SessionTypeOK
    <3>4. SessionInv' BY <2>1, <2>2, <2>5, <3>1, <3>2, <1>a, <1>b DEF SessionInv
    <3>5. SessionsHaveSockets'
      BY <2>1, <3>1, <3>2, <1>a, <1>b DEF SessionsHaveSockets, Stopping
    <3> QED BY <3>3, <3>4, <3>5 DEF SessionIInv
  <2>7. CASE RunStop(c)
    <3>1. open' = [open EXCEPT ![c] = FALSE] /\ Head(posted[c]) = Stop BY <2>7 DEF RunStop, Closed
    <3>2. ~open'[c] /\ \A d \in Conns : d # c => open'[d] = open[d] BY <3>1, <1>b
    <3>3. c \notin sessions BY <3>1, <2>4, <1>a DEF SessionInv
    <3>4. SessionTypeOK' BY <2>1, <3>1, <1>b DEF SessionTypeOK
    <3>5. SessionInv' BY <2>1, <2>2, <2>3, <2>5, <3>2, <3>3, <1>a, <1>b DEF SessionInv
    <3>6. SessionsHaveSockets'
      BY <2>1, <2>2, <2>3, <3>2, <3>3, <1>a, <1>b DEF SessionsHaveSockets, Stopping
    <3> QED BY <3>4, <3>5, <3>6 DEF SessionIInv
  <2> QED BY <1>3, <2>6, <2>7 DEF PostSide, Posted
<1>4. ASSUME NEW c \in Conns, WriteSide(c) PROVE SessionIInv'
  <2>1. CASE Writing(c) /\ UNCHANGED serverVars
    <3>1. UNCHANGED <<open, posted, sessions, connections, rd, io>>
      BY <2>1 DEF Writing, WriteReady, WriteHandler, serverVars, readVars
    <3> QED BY <3>1, <1>c
  <2>2. CASE WriteCloses(c) /\ Disconnects(c)
    <3>1. /\ RemoveSession(c) /\ Closed(c) /\ posted' = posted /\ rd' = rd
          /\ io' = io /\ io = Idle
      BY <2>2 DEF Disconnects, WriteCloses, WriteFails, readVars
    <3> QED BY <3>1, ClosingKeepsSessions
  <2> QED BY <1>4, <2>1, <2>2 DEF WriteSide
<1>5. ASSUME NEW c \in Conns, PeerSide(c) PROVE SessionIInv'
  <2>1. UNCHANGED <<open, posted, sessions, connections, rd, io>>
    BY <1>5 DEF PeerSide, Peer, PeerSend, PeerClose, serverVars, readVars
  <2> QED BY <2>1, <1>c
<1>6. ASSUME NEW w \in Senders, NEW c \in Conns, SinkSend(w, c) PROVE SessionIInv'
  <2>1. /\ rd[c] # "new" /\ posted' = [posted EXCEPT ![c] = Append(posted[c], sends[c] + 1)]
        /\ sends[c] \in Nat
        /\ UNCHANGED <<open, rd, io, sessions, connections>>
    BY <1>6, <1>b DEF SinkSend, SendPacket, readVars, WriteTypeOK
  <2>2. /\ \A d \in Conns : d # c => posted'[d] = posted[d]
        /\ posted'[c] = Append(posted[c], sends[c] + 1)
    BY <2>1, <1>b
  <2>3. Stopping(c)' <=> Stopping(c)
    <3>1. sends[c] + 1 \in Nat \cup {Stop} /\ sends[c] + 1 # Stop BY <2>1 DEF Stop
    <3>2. posted[c] \in Seq(Nat \cup {Stop}) BY <1>b
    <3> QED BY <2>2, <3>1, <3>2, StoppingAppended DEF Stopping
  <2>4. \A d \in Conns : Stopping(d)' <=> Stopping(d) BY <2>2, <2>3 DEF Stopping
  <2>5. SessionTypeOK' BY <2>1, <1>b DEF SessionTypeOK
  <2>6. SessionInv' BY <2>1, <2>2, <2>4, <1>a, <1>b DEF SessionInv
  <2>7. SessionsHaveSockets' BY <2>1, <2>4, <1>a, <1>b DEF SessionsHaveSockets, Stopping
  <2> QED BY <2>5, <2>6, <2>7 DEF SessionIInv
<1>7. CASE Heartbeat
  <2>1. /\ sessions' = sessions \ Dropped
        /\ connections' = {c \in connections \ Dropped : open[c]}
        /\ posted' = [c \in Conns |-> posted[c] \o BeatPosts(c)]
        /\ UNCHANGED <<open, rd, io>>
    BY <1>7 DEF Heartbeat, readVars
  <2>2. Dropped \subseteq sessions BY DEF Dropped
  <2>3. connections' = sessions'
    <3>1. \A c \in sessions : open[c] BY <1>a DEF SessionsHaveSockets
    <3> QED BY <2>1, <3>1, <1>b
  <2>4. ASSUME NEW c \in Conns
        PROVE  /\ Stopping(c)' <=> (Stopping(c) \/ c \in Dropped)
               /\ c \notin sessions => posted'[c] = posted[c]
    <3>1. posted[c] \in Seq(Nat \cup {Stop}) BY <1>b
    <3>2. CASE BeatPosts(c) = <<>>
      <4>1. posted'[c] = posted[c] BY <2>1, <3>1, <3>2, ConcatEmptySeq
      <4>2. c \notin Dropped BY <3>2 DEF BeatPosts
      <4> QED BY <4>1, <4>2 DEF Stopping
    <3>3. CASE BeatPosts(c) # <<>>
      <4>1. PICK x \in {Ping, Stop} : BeatPosts(c) = <<x>> /\ (x = Stop <=> c \in Dropped)
        BY <3>3 DEF BeatPosts, Ping, Stop
      <4>2. x \in Nat \cup {Stop} BY DEF Ping, Stop
      <4>3. Append(posted[c], x) = posted[c] \o <<x>> BY <3>1, <4>2, AppendIsConcat
      <4>4. posted'[c] = Append(posted[c], x) BY <2>1, <4>1, <4>3
      <4>5. c \in sessions BY <3>3, <2>2 DEF BeatPosts
      <4> QED BY <3>1, <4>1, <4>2, <4>4, <4>5, StoppingAppended DEF Stopping
    <3> QED BY <3>2, <3>3
  <2>5. SessionTypeOK' BY <2>1, <1>b DEF SessionTypeOK
  <2>6. SessionInv' BY <2>1, <2>2, <2>3, <2>4, <1>a, <1>b DEF SessionInv
  <2>7. SessionsHaveSockets'
    BY <2>1, <2>2, <2>4, <1>a, <1>b DEF SessionsHaveSockets, Stopping
  <2> QED BY <2>5, <2>6, <2>7 DEF SessionIInv
<1>8. ASSUME UNCHANGED <<open, posted, sessions, connections, rd, io>> PROVE SessionIInv'
  <2>1. \A d \in Conns : Stopping(d)' <=> Stopping(d) BY <1>8 DEF Stopping
  <2> QED BY <2>1, <1>8, <1>a DEF SessionIInv, SessionTypeOK, SessionInv, SessionsHaveSockets, Stopping
<1>9. ASSUME NEW w \in Senders, SinkCopy(w)
      PROVE  UNCHANGED <<open, posted, sessions, connections, rd, io>>
  BY <1>9 DEF SinkCopy, connVars, readVars
<1>10. PostHeartbeat \/ Tick \/ UNCHANGED allVars
       => UNCHANGED <<open, posted, sessions, connections, rd, io>>
  BY DEF PostHeartbeat, Tick, connVars, readVars, allVars, serverVars
<1> QED BY <1>1, <1>2, <1>3, <1>4, <1>5, <1>6, <1>7, <1>8, <1>9, <1>10 DEF Next

-----------------------------------------------------------------------------
(* Streams of pieces. *)

LEMMA SizeType == ASSUME NEW kind \in Kinds PROVE Size(kind) \in Nat /\ Size(kind) > 1
BY TcpConnectionAssumption DEF Size

LEMMA PiecesType ==
    ASSUME NEW n \in Nat, NEW kind \in Kinds
    PROVE  /\ Pieces(n, kind) \in Seq(Piece) /\ Len(Pieces(n, kind)) = Size(kind)
           /\ \A p \in 1..Size(kind) : Pieces(n, kind)[p] = [frame |-> n, part |-> p]
<1>1. Size(kind) \in Nat BY SizeType
<1>2. \A p \in 1..Size(kind) : p \in Nat BY <1>1
<1>3. Pieces(n, kind) \in [1..Size(kind) -> Piece] BY <1>2 DEF Pieces, Piece
<1> QED BY <1>1, <1>3 DEF Pieces

\* tryParsePacket() takes the first frame off.
LEMMA FirstFrameTaken ==
    ASSUME NEW s \in Seq(Piece), NEW n \in Nat, NEW sent \in Seq(Kinds),
           s # <<>>, Framed(s, n, sent), Size(sent[n + 1]) <= Len(s)
    PROVE  LET t == SubSeq(s, Size(sent[n + 1]) + 1, Len(s)) IN
           /\ n + 1 \in 1..Len(sent)
           /\ Framed(t, n + 1, sent)
           /\ Complete(s, n, sent) => Complete(t, n + 1, sent)
<1>1. s[1] = [frame |-> n + 1, part |-> 1] BY DEF Framed
<1>2. Len(s) \in Nat /\ 1 \in 1..Len(s) /\ s[1].part = 1 /\ s[1].frame = n + 1 BY <1>1
<1>3. FrameAt(s, 1, sent) BY <1>2 DEF Framed
<1>4. n + 1 \in 1..Len(sent) BY <1>2, <1>3 DEF FrameAt
<1> DEFINE z == Size(sent[n + 1])
           t == SubSeq(s, z + 1, Len(s))
<1>5. z \in Nat /\ z > 1 /\ z <= Len(s) BY <1>4, SizeType
<1> HIDE DEF z
<1>6. /\ t \in Seq(Piece) /\ Len(t) = Len(s) - z /\ Len(t) \in Nat
      /\ \A i \in 1..Len(t) : t[i] = s[i + z] /\ i + z \in 1..Len(s)
  BY <1>5
<1> HIDE DEF t
<1>7. t # <<>> => t[1] = [frame |-> (n + 1) + 1, part |-> 1]
  <2>1. SUFFICES ASSUME t # <<>> PROVE t[1] = [frame |-> (n + 1) + 1, part |-> 1] OBVIOUS
  <2>2. Len(t) > 0 BY <1>6, <2>1, EmptySeq
  <2>3. 1 + z <= Len(s) /\ 1 \in 1..Len(t) BY <2>2, <1>5, <1>6
  <2>4. s[1 + z] = [frame |-> (n + 1) + 1, part |-> 1]
    BY <2>3, <1>2, <1>3 DEF FrameAt, z
  <2> QED BY <2>3, <2>4, <1>6
<1>8. ASSUME NEW i \in 1..Len(t), t[i].part = 1 PROVE FrameAt(t, i, sent)
  <2> DEFINE f == t[i].frame
  <2>1. /\ s[i + z].part = 1 /\ s[i + z].frame = f /\ i + z \in 1..Len(s)
        /\ FrameAt(s, i + z, sent)
    BY <1>6, <1>8 DEF Framed
  <2>2. f \in 1..Len(sent) BY <2>1 DEF FrameAt
  <2>3. Size(sent[f]) \in Nat BY <2>2, SizeType
  <2>4. ASSUME NEW j \in 1..Len(t), i <= j, j < i + Size(sent[f])
        PROVE  t[j] = [frame |-> f, part |-> (j - i) + 1]
    <3>1. j + z \in 1..Len(s) /\ t[j] = s[j + z] /\ i + z <= j + z /\ j + z < (i + z) + Size(sent[f])
      BY <1>5, <1>6, <2>3, <2>4, SMTT(30)
    <3>2. s[j + z] = [frame |-> f, part |-> ((j + z) - (i + z)) + 1]
      BY <3>1, <2>1 DEF FrameAt
    <3>3. (j + z) - (i + z) = j - i BY <1>5
    <3> QED BY <3>1, <3>2, <3>3
  <2>5. ASSUME i + Size(sent[f]) <= Len(t)
        PROVE  t[i + Size(sent[f])] = [frame |-> f + 1, part |-> 1]
    <3>1. i + Size(sent[f]) \in 1..Len(t) BY <2>3, <2>5, <1>6
    <3>2. t[i + Size(sent[f])] = s[(i + Size(sent[f])) + z] BY <3>1, <1>6
    <3>3. (i + Size(sent[f])) + z = (i + z) + Size(sent[f]) /\ (i + z) + Size(sent[f]) <= Len(s)
      BY <1>5, <1>6, <2>3, <2>5
    <3> QED BY <3>2, <3>3, <2>1 DEF FrameAt
  <2> QED BY <2>2, <2>4, <2>5 DEF FrameAt
<1>9. Framed(t, n + 1, sent) BY <1>4, <1>7, <1>8 DEF Framed
<1>10. ASSUME Complete(s, n, sent) PROVE Complete(t, n + 1, sent)
  <2>1. ASSUME t = <<>> PROVE n + 1 = Len(sent)
    <3>1. Len(t) = 0 BY <2>1
    <3>2. 1 + z = Len(s) + 1 BY <3>1, <1>5, <1>6
    <3>3. CompleteAt(s, 1, sent) BY <1>2, <1>10 DEF Complete
    <3> QED BY <3>2, <3>3, <1>2 DEF CompleteAt, z
  <2>2. ASSUME NEW i \in 1..Len(t), t[i].part = 1 PROVE CompleteAt(t, i, sent)
    <3>1. /\ s[i + z].part = 1 /\ s[i + z].frame = t[i].frame /\ i + z \in 1..Len(s)
      BY <1>6, <2>2
    <3>2. CompleteAt(s, i + z, sent) /\ FrameAt(s, i + z, sent) BY <3>1, <1>10 DEF Complete, Framed
    <3>3. Size(sent[t[i].frame]) \in Nat BY <3>1, <3>2, SizeType, SMTT(30) DEF FrameAt
    <3> DEFINE y == Size(sent[t[i].frame])
    <3>4. (i + z) + y <= Len(s) + 1 /\ ((i + z) + y = Len(s) + 1 => t[i].frame = Len(sent))
      BY <3>1, <3>2 DEF CompleteAt
    <3>5. i + y <= Len(t) + 1 /\ (i + y = Len(t) + 1 => (i + z) + y = Len(s) + 1)
      <4> HIDE DEF y
      <4>1. y \in Nat BY <3>3 DEF y
      <4>2. i \in Int /\ z \in Int /\ Len(s) \in Int /\ Len(t) = Len(s) - z BY <1>2, <1>5, <1>6
      <4>3. (i + z) + y <= Len(s) + 1 BY <3>4
      <4> QED BY <4>1, <4>2, <4>3
    <3> QED BY <3>4, <3>5 DEF CompleteAt
  <2> QED BY <2>1, <2>2 DEF Complete
<1> QED BY <1>4, <1>9, <1>10 DEF t, z

\* A connection that is reset loses the end of the stream.
LEMMA PrefixFramed ==
    ASSUME NEW s \in Seq(Piece), NEW t \in Seq(Piece), NEW n \in Nat, NEW sent \in Seq(Kinds),
           Framed(s, n, sent), Len(t) <= Len(s), \A i \in 1..Len(t) : t[i] = s[i]
    PROVE  Framed(t, n, sent)
<1>1. Len(s) \in Nat /\ Len(t) \in Nat /\ \A i \in 1..Len(t) : i \in 1..Len(s) OBVIOUS
<1>2. t # <<>> => t[1] = [frame |-> n + 1, part |-> 1]
  <2>1. t # <<>> => 1 \in 1..Len(t) BY <1>1, EmptySeq
  <2>2. 1 \in 1..Len(s) => s # <<>> BY <1>1
  <2> QED BY <2>1, <2>2, <1>1 DEF Framed
<1>3. ASSUME NEW i \in 1..Len(t), t[i].part = 1 PROVE FrameAt(t, i, sent)
  <2>1. t[i] = s[i] /\ FrameAt(s, i, sent) BY <1>1, <1>3 DEF Framed
  <2>2. s[i].frame \in 1..Len(sent) BY <2>1 DEF FrameAt
  <2>3. Size(sent[s[i].frame]) \in Nat BY <2>2, SizeType
  <2>4. i + Size(sent[s[i].frame]) <= Len(t) => i + Size(sent[s[i].frame]) \in 1..Len(t)
    BY <1>1, <2>3
  <2> QED BY <2>1, <2>2, <2>3, <2>4, <1>1, SMTT(30) DEF FrameAt
<1> QED BY <1>2, <1>3 DEF Framed

\* The peer sends another frame.
LEMMA FrameAppended ==
    ASSUME NEW s \in Seq(Piece), NEW n \in Nat, NEW sent \in Seq(Kinds), NEW kind \in Kinds,
           Framed(s, n, sent), Complete(s, n, sent)
    PROVE  LET t == s \o Pieces(Len(sent) + 1, kind)
               more == Append(sent, kind)
           IN  Framed(t, n, more) /\ Complete(t, n, more)
<1> DEFINE k == Len(sent) + 1
           p == Pieces(k, kind)
           t == s \o p
           more == Append(sent, kind)
           z == Size(kind)
<1>1. k \in Nat /\ z \in Nat /\ z > 1 /\ Len(s) \in Nat BY SizeType
<1>2. p \in Seq(Piece) /\ Len(p) = z /\ \A i \in 1..z : p[i] = [frame |-> k, part |-> i]
  BY <1>1, PiecesType
<1>3. more \in Seq(Kinds) /\ Len(more) = k /\ more[k] = kind /\ \A f \in 1..Len(sent) : more[f] = sent[f]
  OBVIOUS
<1>k. k = Len(sent) + 1 /\ Len(sent) \in Nat OBVIOUS
<1> HIDE DEF p, k, z, more
<1>4. /\ t \in Seq(Piece) /\ Len(t) = Len(s) + z
      /\ \A i \in 1..Len(s) : t[i] = s[i]
      /\ \A i \in 1..z : t[Len(s) + i] = [frame |-> k, part |-> i]
  <2>1. t \in Seq(Piece) /\ Len(t) = Len(s) + Len(p) BY <1>2, ConcatProperties
  <2>2. \A i \in 1..Len(s) : t[i] = s[i] BY <1>1, <1>2, ConcatProperties
  <2>3. ASSUME NEW i \in 1..Len(p) PROVE t[Len(s) + i] = p[i]
    <3>1. Len(s) + i \in 1..(Len(s) + Len(p)) /\ Len(s) + i > Len(s) /\ (Len(s) + i) - Len(s) = i
      BY <1>1, <1>2
    <3> QED BY <3>1, <1>2, ConcatProperties
  <2> QED BY <2>1, <2>2, <2>3, <1>2
<1> HIDE DEF t
<1>5. t # <<>> => t[1] = [frame |-> n + 1, part |-> 1]
  <2>1. CASE s = <<>>
    <3>1. Len(s) = 0 /\ n = Len(sent) BY <2>1 DEF Complete
    <3>2. t[1] = [frame |-> k, part |-> 1]
      <4>1. 1 \in 1..z /\ Len(s) + 1 = 1 BY <1>1, <3>1
      <4> QED BY <4>1, <1>4
    <3> QED BY <3>1, <3>2, <1>k
  <2>2. CASE s # <<>>
    <3>1. 1 \in 1..Len(s) BY <2>2, <1>1, EmptySeq
    <3> QED BY <2>2, <3>1, <1>4 DEF Framed
  <2> QED BY <2>1, <2>2
<1>6. ASSUME NEW i \in 1..Len(s), s[i].part = 1
      PROVE  FrameAt(t, i, more) /\ CompleteAt(t, i, more)
  <2> DEFINE f == s[i].frame
             y == Size(sent[f])
  <2>1. FrameAt(s, i, sent) /\ CompleteAt(s, i, sent) BY <1>6 DEF Framed, Complete
  <2>2. f \in 1..Len(sent) /\ t[i] = s[i] /\ t[i].frame = f BY <2>1, <1>4 DEF FrameAt
  <2>3. y \in Nat /\ y > 1 /\ more[f] = sent[f] /\ f \in 1..Len(more) BY <2>2, <1>1, <1>3, <1>k, SizeType, SMTT(30)
  <2>4. i + y <= Len(s) + 1 /\ (i + y = Len(s) + 1 => f = Len(sent)) BY <2>1 DEF CompleteAt
  <2>5. /\ \A j \in 1..Len(s) : i <= j /\ j < i + y => s[j] = [frame |-> f, part |-> (j - i) + 1]
        /\ i + y <= Len(s) => s[i + y] = [frame |-> f + 1, part |-> 1]
    BY <2>1 DEF FrameAt
  <2> HIDE DEF f, y
  <2>6. ASSUME NEW j \in 1..Len(t), i <= j, j < i + y
        PROVE  t[j] = [frame |-> f, part |-> (j - i) + 1]
    <3>1. j \in 1..Len(s) BY <2>3, <2>4, <2>6, <1>1, <1>4
    <3> QED BY <3>1, <2>5, <2>6, <1>4
  <2>7. t[i + y] = [frame |-> f + 1, part |-> 1]
    <3>1. CASE i + y = Len(s) + 1
      <4>1. 1 \in 1..z BY <1>1
      <4> QED BY <3>1, <4>1, <2>4, <1>4, <1>k
    <3>2. CASE i + y # Len(s) + 1
      <4>1. i + y \in 1..Len(s) BY <3>2, <2>3, <2>4, <1>1
      <4> QED BY <4>1, <2>5, <1>4
    <3> QED BY <3>1, <3>2
  <2>8. Size(more[t[i].frame]) = y BY <2>2, <2>3 DEF y
  <2>9. FrameAt(t, i, more) BY <2>2, <2>3, <2>6, <2>7, <2>8 DEF FrameAt
  <2>10. i + y < Len(t) + 1 BY <2>3, <2>4, <1>1, <1>4
  <2> QED BY <2>8, <2>9, <2>10, <2>3, <1>1, <1>4 DEF CompleteAt
<1>7. ASSUME NEW i \in 1..Len(t), i > Len(s), t[i].part = 1
      PROVE  FrameAt(t, i, more) /\ CompleteAt(t, i, more)
  <2>1. i - Len(s) \in 1..z /\ i = Len(s) + (i - Len(s)) BY <1>1, <1>4, <1>7
  <2>2. t[i] = [frame |-> k, part |-> i - Len(s)] BY <2>1, <1>4
  <2>3. i = Len(s) + 1 /\ t[i].frame = k
    <3>1. i - Len(s) = 1 BY <2>2, <1>7
    <3> QED BY <3>1, <2>2, <1>1
  <2>4. ASSUME NEW j \in 1..Len(t), i <= j PROVE t[j] = [frame |-> k, part |-> (j - i) + 1]
    <3>1. j - Len(s) \in 1..z /\ j = Len(s) + (j - Len(s)) /\ j - Len(s) = (j - i) + 1
      BY <2>3, <2>4, <1>1, <1>4
    <3> QED BY <3>1, <1>4
  <2>5. k \in 1..Len(more) /\ Size(more[k]) = z BY <1>3, <1>k DEF z
  <2>6. i + z = Len(t) + 1 BY <2>3, <1>1, <1>4
  <2>7. FrameAt(t, i, more) BY <2>3, <2>4, <2>5, <2>6, <1>1, <1>4 DEF FrameAt
  <2> QED BY <2>3, <2>5, <2>6, <2>7, <1>1, <1>3, <1>4 DEF CompleteAt
<1>8. ASSUME NEW i \in 1..Len(t), t[i].part = 1 PROVE FrameAt(t, i, more) /\ CompleteAt(t, i, more)
  <2>1. CASE i > Len(s) BY <2>1, <1>7, <1>8
  <2>2. CASE ~(i > Len(s))
    <3>1. i \in 1..Len(s) BY <2>2, <1>1, <1>4
    <3> QED BY <3>1, <1>4, <1>6, <1>8
  <2> QED BY <2>1, <2>2
<1>9. t # <<>>
  <2>1. Len(t) > 0 BY <1>1, <1>4
  <2> QED BY <2>1
<1>10. n <= Len(more) BY <1>3, <1>k DEF Framed
<1>11. Framed(t, n, more) BY <1>5, <1>8, <1>10 DEF Framed
<1>12. Complete(t, n, more) BY <1>8, <1>9 DEF Complete
<1> QED BY <1>11, <1>12 DEF t, more, k, p

-----------------------------------------------------------------------------
(* The invariant of the readers. *)

\* Cutting a sequence off at the front, before another is appended or after.
LEMMA CutAtFront ==
    ASSUME NEW S, NEW a \in Seq(S), NEW b \in Seq(S), NEW z \in Nat, z <= Len(a)
    PROVE  SubSeq(a \o b, z + 1, Len(a \o b)) = SubSeq(a, z + 1, Len(a)) \o b
<1> DEFINE l == SubSeq(a \o b, z + 1, Len(a \o b))
           m == SubSeq(a, z + 1, Len(a))
           r == m \o b
<1>1. /\ a \o b \in Seq(S) /\ Len(a \o b) = Len(a) + Len(b) /\ Len(a) \in Nat /\ Len(b) \in Nat
      /\ \A i \in 1..(Len(a) + Len(b)) : (a \o b)[i] = IF i <= Len(a) THEN a[i] ELSE b[i - Len(a)]
  BY ConcatProperties
<1>2. m \in Seq(S) /\ Len(m) = Len(a) - z /\ \A i \in 1..(Len(a) - z) : m[i] = a[i + z]
  BY <1>1
<1>3. l \in Seq(S) /\ Len(l) = (Len(a) + Len(b)) - z
      /\ \A i \in 1..((Len(a) + Len(b)) - z) : l[i] = (a \o b)[i + z]
  BY <1>1
<1> HIDE DEF l, m
<1>4. /\ r \in Seq(S) /\ Len(r) = Len(m) + Len(b)
      /\ \A i \in 1..(Len(m) + Len(b)) : r[i] = IF i <= Len(m) THEN m[i] ELSE b[i - Len(m)]
  BY <1>2, ConcatProperties
<1> HIDE DEF r
<1>5. Len(l) = Len(r) BY <1>1, <1>2, <1>3, <1>4
<1>6. ASSUME NEW i \in 1..Len(l) PROVE l[i] = r[i]
  <2>1. i + z \in 1..(Len(a) + Len(b)) /\ l[i] = (a \o b)[i + z] BY <1>1, <1>3
  <2>2. CASE i <= Len(m)
    <3>1. i + z <= Len(a) /\ i \in 1..(Len(a) - z) /\ i \in 1..(Len(m) + Len(b)) BY <2>2, <1>1, <1>2, <1>3
    <3> QED BY <2>1, <2>2, <3>1, <1>1, <1>2, <1>4
  <2>3. CASE ~(i <= Len(m))
    <3>1. ~(i + z <= Len(a)) /\ (i + z) - Len(a) = i - Len(m) /\ i \in 1..(Len(m) + Len(b))
      BY <2>3, <1>1, <1>2, <1>3
    <3> QED BY <2>1, <2>3, <3>1, <1>1, <1>4
  <2> QED BY <2>2, <2>3
<1> QED BY <1>3, <1>4, <1>5, <1>6, SeqEqual DEF l, m, r

LEMMA PiecesAssociative ==
    ASSUME NEW a \in Seq(Piece), NEW b \in Seq(Piece), NEW w \in Seq(Piece)
    PROVE  (a \o b) \o w = a \o (b \o w)
BY ConcatAssociative

\* A connection nothing of whose reading changes.
ReadSame(c) ==
    /\ readBuffer'[c] = readBuffer[c] /\ receiveBuffer'[c] = receiveBuffer[c]
    /\ wire'[c] = wire[c] /\ peerSent'[c] = peerSent[c] /\ peerClosed'[c] = peerClosed[c]
    /\ delivered'[c] = delivered[c]

LEMMA ReadInvKept ==
    ASSUME NEW c \in Conns, ReadInv(c), ReadSame(c), rd'[c] # "ready" => readBuffer[c] = <<>>
    PROVE  ReadInv(c)'
BY DEF ReadInv, ReadSame, Stream

LEMMA ReadInit == ConnInit => ReadIInv
<1> SUFFICES ASSUME ConnInit PROVE ReadIInv OBVIOUS
<1>1. ReadTypeOK BY DEF ConnInit, ReadTypeOK
<1>2. ASSUME NEW c \in Conns PROVE ReadInv(c)
  <2>1. /\ readBuffer[c] = <<>> /\ receiveBuffer[c] = <<>> /\ wire[c] = <<>>
        /\ peerSent[c] = <<>> /\ delivered[c] = <<>>
    BY DEF ConnInit
  <2>2. (<<>> \o <<>>) \o <<>> = <<>> OBVIOUS
  <2>3. Len(<<>>) = 0 /\ 1..0 = {} OBVIOUS
  <2> QED BY <2>1, <2>2, <2>3 DEF ReadInv, Stream, Framed, Complete
<1> QED BY <1>1, <1>2 DEF ReadIInv

LEMMA ReadStep ==
    ASSUME ReadIInv, SessionInv, [Next]_allVars
    PROVE  ReadIInv'
<1>a. ReadTypeOK /\ \A c \in Conns : ReadInv(c) BY DEF ReadIInv
<1>b. ASSUME NEW c \in Conns
      PROVE  /\ readBuffer[c] \in Seq(Piece) /\ receiveBuffer[c] \in Seq(Piece) /\ wire[c] \in Seq(Piece)
             /\ peerSent[c] \in Seq(Kinds) /\ peerClosed[c] \in BOOLEAN /\ delivered[c] \in Seq(Nat)
             /\ Len(delivered[c]) \in Nat /\ Len(peerSent[c]) \in Nat
             /\ Stream(c) \in Seq(Piece)
  <2>1. /\ readBuffer[c] \in Seq(Piece) /\ receiveBuffer[c] \in Seq(Piece) /\ wire[c] \in Seq(Piece)
    BY <1>a DEF ReadTypeOK
  <2>2. Stream(c) \in Seq(Piece) BY <2>1, ConcatProperties DEF Stream
  <2> QED BY <2>1, <2>2, <1>a DEF ReadTypeOK
<1>c. ASSUME NEW c \in Conns, UNCHANGED <<readBuffer, receiveBuffer, wire, peerSent, peerClosed, delivered>>,
             \/ rd' = rd
             \/ \E r \in {"none", "pending"} : rd' = [rd EXCEPT ![c] = r] /\ rd[c] # "ready"
      PROVE  ReadIInv'
  <2>1. \A d \in Conns : ReadSame(d) BY <1>c DEF ReadSame
  <2>2. \A d \in Conns : rd'[d] # "ready" => readBuffer[d] = <<>>
    BY <1>a, <1>c DEF ReadInv, ReadTypeOK
  <2>3. ReadTypeOK' BY <1>a, <1>c DEF ReadTypeOK
  <2> QED BY <1>a, <2>1, <2>2, <2>3, ReadInvKept DEF ReadIInv
<1>1. ASSUME NEW c \in Conns, NEW kind \in PeerKinds, PeerSend(c, kind) PROVE ReadIInv'
  <2> DEFINE k == Len(peerSent[c]) + 1
             p == Pieces(k, kind)
  <2>1. /\ ~peerClosed[c] /\ peerSent' = [peerSent EXCEPT ![c] = Append(peerSent[c], kind)]
        /\ wire' = [wire EXCEPT ![c] = wire[c] \o p]
        /\ UNCHANGED <<rd, readBuffer, receiveBuffer, peerClosed, delivered>>
    BY <1>1, <1>a DEF PeerSend, readVars, ReadTypeOK
  <2>2. kind \in Kinds BY TcpConnectionAssumption
  <2>3. k \in Nat /\ p \in Seq(Piece) BY <2>2, <1>b, PiecesType
  <2> HIDE DEF p
  <2>4. \A d \in Conns : d # c => ReadSame(d) BY <2>1, <1>a DEF ReadSame, ReadTypeOK
  <2>5. peerSent'[c] = Append(peerSent[c], kind) /\ wire'[c] = wire[c] \o p
    BY <2>1, <1>a DEF ReadTypeOK
  <2>6. ReadTypeOK'
    <3>1. Append(peerSent[c], kind) \in Seq(Kinds) BY <2>2, <1>b
    <3>2. wire[c] \o p \in Seq(Piece) BY <2>3, <1>b, ConcatProperties
    <3> QED BY <2>1, <3>1, <3>2, <1>a DEF ReadTypeOK
  <2>7. Stream(c)' = Stream(c) \o p
    <3>1. receiveBuffer[c] \o readBuffer[c] \in Seq(Piece) BY <1>b, ConcatProperties
    <3>2. wire[c] \in Seq(Piece) BY <1>b
    <3>3. (receiveBuffer[c] \o readBuffer[c]) \o (wire[c] \o p)
          = ((receiveBuffer[c] \o readBuffer[c]) \o wire[c]) \o p
      BY <3>1, <3>2, <2>3, PiecesAssociative, Zenon
    <3> QED BY <3>3, <2>1, <2>5 DEF Stream
  <2>8. /\ Framed(Stream(c), Len(delivered[c]), peerSent[c])
        /\ Complete(Stream(c), Len(delivered[c]), peerSent[c])
    BY <2>1, <1>a DEF ReadInv
  <2>9. /\ Framed(Stream(c)', Len(delivered[c]), peerSent'[c])
        /\ Complete(Stream(c)', Len(delivered[c]), peerSent'[c])
    BY <2>2, <2>5, <2>7, <2>8, <1>b, FrameAppended DEF p
  <2>10. \A n \in 1..Len(delivered[c]) : delivered[c][n] = n /\ peerSent'[c][n] \in Good
    <3>1. Len(delivered[c]) <= Len(peerSent[c]) BY <2>8 DEF Framed
    <3>2. \A n \in 1..Len(delivered[c]) : n \in 1..Len(peerSent[c]) BY <3>1, <1>b
    <3>3. \A n \in 1..Len(peerSent[c]) : peerSent'[c][n] = peerSent[c][n] BY <2>2, <2>5, <1>b
    <3> QED BY <3>2, <3>3, <1>a DEF ReadInv
  <2>11. ReadInv(c)' BY <2>1, <2>9, <2>10, <1>a DEF ReadInv
  <2> QED BY <2>1, <2>4, <2>6, <2>11, <1>a, ReadInvKept DEF ReadIInv, ReadInv
<1>2. ASSUME NEW c \in Conns, PeerClose(c) PROVE ReadIInv'
  <2>1. PICK rest \in {wire[c], <<>>} : wire' = [wire EXCEPT ![c] = rest]
    BY <1>2 DEF PeerClose
  <2>2. /\ peerClosed' = [peerClosed EXCEPT ![c] = TRUE]
        /\ UNCHANGED <<rd, readBuffer, receiveBuffer, peerSent, delivered>>
    BY <1>2 DEF PeerClose, readVars
  <2>3. \A d \in Conns : d # c => ReadSame(d) BY <2>1, <2>2, <1>a DEF ReadSame, ReadTypeOK
  <2>4. wire'[c] = rest /\ peerClosed'[c] /\ rest \in Seq(Piece)
    <3>1. wire[c] \in Seq(Piece) /\ <<>> \in Seq(Piece) BY <1>b
    <3>2. rest \in Seq(Piece) BY <3>1, <2>1, Zenon
    <3> QED BY <2>1, <2>2, <3>2, <1>a DEF ReadTypeOK
  <2>5. ReadTypeOK' BY <2>1, <2>2, <2>4, <1>a DEF ReadTypeOK
  <2> DEFINE a == receiveBuffer[c] \o readBuffer[c]
  <2>6. a \in Seq(Piece) BY <1>b, ConcatProperties
  <2>7. Stream(c) = a \o wire[c] /\ Stream(c)' = a \o rest BY <2>2, <2>4 DEF Stream
  <2> HIDE DEF a
  <2>8. /\ Stream(c)' \in Seq(Piece) /\ Len(Stream(c)') <= Len(Stream(c))
        /\ \A i \in 1..Len(Stream(c)') : Stream(c)'[i] = Stream(c)[i]
    <3>1. CASE rest = wire[c]
      <4>1. Stream(c)' = Stream(c) /\ Stream(c) \in Seq(Piece) BY <3>1, <2>7, <1>b, Zenon
      <4>2. Len(Stream(c)) \in Nat BY <4>1
      <4> QED BY <4>1, <4>2
    <3>2. CASE rest = <<>>
      <4>1. Stream(c)' = a BY <3>2, <2>6, <2>7, ConcatEmptySeq
      <4>2. /\ Len(Stream(c)) = Len(a) + Len(wire[c]) /\ Len(a) \in Nat /\ Len(wire[c]) \in Nat
            /\ \A i \in 1..(Len(a) + Len(wire[c])) : i <= Len(a) => Stream(c)[i] = a[i]
        BY <2>6, <2>7, <1>b, ConcatProperties
      <4> QED BY <4>1, <4>2, <2>6
    <3> QED BY <3>1, <3>2
  <2>9. Framed(Stream(c)', Len(delivered[c]), peerSent[c])
    <3>1. Framed(Stream(c), Len(delivered[c]), peerSent[c]) BY <1>a DEF ReadInv
    <3> HIDE DEF Stream
    <3> QED BY <3>1, <2>8, <1>b, PrefixFramed
  <2>10. ReadInv(c)' BY <2>2, <2>4, <2>9, <1>a DEF ReadInv
  <2> QED BY <2>2, <2>3, <2>5, <2>10, <1>a, ReadInvKept DEF ReadIInv, ReadInv
<1>3. ASSUME NEW c \in Conns, NEW k \in 1..Len(wire[c]), ReadReady(c, k) PROVE ReadIInv'
  <2> DEFINE front == SubSeq(wire[c], 1, k)
             back == SubSeq(wire[c], k + 1, Len(wire[c]))
  <2>1. /\ rd[c] = "pending" /\ rd' = [rd EXCEPT ![c] = "ready"]
        /\ readBuffer' = [readBuffer EXCEPT ![c] = front] /\ wire' = [wire EXCEPT ![c] = back]
        /\ UNCHANGED <<receiveBuffer, peerSent, peerClosed, delivered>>
    BY <1>3, <1>a DEF ReadReady, ReadTypeOK
  <2>2. \A d \in Conns : d # c => ReadSame(d) /\ rd'[d] = rd[d]
    BY <2>1, <1>a DEF ReadSame, ReadTypeOK
  <2>3. front \in Seq(Piece) /\ back \in Seq(Piece) BY <1>b
  <2>4. front \o back = wire[c]
    <3>1. 1 <= k + 1 /\ k <= Len(wire[c]) /\ k \in Int /\ Len(wire[c]) \in Nat BY <1>b
    <3>2. front = SubSeq(wire[c], 1, k) /\ \A n \in Nat : 1..n = 1..n OBVIOUS
    <3>3. SubSeq(wire[c], 1, k) \o SubSeq(wire[c], k + 1, Len(wire[c])) = SubSeq(wire[c], 1, Len(wire[c]))
      BY <3>1, <1>b, ConcatAdjacentSubSeq
    <3> QED BY <3>3, <1>b, SubSeqFull
  <2> HIDE DEF front, back
  <2>5. readBuffer'[c] = front /\ wire'[c] = back /\ rd'[c] = "ready" BY <2>1, <1>a DEF ReadTypeOK
  <2>6. ReadTypeOK' BY <2>1, <2>3, <1>a DEF ReadTypeOK
  <2>7. Stream(c)' = Stream(c)
    <3>1. readBuffer[c] = <<>> BY <2>1, <1>a DEF ReadInv
    <3>2. receiveBuffer[c] \o readBuffer[c] = receiveBuffer[c] BY <3>1, <1>b, ConcatEmptySeq
    <3>3. (receiveBuffer[c] \o front) \o back = receiveBuffer[c] \o (front \o back)
      <4>1. receiveBuffer[c] \in Seq(Piece) BY <1>b
      <4> QED BY <4>1, <2>3, PiecesAssociative, Zenon
    <3> QED BY <3>2, <3>3, <2>1, <2>4, <2>5 DEF Stream
  <2>8. ReadInv(c)' BY <2>1, <2>5, <2>7, <1>a DEF ReadInv
  <2> QED BY <2>2, <2>6, <2>8, <1>a, ReadInvKept DEF ReadIInv, ReadInv
<1>4. ASSUME NEW c \in Conns, ReadHandler(c) PROVE ReadIInv'
  <2> DEFINE a == receiveBuffer[c] \o readBuffer[c]
  <2>1. /\ rd' = [rd EXCEPT ![c] = "none"] /\ receiveBuffer' = [receiveBuffer EXCEPT ![c] = a]
        /\ readBuffer' = [readBuffer EXCEPT ![c] = <<>>]
        /\ UNCHANGED <<wire, peerSent, peerClosed, delivered>>
    BY <1>4 DEF ReadHandler, peerVars
  <2>2. \A d \in Conns : d # c => ReadSame(d) /\ rd'[d] = rd[d]
    BY <2>1, <1>a DEF ReadSame, ReadTypeOK
  <2>3. a \in Seq(Piece) BY <1>b, ConcatProperties
  <2>4. receiveBuffer'[c] = a /\ readBuffer'[c] = <<>> BY <2>1, <1>a DEF ReadTypeOK
  <2>5. ReadTypeOK' BY <2>1, <2>3, <1>a DEF ReadTypeOK
  <2>6. Stream(c)' = Stream(c) BY <2>1, <2>3, <2>4, ConcatEmptySeq DEF Stream
  <2>7. ReadInv(c)' BY <2>1, <2>4, <2>6, <1>a DEF ReadInv
  <2> QED BY <2>2, <2>5, <2>7, <1>a, ReadInvKept DEF ReadIInv, ReadInv
<1>5. ASSUME NEW c \in Conns, ParseFrame(c) PROVE ReadIInv'
  <2> DEFINE b == receiveBuffer[c]
             n == Len(delivered[c])
             z == FrameSize(c)
             t == SubSeq(b, z + 1, Len(b))
  <2>1. /\ HaveFrame(c) /\ ~Reject(c)
        /\ receiveBuffer' = [receiveBuffer EXCEPT ![c] = t]
        /\ delivered' = [delivered EXCEPT ![c] = Append(delivered[c], Head(b).frame)]
        /\ UNCHANGED <<rd, readBuffer, wire, peerSent, peerClosed>>
    BY <1>5, <1>a DEF ParseFrame, peerVars, ReadTypeOK
  <2>2. \A d \in Conns : d # c => ReadSame(d) BY <2>1, <1>a DEF ReadSame, ReadTypeOK
  <2>3. b # <<>> /\ Len(b) \in Nat
    <3>1. Len(b) >= HeaderPieces /\ HeaderPieces > 0 /\ HeaderPieces \in Nat /\ Len(b) \in Nat
      BY <2>1, <1>b, TcpConnectionAssumption DEF HaveFrame, HaveHeader
    <3> QED BY <3>1
  <2> DEFINE u == readBuffer[c] \o wire[c]
  <2>b. b \in Seq(Piece) /\ readBuffer[c] \in Seq(Piece) /\ wire[c] \in Seq(Piece) BY <1>b
  <2>4. Stream(c) = b \o u /\ u \in Seq(Piece)
    <3>1. (b \o readBuffer[c]) \o wire[c] = b \o u BY <2>b, PiecesAssociative, Zenon
    <3> QED BY <3>1, <2>b, ConcatProperties DEF Stream
  <2> HIDE DEF u, b
  <2>5. Len(Stream(c)) = Len(b) + Len(u) /\ Len(u) \in Nat /\ Stream(c)[1] = b[1] /\ Stream(c) # <<>>
    <3>1. Len(b) >= 1 /\ Len(b) \in Nat BY <2>3, <2>b, EmptySeq
    <3>2. 1 \in 1..(Len(b) + Len(u)) /\ Len(u) \in Nat BY <3>1, <2>3, <2>4
    <3>3. Len(Stream(c)) = Len(b) + Len(u) /\ Stream(c)[1] = b[1]
      BY <3>1, <3>2, <2>4, <2>b, ConcatProperties
    <3>4. Len(<<>>) = 0 /\ Len(Stream(c)) > 0 BY <3>1, <3>2, <3>3
    <3> QED BY <3>2, <3>3, <3>4
  <2>6. Framed(Stream(c), n, peerSent[c])
        /\ (~peerClosed[c] => Complete(Stream(c), n, peerSent[c]))
    BY <1>a DEF ReadInv
  <2>7. Head(b) = [frame |-> n + 1, part |-> 1]
    <3>1. Stream(c)[1] = [frame |-> n + 1, part |-> 1] BY <2>5, <2>6 DEF Framed
    <3>2. Head(b) = b[1] BY <2>3, <2>b
    <3> QED BY <3>1, <3>2, <2>5
  <2>8. Head(b).frame = n + 1 /\ z = Size(peerSent[c][n + 1]) /\ Kind(c) = peerSent[c][n + 1]
    BY <2>7 DEF FrameSize, Kind, b
  <2>9. z <= Len(b) BY <2>1 DEF HaveFrame, b
  <2>n. n \in Nat BY <1>b
  <2> HIDE DEF z, n
  <2>10. /\ n + 1 \in 1..Len(peerSent[c])
         /\ 1 \in 1..Len(Stream(c))
    <3>1. 1 \in 1..Len(Stream(c)) BY <2>5, <2>3, EmptySeq, <1>b
    <3>2. FrameAt(Stream(c), 1, peerSent[c])
      <4>1. Stream(c)[1].part = 1 BY <2>5, <2>6 DEF Framed
      <4> QED BY <4>1, <3>1, <2>6 DEF Framed
    <3>3. Stream(c)[1].frame = n + 1 BY <2>5, <2>6 DEF Framed
    <3> QED BY <3>1, <3>2, <3>3 DEF FrameAt
  <2>11. peerSent[c][n + 1] \in Kinds /\ z \in Nat BY <2>8, <2>10, <1>b, SizeType
  <2>12. z <= Len(Stream(c)) BY <2>3, <2>5, <2>9, <2>11
  <2>13. SubSeq(Stream(c), z + 1, Len(Stream(c))) = t \o u
    BY <2>4, <2>9, <2>11, <1>b, CutAtFront DEF b
  <2>14. t \in Seq(Piece)
    <3>1. b \in Seq(Piece) BY <1>b DEF b
    <3> QED BY <3>1, <2>9, <2>11, <2>3
  <2>15. receiveBuffer'[c] = t /\ delivered'[c] = Append(delivered[c], n + 1)
    BY <2>1, <2>8, <1>a DEF ReadTypeOK
  <2>16. Stream(c)' = t \o u
    <3>1. Stream(c)' = (t \o readBuffer[c]) \o wire[c] BY <2>1, <2>15 DEF Stream
    <3>2. (t \o readBuffer[c]) \o wire[c] = t \o (readBuffer[c] \o wire[c])
      BY <2>14, <2>b, PiecesAssociative, Zenon
    <3> QED BY <3>1, <3>2 DEF u
  <2>17. /\ Framed(t \o u, n + 1, peerSent[c])
         /\ ~peerClosed[c] => Complete(t \o u, n + 1, peerSent[c])
    <3>1. /\ Framed(SubSeq(Stream(c), z + 1, Len(Stream(c))), n + 1, peerSent[c])
          /\ Complete(Stream(c), n, peerSent[c])
             => Complete(SubSeq(Stream(c), z + 1, Len(Stream(c))), n + 1, peerSent[c])
      BY <2>5, <2>6, <2>8, <2>12, <2>n, <1>b, FirstFrameTaken
    <3> QED BY <3>1, <2>6, <2>13
  <2>18. /\ delivered'[c] \in Seq(Nat) /\ Len(delivered'[c]) = n + 1
         /\ delivered'[c][n + 1] = n + 1 /\ \A i \in 1..n : delivered'[c][i] = delivered[c][i]
    BY <2>15, <2>n, <1>b DEF n
  <2>19. peerSent[c][n + 1] \in Good
    BY <2>1, <2>8, <2>11 DEF Reject, HaveFrame, Kinds, Good
  <2>20. ReadTypeOK'
    <3>1. Append(delivered[c], n + 1) \in Seq(Nat) BY <2>n, <1>b
    <3> QED BY <2>1, <2>8, <2>14, <3>1, <1>a DEF ReadTypeOK
  <2>21. ASSUME NEW i \in 1..Len(delivered'[c])
         PROVE  delivered'[c][i] = i /\ peerSent'[c][i] \in Good
    <3>1. CASE i = n + 1 BY <3>1, <2>1, <2>18, <2>19
    <3>2. CASE i # n + 1
      <4>1. i \in 1..n BY <3>2, <2>18, <2>n
      <4> QED BY <4>1, <2>1, <2>18, <1>a DEF ReadInv, n
    <3> QED BY <3>1, <3>2
  <2>22. ReadInv(c)' BY <2>1, <2>16, <2>17, <2>18, <2>21, <1>a DEF ReadInv
  <2> QED BY <2>1, <2>2, <2>20, <2>22, <1>a, ReadInvKept DEF ReadIInv, ReadInv
<1>6. ASSUME NEW c \in Conns, Accept(c) PROVE ReadIInv'
  BY <1>6, <1>c DEF Accept, Connect, peerVars
<1>7. ASSUME NEW c \in Conns, ReadFails(c) PROVE ReadIInv'
  BY <1>7, <1>c DEF ReadFails, peerVars
<1>8. ASSUME NEW c \in Conns, ParseReject(c) \/ ParseIncomplete(c) PROVE ReadIInv'
  <2>1. rd[c] # "ready" BY <1>8 DEF ParseReject, ParseIncomplete, SessionInv
  <2> QED BY <1>8, <2>1, <1>c DEF ParseReject, ParseIncomplete, ReadAgain, peerVars
<1>9. ASSUME UNCHANGED <<rd, readBuffer, receiveBuffer, wire, peerSent, peerClosed, delivered>>
      PROVE  ReadIInv'
  <2>1. \A d \in Conns : ReadSame(d) BY <1>9 DEF ReadSame
  <2>2. ReadTypeOK' BY <1>a, <1>9 DEF ReadTypeOK
  <2> QED BY <1>a, <1>9, <2>1, <2>2, ReadInvKept DEF ReadIInv, ReadInv
<1>10. ASSUME NEW c \in Conns, PostSide(c) \/ WriteSide(c)
       PROVE  UNCHANGED <<rd, readBuffer, receiveBuffer, wire, peerSent, peerClosed, delivered>>
  BY <1>10 DEF PostSide, Posted, RunSend, RunStop, WriteSide, Writing, WriteReady, WriteHandler,
       WriteCloses, WriteFails, readVars, peerVars
<1>11. ASSUME NEW w \in Senders, SinkCopy(w) \/ \E c \in Conns : SinkSend(w, c)
       PROVE  UNCHANGED <<rd, readBuffer, receiveBuffer, wire, peerSent, peerClosed, delivered>>
  BY <1>11 DEF SinkCopy, SinkSend, SendPacket, connVars, readVars, peerVars
<1>12. PostHeartbeat \/ Heartbeat \/ Tick \/ UNCHANGED allVars
       => UNCHANGED <<rd, readBuffer, receiveBuffer, wire, peerSent, peerClosed, delivered>>
  BY DEF PostHeartbeat, Heartbeat, Tick, allVars, connVars, readVars, peerVars
<1> QED BY <1>1, <1>2, <1>3, <1>4, <1>5, <1>6, <1>7, <1>8, <1>9, <1>10, <1>11, <1>12
     DEF Next, ReadSide, Reading, Receive, ReadCloses, PeerSide, Peer

-----------------------------------------------------------------------------
(* The theorems. *)

ServerIInv == ReadIInv /\ WriteIInv /\ SessionIInv

LEMMA ServerInvariance == Spec => []ServerIInv
<1>1. Init => ServerIInv BY ReadInit, WriteInvInit, SessionInit DEF Init, ServerIInv
<1>2. ServerIInv /\ [Next]_allVars => ServerIInv'
  <2> SUFFICES ASSUME ServerIInv, [Next]_allVars PROVE ServerIInv' OBVIOUS
  <2>1. ReadTypeOK /\ WriteTypeOK /\ SessionInv
    BY DEF ServerIInv, ReadIInv, WriteIInv, SessionIInv
  <2> QED BY <2>1, ReadStep, WriteInvStep, SessionStep DEF ServerIInv
<1> QED BY <1>1, <1>2, PTL DEF Spec

(* However the reads cut what a peer sends into pieces, packetHandler_ gets *)
(* the frames from the first on, each once and in order, and none from the  *)
(* first malformed one on (tcpconnection.cpp, tryParsePacket), for any      *)
(* number of connections and of pieces to a header.                         *)
THEOREM ConnectionDeliversFrames == Spec => []DeliversFrames
<1>1. ServerIInv => DeliversFrames
  <2> SUFFICES ASSUME ServerIInv, NEW c \in Conns, NEW n \in 1..Len(delivered[c])
               PROVE  delivered[c][n] = n /\ \A i \in 1..n : peerSent[c][i] \in Good
    BY DEF DeliversFrames
  <2>1. ReadInv(c) /\ delivered[c] \in Seq(Nat) BY DEF ServerIInv, ReadIInv, ReadTypeOK
  <2>2. \A i \in 1..n : i \in 1..Len(delivered[c]) BY <2>1
  <2> QED BY <2>1, <2>2 DEF ReadInv
<1> QED BY <1>1, ServerInvariance, PTL

(* The sink's list is that of the sessions although other code changes it,  *)
(* packets leave a connection whole and in the order of sendPacket(), and   *)
(* no two writes are outstanding on a socket, whatever fails meanwhile.     *)
THEOREM ServerSinkServesSessions == Spec => []SinkServesSessions
<1>1. ServerIInv => SinkServesSessions
  <2> SUFFICES ASSUME ServerIInv PROVE SinkMatchesSessions /\ WritesInOrder
    BY DEF SinkServesSessions
  <2>1. SinkMatchesSessions BY DEF ServerIInv, SessionIInv, SessionInv, SinkMatchesSessions
  <2>2. ASSUME NEW c \in Conns
        PROVE  /\ \A n \in 1..Len(out[c]) : out[c][n] = n
               /\ writes[c] <= 1
               /\ writes[c] = 1 => writeQueue[c] # <<>>
    <3>1. WriteInv(c) /\ writes[c] \in {0, 1} BY DEF ServerIInv, WriteIInv, WriteTypeOK
    <3> QED BY <3>1 DEF WriteInv
  <2> QED BY <2>1, <2>2 DEF WritesInOrder
<1> QED BY <1>1, ServerInvariance, PTL

(* A session's socket is open and being read, so that a closing peer is     *)
(* noticed, and no socket stays open without a session unless its stop() is *)
(* on the way, whichever of the handlers closes what and in which order.    *)
THEOREM ServerSessionsHaveSockets == Spec => []SessionsHaveSockets
<1>1. ServerIInv => SessionsHaveSockets BY DEF ServerIInv, SessionIInv
<1> QED BY <1>1, ServerInvariance, PTL

-----------------------------------------------------------------------------
(* The protocol of client and daemon.  That what is sent is understood does *)
(* not depend on when: it is a property of the two tables of codecs, shown  *)
(* of each codec and carried to the packets by the invariant.               *)

\* A member w = <<bits, bits of its field>> of type t arrives, or is one of the exceptions.
Carried(t, m, w) ==
    /\ w[1] \in Nat \ {0}
    /\ \/ w[2] \in Nat /\ w[1] <= w[2]
       \/ <<t, m>> \in Unsent /\ w[2] = 0
       \/ <<t, m>> \in Narrowed /\ w[2] \in Nat \ {0}

Carries(t, members) == \A m \in DOMAIN members : Carried(t, m, members[m])

\* A field as wide as its members carries them.
LEMMA WireCarries ==
    ASSUME NEW t, NEW S, NEW b \in Nat \ {0}, NEW w \in Nat, b <= w
    PROVE  Carries(t, Wire(b, w, S))
BY DEF Carries, Carried, Wire

\* So does a field of the width of its members.
LEMMA SameCarries ==
    ASSUME NEW t, NEW S, NEW b \in Nat \ {0}
    PROVE  Carries(t, Same(b, S))
BY WireCarries DEF Same

\* Members without a field have to be named in Unsent.
LEMMA MissingCarries ==
    ASSUME NEW t, NEW S, NEW b \in Nat \ {0}, \A m \in S : <<t, m>> \in Unsent
    PROVE  Carries(t, Missing(b, S))
BY DEF Carries, Carried, Missing, Wire

\* Members whose field may be too small have to be named in Narrowed.
LEMMA NarrowCarries ==
    ASSUME NEW t, NEW S, NEW b \in Nat \ {0}, NEW w \in Nat \ {0}, \A m \in S : <<t, m>> \in Narrowed
    PROVE  Carries(t, Wire(b, w, S))
BY DEF Carries, Carried, Wire

\* Members put together arrive if each of the parts does.
LEMMA BothCarry ==
    ASSUME NEW t, NEW f, NEW g, Carries(t, f), Carries(t, g)
    PROVE  Carries(t, f ++ g)
BY DEF Carries, ++

\* A codec all of whose members arrive but for the exceptions.
Sound(c) == Carries(c.type, c.members)

\* All codecs in use are sound, each by its list of members.
LEMMA CodecsSound ==
    /\ \A c \in setupTcpSink : Sound(c)
    /\ \A k \in sendCmdIfConnected \cup sendPacketIfConnected : Sound(k[2])
<1> USE SameCarries, BothCarry DEF Sound, Codec, Flags, Texts
<1>1. \A c \in {GpioRateResetCmd, UbxConfigDefaultCmd, I2CStatsRequestCmd, I2CScanBusCmd,
       CalibRequestCmd, CalibSaveCmd, PreampSwitchRequestCmd, GainSwitchRequestCmd,
       ThresholdSettingRequestCmd, PcaSwitchRequestCmd, AdcModeRequestCmd, PolaritySwitchRequestCmd,
       BiasVoltageRequestCmd, BiasSwitchRequestCmd, TemperatureRequestCmd, UbxMsgRateRequestCmd,
       HistogramRequestCmd, DacEepromSetCmd} : Sound(c)
  BY DEF GpioRateResetCmd, UbxConfigDefaultCmd, I2CStatsRequestCmd, I2CScanBusCmd, CalibRequestCmd,
     CalibSaveCmd, PreampSwitchRequestCmd, GainSwitchRequestCmd, ThresholdSettingRequestCmd,
     PcaSwitchRequestCmd, AdcModeRequestCmd, PolaritySwitchRequestCmd, BiasVoltageRequestCmd,
     BiasSwitchRequestCmd, TemperatureRequestCmd, UbxMsgRateRequestCmd, HistogramRequestCmd,
     DacEepromSetCmd, EMPTY_CMD_CODEC
<1>2. \A c \in {MonTx, MonRx} : Sound(c)
  BY DEF MonTx, MonRx, MonBuffer
<1>3. \A c \in {AdcModeEvent, AdcTraceEvent, BiasSwitchEvent, BiasVoltageEvent, CalibEvent,
       GainSwitchEvent} : Sound(c)
  BY DEF AdcModeEvent, AdcTraceEvent, BiasSwitchEvent, BiasVoltageEvent, CalibEvent, GainSwitchEvent
<1>4. \A c \in {GpioRateEvent, GpioInhibitEvent, I2CStatsEvent, MCP4728Event, MqttStatusEvent,
       PcaSwitchEvent} : Sound(c)
  BY DEF GpioRateEvent, GpioInhibitEvent, I2CStatsEvent, MCP4728Event, MqttStatusEvent, PcaSwitchEvent
<1>5. \A c \in {PolaritySwitchEvent, PreampSwitchEvent, SPIStatsEvent, ThresholdSettingEvent, NavSat,
       CfgMsg} : Sound(c)
  BY DEF PolaritySwitchEvent, PreampSwitchEvent, SPIStatsEvent, ThresholdSettingEvent, NavSat, CfgMsg
<1>6. \A c \in {CfgGNSS, GnssPosStruct, UbxTimeMarkStruct, GnssMonHwStruct, GnssMonHw2Struct,
       GpsVersion} : Sound(c)
  BY DEF CfgGNSS, GnssPosStruct, UbxTimeMarkStruct, GnssMonHwStruct, GnssMonHw2Struct, GpsVersion
<1>7. \A c \in {NavClock, UbxTimePulseStruct, PositionModeConfig, VersionEvent, UbxSaveCmd,
       AdcSampleTriggerCmd} : Sound(c)
  BY DEF NavClock, UbxTimePulseStruct, PositionModeConfig, VersionEvent, UbxSaveCmd, AdcSampleTriggerCmd
<1>8. \A c \in {EventTriggerCmd, UbxResetCmd, HistogramClearCmd, GpioRateRequestCmd, BiasVoltageCmd,
       BiasSwitchCmd} : Sound(c)
  BY DEF EventTriggerCmd, UbxResetCmd, HistogramClearCmd, GpioRateRequestCmd, BiasVoltageCmd,
     BiasSwitchCmd
<1>9. \A c \in {GainSwitchCmd, ThresholdSettingCmd, UbxMsgRateCmd, UbxGnssConfigCmd, PcaSwitchCmd,
       MqttInhibitCmd} : Sound(c)
  BY DEF GainSwitchCmd, ThresholdSettingCmd, UbxMsgRateCmd, UbxGnssConfigCmd, PcaSwitchCmd,
     MqttInhibitCmd
<1>10. \A c \in {ADS1115Event} : Sound(c)
  BY MissingCarries DEF ADS1115Event, Unsent
<1>11. \A c \in {TemperatureEvent} : Sound(c)
  BY MissingCarries DEF TemperatureEvent, Unsent
<1>12. \A c \in {HistogramCodec} : Sound(c)
  BY MissingCarries DEF HistogramCodec, Unsent
<1>13. \A c \in {LogInfoStruct} : Sound(c)
  BY MissingCarries DEF LogInfoStruct, Unsent
<1>14. \A c \in {PreampSwitchCmd} : Sound(c)
  BY MissingCarries DEF PreampSwitchCmd, Unsent
<1>15. \A c \in {GpioEvent} : Sound(c)
  BY WireCarries, NarrowCarries DEF GpioEvent, Narrowed
<1>16. \A c \in {NavStatus} : Sound(c)
  BY WireCarries, NarrowCarries DEF NavStatus, Narrowed
<1>17. \A c \in {StartBurstSampling} : Sound(c)
  BY WireCarries, NarrowCarries DEF StartBurstSampling, Narrowed
<1> HIDE SameCarries, BothCarry DEF Sound, Codec, Flags, Texts
<1>18. \A c \in setupTcpSink : Sound(c)
  BY <1>1, <1>2, <1>3, <1>4, <1>5, <1>6, <1>7, <1>8, <1>9, <1>10, <1>11, <1>12, <1>13, <1>14, <1>15,
     <1>16, <1>17 DEF setupTcpSink
<1>19. \A k \in sendCmdIfConnected : k[2] \in tabCommands \cup valueUpdateRequests \cup
         {EventTriggerCmd, UbxMsgRateRequestCmd, UbxResetCmd, HistogramClearCmd, HistogramRequestCmd,
          StartBurstSampling, GpioRateRequestCmd, DacEepromSetCmd}
  BY DEF sendCmdIfConnected
<1>20. \A k \in sendCmdIfConnected : Sound(k[2])
  BY <1>1, <1>2, <1>3, <1>4, <1>5, <1>6, <1>7, <1>8, <1>9, <1>10, <1>11, <1>12, <1>13, <1>14, <1>15,
     <1>16, <1>17, <1>19 DEF tabCommands, valueUpdateRequests
<1>21. \A k \in sendPacketIfConnected : Sound(k[2])
  BY <1>1, <1>2, <1>3, <1>4, <1>5, <1>6, <1>7, <1>8, <1>9, <1>10, <1>11, <1>12, <1>13, <1>14, <1>15,
     <1>16, <1>17 DEF sendPacketIfConnected, sendToBoard, sendToDaemon
<1> QED BY <1>18, <1>20, <1>21

\* What is sent with codec c under key k is decoded with the same members and as the same type, or
\* is one of the commands nobody listens to.
Understood(D, k, c) ==
    \/ c.type \in Unheard /\ k \notin DOMAIN D
    \/ /\ k \in DOMAIN D /\ D[k].members = c.members
       /\ D[k].type = c.type \/ <<c.type, D[k].type>> \in Twins

\* The client has a decoder for every event the daemon sends.
LEMMA EventsUnderstood == \A c \in setupTcpSink : Understood(buildDecoderMap, c.key, c)
<1>1. /\ AdcModeEvent.key = "ADC_MODE" /\ AdcTraceEvent.key = "ADC_TRACE"
      /\ ADS1115Event.key = "ADC_SAMPLE" /\ BiasSwitchEvent.key = "BIAS_SWITCH"
      /\ BiasVoltageEvent.key = "BIAS_VOLTAGE" /\ CalibEvent.key = "CALIB_SET"
      /\ GainSwitchEvent.key = "GAIN_SWITCH" /\ GpioRateEvent.key = "GPIO_RATE"
  BY DEF AdcModeEvent, AdcTraceEvent, ADS1115Event, BiasSwitchEvent, BiasVoltageEvent, CalibEvent,
     GainSwitchEvent, GpioRateEvent, Codec
<1>2. /\ GpioInhibitEvent.key = "GPIO_INHIBIT" /\ I2CStatsEvent.key = "I2C_STATS"
      /\ TemperatureEvent.key = "TEMPERATURE" /\ MCP4728Event.key = "DAC_READBACK"
      /\ MqttStatusEvent.key = "MQTT_STATUS" /\ PcaSwitchEvent.key = "PCA_SWITCH"
      /\ PolaritySwitchEvent.key = "POLARITY_SWITCH" /\ PreampSwitchEvent.key = "PREAMP_SWITCH"
  BY DEF GpioInhibitEvent, I2CStatsEvent, TemperatureEvent, MCP4728Event, MqttStatusEvent,
     PcaSwitchEvent, PolaritySwitchEvent, PreampSwitchEvent, Codec
<1>3. /\ SPIStatsEvent.key = "SPI_STATS" /\ GpioEvent.key = "GPIO_EVENT"
      /\ ThresholdSettingEvent.key = "THRESHOLD" /\ NavSat.key = "GNSS_SATS"
      /\ CfgMsg.key = "UBX_MSG_RATE" /\ CfgGNSS.key = "UBX_GNSS_CONFIG"
      /\ GnssPosStruct.key = "GEO_POS" /\ UbxTimeMarkStruct.key = "UBX_TIMEMARK"
  BY DEF SPIStatsEvent, GpioEvent, ThresholdSettingEvent, NavSat, CfgMsg, CfgGNSS, GnssPosStruct,
     UbxTimeMarkStruct, Codec
<1>4. /\ MonTx.key = "UBX_TXBUF" /\ MonRx.key = "UBX_RXBUF" /\ GnssMonHwStruct.key = "UBX_MONHW"
      /\ GnssMonHw2Struct.key = "UBX_MONHW2" /\ GpsVersion.key = "UBX_VERSION"
      /\ NavStatus.key = "UBX_NAVSTATUS" /\ NavClock.key = "UBX_NAVCLOCK"
      /\ UbxTimePulseStruct.key = "UBX_CFG_TP5"
  BY DEF MonTx, MonRx, GnssMonHwStruct, GnssMonHw2Struct, GpsVersion, NavStatus, NavClock,
     UbxTimePulseStruct, Codec, MonBuffer
<1>5. /\ HistogramCodec.key = "HISTOGRAM" /\ LogInfoStruct.key = "LOG_INFO"
      /\ PositionModeConfig.key = "POSITION_MODEL" /\ VersionEvent.key = "VERSION"
  BY DEF HistogramCodec, LogInfoStruct, PositionModeConfig, VersionEvent, Codec
<1>6. \A c \in {AdcTraceEvent, ADS1115Event, BiasSwitchEvent, BiasVoltageEvent, CalibEvent,
       GainSwitchEvent, GpioRateEvent, I2CStatsEvent, TemperatureEvent, MCP4728Event, PcaSwitchEvent,
       PolaritySwitchEvent, PreampSwitchEvent, SPIStatsEvent, GpioEvent, ThresholdSettingEvent, CfgMsg,
       GnssPosStruct} :
         c.key \in DOMAIN decodersOfBoard /\ decodersOfBoard[c.key] = c
  BY <1>1, <1>2, <1>3, <1>4, <1>5 DEF decodersOfBoard
<1>7. \A c \in {AdcModeEvent, GpioInhibitEvent, MqttStatusEvent, NavSat, CfgGNSS, UbxTimeMarkStruct,
       MonTx, MonRx, GnssMonHwStruct, GnssMonHw2Struct, GpsVersion, NavStatus, NavClock,
       UbxTimePulseStruct, HistogramCodec, LogInfoStruct, PositionModeConfig, VersionEvent} :
         c.key \in DOMAIN decodersOfReceiver /\ decodersOfReceiver[c.key] = c
  BY <1>1, <1>2, <1>3, <1>4, <1>5 DEF decodersOfReceiver
<1>8. DOMAIN decodersOfBoard \cap DOMAIN decodersOfReceiver = {}
  BY DEF decodersOfBoard, decodersOfReceiver
<1>9. \A c \in setupTcpSink : c.key \in DOMAIN buildDecoderMap /\ buildDecoderMap[c.key] = c
  <2>1. \A c \in setupTcpSink :
           \/ c.key \in DOMAIN decodersOfBoard /\ decodersOfBoard[c.key] = c
           \/ c.key \in DOMAIN decodersOfReceiver /\ decodersOfReceiver[c.key] = c
    BY <1>6, <1>7 DEF setupTcpSink
  <2> QED BY <1>8, <2>1 DEF buildDecoderMap, ++
<1> QED BY <1>9 DEF Understood

\* The daemon has a case for every command the client sends, but for the two of Unheard.
LEMMA CommandsUnderstood ==
    \A k \in sendCmdIfConnected \cup sendPacketIfConnected : Understood(TcpCommandDecoder, k[1], k[2])
<1>1. DOMAIN receiverCommands \cap DOMAIN boardCommands = {}
  BY DEF receiverCommands, boardCommands
<1>2. /\ \A j \in DOMAIN receiverCommands : j \in DOMAIN TcpCommandDecoder /\ TcpCommandDecoder[j] = receiverCommands[j]
      /\ \A j \in DOMAIN boardCommands : j \in DOMAIN TcpCommandDecoder /\ TcpCommandDecoder[j] = boardCommands[j]
      /\ DOMAIN TcpCommandDecoder = DOMAIN receiverCommands \cup DOMAIN boardCommands
  BY <1>1 DEF TcpCommandDecoder, ++
<1>3. /\ GpioRateResetCmd.key = "GPIO_RATE_RESET" /\ UbxConfigDefaultCmd.key = "UBX_CONFIG_DEFAULT"
      /\ UbxSaveCmd.key = "UBX_CFG_SAVE" /\ I2CStatsRequestCmd.key = "I2C_STATS_REQUEST"
      /\ I2CScanBusCmd.key = "I2C_SCAN_BUS" /\ CalibRequestCmd.key = "CALIB_REQUEST"
      /\ CalibSaveCmd.key = "CALIB_SAVE" /\ PreampSwitchRequestCmd.key = "PREAMP_SWITCH_REQUEST"
  BY DEF GpioRateResetCmd, UbxConfigDefaultCmd, UbxSaveCmd, I2CStatsRequestCmd, I2CScanBusCmd,
     CalibRequestCmd, CalibSaveCmd, PreampSwitchRequestCmd, Codec, EMPTY_CMD_CODEC
<1>4. /\ GainSwitchRequestCmd.key = "GAIN_SWITCH_REQUEST"
      /\ ThresholdSettingRequestCmd.key = "THRESHOLD_REQUEST"
      /\ PcaSwitchRequestCmd.key = "PCA_SWITCH_REQUEST"
      /\ AdcModeRequestCmd.key = "ADC_MODE_REQUEST"
      /\ PolaritySwitchRequestCmd.key = "POLARITY_SWITCH_REQUEST"
      /\ BiasVoltageRequestCmd.key = "BIAS_VOLTAGE_REQUEST"
      /\ BiasSwitchRequestCmd.key = "BIAS_SWITCH_REQUEST"
      /\ AdcSampleTriggerCmd.key = "ADC_SAMPLE_REQUEST"
  BY DEF GainSwitchRequestCmd, ThresholdSettingRequestCmd, PcaSwitchRequestCmd, AdcModeRequestCmd,
     PolaritySwitchRequestCmd, BiasVoltageRequestCmd, BiasSwitchRequestCmd, AdcSampleTriggerCmd, Codec,
     EMPTY_CMD_CODEC
<1>5. /\ TemperatureRequestCmd.key = "TEMPERATURE_REQUEST" /\ EventTriggerCmd.key = "EVENTTRIGGER"
      /\ UbxMsgRateRequestCmd.key = "UBX_MSG_RATE_REQUEST" /\ UbxResetCmd.key = "UBX_RESET"
      /\ HistogramClearCmd.key = "HISTOGRAM_CLEAR" /\ HistogramRequestCmd.key = "HISTOGRAM_REQUEST"
      /\ StartBurstSampling.key = "RATE_SCAN" /\ GpioRateRequestCmd.key = "GPIO_RATE_REQUEST"
  BY DEF TemperatureRequestCmd, EventTriggerCmd, UbxMsgRateRequestCmd, UbxResetCmd, HistogramClearCmd,
     HistogramRequestCmd, StartBurstSampling, GpioRateRequestCmd, Codec, EMPTY_CMD_CODEC
<1>6. /\ DacEepromSetCmd.key = "DAC_EEPROM_SET"
  BY DEF DacEepromSetCmd, Codec, EMPTY_CMD_CODEC
<1>7. \A c \in {GpioRateResetCmd, UbxConfigDefaultCmd, UbxSaveCmd, I2CStatsRequestCmd, I2CScanBusCmd,
       CalibRequestCmd, CalibSaveCmd, UbxMsgRateRequestCmd, UbxResetCmd, StartBurstSampling} :
         c.key \in DOMAIN receiverCommands /\ receiverCommands[c.key] = c
  BY <1>3, <1>4, <1>5, <1>6 DEF receiverCommands
<1>8. \A c \in {PreampSwitchRequestCmd, GainSwitchRequestCmd, ThresholdSettingRequestCmd,
       AdcModeRequestCmd, PolaritySwitchRequestCmd, BiasVoltageRequestCmd, BiasSwitchRequestCmd,
       AdcSampleTriggerCmd, TemperatureRequestCmd, EventTriggerCmd, HistogramClearCmd,
       HistogramRequestCmd, GpioRateRequestCmd, DacEepromSetCmd} :
         c.key \in DOMAIN boardCommands /\ boardCommands[c.key] = c
  BY <1>3, <1>4, <1>5, <1>6 DEF boardCommands
<1>9. Understood(TcpCommandDecoder, PcaSwitchRequestCmd.key, PcaSwitchRequestCmd)
  <2>1. PcaSwitchRequestCmd.type = "PcaSwitchRequestCmd" BY DEF PcaSwitchRequestCmd, EMPTY_CMD_CODEC, Codec
  <2>2. "PCA_SWITCH_REQUEST" \notin DOMAIN receiverCommands \cup DOMAIN boardCommands
    BY DEF receiverCommands, boardCommands
  <2> QED BY <1>2, <1>3, <1>4, <1>5, <1>6, <2>1, <2>2 DEF Understood, Unheard
<1>10. \A k \in sendCmdIfConnected : Understood(TcpCommandDecoder, k[1], k[2])
  <2>1. \A k \in sendCmdIfConnected :
           /\ k[1] = k[2].key
           /\ k[2] \in tabCommands \cup valueUpdateRequests \cup
                {EventTriggerCmd, UbxMsgRateRequestCmd, UbxResetCmd, HistogramClearCmd, HistogramRequestCmd,
                 StartBurstSampling, GpioRateRequestCmd, DacEepromSetCmd}
    BY DEF sendCmdIfConnected
  <2>2. \A k \in sendCmdIfConnected :
           \/ k[2] = PcaSwitchRequestCmd
           \/ k[1] \in DOMAIN receiverCommands /\ receiverCommands[k[1]] = k[2]
           \/ k[1] \in DOMAIN boardCommands /\ boardCommands[k[1]] = k[2]
    BY <1>7, <1>8, <2>1 DEF tabCommands, valueUpdateRequests
  <2> QED BY <1>2, <1>9, <2>1, <2>2 DEF Understood
<1>11. Understood(TcpCommandDecoder, "POLARITY_SWITCH", PolaritySwitchEvent)
  <2>1. /\ PolaritySwitchEvent.type = "PolaritySwitchEvent" /\ PolaritySwitchCmd.type = "PolaritySwitchCmd"
        /\ PolaritySwitchEvent.members = PolaritySwitchCmd.members
    BY DEF PolaritySwitchEvent, PolaritySwitchCmd, Codec
  <2>2. "POLARITY_SWITCH" \in DOMAIN boardCommands /\ boardCommands["POLARITY_SWITCH"] = PolaritySwitchCmd
    BY DEF boardCommands
  <2> QED BY <1>2, <2>1, <2>2 DEF Understood, Twins
<1>12. Understood(TcpCommandDecoder, "CALIB_SET", CalibEvent)
  <2>1. CalibEvent.type = "CalibEvent" BY DEF CalibEvent, Codec
  <2>2. "CALIB_SET" \notin DOMAIN receiverCommands \cup DOMAIN boardCommands
    BY DEF receiverCommands, boardCommands
  <2> QED BY <1>2, <2>1, <2>2 DEF Understood, Unheard
<1>13. \A k \in sendPacketIfConnected : Understood(TcpCommandDecoder, k[1], k[2])
  <2>1. \A k \in sendPacketIfConnected :
           \/ k = <<"POLARITY_SWITCH", PolaritySwitchEvent>>
           \/ k = <<"CALIB_SET", CalibEvent>>
           \/ k[1] \in DOMAIN receiverCommands /\ receiverCommands[k[1]] = k[2]
           \/ k[1] \in DOMAIN boardCommands /\ boardCommands[k[1]] = k[2]
    BY DEF sendPacketIfConnected, sendToBoard, sendToDaemon, receiverCommands, boardCommands
  <2> QED BY <1>2, <1>11, <1>12, <2>1 DEF Understood
<1> QED BY <1>10, <1>13

-----------------------------------------------------------------------------

\* The packets each end may send.
PacketsOf(k) == {Packet(k[1], k[2], v) : v \in Values(k[2])}
Commands == UNION {PacketsOf(k) : k \in sendCmdIfConnected \cup sendPacketIfConnected}
Events == UNION {PacketsOf(<<c.key, c>>) : c \in setupTcpSink}

\* The invariant: on each of the two ways there are only packets of its sender.
ProtocolIInv == upLink \in Seq(Commands) /\ downLink \in Seq(Events) /\ SameAtBothEnds

\* A value of a sound codec arrives, but for the members that do not cross.
LEMMA ValueArrives ==
    ASSUME NEW c, Sound(c), NEW v \in Values(c), NEW d, d.members = c.members
    PROVE  LET got == decode(d, encode(c, v)) IN
           \A m \in DOMAIN v :
              \/ got[m] = v[m]
              \/ <<c.type, m>> \in Unsent /\ got[m] = Default
              \/ <<c.type, m>> \in Narrowed
<1> DEFINE w(m) == c.members[m][2]
<1>1. DOMAIN v = DOMAIN c.members /\ \A m \in DOMAIN v : v[m] \in {1, c.members[m][1]}
  BY DEF Values
<1>2. ASSUME NEW m \in DOMAIN v
      PROVE  decode(d, encode(c, v))[m] = IF w(m) > 0 THEN IF v[m] <= w(m) THEN v[m] ELSE Cut ELSE Default
  BY <1>1, <1>2 DEF decode, encode
<1>3. ASSUME NEW m \in DOMAIN v
      PROVE  Carried(c.type, m, c.members[m])
  BY <1>1, <1>3 DEF Sound, Carries
<1> QED BY <1>1, <1>2, <1>3 DEF Carried

\* What becomes of a packet of a sound codec that is understood.
LEMMA PacketUnderstood ==
    ASSUME NEW D, NEW k, Sound(k[2]), Understood(D, k[1], k[2]), NEW p \in PacketsOf(k),
           heard' = Received(D, p)
    PROVE  SameAtBothEnds'
<1> DEFINE c == k[2]
<1>1. PICK v \in Values(c) : p = Packet(k[1], c, v) BY DEF PacketsOf
<1>2. p.key = k[1] /\ p.payload = encode(c, v) /\ p.type = c.type /\ p.value = v BY <1>1 DEF Packet
<1>3. heard'.type = c.type /\ heard'.value = v BY <1>2 DEF Received
<1>4. CASE c.type \in Unheard /\ k[1] \notin DOMAIN D
  <2>1. heard'.as = "unknown" BY <1>2, <1>4 DEF Received
  <2> QED BY <1>3, <1>4, <2>1 DEF SameAtBothEnds
<1>5. CASE k[1] \in DOMAIN D /\ D[k[1]].members = c.members
           /\ (D[k[1]].type = c.type \/ <<c.type, D[k[1]].type>> \in Twins)
  <2>1. heard'.as = D[k[1]].type /\ heard'.got = decode(D[k[1]], encode(c, v)) BY <1>2, <1>5 DEF Received
  <2>2. heard'.as = heard'.type \/ <<heard'.type, heard'.as>> \in Twins BY <1>3, <1>5, <2>1
  <2>3. \A m \in DOMAIN v :
           \/ heard'.got[m] = v[m]
           \/ <<c.type, m>> \in Unsent /\ heard'.got[m] = Default
           \/ <<c.type, m>> \in Narrowed
    BY <1>5, <2>1, ValueArrives
  <2> QED BY <1>3, <2>2, <2>3 DEF SameAtBothEnds
<1> QED BY <1>4, <1>5 DEF Understood

\* The client answers a threshold that is too high with a value of the codec of its own command.
LEMMA LimitIsSent == [m \in DOMAIN ThresholdSettingCmd.members |-> 1] \in Values(ThresholdSettingCmd)
BY DEF Values

\* Whatever the daemon publishes or the client asks for (TcpSink::handle, MainWindow::decode,
\* TcpCommandDecoder::handle, capnp_codec.cpp): the receiver takes it for what it was sent as and every
\* member has its value, but for the members and commands Protocol names.
THEOREM ProtocolIsAgreed == ProtocolSpec => []SameAtBothEnds
<1>1. ProtocolInit => ProtocolIInv
  BY DEF ProtocolInit, ProtocolIInv, SameAtBothEnds, Nothing
<1>2. ProtocolIInv /\ [ProtocolNext]_protocolVars => ProtocolIInv'
  <2> SUFFICES ASSUME ProtocolIInv, [ProtocolNext]_protocolVars PROVE ProtocolIInv' OBVIOUS
  <2> USE DEF ProtocolIInv
  <2>1. CASE SendEvent
    <3>1. PICK c \in setupTcpSink : \E v \in Values(c) : downLink' = Append(downLink, Packet(c.key, c, v))
      BY <2>1 DEF SendEvent
    <3>2. PICK v \in Values(c) : downLink' = Append(downLink, Packet(c.key, c, v)) BY <3>1
    <3>3. Packet(c.key, c, v) \in PacketsOf(<<c.key, c>>) BY DEF PacketsOf
    <3>4. Packet(c.key, c, v) \in Events BY <3>3 DEF Events
    <3>5. upLink' = upLink /\ heard' = heard BY <2>1 DEF SendEvent
    <3> QED BY <3>2, <3>4, <3>5 DEF SameAtBothEnds
  <2>2. CASE SendCommand
    <3>1. PICK k \in sendCmdIfConnected \cup sendPacketIfConnected :
             \E v \in Values(k[2]) : upLink' = Append(upLink, Packet(k[1], k[2], v))
      BY <2>2 DEF SendCommand
    <3>2. PICK v \in Values(k[2]) : upLink' = Append(upLink, Packet(k[1], k[2], v)) BY <3>1
    <3>3. Packet(k[1], k[2], v) \in PacketsOf(k) BY DEF PacketsOf
    <3>4. Packet(k[1], k[2], v) \in Commands BY <3>3 DEF Commands
    <3>5. downLink' = downLink /\ heard' = heard BY <2>2 DEF SendCommand
    <3> QED BY <3>2, <3>4, <3>5 DEF SameAtBothEnds
  <2>3. CASE MainWindowDecode
    <3>1. downLink # <<>> /\ downLink' = Tail(downLink) /\ heard' = Received(buildDecoderMap, Head(downLink))
      BY <2>3 DEF MainWindowDecode
    <3>2. PICK c \in setupTcpSink : Head(downLink) \in PacketsOf(<<c.key, c>>) BY <3>1 DEF Events
    <3>3. SameAtBothEnds'
      BY <3>1, <3>2, PacketUnderstood, EventsUnderstood, CodecsSound
    <3>4. upLink' \in Seq(Commands)
      <4> DEFINE limit == Packet("THRESHOLD", ThresholdSettingCmd, [m \in DOMAIN ThresholdSettingCmd.members |-> 1])
      <4>1. <<"THRESHOLD", ThresholdSettingCmd>> \in sendCmdIfConnected \cup sendPacketIfConnected
        BY DEF sendPacketIfConnected, sendToBoard
      <4>2. limit \in Commands BY <4>1, LimitIsSent DEF Commands, PacketsOf
      <4>3. upLink' = upLink \/ upLink' = Append(upLink, limit) BY <2>3 DEF MainWindowDecode
      <4> HIDE DEF limit
      <4> QED BY <4>2, <4>3
    <3>5. downLink' \in Seq(Events)
      <4> HIDE DEF Events
      <4> QED BY <3>1
    <3> QED BY <3>3, <3>4, <3>5
  <2>4. CASE DecodeCommand
    <3>1. upLink # <<>> /\ upLink' = Tail(upLink) /\ heard' = Received(TcpCommandDecoder, Head(upLink))
          /\ downLink' = downLink
      BY <2>4 DEF DecodeCommand
    <3>2. PICK k \in sendCmdIfConnected \cup sendPacketIfConnected : Head(upLink) \in PacketsOf(k)
      BY <3>1 DEF Commands
    <3>3. Sound(k[2]) /\ Understood(TcpCommandDecoder, k[1], k[2]) BY <3>2, CodecsSound, CommandsUnderstood
    <3> HIDE DEF ProtocolIInv
    <3>4. SameAtBothEnds' BY <3>1, <3>2, <3>3, PacketUnderstood
    <3> USE DEF ProtocolIInv
    <3>5. upLink' \in Seq(Commands) /\ downLink' \in Seq(Events) BY <3>1
    <3> QED BY <3>4, <3>5
  <2>5. CASE UNCHANGED protocolVars BY <2>5 DEF protocolVars, SameAtBothEnds
  <2> QED BY <2>1, <2>2, <2>3, <2>4, <2>5 DEF ProtocolNext
<1>3. ProtocolIInv => SameAtBothEnds BY DEF ProtocolIInv
<1> QED BY <1>1, <1>2, <1>3, PTL DEF ProtocolSpec
=============================================================================
