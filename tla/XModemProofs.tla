---------------------------- MODULE XModemProofs ----------------------------
(***************************************************************************)
(* Proofs about XModem, for files and memories of every size, indices of   *)
(* every width and any number of faults: types, the order of the blocks,   *)
(* what success means, and that XModem implements FileTransfer.            *)
(***************************************************************************)
EXTENDS XModem, Integers, TLAPS

(* What may be on its way to a receiver with l blocks from a sender that    *)
(* has asked for s of the len there are: the last block it acknowledged or  *)
(* the one it waits for, oldest first.                                      *)
BlocksOK(q, l, s, len) ==
    /\ \A i \in 1..Len(q) :
          /\ q[i].kind = "SOH" =>
                /\ q[i].n \in {l, l + 1}
                /\ q[i].n >= 1 /\ q[i].n <= s /\ q[i].n <= len
          /\ q[i].kind = "EOT" => s = len + 1
    /\ \A i, j \in 1..Len(q) :
          i < j /\ q[i].kind = "SOH" /\ q[j].kind = "SOH" => q[i].n <= q[j].n

(* One acknowledgement at most, and only if it is due.                      *)
AcksOK(q, due) ==
    /\ \A i \in 1..Len(q) : q[i] = "ACK" => due
    /\ \A i, j \in 1..Len(q) : q[i] = "ACK" /\ q[j] = "ACK" => i = j

AckDue == (sent = Len(psram) /\ sent > 0) \/ rres = "ok"

SenderInv ==
    /\ sent <= length + 1
    /\ fresh <=> sent = 0
    /\ avail = IF sent \in 1..length THEN 2 ELSE 0

ReceiverInv ==
    /\ rres \in {"idle", "run"} => eot <= 1 /\ silence <= MaxSilence
    /\ eot >= 1 \/ rres = "ok" => sent = length + 1

(* The two are never more than a block apart.                               *)
WindowInv ==
    /\ Len(psram) <= sent /\ sent <= Len(psram) + 1
    /\ Len(psram) <= length

LineInv ==
    /\ BlocksOK(toR, Len(psram), sent, length)
    /\ AcksOK(toS, AckDue)

IInv ==
    /\ TypeOK /\ InOrder /\ (sres = "ok" => rres = "ok")
    /\ SenderInv /\ ReceiverInv /\ WindowInv /\ LineInv

-----------------------------------------------------------------------------
(* Indices *)

(* A block and the one after it never share an index.                       *)
LEMMA Neighbours == ASSUME NEW a \in Nat PROVE Index(a) # Index(a + 1)
<1> DEFINE q == a \div IdxMod          r == a % IdxMod
           p == (a + 1) \div IdxMod    s == (a + 1) % IdxMod
<1>1. q \in Int /\ p \in Int /\ r \in Int /\ s \in Int
  BY IndexAssumption
<1>2. a = IdxMod * q + r
  BY IndexAssumption
<1>3. a + 1 = IdxMod * p + s
  BY IndexAssumption
<1>4. SUFFICES ASSUME r = s PROVE FALSE
  BY DEF Index
<1> HIDE DEF q, p, r, s
<1>5. IdxMod * p - IdxMod * q = 1
  BY <1>1, <1>2, <1>3, <1>4, IndexAssumption
<1>6. CASE p <= q
  <2>1. IdxMod * p <= IdxMod * q
    BY <1>6, <1>1, IndexAssumption
  <2> QED
    BY <2>1, <1>5, <1>1, IndexAssumption
<1>7. CASE p >= q + 1
  <2>1. IdxMod * p >= IdxMod * (q + 1)
    BY <1>7, <1>1, IndexAssumption
  <2>2. IdxMod * (q + 1) = IdxMod * q + IdxMod
    BY <1>1, IndexAssumption
  <2> QED
    BY <2>1, <2>2, <1>5, <1>1, IndexAssumption
<1> QED
  BY <1>1, <1>6, <1>7

-----------------------------------------------------------------------------
(* The line *)

LEMMA EmptyLine ==
    /\ <<>> \in Seq(Message) /\ <<>> \in Seq(Request)
    /\ \A l, s, len : BlocksOK(<<>>, l, s, len)
    /\ \A due : AcksOK(<<>>, due)
BY DEF BlocksOK, AcksOK

(* A message is read.                                                       *)
LEMMA BlocksTail ==
    ASSUME NEW q \in Seq(Message), q # <<>>,
           NEW l \in Nat, NEW s \in Nat, NEW len \in Nat, BlocksOK(q, l, s, len)
    PROVE  Tail(q) \in Seq(Message) /\ BlocksOK(Tail(q), l, s, len)
<1>1. /\ Tail(q) \in Seq(Message) /\ Len(Tail(q)) = Len(q) - 1
      /\ \A i \in 1..Len(Tail(q)) : Tail(q)[i] = q[i + 1]
  OBVIOUS
<1> QED
  BY <1>1 DEF BlocksOK

(* The block that was waited for is taken: only copies of it may follow.    *)
LEMMA BlocksTake ==
    ASSUME NEW q \in Seq(Message), q # <<>>,
           NEW l \in Nat, NEW s \in Nat, NEW len \in Nat, BlocksOK(q, l, s, len),
           Head(q).kind = "SOH", Head(q).n = l + 1
    PROVE  BlocksOK(Tail(q), l + 1, s, len)
<1>1. /\ Tail(q) \in Seq(Message) /\ Len(Tail(q)) = Len(q) - 1
      /\ \A i \in 1..Len(Tail(q)) : Tail(q)[i] = q[i + 1]
  OBVIOUS
<1>2. Head(q) = q[1] /\ 1 \in 1..Len(q)
  OBVIOUS
<1>3. \A i \in 1..Len(q) : q[i].kind = "SOH" => q[i].n = l + 1
  <2> SUFFICES ASSUME NEW i \in 1..Len(q), q[i].kind = "SOH" PROVE q[i].n = l + 1
    OBVIOUS
  <2>1. q[i].n \in {l, l + 1}
    BY DEF BlocksOK
  <2>2. i # 1 => q[i].n >= l + 1
    BY <1>2 DEF BlocksOK
  <2> QED
    BY <1>2, <2>1, <2>2
<1> QED
  BY <1>1, <1>3 DEF BlocksOK

(* A message is written: a copy of the newest block, the end of the file,   *)
(* or a byte that is neither.                                               *)
LEMMA BlocksAppend ==
    ASSUME NEW q \in Seq(Message), NEW m \in Message,
           NEW l \in Nat, NEW s \in Nat, NEW len \in Nat, BlocksOK(q, l, s, len),
           m.kind = "SOH" => m.n = s /\ s \in {l, l + 1} /\ s >= 1 /\ s <= len,
           m.kind = "EOT" => s = len + 1
    PROVE  Append(q, m) \in Seq(Message) /\ BlocksOK(Append(q, m), l, s, len)
<1>1. /\ Append(q, m) \in Seq(Message) /\ Len(Append(q, m)) = Len(q) + 1
      /\ Append(q, m)[Len(q) + 1] = m
      /\ \A i \in 1..Len(q) : Append(q, m)[i] = q[i]
  OBVIOUS
<1>2. \A i \in 1..Len(q) : q[i].kind = "SOH" => q[i].n <= s
  BY DEF BlocksOK
<1> QED
  BY <1>1, <1>2 DEF BlocksOK

(* The sender turns to the next block.                                      *)
LEMMA BlocksNext ==
    ASSUME NEW q \in Seq(Message), NEW l \in Nat, NEW len \in Nat, NEW len2 \in Nat,
           BlocksOK(q, l, l, len), l <= len, l <= len2
    PROVE  BlocksOK(q, l, l + 1, len2)
BY DEF BlocksOK

(* The oldest message is damaged.                                           *)
LEMMA BlocksDamage ==
    ASSUME NEW q \in Seq(Message), q # <<>>, NEW m \in Message,
           NEW l \in Nat, NEW s \in Nat, NEW len \in Nat, BlocksOK(q, l, s, len),
           m.kind = "SOH" => Head(q).kind = "SOH" /\ m.n = Head(q).n,
           m.kind # "EOT"
    PROVE  /\ <<m>> \o Tail(q) \in Seq(Message)
           /\ BlocksOK(<<m>> \o Tail(q), l, s, len)
<1> DEFINE d == <<m>> \o Tail(q)
<1>1. /\ d \in Seq(Message) /\ Len(d) = Len(q)
      /\ d[1] = m /\ q[1] = Head(q)
      /\ \A i \in 1..Len(q) : i # 1 => d[i] = q[i]
  OBVIOUS
<1> HIDE DEF d
<1>2. BlocksOK(d, l, s, len)
  BY <1>1 DEF BlocksOK
<1> QED
  BY <1>1, <1>2 DEF d

LEMMA AcksTail ==
    ASSUME NEW q \in Seq(Request), q # <<>>, NEW due \in BOOLEAN, AcksOK(q, due)
    PROVE  /\ Tail(q) \in Seq(Request) /\ AcksOK(Tail(q), due)
           /\ Head(q) = "ACK" => due /\ \A any : AcksOK(Tail(q), any)
<1>1. /\ Tail(q) \in Seq(Request) /\ Len(Tail(q)) = Len(q) - 1
      /\ \A i \in 1..Len(Tail(q)) : Tail(q)[i] = q[i + 1]
      /\ Head(q) = q[1] /\ 1 \in 1..Len(q)
  OBVIOUS
<1> QED
  BY <1>1 DEF AcksOK

LEMMA AcksAppend ==
    ASSUME NEW q \in Seq(Request), NEW r \in Request, NEW due, NEW due2,
           AcksOK(q, due), r = "ACK" => ~due /\ due2, due => due2
    PROVE  Append(q, r) \in Seq(Request) /\ AcksOK(Append(q, r), due2)
<1>1. /\ Append(q, r) \in Seq(Request) /\ Len(Append(q, r)) = Len(q) + 1
      /\ Append(q, r)[Len(q) + 1] = r
      /\ \A i \in 1..Len(q) : Append(q, r)[i] = q[i]
  OBVIOUS
<1> QED
  BY <1>1 DEF AcksOK

LEMMA AcksDamage ==
    ASSUME NEW q \in Seq(Request), q # <<>>, NEW due, AcksOK(q, due)
    PROVE  /\ <<"junk">> \o Tail(q) \in Seq(Request)
           /\ AcksOK(<<"junk">> \o Tail(q), due)
<1> DEFINE d == <<"junk">> \o Tail(q)
<1>1. /\ d \in Seq(Request) /\ Len(d) = Len(q)
      /\ d[1] = "junk"
      /\ \A i \in 1..Len(q) : i # 1 => d[i] = q[i]
  BY DEF Request
<1> HIDE DEF d
<1>2. AcksOK(d, due)
  BY <1>1 DEF AcksOK
<1> QED
  BY <1>1, <1>2 DEF d

-----------------------------------------------------------------------------
(* The sender *)

LEMMA Messages ==
    /\ Eot \in Message /\ Eot.kind = "EOT"
    /\ \A k \in {"CAN", "junk"} : Byte(k) \in Message /\ Byte(k).kind = k
    /\ \A n \in 0..Last : /\ Block(n) \in Message
                          /\ Block(n).kind = "SOH" /\ Block(n).n = n
BY FileAssumption DEF Message, Parts, Block, Eot, Byte

LEMMA FaultBound ==
    ASSUME faults \in 0..MaxFaults, NoFault \/ (\E k \in FaultKinds : Fault(k))
    PROVE  faults' \in 0..MaxFaults
BY LimitAssumption DEF NoFault, Fault

LEMMA SendBlockLine ==
    ASSUME toR \in Seq(Message), faults \in 0..MaxFaults, NEW m \in Message,
           NEW l \in Nat, NEW s \in Nat, NEW len \in Nat, BlocksOK(toR, l, s, len),
           m.kind = "SOH" => m.n = s /\ s \in {l, l + 1} /\ s >= 1 /\ s <= len,
           m.kind = "EOT" => s = len + 1,
           SendBlock(m)
    PROVE  /\ toR' \in Seq(Message) /\ BlocksOK(toR', l, s, len)
           /\ sres' \in {sres, "timeout"}
           /\ faults' \in 0..MaxFaults
<1> DEFINE c == [m EXCEPT !.part = "cut"]
<1>1. c \in Message /\ c.kind = m.kind /\ c.n = m.n
  BY DEF Message, Parts
<1>2. \/ toR' = toR
      \/ toR' = Append(toR, m)
      \/ toR' = Append(toR, c)
  BY DEF SendBlock
<1> HIDE DEF c
<1>3. toR' \in Seq(Message) /\ BlocksOK(toR', l, s, len)
  BY <1>1, <1>2, BlocksAppend
<1>4. sres' \in {sres, "timeout"} /\ (NoFault \/ Fault("stall"))
  BY DEF SendBlock
<1>5. faults' \in 0..MaxFaults
  BY <1>4, FaultBound DEF FaultKinds
<1> QED
  BY <1>3, <1>4, <1>5

(* The sender turns to a new block only when the receiver has all those it  *)
(* was sent.                                                                *)
LEMMA RequestIsDue ==
    ASSUME IInv, toS # <<>>,
           \/ Head(toS) = "ACK" /\ (fresh \/ avail # 0)
           \/ Head(toS) = "NAK" /\ fresh
    PROVE  sent = Len(psram) /\ sent <= length
<1>1. /\ Len(psram) \in Nat /\ sent \in Nat /\ length \in Nat
      /\ toS \in Seq(Request) /\ AckDue \in BOOLEAN
  BY DEF IInv, TypeOK, AckDue
<1>2. Head(toS) = "ACK" => AckDue
  BY <1>1, AcksTail DEF IInv, LineInv
<1>3. fresh => sent = Len(psram) /\ sent <= length
  BY <1>1 DEF IInv, SenderInv, WindowInv
<1>4. avail # 0 => sent <= length
  BY <1>1 DEF IInv, SenderInv
<1>5. rres = "ok" => sent = length + 1
  BY DEF IInv, ReceiverInv
<1> QED
  BY <1>1, <1>2, <1>3, <1>4, <1>5 DEF AckDue

LEMMA SendNextInv ==
    ASSUME IInv, sres = "run", toS # <<>>, toS' = Tail(toS),
           \/ Head(toS) = "ACK" /\ (fresh \/ avail # 0)
           \/ Head(toS) = "NAK" /\ fresh,
           SendNext, UNCHANGED <<receiver, line>>
    PROVE  IInv'
<1> DEFINE l == Len(psram)
<1>1. /\ l \in Nat /\ sent \in Nat /\ length \in Nat
      /\ sent <= Last + 1 /\ length <= Last
      /\ toR \in Seq(Message) /\ toS \in Seq(Request) /\ faults \in 0..MaxFaults
      /\ rres' = rres /\ psram' = psram /\ soh' = soh /\ eot' = eot
      /\ silence' = silence /\ line' = line
      /\ Last \in Nat
  BY FileAssumption DEF IInv, TypeOK, receiver
<1>2. AckDue \in BOOLEAN
  BY DEF AckDue
<1>3. sent = l /\ sent <= length
  BY RequestIsDue
<1>4. toS' \in Seq(Request) /\ AcksOK(toS', AckDue')
  <2>1. toS' \in Seq(Request) /\ (Head(toS) = "ACK" => \A any : AcksOK(toS', any))
    BY <1>1, <1>2, AcksTail DEF IInv, LineInv
  <2>2. CASE Head(toS) = "NAK" /\ fresh
    <3>1. ~AckDue
      BY <1>1, <1>3, <2>2 DEF AckDue, IInv, SenderInv, ReceiverInv
    <3>2. AcksOK(toS', AckDue)
      BY <1>1, <1>2, AcksTail DEF IInv, LineInv
    <3> QED
      BY <2>1, <3>1, <3>2 DEF AcksOK
  <2> QED
    BY <2>1, <2>2
<1>5. sent' = sent + 1 /\ fresh' = FALSE
  BY DEF SendNext
<1>6. \A len \in Nat : l <= len => BlocksOK(toR, l, sent', len)
  BY <1>1, <1>3, <1>5, BlocksNext DEF IInv, LineInv
<1>7. /\ length' \in 0..Last /\ sent' <= length' + 1 /\ l <= length'
      /\ avail' = IF sent' \in 1..length' THEN 2 ELSE 0
      /\ toR' \in Seq(Message) /\ BlocksOK(toR', l, sent', length')
      /\ sres' \in {"run", "timeout"}
      /\ faults' \in 0..MaxFaults
  <2>1. CASE /\ sent + 1 <= length /\ avail' = 2 /\ length' = length
             /\ SendBlock(Block(sent + 1))
    <3>1. BlocksOK(toR, l, sent', length)
      BY <1>1, <1>3, <1>6
    <3>2. sent' \in Nat /\ sent' \in 0..Last
      BY <1>1, <1>5, <2>1
    <3>3. /\ Block(sent') \in Message
          /\ Block(sent').kind = "SOH" /\ Block(sent').n = sent'
      BY <3>2, Messages
    <3>4. /\ toR' \in Seq(Message) /\ BlocksOK(toR', l, sent', length)
          /\ sres' \in {sres, "timeout"}
          /\ faults' \in 0..MaxFaults
      <4>1. SendBlock(Block(sent'))
        BY <1>5, <2>1
      <4>2. /\ sent' \in {l, l + 1} /\ sent' >= 1 /\ sent' <= length
        BY <1>1, <1>3, <1>5, <2>1
      <4> QED
        BY <1>1, <3>1, <3>2, <3>3, <4>1, <4>2, SendBlockLine
    <3> QED
      BY <1>1, <1>3, <1>5, <2>1, <3>4
  <2>2. CASE /\ sent + 1 > length /\ avail' = 0 /\ length' = length
             /\ SendBlock(Eot)
    <3>1. BlocksOK(toR, l, sent', length) /\ sent' \in Nat /\ sent' = length + 1
      BY <1>1, <1>3, <1>5, <1>6, <2>2
    <3>2. /\ toR' \in Seq(Message) /\ BlocksOK(toR', l, sent', length)
          /\ sres' \in {sres, "timeout"}
          /\ faults' \in 0..MaxFaults
      BY <1>1, <2>2, <3>1, Messages, SendBlockLine
    <3> QED
      BY <1>1, <1>3, <1>5, <2>2, <3>2
  <2>3. CASE /\ sent + 1 <= length /\ Fault("card") /\ avail' = 0 /\ length' = sent
             /\ toR' = Append(toR, Eot) /\ sres' = sres
    <3>1. BlocksOK(toR, l, sent', length') /\ sent' \in Nat /\ sent' = length' + 1
      BY <1>1, <1>3, <1>5, <1>6, <2>3
    <3>2. toR' \in Seq(Message) /\ BlocksOK(toR', l, sent', length')
      BY <1>1, <1>3, <2>3, <3>1, Messages, BlocksAppend
    <3>3. faults' \in 0..MaxFaults
      BY <1>1, <2>3, FaultBound DEF FaultKinds
    <3> QED
      BY <1>1, <1>3, <1>5, <2>3, <3>2, <3>3
  <2> QED
    BY <2>1, <2>2, <2>3 DEF SendNext
<1>8. rres # "ok" /\ eot = 0
  BY <1>1, <1>3 DEF IInv, ReceiverInv, TypeOK
<1>9. TypeOK'
  <2>1. /\ fresh' \in BOOLEAN /\ line' \in BOOLEAN /\ soh' \in BOOLEAN
    BY <1>1, <1>5, Zenon DEF IInv, TypeOK
  <2>2. sent' \in 0..(Last + 1) /\ avail' \in {0, 2} /\ sres' \in Results
    BY <1>1, <1>3, <1>5, <1>7 DEF Results
  <2>3. /\ rres' \in Results \cup {"full"} /\ psram' \in Seq(1..Last)
        /\ eot' \in 0..2 /\ silence' \in 0..(MaxSilence + 1)
    BY <1>1 DEF IInv, TypeOK
  <2> QED
    BY <1>4, <1>7, <2>1, <2>2, <2>3 DEF TypeOK
<1>10. InOrder' /\ (sres = "ok" => rres = "ok")'
  BY <1>1, <1>7 DEF IInv, InOrder
<1>11. SenderInv'
  <2>1. ~fresh' /\ sent' # 0
    BY <1>1, <1>5
  <2> QED
    BY <1>7, <2>1 DEF SenderInv
<1>12. ReceiverInv'
  BY <1>1, <1>8 DEF IInv, ReceiverInv
<1>13. WindowInv'
  BY <1>1, <1>3, <1>5, <1>7 DEF WindowInv
<1>14. LineInv'
  BY <1>1, <1>4, <1>7 DEF LineInv
<1> QED
  BY <1>9, <1>10, <1>11, <1>12, <1>13, <1>14 DEF IInv

(* A step after which only the line, the faults and the sender's result     *)
(* differ, and the line is as it should be.                                 *)
LEMMA LineStepInv ==
    ASSUME IInv, UNCHANGED <<sent, fresh, avail, length, receiver>>,
           sres' \in Results, sres' = "ok" => rres = "ok",
           line' \in BOOLEAN, faults' \in 0..MaxFaults,
           toR' \in Seq(Message), BlocksOK(toR', Len(psram), sent, length),
           toS' \in Seq(Request), AcksOK(toS', AckDue)
    PROVE  IInv'
<1>1. /\ sent' = sent /\ fresh' = fresh /\ avail' = avail /\ length' = length
      /\ rres' = rres /\ psram' = psram /\ soh' = soh /\ eot' = eot
      /\ silence' = silence
  BY DEF receiver
<1>2. TypeOK'
  <2>1. fresh' \in BOOLEAN /\ soh' \in BOOLEAN
    BY <1>1, Zenon DEF IInv, TypeOK
  <2> QED
    BY <1>1, <2>1 DEF IInv, TypeOK
<1>3. InOrder' /\ (sres = "ok" => rres = "ok")'
  BY <1>1 DEF IInv, InOrder
<1>4. SenderInv'
  <2>1. fresh' <=> sent' = 0
    <3>1. fresh <=> sent = 0
      BY DEF IInv, SenderInv
    <3>2. fresh' = fresh /\ sent' = sent
      BY <1>1
    <3> QED
      BY ONLY <3>1, <3>2, Zenon
  <2> QED
    BY <1>1, <2>1 DEF IInv, SenderInv
<1>5. ReceiverInv' /\ WindowInv'
  BY <1>1 DEF IInv, ReceiverInv, WindowInv
<1>6. LineInv'
  <2>1. AckDue' <=> AckDue
    BY <1>1 DEF AckDue
  <2>2. AckDue \in BOOLEAN /\ AckDue' \in BOOLEAN
    BY DEF AckDue
  <2> QED
    BY <1>1, <2>1, <2>2 DEF LineInv
<1> QED
  BY <1>2, <1>3, <1>4, <1>5, <1>6 DEF IInv

LEMMA NatFacts ==
    ASSUME IInv
    PROVE  /\ Len(psram) \in Nat /\ sent \in Nat /\ length \in Nat
           /\ sent <= Last + 1 /\ length <= Last /\ Last \in Nat
           /\ toR \in Seq(Message) /\ toS \in Seq(Request)
           /\ BlocksOK(toR, Len(psram), sent, length)
           /\ AcksOK(toS, AckDue) /\ AckDue \in BOOLEAN
           /\ faults \in 0..MaxFaults /\ sres \in Results /\ line \in BOOLEAN
BY FileAssumption DEF IInv, TypeOK, LineInv, AckDue

LEMMA SenderStartInv == ASSUME IInv, SenderStart PROVE IInv'
<1>1. UNCHANGED <<sent, fresh, avail, length, receiver>> /\ sres' = "run"
  BY DEF SenderStart
<1>2. line' = line /\ faults' = faults /\ toR' = toR /\ toS' = toS
  BY DEF SenderStart
<1> QED
  BY <1>1, <1>2, NatFacts, LineStepInv DEF Results

LEMMA SenderReadFailsInv == ASSUME IInv, SenderReadFails PROVE IInv'
<1>1. UNCHANGED <<sent, fresh, avail, length, receiver>> /\ sres' = "mcu"
  BY DEF SenderReadFails
<1>2. line' = line /\ toR' = toR /\ toS' = toS
  BY DEF SenderReadFails
<1>3. faults' \in 0..MaxFaults
  BY NatFacts, FaultBound DEF SenderReadFails, FaultKinds
<1> QED
  BY <1>1, <1>2, <1>3, NatFacts, LineStepInv DEF Results

LEMMA SenderHearsInv == ASSUME IInv, SenderHears PROVE IInv'
<1>1. /\ sres = "run" /\ toS # <<>> /\ toS' = Tail(toS)
      /\ UNCHANGED receiver /\ line' = line
  BY DEF SenderHears
<1>2. /\ Tail(toS) \in Seq(Request) /\ AcksOK(Tail(toS), AckDue)
      /\ Head(toS) = "ACK" => AckDue
  BY <1>1, NatFacts, AcksTail
<1>3. CASE /\ Head(toS) = "ACK" /\ ~fresh /\ avail = 0 /\ sres' = "ok"
           /\ UNCHANGED <<sent, fresh, avail, length, toR, faults>>
  <2>1. rres = "ok"
    <3>1. sent # 0 /\ ~(sent \in 1..length)
      BY <1>3 DEF IInv, SenderInv
    <3> QED
      BY <1>2, <1>3, <3>1, NatFacts DEF AckDue, IInv, WindowInv
  <2> QED
    BY <1>1, <1>2, <1>3, <2>1, NatFacts, LineStepInv DEF Results
<1>4. CASE /\ \/ Head(toS) = "ACK" /\ (fresh \/ avail # 0)
              \/ Head(toS) = "NAK" /\ fresh
           /\ SendNext
  BY <1>1, <1>4, SendNextInv
<1>5. CASE Head(toS) = "NAK" /\ ~fresh /\ SendAgain
  <2> DEFINE m == IF avail = 0 THEN Eot ELSE Block(sent)
  <2>1. UNCHANGED <<sent, fresh, avail, length>> /\ SendBlock(m)
    BY <1>5 DEF SendAgain
  <2>2. CASE avail = 0
    <3>1. sent = length + 1
      BY <1>5, <2>2, NatFacts DEF IInv, SenderInv
    <3>2. m = Eot /\ m \in Message /\ m.kind = "EOT"
      BY <2>2, Messages
    <3> HIDE DEF m
    <3>3. /\ toR' \in Seq(Message) /\ BlocksOK(toR', Len(psram), sent, length)
          /\ sres' \in {sres, "timeout"}
          /\ faults' \in 0..MaxFaults
      BY <2>1, <3>1, <3>2, NatFacts, SendBlockLine
    <3> QED
      BY <1>1, <1>2, <2>1, <3>3, NatFacts, LineStepInv DEF Results
  <2>3. CASE avail # 0
    <3>1. sent \in 1..length /\ sent \in 0..Last
      BY <2>3, NatFacts DEF IInv, SenderInv
    <3>2. m \in Message /\ m.kind = "SOH" /\ m.n = sent
      BY <2>3, <3>1, Messages
    <3> HIDE DEF m
    <3>3. /\ toR' \in Seq(Message) /\ BlocksOK(toR', Len(psram), sent, length)
          /\ sres' \in {sres, "timeout"}
          /\ faults' \in 0..MaxFaults
      <4>1. sent \in {Len(psram), Len(psram) + 1}
        BY NatFacts DEF IInv, WindowInv
      <4> QED
        BY <2>1, <3>1, <3>2, <4>1, NatFacts, SendBlockLine
    <3> QED
      BY <1>1, <1>2, <2>1, <3>3, NatFacts, LineStepInv DEF Results
  <2> QED
    BY <2>2, <2>3
<1>6. CASE /\ Head(toS) = "CAN" /\ sres' = "cancel"
           /\ UNCHANGED <<sent, fresh, avail, length, toR, faults>>
  BY <1>1, <1>2, <1>6, NatFacts, LineStepInv DEF Results
<1>7. CASE Head(toS) = "junk" /\ UNCHANGED <<sender, toR, faults>>
  BY <1>1, <1>2, <1>7, NatFacts, LineStepInv DEF Results, sender
<1> QED
  BY <1>3, <1>4, <1>5, <1>6, <1>7 DEF SenderHears

-----------------------------------------------------------------------------
(* The receiver *)

(* What a byte written to the sender leaves.                                *)
LEMMA AnswerLine ==
    ASSUME toS \in Seq(Request), faults \in 0..MaxFaults,
           NEW k \in Request, NEW r, Answer(k, r), NEW due, NEW due2,
           AcksOK(toS, due), due => due2, k = "ACK" => ~due,
           k = "ACK" /\ rres' = r => due2
    PROVE  /\ toS' \in Seq(Request) /\ AcksOK(toS', due2)
           /\ rres' \in {r, "timeout"} /\ faults' \in 0..MaxFaults
<1>1. faults' \in 0..MaxFaults
  BY FaultBound DEF Answer, FaultKinds
<1>2. CASE toS' = Append(toS, k) /\ rres' = r
  BY <1>1, <1>2, AcksAppend
<1>3. CASE toS' = toS /\ rres' = "timeout"
  BY <1>1, <1>3 DEF AcksOK
<1> QED
  BY <1>2, <1>3 DEF Answer

(* A step of the receiver that takes no block.                              *)
LEMMA ReceiverStepInv ==
    ASSUME IInv, UNCHANGED <<sender, psram, line>>,
           rres' \in Results \cup {"full"}, rres = "ok" => rres' = "ok",
           rres' = "ok" => sent = length + 1,
           soh' \in BOOLEAN, silence' \in 0..(MaxSilence + 1), eot' \in 0..2,
           rres' \in {"idle", "run"} => eot' <= 1 /\ silence' <= MaxSilence,
           eot' >= 1 => sent = length + 1,
           faults' \in 0..MaxFaults,
           toR' \in Seq(Message), BlocksOK(toR', Len(psram), sent, length),
           toS' \in Seq(Request), AcksOK(toS', AckDue')
    PROVE  IInv'
<1>1. /\ sres' = sres /\ sent' = sent /\ fresh' = fresh /\ avail' = avail
      /\ length' = length /\ psram' = psram /\ line' = line
  BY DEF sender
<1>2. TypeOK'
  <2>1. fresh' \in BOOLEAN /\ line' \in BOOLEAN
    BY <1>1, Zenon DEF IInv, TypeOK
  <2> QED
    BY <1>1, <2>1 DEF IInv, TypeOK
<1>3. InOrder' /\ (sres = "ok" => rres = "ok")'
  BY <1>1 DEF IInv, InOrder
<1>4. SenderInv'
  <2>1. fresh' <=> sent' = 0
    <3>1. fresh <=> sent = 0
      BY DEF IInv, SenderInv
    <3>2. fresh' = fresh /\ sent' = sent
      BY <1>1
    <3> QED
      BY ONLY <3>1, <3>2, Zenon
  <2> QED
    BY <1>1, <2>1 DEF IInv, SenderInv
<1>5. ReceiverInv' /\ WindowInv' /\ LineInv'
  BY <1>1 DEF IInv, ReceiverInv, WindowInv, LineInv
<1> QED
  BY <1>2, <1>3, <1>4, <1>5 DEF IInv

LEMMA ReceiverFacts ==
    ASSUME IInv
    PROVE  /\ rres \in Results \cup {"full"}
           /\ soh \in BOOLEAN /\ silence \in 0..(MaxSilence + 1) /\ eot \in 0..2
           /\ rres \in {"idle", "run"} => eot <= 1 /\ silence <= MaxSilence
           /\ eot >= 1 \/ rres = "ok" => sent = length + 1
           /\ MaxSilence \in Nat /\ Capacity \in Nat
BY LimitAssumption, FileAssumption DEF IInv, TypeOK, ReceiverInv

LEMMA ReceiverStartInv == ASSUME IInv, ReceiverStart PROVE IInv'
<1>1. /\ UNCHANGED <<sender, psram, line, soh, eot, silence>>
      /\ rres = "idle" /\ toR' = <<>> /\ Answer("NAK", "run")
  BY DEF ReceiverStart
<1>2. /\ toS' \in Seq(Request) /\ AcksOK(toS', AckDue)
      /\ rres' \in {"run", "timeout"} /\ faults' \in 0..MaxFaults
  BY <1>1, NatFacts, AnswerLine DEF Request
<1>3. AckDue' <=> AckDue
  BY <1>1, <1>2 DEF AckDue, sender
<1> QED
  BY <1>1, <1>2, <1>3, NatFacts, ReceiverFacts, EmptyLine, ReceiverStepInv DEF Results, AckDue

LEMMA ReceiverFullInv == ASSUME IInv, ReceiverFull PROVE IInv'
<1>1. /\ UNCHANGED <<sender, psram, line, soh, eot, silence, toR>>
      /\ rres = "full" /\ Answer("CAN", "toolarge")
  BY DEF ReceiverFull
<1>2. /\ toS' \in Seq(Request) /\ AcksOK(toS', AckDue)
      /\ rres' \in {"toolarge", "timeout"} /\ faults' \in 0..MaxFaults
  BY <1>1, NatFacts, AnswerLine DEF Request
<1>3. AckDue' <=> AckDue
  BY <1>1, <1>2 DEF AckDue, sender
<1> QED
  BY <1>1, <1>2, <1>3, NatFacts, ReceiverFacts, ReceiverStepInv DEF Results, AckDue

LEMMA ReceiverSilenceInv == ASSUME IInv, ReceiverSilence PROVE IInv'
<1>1. /\ UNCHANGED <<sender, psram, line, soh, eot, toR>>
      /\ rres = "run" /\ silence' = silence + 1
  BY DEF ReceiverSilence
<1>2. /\ toS' \in Seq(Request) /\ AcksOK(toS', AckDue)
      /\ rres' \in {"run", "timeout"} /\ faults' \in 0..MaxFaults
      /\ rres' = "run" => silence' <= MaxSilence
  <2>1. CASE silence + 1 > MaxSilence /\ rres' = "timeout" /\ UNCHANGED <<toS, faults>>
    BY <2>1, NatFacts
  <2>2. CASE silence + 1 <= MaxSilence /\ UNCHANGED <<rres, toS, faults>>
    BY <1>1, <2>2, NatFacts
  <2>3. CASE silence + 1 <= MaxSilence /\ Answer("NAK", "run")
    <3>1. /\ toS' \in Seq(Request) /\ AcksOK(toS', AckDue)
          /\ rres' \in {"run", "timeout"} /\ faults' \in 0..MaxFaults
      BY <2>3, NatFacts, AnswerLine DEF Request
    <3> QED
      BY <1>1, <2>3, <3>1
  <2> QED
    BY <2>1, <2>2, <2>3 DEF ReceiverSilence
<1>3. AckDue' <=> AckDue
  BY <1>1, <1>2 DEF AckDue, sender
<1>4. silence' \in 0..(MaxSilence + 1)
  BY <1>1, ReceiverFacts
<1> QED
  BY <1>1, <1>2, <1>3, <1>4, NatFacts, ReceiverFacts, ReceiverStepInv DEF Results, AckDue

(* The block that the receiver waits for is the newest of the sender's, and *)
(* no acknowledgement is on its way.                                        *)
LEMMA ExpectedIsNext ==
    ASSUME IInv, rres = "run", toR # <<>>, Head(toR).kind = "SOH", Expected(Head(toR))
    PROVE  /\ Head(toR).n = Len(psram) + 1 /\ Head(toR).n \in 1..Last
           /\ sent = Len(psram) + 1 /\ sent <= length
           /\ ~AckDue
<1> DEFINE m == Head(toR)  l == Len(psram)
<1>1. /\ m = toR[1] /\ 1 \in 1..Len(toR)
  BY NatFacts
<1>2. m.n \in {l, l + 1} /\ m.n >= 1 /\ m.n <= sent /\ m.n <= length
  BY <1>1, NatFacts DEF BlocksOK
<1>3. m.n # l
  <2>1. l \in Nat /\ Index(m.n) = Index(l + 1)
    BY NatFacts DEF Expected, Index
  <2> QED
    BY <2>1, Neighbours
<1>4. sent = l + 1
  BY <1>2, <1>3, NatFacts DEF IInv, WindowInv
<1> QED
  BY <1>2, <1>3, <1>4, NatFacts DEF AckDue

LEMMA TakeBlockInv ==
    ASSUME IInv, rres = "run", toR # <<>>, toR' = Tail(toR),
           UNCHANGED <<sender, line, eot>>, silence' = 0,
           Head(toR).kind = "SOH", TakeBlock(Head(toR))
    PROVE  IInv'
<1> DEFINE m == Head(toR)  l == Len(psram)
           r == IF l + 1 = Capacity THEN "full" ELSE "run"
<1>1. /\ Answer("ACK", r) /\ soh' = TRUE
      /\ psram' = IF rres' = "timeout" THEN psram ELSE Append(psram, m.n)
      /\ Expected(m)
  BY DEF TakeBlock
<1>2. /\ m.n = l + 1 /\ m.n \in 1..Last /\ sent = l + 1 /\ sent <= length
      /\ ~AckDue
  BY <1>1, ExpectedIsNext
<1>3. /\ toR' \in Seq(Message) /\ BlocksOK(toR', l, sent, length)
  BY NatFacts, BlocksTail
<1>4. silence' \in 0..(MaxSilence + 1) /\ silence' <= MaxSilence
  BY ReceiverFacts
<1>5. r \in {"full", "run"}
  OBVIOUS
<1>6. CASE rres' = "timeout"
  <2>1. toS' = toS /\ psram' = psram
    BY <1>1, <1>5, <1>6 DEF Answer
  <2>2. AcksOK(toS', AckDue')
    BY <1>2, <2>1, NatFacts DEF AcksOK
  <2>3. faults' \in 0..MaxFaults
    BY <1>1, NatFacts, FaultBound DEF Answer, FaultKinds
  <2> QED
    BY <1>1, <1>3, <1>4, <1>6, <2>1, <2>2, <2>3, NatFacts, ReceiverFacts, ReceiverStepInv
       DEF Results
<1>7. CASE rres' # "timeout"
  <2>1. /\ sres' = sres /\ sent' = sent /\ fresh' = fresh /\ avail' = avail
        /\ length' = length /\ line' = line /\ eot' = eot
    BY DEF sender
  <2>2. rres' = r /\ rres' \in {"full", "run"} /\ psram' = Append(psram, l + 1)
    BY <1>1, <1>2, <1>5, <1>7 DEF Answer
  <2>3. /\ psram' \in Seq(1..Last) /\ Len(psram') = l + 1
        /\ psram' = [i \in 1..(l + 1) |-> i]
    BY <1>2, <2>2, NatFacts DEF IInv, TypeOK, InOrder
  <2>4. AckDue'
    BY <1>2, <2>1, <2>3, NatFacts DEF AckDue
  <2>5. /\ toS' \in Seq(Request) /\ AcksOK(toS', AckDue')
        /\ faults' \in 0..MaxFaults
    BY <1>1, <1>2, <2>4, NatFacts, AnswerLine DEF Request
  <2>6. BlocksOK(toR', l + 1, sent, length)
    BY <1>2, NatFacts, BlocksTake
  <2>7. TypeOK'
    <3>1. fresh' \in BOOLEAN /\ line' \in BOOLEAN /\ soh' \in BOOLEAN
      BY <1>1, <2>1, Zenon DEF IInv, TypeOK
    <3> QED
      BY <1>3, <1>4, <2>1, <2>2, <2>3, <2>5, <3>1 DEF IInv, TypeOK
  <2>8. InOrder' /\ (sres = "ok" => rres = "ok")'
    BY <2>1, <2>2, <2>3 DEF IInv, InOrder
  <2>9. SenderInv'
    <3>1. fresh' <=> sent' = 0
      <4>1. fresh <=> sent = 0
        BY DEF IInv, SenderInv
      <4> QED
        BY ONLY <4>1, <2>1, Zenon
    <3> QED
      BY <2>1, <3>1 DEF IInv, SenderInv
  <2>10. ReceiverInv'
    BY <1>4, <2>1, <2>2 DEF IInv, ReceiverInv
  <2>11. WindowInv'
    BY <1>2, <2>1, <2>3, NatFacts DEF WindowInv
  <2>12. LineInv'
    BY <2>1, <2>3, <2>5, <2>6 DEF LineInv
  <2> QED
    BY <2>7, <2>8, <2>9, <2>10, <2>11, <2>12 DEF IInv
<1> QED
  BY <1>6, <1>7

LEMMA ReceiverHearsInv == ASSUME IInv, ReceiverHears PROVE IInv'
<1> DEFINE m == Head(toR)
<1>1. /\ rres = "run" /\ toR # <<>> /\ toR' = Tail(toR)
      /\ UNCHANGED <<sender, line>>
      /\ m = toR[1] /\ 1 \in 1..Len(toR)
  BY NatFacts DEF ReceiverHears
<1>2. /\ toR' \in Seq(Message) /\ BlocksOK(toR', Len(psram), sent, length)
  BY <1>1, NatFacts, BlocksTail
<1>3. ASSUME m.kind = "SOH", silence' = 0, UNCHANGED eot,
             \/ TakeBlock(m) \/ SkipBlock(m) \/ RefuseBlock(m)
             \/ rres' = "timeout" /\ soh' = TRUE /\ UNCHANGED <<psram, toS, faults>>
      PROVE  IInv'
  <2>1. silence' \in 0..(MaxSilence + 1) /\ silence' <= MaxSilence
    BY <1>3, ReceiverFacts
  <2>2. CASE TakeBlock(m)
    BY <1>1, <1>3, <2>2, TakeBlockInv
  <2>3. CASE RefuseBlock(m)
    <3>1. Answer("NAK", "run") /\ soh' = TRUE /\ UNCHANGED psram
      BY <2>3 DEF RefuseBlock
    <3>2. /\ toS' \in Seq(Request) /\ AcksOK(toS', AckDue)
          /\ rres' \in {"run", "timeout"} /\ faults' \in 0..MaxFaults
      BY <3>1, NatFacts, AnswerLine DEF Request
    <3>3. AckDue' <=> AckDue
      BY <1>1, <3>1, <3>2 DEF AckDue, sender
    <3> QED
      BY <1>1, <1>2, <1>3, <2>1, <3>1, <3>2, <3>3, NatFacts, ReceiverFacts, ReceiverStepInv
         DEF Results, AckDue
  <2>4. CASE /\ rres' \in {"run", "timeout"} /\ soh' \in BOOLEAN
             /\ UNCHANGED <<psram, toS, faults>>
    <3>1. AckDue' <=> AckDue
      BY <1>1, <2>4 DEF AckDue, sender
    <3> QED
      BY <1>1, <1>2, <1>3, <2>1, <2>4, <3>1, NatFacts, ReceiverFacts, ReceiverStepInv
         DEF Results, AckDue
  <2> QED
    BY <1>1, <1>3, <2>2, <2>3, <2>4 DEF SkipBlock
<1>4. CASE /\ m.kind = "EOT" /\ eot' = eot + 1
           /\ IF eot = 0 THEN Answer("NAK", "run") ELSE Answer("ACK", "ok")
           /\ UNCHANGED <<psram, soh, silence>>
  <2>1. sent = length + 1
    BY <1>1, <1>4, NatFacts DEF BlocksOK
  <2>2. ~AckDue
    BY <1>1, <2>1, NatFacts DEF AckDue, IInv, WindowInv
  <2>3. CASE eot = 0
    <3>1. /\ toS' \in Seq(Request) /\ AcksOK(toS', AckDue)
          /\ rres' \in {"run", "timeout"} /\ faults' \in 0..MaxFaults
      BY <1>4, <2>3, NatFacts, AnswerLine DEF Request
    <3>2. AcksOK(toS', AckDue')
      BY <2>2, <3>1 DEF AcksOK
    <3> QED
      BY <1>1, <1>2, <1>4, <2>1, <2>3, <3>1, <3>2, NatFacts, ReceiverFacts, ReceiverStepInv
         DEF Results
  <2>4. CASE eot # 0
    <3>1. eot = 1
      BY <1>1, <2>4, ReceiverFacts
    <3>2. rres' = "ok" => AckDue'
      BY DEF AckDue
    <3>3. Answer("ACK", "ok")
      BY <1>4, <2>4
    <3>4. /\ toS' \in Seq(Request) /\ AcksOK(toS', AckDue')
          /\ rres' \in {"ok", "timeout"} /\ faults' \in 0..MaxFaults
      BY <2>2, <3>2, <3>3, NatFacts, AnswerLine DEF Request
    <3> QED
      BY <1>1, <1>2, <1>4, <2>1, <3>1, <3>4, NatFacts, ReceiverFacts, ReceiverStepInv
         DEF Results
  <2> QED
    BY <2>3, <2>4
<1>5. CASE rres' \in {"run", "cancel"} /\ UNCHANGED <<psram, soh, eot, silence, toS, faults>>
  <2>1. AckDue' <=> AckDue
    BY <1>1, <1>5 DEF AckDue, sender
  <2> QED
    BY <1>1, <1>2, <1>5, <2>1, NatFacts, ReceiverFacts, ReceiverStepInv DEF Results, AckDue
<1> QED
  BY <1>1, <1>3, <1>4, <1>5 DEF ReceiverHears, receiver

-----------------------------------------------------------------------------
(* The line and its user *)

LEMMA LineInvStep == ASSUME IInv, Line PROVE IInv'
<1> USE NatFacts
<1>1. ASSUME NEW k \in FaultKinds, Fault(k) PROVE faults' \in 0..MaxFaults
  BY <1>1, FaultBound
<1>2. CASE DamageBlock
  <2>1. /\ toR # <<>> /\ Head(toR).kind = "SOH" /\ Fault("block")
        /\ UNCHANGED <<sender, receiver, line, toS>>
    BY <1>2 DEF DamageBlock
  <2>2. PICK p \in {"header", "data"} :
           toR' = <<[Head(toR) EXCEPT !.part = p]>> \o Tail(toR)
    BY <1>2 DEF DamageBlock
  <2> DEFINE d == [Head(toR) EXCEPT !.part = p]
  <2>3. d \in Message /\ d.kind = "SOH" /\ d.n = Head(toR).n
    <3>1. Head(toR) \in Message
      BY <2>1
    <3> QED
      BY <2>1, <3>1 DEF Message, Parts
  <2>4. toR' = <<d>> \o Tail(toR)
    BY <2>2
  <2> HIDE DEF d
  <2>5. toR' \in Seq(Message) /\ BlocksOK(toR', Len(psram), sent, length)
    BY <2>1, <2>3, <2>4, BlocksDamage
  <2> QED
    BY <1>1, <2>1, <2>5, LineStepInv DEF FaultKinds, sender, IInv
<1>3. CASE DamageEnd
  <2>1. /\ toR # <<>> /\ Fault("end") /\ toR' = <<Byte("junk")>> \o Tail(toR)
        /\ UNCHANGED <<sender, receiver, line, toS>>
    BY <1>3 DEF DamageEnd
  <2>2. toR' \in Seq(Message) /\ BlocksOK(toR', Len(psram), sent, length)
    BY <2>1, Messages, BlocksDamage
  <2> QED
    BY <1>1, <2>1, <2>2, LineStepInv DEF FaultKinds, sender, IInv
<1>4. CASE DamageAnswer
  <2>1. /\ toS # <<>> /\ Fault("answer") /\ toS' = <<"junk">> \o Tail(toS)
        /\ UNCHANGED <<sender, receiver, line, toR>>
    BY <1>4 DEF DamageAnswer
  <2>2. toS' \in Seq(Request) /\ AcksOK(toS', AckDue)
    BY <2>1, AcksDamage
  <2> QED
    BY <1>1, <2>1, <2>2, LineStepInv DEF FaultKinds, sender, IInv
<1>5. CASE Unplug
  <2>1. /\ Fault("unplug") /\ line' = FALSE /\ toR' = <<>> /\ toS' = <<>>
        /\ UNCHANGED <<sender, receiver>>
    BY <1>5 DEF Unplug
  <2> QED
    BY <1>1, <2>1, EmptyLine, LineStepInv DEF FaultKinds, sender, IInv
<1>6. CASE Replug
  BY <1>6, LineStepInv DEF Replug, sender, IInv
<1>7. CASE Cancel
  <2>1. /\ Fault("cancel") /\ UNCHANGED <<sender, receiver, line>>
        /\ \/ toR' = Append(toR, Byte("CAN")) /\ toS' = toS
           \/ toS' = Append(toS, "CAN") /\ toR' = toR
    BY <1>7 DEF Cancel
  <2>2. toR' \in Seq(Message) /\ BlocksOK(toR', Len(psram), sent, length)
    <3>1. Byte("CAN") \in Message /\ Byte("CAN").kind = "CAN"
      BY Messages
    <3> DEFINE c == Byte("CAN")
    <3> HIDE DEF c
    <3>2. c \in Message /\ c.kind = "CAN"
      BY <3>1 DEF c
    <3>3. Append(toR, c) \in Seq(Message) /\ BlocksOK(Append(toR, c), Len(psram), sent, length)
      BY <3>2, BlocksAppend
    <3> QED
      BY <2>1, <3>3 DEF c
  <2>3. toS' \in Seq(Request) /\ AcksOK(toS', AckDue)
    BY <2>1, AcksAppend DEF Request
  <2> QED
    BY <1>1, <2>1, <2>2, <2>3, LineStepInv DEF FaultKinds, sender, IInv
<1> QED
  BY <1>2, <1>3, <1>4, <1>5, <1>6, <1>7 DEF Line

-----------------------------------------------------------------------------
(* Invariance *)

LEMMA InitInv == ASSUME Init PROVE IInv
<1>1. /\ Len(psram) = 0 /\ psram \in Seq(1..Last) /\ psram = [i \in 1..0 |-> i]
      /\ Last \in Nat /\ MaxSilence \in Nat /\ MaxFaults \in Nat
  BY FileAssumption, LimitAssumption DEF Init
<1>2. TypeOK
  <2>1. fresh \in BOOLEAN /\ soh \in BOOLEAN /\ line \in BOOLEAN
    BY Zenon DEF Init
  <2> QED
    BY <1>1, <2>1, EmptyLine DEF Init, TypeOK, Results
<1>3. SenderInv /\ ReceiverInv /\ WindowInv
  BY <1>1 DEF Init, SenderInv, ReceiverInv, WindowInv
<1>4. LineInv
  BY EmptyLine DEF Init, LineInv
<1>5. InOrder /\ (sres = "ok" => rres = "ok")
  BY <1>1 DEF Init, InOrder
<1> QED
  BY <1>2, <1>3, <1>4, <1>5 DEF IInv

LEMMA StutterInv == ASSUME IInv, UNCHANGED vars PROVE IInv'
<1>1. /\ UNCHANGED <<sent, fresh, avail, length, receiver>>
      /\ sres' = sres /\ line' = line /\ faults' = faults /\ toR' = toR /\ toS' = toS
  BY DEF vars, sender
<1> QED
  BY <1>1, NatFacts, LineStepInv DEF IInv

LEMMA NextInv == ASSUME IInv, [Next]_vars PROVE IInv'
<1>1. CASE Sender
  BY <1>1, SenderStartInv, SenderHearsInv, SenderReadFailsInv DEF Sender
<1>2. CASE Receiver
  BY <1>2, ReceiverStartInv, ReceiverHearsInv, ReceiverFullInv, ReceiverSilenceInv
     DEF Receiver
<1>3. CASE Line
  BY <1>3, LineInvStep
<1> QED
  BY <1>1, <1>2, <1>3, StutterInv DEF Next

THEOREM Invariance == Spec => []IInv
BY InitInv, NextInv, PTL DEF Spec

(* Every variable keeps its type.                                           *)
THEOREM TypeSafety == Spec => []TypeOK
<1>1. IInv => TypeOK
  BY DEF IInv
<1> QED
  BY <1>1, Invariance, PTL

(* The receiver of xmodem.c has a prefix of the file, whatever the line     *)
(* does, although an index names a block modulo IdxMod only.                *)
THEOREM BlocksArriveInOrder == Spec => []InOrder
<1>1. IInv => InOrder
  BY DEF IInv
<1> QED
  BY <1>1, Invariance, PTL

(* Success of xmodem_recv_to_psram means the whole of what the sender's     *)
(* callback found; success of xmodem_send means success of the receiver.    *)
THEOREM SuccessIsComplete == Spec => []OkIsComplete
<1>1. IInv => OkIsComplete
  BY NatFacts DEF IInv, ReceiverInv, WindowInv, OkIsComplete
<1> QED
  BY <1>1, Invariance, PTL

-----------------------------------------------------------------------------
(* Refinement *)

LEMMA Outcomes ==
    /\ \A r \in {"idle", "run"} : Outcome(r) = "busy"
    /\ Outcome("ok") = "done"
    /\ \A r \in {"timeout", "cancel", "mcu", "toolarge", "full"} : Outcome(r) = "failed"
BY DEF Outcome

(* Nothing the abstract transfer shows has changed, or a side has given up. *)
LEMMA QuietStep ==
    ASSUME length' = length, psram' = psram,
           \/ /\ Outcome(rres)' = Outcome(rres)
              /\ \/ Outcome(sres)' = Outcome(sres)
                 \/ Outcome(sres) = "busy" /\ Outcome(sres)' = "failed"
           \/ /\ Outcome(sres)' = Outcome(sres)
              /\ Outcome(rres) = "busy" /\ Outcome(rres)' = "failed"
    PROVE  [Transfer!Next]_(Transfer!vars)
BY DEF Transfer!Next, Transfer!GiveUp, Transfer!vars

LEMMA SenderHearsRefines ==
    ASSUME IInv, IInv', SenderHears PROVE [Transfer!Next]_(Transfer!vars)
<1>1. /\ sres = "run" /\ toS # <<>> /\ psram' = psram /\ rres' = rres
      /\ Outcome(sres) = "busy" /\ Outcome(rres)' = Outcome(rres)
  BY Outcomes DEF SenderHears, receiver
<1>2. CASE sres' = "ok" /\ length' = length
  <2>1. rres = "ok"
    BY <1>1, <1>2 DEF IInv
  <2>2. Outcome(rres) = "done" /\ Outcome(sres)' = "done"
    BY <1>2, <2>1, Outcomes
  <2> QED
    BY <1>1, <1>2, <2>2 DEF Transfer!Next, Transfer!SenderDone
<1>3. CASE sres' \in {"run", "timeout", "cancel"} /\ length' = length
  <2>1. Outcome(sres)' \in {"busy", "failed"}
    BY <1>3, Outcomes
  <2> QED
    BY <1>1, <1>3, <2>1, QuietStep
<1>4. CASE /\ \/ Head(toS) = "ACK" /\ (fresh \/ avail # 0)
              \/ Head(toS) = "NAK" /\ fresh
           /\ SendNext
  <2>1. CASE length' = length
    <3>1. sres' \in {"run", "timeout"}
      BY <1>1, <1>4 DEF SendNext, SendBlock
    <3> QED
      BY <1>3, <2>1, <3>1
  <2>2. CASE length' = sent /\ sres' = sres
    <3>1. length' = Len(psram)
      BY <1>1, <1>4, <2>2, RequestIsDue
    <3>2. Outcome(sres)' = "busy"
      BY <1>1, <2>2, Outcomes
    <3> QED
      BY <1>1, <3>1, <3>2 DEF Transfer!Next, Transfer!CutShort
  <2> QED
    BY <1>4, <2>1, <2>2 DEF SendNext
<1>5. CASE SendAgain
  BY <1>1, <1>3, <1>5 DEF SendAgain, SendBlock
<1> QED
  BY <1>1, <1>2, <1>3, <1>4, <1>5 DEF SenderHears, sender

LEMMA ReceiverHearsRefines ==
    ASSUME IInv, IInv', ReceiverHears PROVE [Transfer!Next]_(Transfer!vars)
<1> DEFINE m == Head(toR)
<1>1. /\ rres = "run" /\ toR # <<>> /\ sres' = sres /\ length' = length
      /\ Outcome(rres) = "busy" /\ Outcome(sres)' = Outcome(sres)
  BY Outcomes DEF ReceiverHears, sender
<1>2. CASE psram' = psram /\ rres' \in {"run", "timeout", "cancel"}
  <2>1. Outcome(rres)' \in {"busy", "failed"}
    BY <1>2, Outcomes
  <2> QED
    BY <1>1, <1>2, <2>1, QuietStep
<1>3. CASE psram' = psram /\ rres' = "ok"
  <2>1. sent' = length' + 1 /\ Len(psram') <= length' /\ sent' <= Len(psram') + 1
    BY <1>3 DEF IInv, ReceiverInv, WindowInv
  <2>2. Len(psram) = length
    BY <1>1, <1>3, <2>1, NatFacts DEF IInv, TypeOK
  <2>3. Outcome(rres)' = "done"
    BY <1>3, Outcomes
  <2> QED
    BY <1>1, <1>3, <2>2, <2>3 DEF Transfer!Next, Transfer!ReceiverDone
<1>4. CASE m.kind = "SOH" /\ TakeBlock(m)
  <2>1. CASE rres' = "timeout"
    BY <1>2, <1>4, <2>1 DEF TakeBlock
  <2>2. CASE rres' # "timeout"
    <3>1. psram' = Append(psram, Len(psram) + 1) /\ Len(psram) < length
      BY <1>1, <1>4, <2>2, ExpectedIsNext, NatFacts DEF TakeBlock
    <3>2. rres' \in {"run", "full"}
      BY <1>4, <2>2 DEF TakeBlock, Answer
    <3>3. Outcome(rres)' \in {"busy", "failed"}
      BY <3>2, Outcomes
    <3> QED
      BY <1>1, <3>1, <3>3 DEF Transfer!Next, Transfer!Deliver
  <2> QED
    BY <2>1, <2>2
<1>5. CASE SkipBlock(m) \/ RefuseBlock(m)
  BY <1>1, <1>2, <1>5 DEF SkipBlock, RefuseBlock, Answer
<1>6. CASE /\ IF eot = 0 THEN Answer("NAK", "run") ELSE Answer("ACK", "ok")
           /\ UNCHANGED psram
  BY <1>2, <1>3, <1>6 DEF Answer
<1> QED
  BY <1>1, <1>2, <1>4, <1>5, <1>6 DEF ReceiverHears, receiver

LEMMA NextRefines ==
    ASSUME IInv, IInv', [Next]_vars PROVE [Transfer!Next]_(Transfer!vars)
<1>1. CASE SenderStart \/ SenderReadFails
  BY <1>1, Outcomes, QuietStep DEF SenderStart, SenderReadFails, receiver
<1>2. CASE SenderHears
  BY <1>2, SenderHearsRefines
<1>3. CASE ReceiverHears
  BY <1>3, ReceiverHearsRefines
<1>4. CASE ReceiverStart \/ ReceiverSilence
  <2>1. /\ rres \in {"idle", "run"} /\ rres' \in {"run", "timeout"}
        /\ sres' = sres /\ length' = length /\ psram' = psram
    BY <1>4 DEF ReceiverStart, ReceiverSilence, Answer, sender
  <2> QED
    BY <2>1, Outcomes, QuietStep
<1>5. CASE ReceiverFull
  <2>1. /\ rres = "full" /\ rres' \in {"toolarge", "timeout"}
        /\ sres' = sres /\ length' = length /\ psram' = psram
    BY <1>5 DEF ReceiverFull, Answer, sender
  <2> QED
    BY <2>1, Outcomes, QuietStep
<1>6. CASE Line \/ UNCHANGED vars
  <2>1. UNCHANGED <<sres, rres, length, psram>>
    BY <1>6 DEF Line, DamageBlock, DamageEnd, DamageAnswer, Unplug, Replug, Cancel,
                sender, receiver, vars
  <2> QED
    BY <2>1, QuietStep
<1> QED
  BY <1>1, <1>2, <1>3, <1>4, <1>5, <1>6 DEF Next, Sender, Receiver

(* xmodem_send and xmodem_recv_to_psram, over a line that may damage, lose  *)
(* or stop anything, implement the transfer that FileTransfer describes.    *)
THEOREM Refinement == Spec => ImplementsTransfer
<1>1. Init => Transfer!Init
  BY Outcomes DEF Init, Transfer!Init
<1>2. IInv /\ IInv' /\ [Next]_vars => [Transfer!Next]_(Transfer!vars)
  BY NextRefines
<1> QED
  BY <1>1, <1>2, Invariance, PTL DEF Spec, ImplementsTransfer, Transfer!Spec
=============================================================================
