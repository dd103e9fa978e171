--------------------------- MODULE TcpFramingProofs ---------------------------
(***************************************************************************)
(* Proofs about TcpFraming.  Packets lie in the stream one behind the      *)
(* other.  A reader that has not lost count stands at the end of the last  *)
(* packet it handed on, and the watermark is that of the packet behind it. *)
(***************************************************************************)
EXTENDS TcpFraming, QueueLemmas

\* Where packet i ends; the stream begins at 0.
End(s, i) == IF i = 0 THEN 0 ELSE s[i].at + HeaderLen + s[i].len

\* The packets lie one behind the other, and none is longer than a header can
\* say.
Laid ==
    /\ \A i \in 1..Len(sent) : /\ sent[i].len >= UuidLen + TypeLen /\ sent[i].len < Width
                               /\ sent[i].at = End(sent, i - 1)
    /\ \A i, j \in 1..Len(sent) : i < j => End(sent, i) <= sent[j].at
    /\ \A i \in 0..Len(sent) : End(sent, i) <= End(sent, Len(sent))

\* The bytes, and what of them is in the input.
Bytes ==
    /\ written <= End(sent, Len(sent)) /\ (~hungUp => written = End(sent, Len(sent)))
    /\ pos <= arrived /\ arrived <= written
    /\ low >= HeaderLen /\ Held <= low

\* The reader stands behind the last packet it handed on.
Counting ==
    /\ reader # "wild"
    /\ Len(got) <= Len(sent)
    /\ got = [i \in 1..Len(got) |-> i]
    /\ pos = End(sent, Len(got))
    /\ reader = "auth" => got = <<>>
    /\ low # HeaderLen => Len(got) < Len(sent) /\ low = HeaderLen + sent[Len(got) + 1].len

FramingInv == TypeOK /\ Laid /\ Bytes /\ (stalls = 0 => Counting)

-------------------------------------------------------------------------------
\* The places of packets are numbers.
LEMMA Ends ==
    ASSUME TypeOK
    PROVE  /\ Len(sent) \in Nat /\ DOMAIN sent = 1..Len(sent)
           /\ \A i \in 1..Len(sent) : sent[i].at \in Nat /\ sent[i].len \in Nat
           /\ \A i \in 0..Len(sent) : End(sent, i) \in Nat
<1>1. /\ Len(sent) \in Nat /\ DOMAIN sent = 1..Len(sent)
      /\ \A i \in 1..Len(sent) : sent[i] \in [at : Nat, len : Nat]
  BY LenProperties, ElementOfSeq DEF TypeOK
<1>2. \A i \in 1..Len(sent) : sent[i].at \in Nat /\ sent[i].len \in Nat
  BY <1>1
<1>3. \A i \in 0..Len(sent) : End(sent, i) \in Nat
  BY <1>1, <1>2 DEF End, HeaderLen
<1> QED BY <1>1, <1>2, <1>3

\* A packet that begins where the reader stands is the next one.
LEMMA OnlyNext ==
    ASSUME FramingInv, Counting, NEW i \in DOMAIN sent, BeginsAt(i)
    PROVE  i = Len(got) + 1
<1>1. i \in 1..Len(sent) /\ Len(got) \in 0..Len(sent) /\ sent[i].at = End(sent, Len(got))
  BY Ends DEF FramingInv, TypeOK, Counting, BeginsAt
<1>2. i > Len(got)
  <2> SUFFICES ASSUME i <= Len(got) PROVE FALSE
    BY <1>1
  <2>1. End(sent, i) <= End(sent, Len(got))
    <3>1. CASE i = Len(got)
      BY <3>1, Ends DEF FramingInv
    <3>2. CASE i < Len(got)
      <4>1. End(sent, i) <= sent[Len(got)].at
        BY <1>1, <3>2 DEF FramingInv, Laid
      <4> QED BY <1>1, <3>2, <4>1, Ends DEF FramingInv, End, HeaderLen
    <3> QED BY <1>1, <3>1, <3>2, Ends
  <2>2. End(sent, i) > sent[i].at
    BY <1>1, Ends, PartsAssumption DEF FramingInv, End, HeaderLen
  <2> QED BY <1>1, <2>1, <2>2, Ends DEF FramingInv
<1>3. ~(i > Len(got) + 1)
  <2> SUFFICES ASSUME i > Len(got) + 1 PROVE FALSE
    OBVIOUS
  <2>1. Len(got) + 1 \in 1..Len(sent)
    BY <1>1, Ends DEF FramingInv
  <2>2. End(sent, Len(got) + 1) <= sent[i].at /\ sent[Len(got) + 1].at = End(sent, Len(got))
    BY <1>1, <2>1 DEF FramingInv, Laid
  <2>3. End(sent, Len(got) + 1) > sent[Len(got) + 1].at
    BY <2>1, Ends DEF FramingInv, End, HeaderLen
  <2> QED BY <1>1, <2>1, <2>2, <2>3, Ends DEF FramingInv
<1> QED BY <1>1, <1>2, <1>3

\* Input behind the reader is of the next packet.
LEMMA NextBegins ==
    ASSUME FramingInv, Counting, Held > 0
    PROVE  Len(got) + 1 \in DOMAIN sent /\ BeginsAt(Len(got) + 1)
<1>1. End(sent, Len(got)) < End(sent, Len(sent))
  <2>1. /\ pos \in Nat /\ arrived \in Nat /\ written \in Nat /\ Len(sent) \in Nat
        /\ End(sent, Len(sent)) \in Nat
    BY Ends DEF FramingInv, TypeOK
  <2>2. pos = End(sent, Len(got)) /\ arrived <= written /\ written <= End(sent, Len(sent)) /\ arrived > pos
    BY <2>1 DEF FramingInv, Counting, Bytes, Held
  <2> QED BY <2>1, <2>2
<1>2. Len(got) \in 0..Len(sent) /\ Len(got) # Len(sent)
  BY <1>1, Ends DEF FramingInv, Counting, TypeOK
<1>3. Len(got) + 1 \in 1..Len(sent) /\ (Len(got) + 1) - 1 = Len(got)
  BY <1>2, Ends DEF FramingInv
<1> QED BY <1>3, Ends DEF FramingInv, Laid, Counting, BeginsAt

-------------------------------------------------------------------------------
\* An empty stream, and a reader at its beginning.
LEMMA InitFraming == Init => FramingInv
<1> SUFFICES ASSUME Init PROVE FramingInv
  OBVIOUS
<1>1. TypeOK
  <2>1. <<>> \in Seq([at : Nat, len : Nat]) /\ <<>> \in Seq(Nat)
    OBVIOUS
  <2> QED BY <2>1 DEF Init, TypeOK, Readers, HeaderLen
<1>2. Len(sent) = 0 /\ Len(got) = 0 /\ End(sent, 0) = 0
  BY DEF Init, End
<1>3. Laid
  BY <1>2 DEF Laid
<1>4. Bytes
  BY <1>2 DEF Init, Bytes, Held, HeaderLen
<1>5. Counting
  BY <1>2 DEF Init, Counting
<1> QED BY <1>1, <1>3, <1>4, <1>5 DEF FramingInv

\* The packet that is sent is laid behind the others.
LEMMA SendKeeps == ASSUME FramingInv, NEW n \in MsgLens, SendMsg(n) PROVE FramingInv'
<1> DEFINE k == Len(sent) + 1
           e == [at |-> written, len |-> UuidLen + TypeLen + n]
<1>1. /\ n \in Nat /\ UuidLen \in Nat /\ TypeLen \in Nat \ {0} /\ Width \in Nat
      /\ UuidLen + TypeLen + n < Width
  BY LensAssumption, PartsAssumption, WidthAssumption DEF SendMsg, Accepted
<1>2. Len(sent) \in Nat /\ written \in Nat /\ written = End(sent, Len(sent)) /\ ~hungUp
  BY Ends DEF FramingInv, Bytes, TypeOK, SendMsg
<1>3. e \in [at : Nat, len : Nat] /\ e.at = written /\ e.len = UuidLen + TypeLen + n
  BY <1>1, <1>2
<1>4. /\ sent' = Append(sent, e) /\ written' = written + HeaderLen + e.len
      /\ UNCHANGED <<arrived, pos, low, timer, reader, got, stalls, hungUp, greeting>>
  BY DEF SendMsg
<1> HIDE DEF e
<1>5. /\ sent' \in Seq([at : Nat, len : Nat]) /\ Len(sent') = k
      /\ \A i \in 1..Len(sent) : sent'[i] = sent[i]
      /\ sent'[k] = e
  BY <1>2, <1>3, <1>4 DEF FramingInv, TypeOK
<1>6. \A i \in 0..Len(sent) : End(sent', i) = End(sent, i)
  BY <1>5 DEF End
<1>7. End(sent', k) = written' /\ written' > written /\ written' \in Nat
  BY <1>1, <1>2, <1>3, <1>4, <1>5 DEF End, HeaderLen
<1>8. TypeOK'
  BY <1>4, <1>5, <1>7 DEF FramingInv, TypeOK
<1>9. Laid'
  <2>1. \A i \in 1..k : /\ sent'[i].len >= UuidLen + TypeLen /\ sent'[i].len < Width
                        /\ sent'[i].at = End(sent', i - 1)
    <3> SUFFICES ASSUME NEW i \in 1..k
                 PROVE  /\ sent'[i].len >= UuidLen + TypeLen /\ sent'[i].len < Width
                        /\ sent'[i].at = End(sent', i - 1)
      OBVIOUS
    <3>1. CASE i = k
      BY <1>1, <1>2, <1>3, <1>5, <1>6, <3>1
    <3>2. CASE i # k
      <4>1. i \in 1..Len(sent) /\ i - 1 \in 0..Len(sent)
        BY <1>2, <3>2
      <4> QED BY <1>5, <1>6, <4>1 DEF FramingInv, Laid
    <3> QED BY <3>1, <3>2
  <2>2. \A i \in 0..k : End(sent', i) <= End(sent', k)
    <3>1. \A i \in 0..Len(sent) : End(sent, i) \in Nat /\ End(sent, i) <= written
      BY <1>2, Ends DEF FramingInv, Laid
    <3> QED BY <1>2, <1>6, <1>7, <3>1
  <2>3. \A i, j \in 1..k : i < j => End(sent', i) <= sent'[j].at
    <3> SUFFICES ASSUME NEW i \in 1..k, NEW j \in 1..k, i < j PROVE End(sent', i) <= sent'[j].at
      OBVIOUS
    <3>1. i \in 1..Len(sent) /\ End(sent', i) = End(sent, i)
      <4>1. i \in 1..Len(sent)
        BY <1>2
      <4>2. i \in 0..Len(sent)
        BY <1>2, <4>1
      <4> QED BY <1>6, <4>1, <4>2
    <3>2. CASE j = k
      BY <1>2, <1>3, <1>5, <3>1, <3>2 DEF FramingInv, Laid
    <3>3. CASE j # k
      <4>1. j \in 1..Len(sent)
        BY <1>2, <3>3
      <4>2. End(sent, i) <= sent[j].at
        BY <3>1, <4>1 DEF FramingInv, Laid
      <4> QED BY <1>5, <3>1, <4>1, <4>2
    <3> QED BY <3>2, <3>3
  <2> QED BY <1>5, <2>1, <2>2, <2>3 DEF Laid
<1>10. Bytes'
  <2>1. Held' = Held /\ arrived \in Nat /\ pos \in Nat
    BY <1>4 DEF Held, FramingInv, TypeOK
  <2> QED BY <1>2, <1>4, <1>5, <1>7, <2>1 DEF FramingInv, Bytes
<1>11. ASSUME stalls' = 0 PROVE Counting'
  <2>1. Counting /\ Len(got) \in Nat
    BY <1>4, <1>11 DEF FramingInv, TypeOK
  <2>2. Len(got) \in 0..Len(sent) /\ End(sent', Len(got)) = End(sent, Len(got))
    BY <1>2, <1>6, <2>1 DEF Counting
  <2> QED BY <1>2, <1>4, <1>5, <2>1, <2>2 DEF Counting
<1> QED BY <1>8, <1>9, <1>10, <1>11 DEF FramingInv

\* A step of the reader or of libevent lays no packet.
LEMMA StepsLay == ASSUME FramingInv, sent' = sent PROVE Laid'
  BY DEF FramingInv, Laid

\* What a header says when the reader has not lost count.
LEMMA HeaderTrue ==
    ASSUME FramingInv, Counting, Held > 0, NEW l, Shown(l)
    PROVE  /\ Len(got) + 1 \in DOMAIN sent /\ l = sent[Len(got) + 1].len
           /\ l \in Nat \ {0}
<1>1. Len(got) + 1 \in DOMAIN sent /\ BeginsAt(Len(got) + 1)
  BY NextBegins
<1>2. PICK i \in DOMAIN sent : BeginsAt(i) /\ l = sent[i].len % Width
  BY <1>1 DEF Shown
<1>3. i = Len(got) + 1
  BY <1>2, OnlyNext
<1>4. sent[i].len \in Nat /\ Width \in Nat /\ sent[i].len < Width /\ sent[i].len > 0
  <2>1. i \in 1..Len(sent) /\ sent[i].len \in Nat
    BY <1>2, Ends DEF FramingInv
  <2>2. sent[i].len >= UuidLen + TypeLen /\ sent[i].len < Width
    BY <2>1 DEF FramingInv, Laid
  <2> QED BY <2>1, <2>2, PartsAssumption, WidthAssumption
<1>5. sent[i].len % Width = sent[i].len
  BY <1>4
<1> QED BY <1>2, <1>3, <1>4, <1>5

\* What a body is when the reader has not lost count.
LEMMA BodyTrue ==
    ASSUME FramingInv, Counting, Ready, low # HeaderLen
    PROVE  /\ Len(got) + 1 \in DOMAIN sent /\ Whole(Len(got) + 1)
           /\ \A i \in DOMAIN sent : Whole(i) => i = Len(got) + 1
           /\ arrived = End(sent, Len(got) + 1)
           /\ low - HeaderLen >= UuidLen + TypeLen
<1> DEFINE k == Len(got) + 1
<1>1. low \in Nat /\ low > 0 /\ Held = low /\ arrived \in Nat /\ pos \in Nat /\ Len(got) \in Nat
  BY DEF FramingInv, Bytes, TypeOK, Ready, HeaderLen
<1>2. k \in DOMAIN sent /\ BeginsAt(k) /\ low = HeaderLen + sent[k].len
  BY <1>1, NextBegins DEF Counting
<1>3. k \in 1..Len(sent) /\ sent[k].at \in Nat /\ sent[k].len \in Nat
  BY <1>2, Ends DEF FramingInv
<1>4. sent[k].at = pos /\ k # 0
  BY <1>1, <1>2 DEF BeginsAt
<1>5. arrived = End(sent, k)
  BY <1>1, <1>2, <1>3, <1>4 DEF End, Held, HeaderLen
<1>6. low - HeaderLen >= UuidLen + TypeLen
  BY <1>2, <1>3, PartsAssumption DEF FramingInv, Laid, HeaderLen
<1> QED BY <1>2, <1>5, <1>6, OnlyNext DEF Whole

\* Handing on the next packet.
LEMMA HandedOn ==
    ASSUME FramingInv, Counting, Ready, low # HeaderLen, sent' = sent,
           got' = Append(got, Len(got) + 1), pos' = arrived, low' = HeaderLen, reader' = "read"
    PROVE  Counting'
<1>1. got \in Seq(Nat) /\ Len(got) \in Nat /\ got = [i \in 1..Len(got) |-> i]
  BY DEF FramingInv, TypeOK, Counting
<1>2. Len(got') = Len(got) + 1 /\ got' = [i \in 1..(Len(got) + 1) |-> i]
  BY <1>1
<1>3. Len(got) + 1 <= Len(sent)
  BY BodyTrue, Ends DEF FramingInv
<1>4. pos' = End(sent, Len(got) + 1)
  BY BodyTrue
<1> QED BY <1>2, <1>3, <1>4 DEF Counting

\* What a header says is a number.
LEMMA LensMod == ASSUME TypeOK PROVE \A i \in DOMAIN sent : sent[i].len % Width \in Nat
<1>1. Width \in Nat \ {0}
  BY WidthAssumption, PartsAssumption
<1>2. \A i \in DOMAIN sent : sent[i].len \in Nat
  BY Ends
<1>3. \A n \in Nat : n % Width \in Nat
  BY <1>1
<1> QED BY <1>2, <1>3

\* Every step of the sender, the reader and its timer keeps the types.
LEMMA TypeKeeps == TypeOK /\ [Next]_vars => TypeOK'
<1> SUFFICES ASSUME TypeOK, [Next]_vars PROVE TypeOK'
  OBVIOUS
<1> USE DEF TypeOK, Readers, HeaderLen
<1>1. ASSUME NEW n \in MsgLens, SendMsg(n) PROVE TypeOK'
  BY <1>1, LensAssumption, PartsAssumption DEF SendMsg
<1>2. CASE HangUp
  BY <1>2 DEF HangUp
<1>3. CASE Arrive
  BY <1>3 DEF Arrive
<1>4. CASE TcpAuthLength
  <2>1. \A l \in OtherLens \cup {sent[i].len % Width : i \in DOMAIN sent} : Mark(l) \in Nat
    <3>1. \A i \in DOMAIN sent : sent[i].len % Width \in Nat
      BY LensMod
    <3> QED BY <3>1, LensAssumption DEF Mark
  <2> QED BY <1>4, <2>1 DEF TcpAuthLength, Quit
<1>5. CASE TcpAuthPacket
  <2>1. Append(got, 1) \in Seq(Nat)
    BY AppendProperties
  <2>2. /\ got' \in {got, Append(got, 1)} /\ pos' \in {pos, arrived} /\ low' \in {low, 2}
        /\ reader' \in {"read", "off"} /\ UNCHANGED <<timer, sent, written, arrived, stalls, hungUp, greeting>>
    BY <1>5 DEF TcpAuthPacket, Quit, Drained
  <2>3. got' \in Seq(Nat)
    BY <2>1, <2>2
  <2>4. pos' \in Nat /\ low' \in Nat /\ reader' \in Readers
    BY <2>2
  <2> QED BY <2>2, <2>3, <2>4
<1>6. CASE PacketLenRecv
  <2>1. \A l \in OtherLens \cup {sent[i].len % Width : i \in DOMAIN sent} : Mark(l) \in Nat
    <3>1. \A i \in DOMAIN sent : sent[i].len % Width \in Nat
      BY LensMod
    <3> QED BY <3>1, LensAssumption DEF Mark
  <2> QED BY <1>6, <2>1 DEF PacketLenRecv, Drained, Patience
<1>7. CASE TcpRead
  <2>1. \/ UNCHANGED <<got, timer, reader>>
        \/ \E i \in DOMAIN sent : Deliver(i)
        \/ Deliver(MadeUp)
        \/ reader' = "wild" /\ UNCHANGED <<got, timer>>
    BY <1>7 DEF TcpRead, Discard
  <2>2. got' \in Seq(Nat) /\ timer' \in {"none", "dial", "partial", "reset"} /\ reader' \in Readers
    <3>1. \A i \in DOMAIN sent \cup {MadeUp} : Append(got, i) \in Seq(Nat)
      BY Ends, AppendProperties DEF MadeUp
    <3> QED BY <2>1, <3>1 DEF Deliver
  <2> QED BY <1>7, <2>2 DEF TcpRead, Drained
<1>8. CASE TcpErrTimeout
  BY <1>8 DEF TcpErrTimeout, Drained
<1>9. CASE TcpErrEof
  BY <1>9 DEF TcpErrEof, Quit
<1>10. CASE UNCHANGED vars
  BY <1>10 DEF vars
<1> QED BY <1>1, <1>2, <1>3, <1>4, <1>5, <1>6, <1>7, <1>8, <1>9, <1>10 DEF Next, ReadCallback

\* No step but a packet's being sent moves what is there; the input holds no
\* more than the watermark says.
LEMMA BytesKeep ==
    ASSUME FramingInv, [Next]_vars, sent' = sent PROVE Bytes'
<1>1. /\ written \in Nat /\ arrived \in Nat /\ pos \in Nat /\ low \in Nat
      /\ Len(sent) \in Nat /\ End(sent, Len(sent)) \in Nat
      /\ Bytes /\ Held = arrived - pos
  BY Ends DEF FramingInv, TypeOK, Held
<1>2. /\ written <= End(sent, Len(sent)) /\ (~hungUp => written = End(sent, Len(sent)))
      /\ pos <= arrived /\ arrived <= written /\ low >= 2 /\ arrived - pos <= low
  BY <1>1 DEF Bytes, HeaderLen
<1>3. SUFFICES /\ written' <= End(sent, Len(sent))
               /\ ~hungUp' => written' = End(sent, Len(sent))
               /\ pos' <= arrived' /\ arrived' <= written' /\ low' >= 2
               /\ arrived' - pos' <= low'
  BY DEF Bytes, Held, HeaderLen
<1>4. ASSUME NEW n \in MsgLens, SendMsg(n) PROVE FALSE
  BY <1>4 DEF SendMsg, FramingInv, TypeOK
<1>5. CASE HangUp
  BY <1>1, <1>2, <1>5 DEF HangUp
<1>6. CASE Arrive
  BY <1>1, <1>2, <1>6 DEF Arrive, Held
<1>7. ASSUME NEW l \in Nat, low = 2, pos' = pos, arrived' = arrived, low' = Mark(l),
             written' = written, hungUp' = hungUp
      PROVE  /\ written' <= End(sent, Len(sent))
             /\ ~hungUp' => written' = End(sent, Len(sent))
             /\ pos' <= arrived' /\ arrived' <= written' /\ low' >= 2
             /\ arrived' - pos' <= low'
  BY <1>1, <1>2, <1>7 DEF Mark, HeaderLen
<1>8. ASSUME pos' = arrived, arrived' = arrived, low' = 2,
             written' = written, hungUp' = hungUp
      PROVE  /\ written' <= End(sent, Len(sent))
             /\ ~hungUp' => written' = End(sent, Len(sent))
             /\ pos' <= arrived' /\ arrived' <= written' /\ low' >= 2
             /\ arrived' - pos' <= low'
  BY <1>1, <1>2, <1>8
<1>9. ASSUME UNCHANGED <<written, arrived, pos, low, hungUp>>
      PROVE  /\ written' <= End(sent, Len(sent))
             /\ ~hungUp' => written' = End(sent, Len(sent))
             /\ pos' <= arrived' /\ arrived' <= written' /\ low' >= 2
             /\ arrived' - pos' <= low'
  BY <1>2, <1>9
<1>10. \A l \in OtherLens \cup {sent[i].len % Width : i \in DOMAIN sent} : l \in Nat
  BY LensMod, LensAssumption DEF FramingInv
<1>11. CASE TcpAuthLength
  BY <1>7, <1>9, <1>10, <1>11 DEF TcpAuthLength, Quit, HeaderLen
<1>12. CASE TcpAuthPacket
  BY <1>8, <1>9, <1>12 DEF TcpAuthPacket, Quit, Drained, HeaderLen
<1>13. CASE PacketLenRecv
  BY <1>7, <1>8, <1>10, <1>13 DEF PacketLenRecv, Drained, HeaderLen
<1>14. CASE TcpRead
  BY <1>8, <1>14 DEF TcpRead, Drained, HeaderLen
<1>15. CASE TcpErrTimeout
  BY <1>8, <1>15 DEF TcpErrTimeout, Drained, HeaderLen
<1>16. CASE TcpErrEof
  BY <1>9, <1>16 DEF TcpErrEof, Quit
<1>17. CASE UNCHANGED vars
  BY <1>9, <1>17 DEF vars
<1> QED BY <1>4, <1>5, <1>6, <1>11, <1>12, <1>13, <1>14, <1>15, <1>16, <1>17 DEF Next, ReadCallback

\* The reader does not lose count as long as no silence falls into a packet.
LEMMA CountingKeeps ==
    ASSUME FramingInv, [Next]_vars, sent' = sent, stalls' = 0 PROVE Counting'
<1>1. stalls \in Nat
  BY DEF FramingInv, TypeOK
<1>2. CASE UNCHANGED <<pos, low, reader, got, stalls>>
  BY <1>2 DEF FramingInv, Counting
<1>3. ASSUME Counting, reader' \in {reader, "off"}, UNCHANGED <<pos, low, got>>
      PROVE  Counting'
  BY <1>3 DEF Counting
<1>4. ASSUME Counting, Ready, low = HeaderLen, NEW l, Shown(l), low' = Mark(l),
             UNCHANGED <<pos, reader, got>>
      PROVE  Counting'
  <2>1. Held > 0
    BY <1>4 DEF Ready, HeaderLen
  <2>2. Len(got) + 1 \in DOMAIN sent /\ l = sent[Len(got) + 1].len
    BY <1>4, <2>1, HeaderTrue
  <2>3. Len(got) < Len(sent)
    BY <2>2, Ends DEF FramingInv, TypeOK
  <2> QED BY <1>4, <2>2, <2>3, Ends DEF FramingInv, Counting, Mark, HeaderLen
<1>5. ASSUME NEW l, Shown(l), Ready, Counting, low = HeaderLen PROVE l # 0
  <2>1. Held > 0
    BY <1>5 DEF Ready, HeaderLen
  <2> QED BY <1>5, <2>1, HeaderTrue
<1>6. ASSUME NEW n \in MsgLens, SendMsg(n) PROVE FALSE
  BY <1>6 DEF SendMsg, FramingInv, TypeOK
<1>7. CASE HangUp
  BY <1>2, <1>7 DEF HangUp
<1>8. CASE Arrive
  BY <1>2, <1>8 DEF Arrive
<1>9. CASE TcpAuthLength
  <2>1. Counting
    BY <1>9 DEF TcpAuthLength, FramingInv
  <2> QED BY <1>3, <1>4, <1>9, <2>1 DEF TcpAuthLength, Quit
<1>10. CASE TcpAuthPacket
  <2>1. Counting /\ Ready /\ low # HeaderLen /\ reader = "auth"
    BY <1>10 DEF TcpAuthPacket, FramingInv
  <2>2. Len(got) = 0
    BY <2>1 DEF Counting
  <2>3. CASE Whole(1) /\ Welcome(greeting)
    BY <1>10, <2>1, <2>2, <2>3, HandedOn DEF TcpAuthPacket, Drained
  <2>4. CASE ~(Whole(1) /\ Welcome(greeting))
    BY <1>3, <1>10, <2>1, <2>4 DEF TcpAuthPacket, Quit
  <2> QED BY <2>3, <2>4
<1>11. CASE PacketLenRecv
  <2>1. Counting
    BY <1>11 DEF PacketLenRecv, FramingInv
  <2> QED BY <1>4, <1>5, <1>11, <2>1 DEF PacketLenRecv
<1>12. CASE TcpRead
  <2>1. Counting /\ Ready /\ low # HeaderLen /\ reader = "read" /\ UuidLen \in Nat /\ TypeLen \in Nat \ {0}
    BY <1>12, PartsAssumption DEF TcpRead, FramingInv
  <2>2. /\ Whole(Len(got) + 1) /\ Len(got) + 1 \in DOMAIN sent
        /\ \A i \in DOMAIN sent : Whole(i) => i = Len(got) + 1
        /\ low - HeaderLen >= UuidLen + TypeLen
    BY <2>1, BodyTrue
  <2>3. ~(low - HeaderLen <= UuidLen)
    BY <2>1, <2>2 DEF FramingInv, TypeOK, HeaderLen
  <2>4. Deliver(Len(got) + 1) /\ pos' = arrived /\ low' = HeaderLen
    BY <1>12, <2>2, <2>3 DEF TcpRead, Drained
  <2> QED BY <2>1, <2>4, HandedOn DEF Deliver
<1>13. CASE TcpErrTimeout
  <2>1. ~(Held > 0 \/ low # HeaderLen) /\ stalls = 0
    BY <1>1, <1>13 DEF TcpErrTimeout
  <2>2. arrived = pos
    BY <2>1 DEF FramingInv, TypeOK, Bytes, Held
  <2> QED BY <1>13, <2>1, <2>2 DEF TcpErrTimeout, Drained, FramingInv, Counting
<1>14. CASE TcpErrEof
  <2>1. Counting
    BY <1>14 DEF TcpErrEof, FramingInv
  <2> QED BY <1>3, <1>14, <2>1 DEF TcpErrEof, Quit
<1>15. CASE UNCHANGED vars
  BY <1>2, <1>15 DEF vars
<1> QED BY <1>6, <1>7, <1>8, <1>9, <1>10, <1>11, <1>12, <1>13, <1>14, <1>15 DEF Next, ReadCallback

\* The invariant holds in every behaviour, for packets of any length and any
\* number of silences.
THEOREM FramingInvariant == Spec => []FramingInv
<1>1. FramingInv /\ [Next]_vars => FramingInv'
  <2> SUFFICES ASSUME FramingInv, [Next]_vars PROVE FramingInv'
    OBVIOUS
  <2>1. CASE \E n \in MsgLens : SendMsg(n)
    BY <2>1, SendKeeps
  <2>2. CASE sent' = sent
    BY <2>2, TypeKeeps, StepsLay, BytesKeep, CountingKeeps DEF FramingInv
  <2> QED BY <2>1, <2>2 DEF Next, ReadCallback, HangUp, Arrive, TcpAuthLength, TcpAuthPacket,
                            PacketLenRecv, TcpRead, TcpErrTimeout, TcpErrEof, vars
<1> QED BY <1>1, InitFraming, PTL DEF Spec

\* A reader that no silence has caught inside a packet hands on what was sent,
\* in order, and takes nothing else for a header.
THEOREM FramingIsSound == Spec => []FramingSound
<1>1. FramingInv => FramingSound
  <2> SUFFICES ASSUME FramingInv PROVE TypeOK /\ InStep
    BY DEF FramingSound
  <2> SUFFICES ASSUME Counting
               PROVE  /\ reader # "wild"
                      /\ got = [i \in 1..Len(got) |-> i]
                      /\ Len(got) < Len(sent) => sent[Len(got) + 1].at = pos
                      /\ low # HeaderLen => \E i \in DOMAIN sent : Whole(i)
    BY DEF FramingInv, InStep
  <2>1. ASSUME Len(got) < Len(sent)
        PROVE  Len(got) + 1 \in DOMAIN sent /\ sent[Len(got) + 1].at = pos
    <3>1. Len(got) + 1 \in 1..Len(sent) /\ (Len(got) + 1) - 1 = Len(got)
      BY <2>1, Ends DEF FramingInv, TypeOK
    <3> QED BY <3>1, Ends DEF FramingInv, Laid, Counting
  <2>2. ASSUME low # HeaderLen PROVE Whole(Len(got) + 1) /\ Len(got) + 1 \in DOMAIN sent
    BY <2>1, <2>2 DEF Counting, Whole, BeginsAt
  <2> QED BY <2>1, <2>2 DEF Counting
<1> QED BY <1>1, FramingInvariant, PTL

-------------------------------------------------------------------------------
(***************************************************************************)
(* The refinement: also with silences, what the reader hands on is what a  *)
(* PacketChannel may deliver.                                              *)
(***************************************************************************)
\* Every byte has a packet that is the first one to begin at it or behind it.
Cut == \A p \in Nat : \E n \in 1..(Len(sent) + 1) :
         \A i \in 1..Len(sent) : sent[i].at < p <=> i < n

\* A watermark of more than a header was set with the header in the input, and
\* is that of the packet which begins there, if one does.
Marked == low # HeaderLen => Held >= HeaderLen /\ \A i \in DOMAIN sent : BeginsAt(i) => Whole(i)

ChannelInv == FramingInv /\ Cut /\ Marked

\* The packet that NextPacket names, for a place in any stream.
NextOf(s, p) ==
    LET begun == {i \in DOMAIN s : s[i].at < p}
    IN  CHOOSE n \in 1..(Len(s) + 1) : begun = 1..(n - 1)

\* Intervals that begin at one have one end.
LEMMA SameLast ==
    ASSUME NEW m \in Nat \ {0}, NEW n \in Nat \ {0}, 1..(m - 1) = 1..(n - 1) PROVE m = n
<1>1. ~(m < n)
  <2> SUFFICES ASSUME m < n PROVE FALSE
    OBVIOUS
  <2>1. m \in 1..(n - 1) /\ m \notin 1..(m - 1)
    OBVIOUS
  <2> QED BY <2>1
<1>2. ~(n < m)
  <2> SUFFICES ASSUME n < m PROVE FALSE
    OBVIOUS
  <2>1. n \in 1..(m - 1) /\ n \notin 1..(n - 1)
    OBVIOUS
  <2> QED BY <2>1
<1> QED BY <1>1, <1>2

\* The CHOOSE of NextOf finds the packet that is there to be found.
LEMMA NextOfFits ==
    ASSUME TypeOK, NEW p \in Nat, NEW n \in 1..(Len(sent) + 1),
           \A i \in 1..Len(sent) : sent[i].at < p <=> i < n
    PROVE  NextOf(sent, p) = n
<1> DEFINE begun == {i \in DOMAIN sent : sent[i].at < p}
<1>1. begun = 1..(n - 1)
  BY Ends
<1>2. ASSUME NEW m \in 1..(Len(sent) + 1), begun = 1..(m - 1) PROVE m = n
  <2> HIDE DEF begun
  <2>1. m \in Nat \ {0} /\ n \in Nat \ {0} /\ 1..(m - 1) = 1..(n - 1)
    BY <1>1, <1>2, Ends
  <2> QED BY <2>1, SameLast
<1> QED BY <1>1, <1>2 DEF NextOf

\* NextPacket grows with the place in the stream.
LEMMA NextOfGrows ==
    ASSUME TypeOK, Cut, NEW p \in Nat, NEW q \in Nat, p <= q
    PROVE  /\ NextOf(sent, p) \in 1..(Len(sent) + 1)
           /\ NextOf(sent, q) \in NextOf(sent, p)..(Len(sent) + 1)
<1>1. PICK n \in 1..(Len(sent) + 1) : \A i \in 1..Len(sent) : sent[i].at < p <=> i < n
  BY DEF Cut
<1>2. PICK m \in 1..(Len(sent) + 1) : \A i \in 1..Len(sent) : sent[i].at < q <=> i < m
  BY DEF Cut
<1>3. NextOf(sent, p) = n /\ NextOf(sent, q) = m
  BY <1>1, <1>2, NextOfFits
<1>4. ~(m < n)
  <2> SUFFICES ASSUME m < n PROVE FALSE
    OBVIOUS
  <2>1. m \in 1..Len(sent) /\ sent[m].at \in Nat
    BY Ends
  <2> QED BY <1>1, <1>2, <2>1, Ends
<1> QED BY <1>3, <1>4, Ends

\* The packet at a packet's beginning, and at its end.
LEMMA NextOfPacket ==
    ASSUME FramingInv, NEW k \in 1..Len(sent)
    PROVE  NextOf(sent, sent[k].at) = k /\ NextOf(sent, End(sent, k)) = k + 1
<1>1. /\ Len(sent) \in Nat /\ k \in Nat
      /\ \A i \in 1..Len(sent) : sent[i].at \in Nat /\ sent[i].len \in Nat /\ End(sent, i) \in Nat
                                 /\ sent[i].at < End(sent, i)
  <2>1. \A i \in 1..Len(sent) : i # 0
    BY Ends DEF FramingInv
  <2> QED BY <2>1, Ends DEF FramingInv, End, HeaderLen
<1>2. \A i, j \in 1..Len(sent) : i < j => sent[i].at < sent[j].at /\ End(sent, i) <= sent[j].at
                                          /\ End(sent, i) < End(sent, j)
  <2> SUFFICES ASSUME NEW i \in 1..Len(sent), NEW j \in 1..Len(sent), i < j
               PROVE  sent[i].at < sent[j].at /\ End(sent, i) <= sent[j].at
                      /\ End(sent, i) < End(sent, j)
    OBVIOUS
  <2>1. End(sent, i) <= sent[j].at
    BY DEF FramingInv, Laid
  <2> QED BY <1>1, <2>1
<1>3. \A i \in 1..Len(sent) : sent[i].at < sent[k].at <=> i < k
  <2> TAKE i \in 1..Len(sent)
  <2>1. CASE i < k
    BY <1>2, <2>1
  <2>2. CASE i = k
    BY <1>1, <2>2
  <2>3. CASE k < i
    <3>1. sent[k].at < sent[i].at
      BY <1>2, <2>3
    <3> QED BY <1>1, <2>3, <3>1
  <2> QED BY <1>1, <2>1, <2>2, <2>3
<1>4. \A i \in 1..Len(sent) : sent[i].at < End(sent, k) <=> i < k + 1
  <2> TAKE i \in 1..Len(sent)
  <2>1. CASE i < k
    <3>1. sent[i].at < sent[k].at /\ sent[k].at < End(sent, k)
      BY <1>1, <1>2, <2>1
    <3> QED BY <1>1, <2>1, <3>1
  <2>2. CASE i = k
    BY <1>1, <2>2
  <2>3. CASE k < i
    <3>1. End(sent, k) <= sent[i].at
      BY <1>2, <2>3
    <3> QED BY <1>1, <2>3, <3>1
  <2> QED BY <1>1, <2>1, <2>2, <2>3
<1>5. k \in 1..(Len(sent) + 1) /\ k + 1 \in 1..(Len(sent) + 1) /\ sent[k].at \in Nat /\ End(sent, k) \in Nat
  BY <1>1
<1>6. TypeOK
  BY DEF FramingInv
<1>7. NextOf(sent, sent[k].at) = k
  BY <1>3, <1>5, <1>6, NextOfFits
<1>8. NextOf(sent, End(sent, k)) = k + 1
  BY <1>4, <1>5, <1>6, NextOfFits
<1> QED BY <1>7, <1>8

\* Packets that begin at one place are one packet.
LEMMA OneBegins ==
    ASSUME FramingInv, NEW i \in DOMAIN sent, NEW j \in DOMAIN sent, BeginsAt(i), BeginsAt(j)
    PROVE  i = j
<1>1. i \in 1..Len(sent) /\ j \in 1..Len(sent)
  BY Ends DEF FramingInv
<1>2. sent[i].at = pos /\ sent[j].at = pos
  BY DEF BeginsAt
<1>3. NextOf(sent, pos) = i /\ NextOf(sent, pos) = j
  BY <1>1, <1>2, NextOfPacket
<1> QED BY <1>3

\* The last packet is the last to begin.
LEMMA CutKeeps ==
    ASSUME ChannelInv, NEW n \in MsgLens, SendMsg(n) PROVE Cut'
<1> DEFINE k == Len(sent) + 1
<1>1. TypeOK /\ Len(sent) \in Nat /\ written = End(sent, Len(sent)) /\ written \in Nat
  BY Ends DEF ChannelInv, FramingInv, TypeOK, Bytes, SendMsg
<1>2. /\ Len(sent') = k /\ sent'[k].at = written
      /\ \A i \in 1..Len(sent) : sent'[i] = sent[i]
  BY <1>1 DEF SendMsg, TypeOK
<1>3. \A i \in 1..Len(sent) : sent[i].at \in Nat /\ sent[i].at < written
  <2> SUFFICES ASSUME NEW i \in 1..Len(sent) PROVE sent[i].at \in Nat /\ sent[i].at < written
    OBVIOUS
  <2>1. i \in 0..Len(sent) /\ i # 0
    BY <1>1
  <2>2. End(sent, i) <= written /\ End(sent, i) \in Nat /\ sent[i].at \in Nat /\ sent[i].len \in Nat
    BY <1>1, <2>1, Ends DEF ChannelInv, FramingInv, Laid
  <2> QED BY <1>1, <2>1, <2>2 DEF End, HeaderLen
<1> SUFFICES ASSUME NEW p \in Nat
             PROVE  \E m \in 1..(k + 1) : \A i \in 1..k : sent'[i].at < p <=> i < m
  BY <1>2 DEF Cut
<1>4. PICK m \in 1..k : \A i \in 1..Len(sent) : sent[i].at < p <=> i < m
  BY DEF ChannelInv, Cut
<1>5. CASE p <= written
  <2>1. \A i \in 1..k : sent'[i].at < p <=> i < m
    <3> TAKE i \in 1..k
    <3>1. CASE i = k
      BY <1>1, <1>2, <1>4, <1>5, <3>1
    <3>2. CASE i # k
      <4>1. i \in 1..Len(sent)
        BY <1>1, <3>2
      <4> QED BY <1>2, <1>4, <4>1
    <3> QED BY <3>1, <3>2
  <2> QED BY <1>1, <2>1
<1>6. CASE p > written
  <2>1. \A i \in 1..k : sent'[i].at < p <=> i < k + 1
    <3> TAKE i \in 1..k
    <3>1. CASE i = k
      BY <1>1, <1>2, <1>6, <3>1
    <3>2. CASE i # k
      <4>1. i \in 1..Len(sent)
        BY <1>1, <3>2
      <4>2. sent'[i].at < p
        BY <1>1, <1>2, <1>3, <1>6, <4>1
      <4> QED BY <1>1, <4>1, <4>2
    <3> QED BY <3>1, <3>2
  <2> QED BY <1>1, <2>1
<1> QED BY <1>1, <1>5, <1>6

\* A header that is read where a packet begins says how long it is.
LEMMA HeaderOfPacket ==
    ASSUME ChannelInv, NEW l, Shown(l), NEW i \in DOMAIN sent, BeginsAt(i)
    PROVE  l = sent[i].len /\ l \in Nat \ {0}
<1>1. PICK j \in DOMAIN sent : BeginsAt(j) /\ l = sent[j].len % Width
  BY DEF Shown
<1>2. j = i
  BY <1>1, OneBegins DEF ChannelInv
<1>3. i \in 1..Len(sent) /\ sent[i].len \in Nat
  BY Ends DEF ChannelInv, FramingInv
<1>4. sent[i].len > 0 /\ sent[i].len < Width /\ Width \in Nat
  BY <1>3, PartsAssumption, WidthAssumption DEF ChannelInv, FramingInv, Laid
<1> QED BY <1>1, <1>2, <1>3, <1>4

\* Every step leaves a raised watermark that of the packet that is waited for.
LEMMA MarkedKeeps == ASSUME ChannelInv, [Next]_vars PROVE Marked'
<1>1. /\ TypeOK /\ Bytes /\ arrived \in Nat /\ pos \in Nat /\ low \in Nat /\ written \in Nat
      /\ Marked /\ Len(sent) \in Nat /\ DOMAIN sent = 1..Len(sent)
  BY Ends DEF ChannelInv, FramingInv, TypeOK
<1>2. ASSUME NEW n \in MsgLens, SendMsg(n) PROVE Marked'
  <2>1. /\ Len(sent') = Len(sent) + 1 /\ DOMAIN sent' = 1..(Len(sent) + 1)
        /\ sent'[Len(sent) + 1].at = written
        /\ \A i \in 1..Len(sent) : sent'[i] = sent[i]
        /\ UNCHANGED <<pos, arrived, low>>
    BY <1>1, <1>2 DEF SendMsg, TypeOK
  <2> SUFFICES ASSUME low # HeaderLen, NEW i \in DOMAIN sent', sent'[i].at = pos
               PROVE  low = HeaderLen + sent'[i].len
    BY <1>1, <2>1 DEF Marked, Held, BeginsAt, Whole
  <2>2. Held >= 2 /\ arrived <= written
    BY <1>1 DEF Marked, Bytes, HeaderLen
  <2>3. i # Len(sent) + 1
    BY <1>1, <2>1, <2>2 DEF Held
  <2>4. i \in 1..Len(sent)
    BY <1>1, <2>1, <2>3
  <2>5. BeginsAt(i) /\ sent'[i] = sent[i]
    BY <1>1, <2>1, <2>4 DEF BeginsAt
  <2>6. Whole(i)
    BY <1>1, <2>4, <2>5 DEF Marked
  <2> QED BY <2>5, <2>6 DEF Whole
<1>3. ASSUME UNCHANGED <<sent, pos, low>>, arrived' \in Nat, arrived' >= arrived PROVE Marked'
  <2>1. arrived \in Nat /\ pos \in Nat /\ arrived' \in Nat /\ arrived' >= arrived
    BY <1>1, <1>3
  <2>2. arrived - pos >= 2 => arrived' - pos >= 2
    <3>1. \A a, b, p \in Nat : b >= a /\ a - p >= 2 => b - p >= 2
      OBVIOUS
    <3> QED BY <2>1, <3>1
  <2>3. Held >= HeaderLen => Held' >= HeaderLen
    BY <1>3, <2>2 DEF Held, HeaderLen
  <2> QED BY <1>1, <1>3, <2>3 DEF Marked, BeginsAt, Whole
<1>4. ASSUME low' = HeaderLen PROVE Marked'
  BY <1>4 DEF Marked
<1>5. ASSUME Ready, low = HeaderLen, NEW l, Shown(l), low' = Mark(l), UNCHANGED <<sent, pos, arrived>>
      PROVE  Marked'
  <2>1. Held' = 2
    BY <1>5 DEF Ready, Held, HeaderLen
  <2>2. ASSUME NEW i \in DOMAIN sent, BeginsAt(i) PROVE low' = HeaderLen + sent[i].len
    <3>1. sent[i].len \in Nat /\ l = sent[i].len
      BY <1>5, <2>2, HeaderOfPacket, Ends DEF ChannelInv, FramingInv
    <3> QED BY <1>5, <3>1 DEF Mark, HeaderLen
  <2>3. ASSUME NEW i \in DOMAIN sent', BeginsAt(i)' PROVE Whole(i)'
    <3>1. BeginsAt(i)
      BY <1>5, <2>3 DEF BeginsAt
    <3> QED BY <1>5, <2>2, <2>3, <3>1 DEF Whole
  <2> QED BY <2>1, <2>3 DEF Marked, HeaderLen
<1>6. CASE UNCHANGED <<sent, pos, low, arrived>>
  BY <1>1, <1>3, <1>6
<1>7. CASE HangUp
  BY <1>6, <1>7 DEF HangUp
<1>8. CASE Arrive
  BY <1>1, <1>3, <1>8 DEF Arrive
<1>9. CASE TcpAuthLength
  BY <1>5, <1>6, <1>9 DEF TcpAuthLength, Quit
<1>10. CASE TcpAuthPacket
  BY <1>4, <1>6, <1>10 DEF TcpAuthPacket, Quit
<1>11. CASE PacketLenRecv
  BY <1>4, <1>5, <1>11 DEF PacketLenRecv
<1>12. CASE TcpRead
  BY <1>4, <1>12 DEF TcpRead
<1>13. CASE TcpErrTimeout
  BY <1>4, <1>13 DEF TcpErrTimeout
<1>14. CASE TcpErrEof
  BY <1>6, <1>14 DEF TcpErrEof, Quit
<1>15. CASE UNCHANGED vars
  BY <1>6, <1>15 DEF vars
<1> QED BY <1>2, <1>7, <1>8, <1>9, <1>10, <1>11, <1>12, <1>13, <1>14, <1>15 DEF Next, ReadCallback

\* At all times the next packet is well-defined, and a raised watermark is that
\* of the packet that is waited for.
LEMMA ChannelInvariant == Spec => []ChannelInv
<1>1. Init => Cut /\ Marked
  <2> SUFFICES ASSUME Init PROVE Cut /\ Marked
    OBVIOUS
  <2>1. Len(sent) = 0 /\ low = HeaderLen
    BY DEF Init
  <2> QED BY <2>1 DEF Cut, Marked
<1>2. FramingInv /\ Cut /\ Marked /\ [Next]_vars => Cut' /\ Marked'
  <2> SUFFICES ASSUME ChannelInv, [Next]_vars PROVE Cut' /\ Marked'
    BY DEF ChannelInv
  <2>1. CASE \E n \in MsgLens : SendMsg(n)
    BY <2>1, CutKeeps, MarkedKeeps
  <2>2. CASE sent' = sent
    <3>1. Cut'
      BY <2>2 DEF ChannelInv, Cut
    <3> QED BY <3>1, MarkedKeeps
  <2> QED BY <2>1, <2>2 DEF Next, ReadCallback, HangUp, Arrive, TcpAuthLength, TcpAuthPacket,
                            PacketLenRecv, TcpRead, TcpErrTimeout, TcpErrEof, vars
<1>3. FramingInv /\ Cut /\ Marked => ChannelInv
  BY DEF ChannelInv
<1> QED BY <1>1, <1>2, <1>3, FramingInvariant, PTL DEF Spec

\* A step of the reader that moves it while it is inside a packet, and may
\* hand on what nobody sent.
LEMMA Gropes ==
    ASSUME ChannelInv, ~InFrame, sent' = sent, stalls' = stalls, pos' \in Nat, pos' >= pos,
           got' \in {got, Append(got, MadeUp)}
    PROVE  Channel!Grope
<1>1. NextPacket = NextOf(sent, pos) /\ NextPacket' = NextOf(sent', pos')
  BY DEF NextPacket, NextOf
<1>2. NextPacket' \in NextPacket..(Len(sent) + 1)
  BY <1>1, NextOfGrows DEF ChannelInv, FramingInv, TypeOK
<1>3. InFrame' \in BOOLEAN
  BY DEF InFrame
<1> QED BY <1>2, <1>3 DEF Channel!Grope, MadeUp, Channel!MadeUp

\* Handing on the packet that has been read.
LEMMA Delivers ==
    ASSUME ChannelInv, Ready, low # HeaderLen, NEW i \in DOMAIN sent, Whole(i),
           sent' = sent, stalls' = stalls, written' = written,
           got' = Append(got, i), pos' = arrived
    PROVE  Channel!Deliver
<1>1. /\ NextPacket = NextOf(sent, pos) /\ NextPacket' = NextOf(sent', pos')
      /\ Len(sent) \in Nat /\ i \in 1..Len(sent) /\ i \in Nat /\ i # 0
      /\ sent[i].at \in Nat /\ sent[i].len \in Nat /\ pos \in Nat /\ arrived \in Nat
  BY Ends DEF NextPacket, NextOf, ChannelInv, FramingInv, TypeOK
<1>2. BeginsAt(i) /\ pos = sent[i].at /\ arrived = End(sent, i)
  <2>1. BeginsAt(i) /\ pos = sent[i].at /\ arrived - pos = 2 + sent[i].len
    BY DEF Whole, BeginsAt, Ready, Held, HeaderLen
  <2>2. \A a, p, l \in Nat : a - p = 2 + l => a = p + 2 + l
    OBVIOUS
  <2>3. arrived = pos + 2 + sent[i].len
    BY <1>1, <2>1, <2>2
  <2> QED BY <1>1, <2>1, <2>3 DEF End, HeaderLen
<1>3. NextPacket = i /\ NextPacket' = i + 1
  BY <1>1, <1>2, NextOfPacket DEF ChannelInv
<1>4. InFrame
  BY <1>2 DEF InFrame
<1>5. InFrame'
  <2>1. CASE i = Len(sent)
    <3>1. written <= arrived /\ arrived <= written /\ written \in Nat
      BY <1>2, <2>1 DEF ChannelInv, FramingInv, Bytes, TypeOK
    <3> QED BY <1>1, <3>1 DEF InFrame
  <2>2. CASE i # Len(sent)
    <3>1. i + 1 \in 1..Len(sent) /\ (i + 1) - 1 = i
      BY <1>1, <2>2
    <3>2. sent[i + 1].at = End(sent, i)
      BY <3>1 DEF ChannelInv, FramingInv, Laid
    <3>3. i + 1 \in DOMAIN sent' /\ sent'[i + 1].at = pos'
      BY <1>2, <3>1, <3>2, Ends DEF ChannelInv, FramingInv
    <3> QED BY <3>3 DEF InFrame, BeginsAt
  <2> QED BY <2>1, <2>2
<1> QED BY <1>1, <1>3, <1>4, <1>5 DEF Channel!Deliver

\* What leaves the reader, the packets and the stream alone is nothing to the
\* channel.
LEMMA Stutters ==
    ASSUME UNCHANGED <<sent, pos, got, stalls, written>> PROVE UNCHANGED Channel!vars
  BY DEF Channel!vars, NextPacket, InFrame, BeginsAt

\* A step of sender or reader is one step of the channel, or none.
LEMMA ChannelStep == ChannelInv /\ [Next]_vars => [Channel!Next]_(Channel!vars)
<1> SUFFICES ASSUME ChannelInv, [Next]_vars PROVE [Channel!Next]_(Channel!vars)
  OBVIOUS
<1>1. /\ TypeOK /\ Bytes /\ arrived \in Nat /\ pos \in Nat /\ low \in Nat /\ written \in Nat
      /\ Marked /\ Len(sent) \in Nat /\ DOMAIN sent = 1..Len(sent) /\ stalls \in Nat
      /\ pos <= arrived /\ arrived <= written
  BY Ends DEF ChannelInv, FramingInv, TypeOK, Bytes
<1>2. ASSUME Held > 0, InFrame PROVE \E i \in DOMAIN sent : BeginsAt(i)
  BY <1>1, <1>2 DEF InFrame, Held
<1>3. Ready => Held > 0
  BY <1>1 DEF Ready, ChannelInv, FramingInv, Bytes, HeaderLen
<1>4. ASSUME NEW n \in MsgLens, SendMsg(n) PROVE Channel!Send
  <2>1. /\ Len(sent') = Len(sent) + 1 /\ DOMAIN sent' = 1..(Len(sent) + 1)
        /\ sent'[Len(sent) + 1].at = written
        /\ \A i \in 1..Len(sent) : sent'[i] = sent[i]
        /\ UNCHANGED <<pos, arrived, low, got, stalls>>
        /\ written' \in Nat /\ written' > written
    <3>1. SendMsg(n) /\ n \in Nat /\ UuidLen \in Nat /\ TypeLen \in Nat
      BY <1>4, LensAssumption, PartsAssumption
    <3> QED BY <1>1, <3>1 DEF SendMsg, TypeOK, HeaderLen
  <2>2. {i \in DOMAIN sent' : sent'[i].at < pos'} = {i \in DOMAIN sent : sent[i].at < pos}
    BY <1>1, <2>1
  <2>3. NextPacket' = NextPacket
    <3>1. PICK k \in 1..(Len(sent) + 1) : \A i \in 1..Len(sent) : sent[i].at < pos <=> i < k
      BY <1>1 DEF ChannelInv, Cut
    <3>2. NextOf(sent, pos) = k
      BY <1>1, <3>1, NextOfFits
    <3> DEFINE begun == {i \in DOMAIN sent : sent[i].at < pos}
    <3>3. begun = 1..(k - 1)
      BY <1>1, <3>1
    <3>4. k \in 1..(Len(sent') + 1) /\ \A m \in Nat \ {0} : begun = 1..(m - 1) => m = k
      <4> SUFFICES ASSUME NEW m \in Nat \ {0}, begun = 1..(m - 1) PROVE m = k
        BY <1>1, <2>1
      <4>1. 1..(m - 1) = 1..(k - 1) /\ k \in Nat \ {0}
        BY <1>1, <3>3
      <4> QED BY <4>1, SameLast
    <3>5. NextPacket' = k
      <4>1. NextPacket' = CHOOSE m \in 1..(Len(sent') + 1) : begun = 1..(m - 1)
        BY <2>2 DEF NextPacket
      <4>2. \A m \in 1..(Len(sent') + 1) : m \in Nat \ {0}
        BY <1>1, <2>1
      <4> HIDE DEF begun
      <4> QED BY <3>3, <3>4, <4>1, <4>2
    <3>6. NextPacket = NextOf(sent, pos)
      BY DEF NextPacket, NextOf
    <3> QED BY <3>2, <3>5, <3>6
  <2>4. InFrame' <=> InFrame
    <3>1. InFrame <=> pos = written \/ \E i \in 1..Len(sent) : sent[i].at = pos
      BY <1>1 DEF InFrame, BeginsAt
    <3>2. InFrame' <=> pos' = written' \/ \E i \in 1..(Len(sent) + 1) : sent'[i].at = pos'
      BY <2>1 DEF InFrame, BeginsAt
    <3>3. pos' # written' /\ pos' = pos
      BY <1>1, <2>1
    <3>4. \A i \in 1..(Len(sent) + 1) : i \in 1..Len(sent) \/ i = Len(sent) + 1
      BY <1>1
    <3> QED BY <1>1, <2>1, <3>1, <3>2, <3>3, <3>4
  <2> QED BY <2>1, <2>3, <2>4 DEF Channel!Send
<1>5. CASE HangUp
  <2>1. /\ UNCHANGED <<sent, pos, got, stalls>> /\ arrived' = arrived
        /\ written' \in arrived..written
    BY <1>5 DEF HangUp
  <2>2. CASE InFrame
    <3>1. InFrame'
      BY <1>1, <2>1, <2>2 DEF InFrame, BeginsAt
    <3>2. NextPacket' = NextPacket
      BY <2>1 DEF NextPacket
    <3> QED BY <2>1, <2>2, <3>1, <3>2 DEF Channel!vars
  <2>3. CASE ~InFrame
    BY <1>1, <2>1, <2>3, Gropes DEF Channel!Next
  <2> QED BY <2>2, <2>3
<1>6. CASE Arrive
  BY <1>6, Stutters DEF Arrive
<1>7. CASE TcpAuthLength
  BY <1>7, Stutters DEF TcpAuthLength, Quit
<1>8. CASE TcpAuthPacket
  <2>1. CASE Whole(1) /\ Welcome(greeting)
    <3>1. 1 \in DOMAIN sent
      BY <2>1 DEF Whole, BeginsAt
    <3> QED BY <1>8, <2>1, <3>1, Delivers DEF TcpAuthPacket, Drained, Channel!Next
  <2>2. CASE ~(Whole(1) /\ Welcome(greeting))
    BY <1>8, <2>2, Stutters DEF TcpAuthPacket, Quit
  <2> QED BY <2>1, <2>2
<1>9. CASE PacketLenRecv
  <2>1. PICK l : /\ Shown(l)
                 /\ IF l = 0 THEN pos' = arrived ELSE pos' = pos
    BY <1>9 DEF PacketLenRecv, Drained
  <2>2. CASE l = 0
    <3>1. ~InFrame
      BY <1>2, <1>3, <1>9, <2>1, <2>2, HeaderOfPacket DEF PacketLenRecv
    <3> QED BY <1>1, <1>9, <2>1, <2>2, <3>1, Gropes DEF PacketLenRecv, Channel!Next
  <2>3. CASE l # 0
    BY <1>9, <2>1, <2>3, Stutters DEF PacketLenRecv
  <2> QED BY <2>2, <2>3
<1>10. CASE TcpRead
  <2>1. Ready /\ low # HeaderLen /\ pos' = arrived /\ UNCHANGED <<sent, written, stalls>>
    BY <1>10 DEF TcpRead, Drained
  <2>2. CASE InFrame
    <3>1. PICK i \in DOMAIN sent : BeginsAt(i) /\ Whole(i)
      BY <1>1, <1>2, <1>3, <2>1, <2>2 DEF Marked
    <3>2. ~(low - HeaderLen <= UuidLen)
      <4>1. sent[i].len \in Nat /\ sent[i].len >= UuidLen + TypeLen /\ low = HeaderLen + sent[i].len
        BY <1>1, <3>1, Ends DEF ChannelInv, FramingInv, Laid, Whole
      <4> QED BY <4>1, PartsAssumption DEF HeaderLen
    <3>3. PICK j \in DOMAIN sent : Whole(j) /\ Deliver(j)
      BY <1>10, <3>1, <3>2 DEF TcpRead
    <3> QED BY <2>1, <3>3, Delivers DEF Deliver, Channel!Next
  <2>3. CASE ~InFrame
    <3>1. \A i \in DOMAIN sent : ~Whole(i)
      BY <2>3 DEF InFrame, Whole
    <3>2. got' \in {got, Append(got, MadeUp)}
      BY <1>10, <3>1 DEF TcpRead, Discard, Deliver
    <3> QED BY <1>1, <2>1, <2>3, <3>2, Gropes DEF Channel!Next
  <2> QED BY <2>2, <2>3
<1>11. CASE TcpErrTimeout
  <2>1. pos' = arrived /\ UNCHANGED <<sent, written, got>>
    BY <1>11 DEF TcpErrTimeout, Drained
  <2>2. CASE Held > 0 \/ low # HeaderLen
    <3>1. stalls' = stalls + 1
      BY <1>11, <2>2 DEF TcpErrTimeout
    <3>2. NextPacket = NextOf(sent, pos) /\ NextPacket' = NextOf(sent, arrived)
      BY <2>1 DEF NextPacket, NextOf
    <3>3. NextPacket' \in NextPacket..(Len(sent) + 1) /\ InFrame' \in BOOLEAN
      BY <1>1, <3>2, NextOfGrows DEF ChannelInv, InFrame
    <3> QED BY <2>1, <3>1, <3>3 DEF Channel!Stall, Channel!Next
  <2>3. CASE ~(Held > 0 \/ low # HeaderLen)
    <3>1. pos' = pos /\ stalls' = stalls
      BY <1>1, <1>11, <2>1, <2>3 DEF TcpErrTimeout, Held
    <3> QED BY <2>1, <3>1, Stutters
  <2> QED BY <2>2, <2>3
<1>12. CASE TcpErrEof
  BY <1>12, Stutters DEF TcpErrEof, Quit
<1>13. CASE UNCHANGED vars
  BY <1>13, Stutters DEF vars
<1> QED BY <1>4, <1>5, <1>6, <1>7, <1>8, <1>9, <1>10, <1>11, <1>12, <1>13
        DEF Next, ReadCallback, Channel!Next

\* Whatever the lengths of packets and however often the line goes silent, the
\* stream delivers what a PacketChannel may.
THEOREM FramingImplementsChannel == Spec => FramesPackets
<1>1. Init => Channel!Init
  <2> SUFFICES ASSUME Init PROVE Channel!Init
    OBVIOUS
  <2>1. sent = <<>> /\ pos = 0 /\ written = 0 /\ got = <<>> /\ stalls = 0 /\ Len(sent) = 0
    BY DEF Init
  <2>2. NextPacket \in 1..1
    <3>1. {i \in DOMAIN sent : sent[i].at < pos} = 1..(1 - 1)
      BY <2>1
    <3> QED BY <2>1, <3>1 DEF NextPacket
  <2> QED BY <2>1, <2>2 DEF Channel!Init, InFrame
<1> QED BY <1>1, ChannelStep, ChannelInvariant, PTL DEF Spec, FramesPackets, Channel!Spec
===============================================================================
