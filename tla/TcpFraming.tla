------------------------------- MODULE TcpFraming -------------------------------
(***************************************************************************)
(* One direction of a TCP connection: packets are written by PXMClient at  *)
(* one end, cut from the stream of bytes by the callbacks of the server    *)
(* thread at the other.                                                    *)
(*                                                                         *)
(* A packet is a header that holds its length, the uuid of the sender, a   *)
(* message type and the message.  The bytes are the positions 1, 2, ... of *)
(* the stream: those up to pos have been taken from the input buffer,      *)
(* those up to arrived have reached it, those up to written have been      *)
(* sent.  Libevent calls the reader when the input holds as many bytes as  *)
(* its low watermark says; the high watermark is the same number, so the   *)
(* input never holds more.  When nothing arrives for as long as the timer  *)
(* allows, tcpErr throws the input away and waits for a header again,      *)
(* wherever in the stream that is.                                         *)
(***************************************************************************)
EXTENDS Naturals, Sequences

CONSTANTS
    MsgLens,     \* the lengths of the messages sent in a run
    OtherLens,   \* what two bytes that are not a header may say
    Greetings,   \* what the first packet of a sender may say
    UuidLen,     \* NetCompression::PACKED_UUID_LENGTH
    TypeLen,     \* sizeof(MESSAGE_TYPE)
    MsgLimit,    \* a longer message is not sent
    Width,       \* how many numbers a header can hold
    AuthLimit,   \* MAX_AUTH_PACKET_LEN
    MaxPackets,  \* bound: packets sent in a run
    MaxStalls    \* bound: how often the line goes silent inside a packet

HeaderLen == 2

ASSUME LensAssumption == MsgLens \subseteq Nat /\ OtherLens \subseteq Nat
ASSUME PartsAssumption == UuidLen \in Nat /\ TypeLen \in Nat \ {0}
ASSUME GreetingsAssumption == Greetings \subseteq [type : STRING, uuid : STRING, fields : Nat, port : Nat]
ASSUME WidthAssumption ==
    MsgLimit \in Nat /\ Width \in Nat /\ UuidLen + TypeLen + MsgLimit < Width
ASSUME BoundsAssumption == AuthLimit \in Nat /\ MaxPackets \in Nat /\ MaxStalls \in Nat

VARIABLES
    sent,     \* the packets written: where each begins and how long it is
    written,  \* the last byte the sender has given to the connection
    arrived,  \* the last byte in the input buffer
    pos,      \* the last byte taken out of the input buffer
    low,      \* the watermarks
    timer,    \* the read time-out in force
    reader,   \* which callback is installed, or why none is
    got,      \* the packets handed on; 0 is one nobody sent
    stalls,   \* how often a silence made the reader give up part of a packet
    hungUp,   \* the sender's end is closed
    greeting  \* what the first packet says: its type, the sender's uuid, how many
              \* fields AUTH_SEPERATOR cuts its text into, and what the second is
              \* as a port

vars == <<sent, written, arrived, pos, low, timer, reader, got, stalls, hungUp, greeting>>

MadeUp == 0

\* Lost count: the length of the message would be the difference of a smaller
\* and a larger number, of type uint16_t.  What happens then is not modelled.
Readers == {"auth", "read", "off", "wild"}

Reading == reader \in {"auth", "read"}
Held    == arrived - pos

\* Forms of the helpers below that a slip in the code would give them.
Mutant_Accepted(n) == TRUE
Mutant_Patience == "none"
Mutant_Drained == pos
Mutant_WideMark(l) == l + HeaderLen + 1

BeginsAt(i) == i \in DOMAIN sent /\ sent[i].at = pos

\* What the two bytes after pos say as a length.
Shown(l) ==
    \/ \E i \in DOMAIN sent : BeginsAt(i) /\ l = sent[i].len % Width
    \/ (\A i \in DOMAIN sent : ~BeginsAt(i)) /\ l \in OtherLens

\* The packet that has been read, when that is what low bytes after pos are.
Whole(i) == BeginsAt(i) /\ low = HeaderLen + sent[i].len

-------------------------------------------------------------------------------
(***************************************************************************)
(* The sender.  Header and body are written under the lock of the wrapper, *)
(* and by one thread only.  The first packet is the authentication.        *)
(***************************************************************************)
Accepted(n) == n <= MsgLimit

SendMsg(n) ==
    /\ ~hungUp
    /\ Len(sent) < MaxPackets
    /\ Accepted(n)
    /\ LET len == UuidLen + TypeLen + n IN
         /\ sent' = Append(sent, [at |-> written, len |-> len])
         /\ written' = written + HeaderLen + len
    /\ UNCHANGED <<arrived, pos, low, timer, reader, got, stalls, hungUp, greeting>>

\* The sender goes, or the network between the two: what has not arrived may
\* be lost, from any byte on.
HangUp ==
    /\ ~hungUp
    /\ hungUp' = TRUE
    /\ written' \in arrived..written
    /\ UNCHANGED <<sent, arrived, pos, low, timer, reader, got, stalls, greeting>>

-------------------------------------------------------------------------------
(***************************************************************************)
(* Libevent at the receiving end.                                          *)
(***************************************************************************)
Arrive ==
    /\ Reading
    /\ arrived < written
    /\ Held < low
    /\ arrived' = arrived + 1
    /\ UNCHANGED <<sent, written, pos, low, timer, reader, got, stalls, hungUp, greeting>>

Ready == Reading /\ Held = low

\* The input is read or thrown away, all of it.
Drained == arrived

\* The watermarks for a body of l bytes: the header is still in the input.
Mark(l) == l + HeaderLen

\* bufferevent_disable and the signal peerQuit.
Quit ==
    /\ reader' = "off"
    /\ UNCHANGED <<pos, low, timer, got>>

TcpAuthLength ==
    /\ reader = "auth" /\ Ready /\ low = HeaderLen
    /\ \E l \in OtherLens \cup {sent[i].len % Width : i \in DOMAIN sent} :
         /\ Shown(l)
         /\ IF l = 0 \/ l > AuthLimit
            THEN Quit
            ELSE low' = Mark(l) /\ UNCHANGED <<pos, timer, reader, got>>
    /\ UNCHANGED <<sent, written, arrived, stalls, hungUp, greeting>>

\* The text is name, port and version; a name that holds AUTH_SEPERATOR makes a
\* field too many of it.
Welcome(g) == g.type = "MSG_AUTH" /\ g.uuid # "null" /\ g.fields = 3 /\ g.port # 0

\* Only the first packet of a connection is an authentication.
TcpAuthPacket ==
    /\ reader = "auth" /\ Ready /\ low # HeaderLen
    /\ IF Whole(1) /\ Welcome(greeting)
       THEN /\ got' = Append(got, 1)
            /\ pos' = Drained
            /\ low' = HeaderLen
            /\ reader' = "read"
            /\ UNCHANGED timer
       ELSE Quit
    /\ UNCHANGED <<sent, written, arrived, stalls, hungUp, greeting>>

\* The time-out that goes with a header.
Patience == "partial"

PacketLenRecv ==
    /\ reader = "read" /\ Ready /\ low = HeaderLen
    /\ \E l \in OtherLens \cup {sent[i].len % Width : i \in DOMAIN sent} :
         /\ Shown(l)
         /\ IF l = 0
            THEN pos' = Drained /\ UNCHANGED <<low, timer>>
            ELSE low' = Mark(l) /\ timer' = Patience /\ UNCHANGED pos
    /\ UNCHANGED <<sent, written, arrived, reader, got, stalls, hungUp, greeting>>

\* singleMessageIterator: the packet is handed to the worker thread.
Deliver(i) ==
    /\ got' = Append(got, i)
    /\ timer' = "reset"
    /\ UNCHANGED reader

\* Too short to hold a uuid, or the uuid is null.
Discard == UNCHANGED <<got, timer, reader>>

TcpRead ==
    /\ reader = "read" /\ Ready /\ low # HeaderLen
    /\ pos' = Drained
    /\ low' = HeaderLen
    /\ LET body == low - HeaderLen IN
         \/ body <= UuidLen /\ Discard
         \/ /\ body > UuidLen
            /\ \/ \E i \in DOMAIN sent : Whole(i) /\ Deliver(i)
               \/ /\ \A i \in DOMAIN sent : ~Whole(i)
                  /\ \/ Discard
                     \/ body >= UuidLen + TypeLen /\ Deliver(MadeUp)
                     \/ /\ body < UuidLen + TypeLen
                        /\ reader' = "wild"
                        /\ UNCHANGED <<got, timer>>
    /\ UNCHANGED <<sent, written, arrived, stalls, hungUp, greeting>>

ReadCallback == TcpAuthLength \/ TcpAuthPacket \/ PacketLenRecv \/ TcpRead

\* Libevent does not time a bufferevent whose input is full.
TcpErrTimeout ==
    /\ Reading
    /\ timer # "none"
    /\ Held < low
    /\ LET inside == Held > 0 \/ low # HeaderLen IN
         /\ inside /\ arrived < written => stalls < MaxStalls
         /\ stalls' = IF inside THEN stalls + 1 ELSE stalls
    /\ pos' = Drained
    /\ low' = HeaderLen
    /\ timer' = "reset"
    /\ UNCHANGED <<sent, written, arrived, reader, got, hungUp, greeting>>

TcpErrEof ==
    /\ Reading
    /\ hungUp /\ arrived = written
    /\ Held < low
    /\ Quit
    /\ UNCHANGED <<sent, written, arrived, stalls, hungUp, greeting>>

-------------------------------------------------------------------------------
\* A dialled connection has a time-out from the start, an accepted one has not.
Init ==
    /\ sent = <<>>
    /\ written = 0 /\ arrived = 0 /\ pos = 0
    /\ low = HeaderLen
    /\ timer \in {"none", "dial"}
    /\ reader = "auth"
    /\ got = <<>>
    /\ stalls = 0
    /\ hungUp = FALSE
    /\ greeting \in Greetings

Next ==
    \/ \E n \in MsgLens : SendMsg(n)
    \/ HangUp
    \/ Arrive
    \/ ReadCallback
    \/ TcpErrTimeout
    \/ TcpErrEof

Spec == Init /\ [][Next]_vars

\* The event loop runs, what is written arrives unless the connection is cut,
\* and timers fire.
FairSpec ==
    /\ Spec
    /\ WF_vars(Arrive)
    /\ WF_vars(ReadCallback)
    /\ WF_vars(TcpErrTimeout)
    /\ WF_vars(TcpErrEof)

-------------------------------------------------------------------------------
\* The next byte is the first of a packet, or has yet to be sent.
InFrame == pos = written \/ \E i \in DOMAIN sent : BeginsAt(i)

\* The packet after the last one that begins before the next byte.
NextPacket ==
    LET begun == {i \in DOMAIN sent : sent[i].at < pos}
    IN  CHOOSE n \in 1..(Len(sent) + 1) : begun = 1..(n - 1)

Channel == INSTANCE PacketChannel WITH
    count <- Len(sent), next <- NextPacket, broken <- ~InFrame

\* The stream of bytes carries packets the way the handlers expect: see the
\* abstract specification.
FramesPackets == Channel!Spec

TypeOK ==
    /\ sent \in Seq([at : Nat, len : Nat])
    /\ written \in Nat /\ arrived \in Nat /\ pos \in Nat /\ low \in Nat
    /\ timer \in {"none", "dial", "partial", "reset"}
    /\ reader \in Readers
    /\ got \in Seq(Nat)
    /\ stalls \in Nat
    /\ hungUp \in BOOLEAN
    /\ greeting \in Greetings

\* Without a stall inside a packet the reader is always in step with the
\* sender: what it has handed on are the first packets, in order, and the two
\* bytes it takes for a header are one.
InStep ==
    stalls = 0 =>
        /\ reader # "wild"
        /\ got = [i \in 1..Len(got) |-> i]
        /\ Len(got) < Len(sent) => sent[Len(got) + 1].at = pos
        /\ low # HeaderLen => \E i \in DOMAIN sent : Whole(i)

\* The reader keeps its types, and its place in the stream.
FramingSound == TypeOK /\ InStep

\* When the sender pauses, the reader ends up waiting for a header with
\* nothing left over in its input (or gives the connection up), whatever it
\* lost count of before.
Recovers == <>[](~Reading \/ (Held = 0 /\ low = HeaderLen))

\* The first packet of the sender is longer than an authentication may be.
TooLong == \E i \in DOMAIN sent : sent[i].at = 0 /\ sent[i].len > AuthLimit

\* What is sent is handed on, unless the connection ends, the line goes silent
\* inside a packet or the peer's authentication is none: its own name may make it
\* too long, or make more than three fields of it.
Arrives ==
    \A n \in 1..MaxPackets :
        n <= Len(sent) ~> \/ n <= Len(got)
                          \/ stalls > 0 \/ hungUp
                          \/ TooLong \/ ~Welcome(greeting)
===============================================================================
