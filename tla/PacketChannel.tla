----------------------------- MODULE PacketChannel -----------------------------
(***************************************************************************)
(* What one direction of a TCP connection promises the handlers above it:  *)
(* packets arrive whole, in the order they were sent, and none is skipped, *)
(* made up or repeated.  The promise is suspended by a stall in the middle *)
(* of a packet and only by that; it holds again once the reader finds the  *)
(* beginning of a packet.                                                  *)
(***************************************************************************)
EXTENDS Naturals, Sequences

VARIABLES
    count,   \* how many packets have been sent
    next,    \* the packet that will be delivered next
    got,     \* the packets delivered; 0 is one nobody sent
    stalls,  \* how many times the line went silent inside a packet
    broken   \* the reader is somewhere inside a packet

vars == <<count, next, got, stalls, broken>>

MadeUp == 0

Init ==
    /\ count = 0
    /\ next = 1
    /\ got = <<>>
    /\ stalls = 0
    /\ broken = FALSE

Send ==
    /\ count' = count + 1
    /\ UNCHANGED <<next, got, stalls, broken>>

Deliver ==
    /\ ~broken
    /\ next <= count
    /\ got' = Append(got, next)
    /\ next' = next + 1
    /\ UNCHANGED <<count, stalls, broken>>

\* The packet the silence fell into is lost.
Stall ==
    /\ stalls' = stalls + 1
    /\ broken' \in BOOLEAN
    /\ next' \in next..(count + 1)
    /\ UNCHANGED <<count, got>>

\* A reader inside a packet may take what it reads for a packet, and may get
\* to the beginning of one.
Grope ==
    /\ broken
    /\ broken' \in BOOLEAN
    /\ next' \in next..(count + 1)
    /\ got' \in {got, Append(got, MadeUp)}
    /\ UNCHANGED <<count, stalls>>

Next == Send \/ Deliver \/ Stall \/ Grope

Spec == Init /\ [][Next]_vars
===============================================================================
