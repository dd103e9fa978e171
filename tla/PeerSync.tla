------------------------------- MODULE PeerSync -------------------------------
(***************************************************************************)
(* Asking peers for their lists of peers: PXMSync, the timers around it    *)
(* and the TimedVector of the peers that were asked.                       *)
(*                                                                         *)
(* In a round, begun by a timer or the user, the worker takes a snapshot   *)
(* of its table and asks the authenticated peers in it one after another:  *)
(* the next when a list arrives or when a timer runs out.  A peer is also  *)
(* asked when it authenticates.  A list is believed only from a peer with  *)
(* an entry in syncablePeers that is young enough; the vector is kept here *)
(* as the sequence of every peer's entries, oldest first, since no         *)
(* operation compares the entries of two peers.                            *)
(***************************************************************************)
EXTENDS Naturals, Sequences

CONSTANTS
    Peers,    \* the uuids of the other processes
    Life,     \* how long an entry of syncablePeers counts
    Interval, \* interval of nextSyncTimer
    MaxAsked  \* bound: entries of a peer when it is asked again

ASSUME LifeAssumption == Life \in Nat \ {0}
ASSUME IntervalAssumption == Interval \in Nat \ {0}
ASSUME MaxAskedAssumption == MaxAsked \in Nat

VARIABLES
    authed,   \* peers whose table entry is authenticated
    syncing,  \* areWeSyncing
    todo,     \* authenticated peers of the snapshot ahead of hashIterator
    timer,    \* time left of nextSyncTimer, or Off
    syncable, \* syncablePeers: the ages of the entries of a peer
    waiting,  \* the ages of the requests a peer has yet to answer
    last      \* the list last handled: the age of its request, believed or not

roundVars == <<syncing, todo, timer>>
syncVars  == <<authed, roundVars, syncable, waiting, last>>

Off  == Interval + 1
Ages == 0..Life

\* Forms of the helpers below that a slip in the code would give them; the
\* specification does not use them.
Mutant_Young(a) == a <= Life
Mutant_Restarted == Off
Mutant_StoppedTimer == Interval
Mutant_Behind(ahead, p) == ahead
Mutant_Added(s) == <<0>> \o s
Mutant_Undated(s) == Append(s, Life + 1)

\* Beyond Life all ages are alike.
Aged(a) == IF a < Life THEN a + 1 ELSE Life

\* itr.epoch + ItemLifeMsecs > now
Young(a) == a < Life

\* TimedVector::append
Added(s) == Append(s, 0)

\* TimedVector::contains: the first entry of the peer decides.
Counts(p) == syncable[p] # <<>> /\ Young(Head(syncable[p]))

\* nextSyncTimer after start(), and after stop().
Restarted    == Interval
StoppedTimer == Off

\* The snapshot after hashIterator++.
Behind(ahead, p) == ahead \ {p}

-------------------------------------------------------------------------------
\* requestSyncPacket: the peer gets the request if its wrapper still has a
\* bufferevent.
RequestSyncPacket(p, entries, pending) ==
    /\ syncable' = [entries EXCEPT ![p] = Added(@)]
    /\ waiting' = [pending EXCEPT ![p] = IF p \in authed THEN Append(@, 0) ELSE @]

\* PXMSync::syncNext, with the peers of the snapshot that are ahead; the timer
\* ends up as whenDone if there are none, because donePeerSync stops it.
SyncNext(ahead, entries, pending, whenDone) ==
    \/ /\ ahead = {}
       /\ syncing' = FALSE
       /\ todo' = {}
       /\ timer' = whenDone
       /\ syncable' = entries
       /\ waiting' = pending
    \/ \E p \in ahead :
         /\ todo' = Behind(ahead, p)
         /\ timer' = Restarted
         /\ RequestSyncPacket(p, entries, pending)
         /\ syncing' = TRUE

Room == \A p \in Peers : Len(syncable[p]) < MaxAsked

\* The timer is started last, even if the round is over by then.
BeginPeerSync ==
    /\ ~syncing /\ Room
    /\ SyncNext(authed, syncable, waiting, Restarted)
    /\ UNCHANGED <<authed, last>>

NextSyncTimeout ==
    /\ timer = 0
    /\ SyncNext(todo, syncable, waiting, StoppedTimer)
    /\ UNCHANGED <<authed, last>>

\* A list arrives that answers the oldest request still waiting.  An entry
\* found too old is dropped by contains, one that counts by remove.
SyncHandler(p) ==
    /\ waiting[p] # <<>>
    /\ LET pending == [waiting EXCEPT ![p] = Tail(@)]
           entries == [syncable EXCEPT ![p] = IF @ = <<>> THEN @ ELSE Tail(@)]
       IN  IF Counts(p) /\ syncing
           THEN SyncNext(todo, entries, pending, StoppedTimer)
           ELSE /\ syncable' = entries
                /\ waiting' = pending
                /\ UNCHANGED roundVars
    /\ last' = [age |-> Head(waiting[p]), believed |-> Counts(p)]
    /\ UNCHANGED authed

\* The other process drops a request that came over a connection it does not
\* hold the peer by (its own syncRequestHandlerBev).
Ignore(p) ==
    /\ waiting[p] # <<>>
    /\ waiting' = [waiting EXCEPT ![p] = Tail(@)]
    /\ UNCHANGED <<authed, roundVars, syncable, last>>

\* authHandler asks at once; a connection that is replaced takes the requests
\* made over it along.
AuthHandler(p) ==
    /\ Len(syncable[p]) < MaxAsked
    /\ authed' = authed \cup {p}
    /\ syncable' = [syncable EXCEPT ![p] = Added(@)]
    /\ waiting' = [waiting EXCEPT ![p] = <<0>>]
    /\ UNCHANGED <<roundVars, last>>

PeerQuit(p) ==
    /\ p \in authed
    /\ authed' = authed \ {p}
    /\ waiting' = [waiting EXCEPT ![p] = <<>>]
    /\ UNCHANGED <<roundVars, syncable, last>>

\* Time passes while no timer is due.
Tick ==
    /\ timer # 0
    /\ timer' = IF timer = Off THEN Off ELSE timer - 1
    /\ syncable' = [p \in Peers |-> [i \in DOMAIN syncable[p] |-> Aged(syncable[p][i])]]
    /\ waiting' = [p \in Peers |-> [i \in DOMAIN waiting[p] |-> Aged(waiting[p][i])]]
    /\ UNCHANGED <<authed, syncing, todo, last>>

-------------------------------------------------------------------------------
RoundInit ==
    /\ authed = {}
    /\ syncing = FALSE
    /\ todo = {}
    /\ timer = Off
    /\ syncable = [p \in Peers |-> <<>>]
    /\ waiting = [p \in Peers |-> <<>>]
    /\ last = [age |-> Life, believed |-> FALSE]

RoundNext ==
    \/ BeginPeerSync \/ NextSyncTimeout \/ Tick
    \/ \E p \in Peers : SyncHandler(p) \/ Ignore(p) \/ AuthHandler(p) \/ PeerQuit(p)

RoundSpec == RoundInit /\ [][RoundNext]_syncVars

\* The worker's event loop runs timers when they are due, and time passes.
RoundFairSpec == RoundSpec /\ WF_syncVars(NextSyncTimeout) /\ WF_syncVars(Tick)

-------------------------------------------------------------------------------
\* The variables have their types.
RoundTypeOK ==
    /\ authed \subseteq Peers /\ todo \subseteq Peers
    /\ syncing \in BOOLEAN
    /\ timer \in 0..Off
    /\ syncable \in [Peers -> Seq(Ages)]
    /\ waiting \in [Peers -> Seq(Ages)]
    /\ last \in [age : Ages, believed : BOOLEAN]

\* areWeSyncing keeps every other round from beginning, so a round that has
\* nothing left to wake it up would be the last one.
RoundHasTimer == syncing => timer # Off

\* A request still to be answered has its entry: counted from the youngest,
\* entries and requests are of the same age.
RequestsHaveEntries ==
    \A p \in Peers :
        LET missed == Len(syncable[p]) - Len(waiting[p]) IN
        /\ Len(waiting[p]) <= Len(syncable[p])
        /\ \A i \in DOMAIN waiting[p] : waiting[p][i] = syncable[p][missed + i]

\* The three together.
SyncSound == RoundTypeOK /\ RoundHasTimer /\ RequestsHaveEntries

\* No list is believed that comes too late for the request it answers,
\* whatever other requests the peer was sent.
LateListsRefused == last.believed => last.age < Life

\* A list that comes in time is believed (syncHandler: "timeout or not
\* requested" are the reasons to refuse one).
TimelyListsBelieved == last.age < Life => last.believed

\* A round ends whoever answers, joins or leaves.
RoundEnds == syncing ~> ~syncing

\* The timer stops in the end, unless rounds are begun again and again.
TimerStops == (timer # Off ~> timer = Off) \/ []<><<BeginPeerSync>>_syncVars
===============================================================================
