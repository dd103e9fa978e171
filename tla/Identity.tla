------------------------------ MODULE Identity ------------------------------
(***************************************************************************)
(* Who a process is.  All processes of a user share one ini file with a    *)
(* row of slots for uuids, the switch that allows more than one process,   *)
(* and the listener's port.  A process takes the first slot that is not in *)
(* use, marks it if more than one process is allowed, and writes its uuid  *)
(* back when it quits.  If only one is allowed, a lock file sees to that.  *)
(*                                                                         *)
(* QSettings reads the file when it is made, works on that view, and later *)
(* writes what it changed and reads what the others did.                   *)
(***************************************************************************)
EXTENDS Naturals, FiniteSets

CONSTANTS
    Processes,
    UUIDs,       \* bound: those that can be made in a run
    MaxSlot,     \* bound: the last slot
    InUse, Empty, Null, \* what a slot holds other than a uuid
    Allow, Tcp,  \* the other two keys of the file
    Modes,       \* may more than one process run? what the file says at first
    BasePort,    \* the port it asks for
    Overlapping, \* in which of those may a process start while another does?
    MayToggle,   \* may the user change the switch?
    MayCrash

Slots == 0..MaxSlot
Keys  == Slots \cup {Allow, Tcp}
Ports == 0..65535

ASSUME SlotsAssumption == MaxSlot \in Nat \ {0}
ASSUME ValuesAssumption ==
    /\ InUse \notin UUIDs /\ Empty \notin UUIDs /\ Null \notin UUIDs
    /\ InUse # Empty /\ InUse # Null /\ Empty # Null
    /\ Allow \notin Slots /\ Tcp \notin Slots /\ Allow # Tcp
ASSUME FlagsAssumption ==
    /\ Modes \subseteq BOOLEAN /\ BasePort \in Ports
    /\ Overlapping \subseteq BOOLEAN /\ MayToggle \in BOOLEAN /\ MayCrash \in BOOLEAN

VARIABLES
    file,   \* the ini file: slots, switch and port
    made,   \* the uuids made so far
    lock,   \* the processes that hold the lock file
    state,  \* of each process
    view,   \* what its QSettings thinks of the file
    dirty,  \* the keys it has changed and not written
    num,    \* presets.uuidNum
    uuid,   \* presets.uuid
    port,   \* presets.tcpPort
    dialog, \* the ports its settings dialog shows, if open
    lost    \* slots that a crash left in use

presets == <<num, uuid, port>>
vars    == <<file, made, lock, state, view, dirty, presets, dialog, lost>>

Running == {p \in Processes : state[p] = "running"}
Fresh   == UUIDs \ made

\* Forms of the helpers below that a slip in the code would give them; the
\* specification does not use them.
Mutant_Taken(s, i, multi) == s
Mutant_Given(s, i, u) == s

-------------------------------------------------------------------------------
(***************************************************************************)
(* The slots s of a view.                                                  *)
(***************************************************************************)
Lowest(s) == CHOOSE i \in Slots : s[i] # InUse /\ \A j \in 0..(i - 1) : s[j] = InUse

\* What getUUIDNumber leaves, for u is the uuid it would make.
Seeded(s, u) == IF s[Lowest(s)] = Empty THEN [s EXCEPT ![Lowest(s)] = u] ELSE s

\* getUUID: the uuid of slot i, or u, and what is left of the slots
Named(s, i, u) == IF s[i] \in {Empty, Null} THEN u ELSE s[i]
Taken(s, i, multi) == IF multi THEN [s EXCEPT ![i] = InUse] ELSE s

\* resetUUID
Given(s, i, u) == [s EXCEPT ![i] = u]

\* getPort: the port set in the file and the number of the process, 16 bits
\* wide; 13649 is no longer used.
PortKept(tcp) == IF tcp = 13649 THEN 0 ELSE tcp
AsksSlot(tcp) == PortKept(tcp) # 0
PortFor(tcp, i) == IF AsksSlot(tcp) THEN (tcp + i) % 65536 ELSE 0

Locked == lock # {}

\* The view of p becomes v, and what that changed is to be written.
Edit(p, v, keys) ==
    /\ view' = [view EXCEPT ![p] = v]
    /\ dirty' = [dirty EXCEPT ![p] = @ \cup keys]

Changed(s, t) == {i \in Slots : s[i] # t[i]}

\* Writing what p changed.
Merged(v, keys) ==
    [slot  |-> [i \in Slots |-> IF i \in keys THEN v.slot[i] ELSE file.slot[i]],
     allow |-> IF Allow \in keys THEN v.allow ELSE file.allow,
     tcp   |-> IF Tcp \in keys THEN v.tcp ELSE file.tcp]

Settled(p) == state[p] # "opened" /\ dirty[p] = {}

\* Bound: there are slots to look at and uuids to make.
Room(s) == /\ Cardinality({i \in Slots : s[i] # InUse}) >= 2
           /\ Cardinality(Fresh) >= 2

\* Bound: each dialog may raise the port, so none is opened once it wrapped.
NotWrapped(tcp) == tcp = 0 \/ tcp >= BasePort

Unread == [slot |-> [i \in Slots |-> Empty], allow |-> FALSE, tcp |-> 0]

\* p is gone.
Gone(p) ==
    /\ state' = [state EXCEPT ![p] = "off"]
    /\ view' = [view EXCEPT ![p] = Unread]
    /\ dirty' = [dirty EXCEPT ![p] = {}]
    /\ num' = [num EXCEPT ![p] = 0]
    /\ uuid' = [uuid EXCEPT ![p] = Null]
    /\ port' = [port EXCEPT ![p] = 0]
    /\ dialog' = [dialog EXCEPT ![p] = {}]
    /\ lock' = lock \ {p}

-------------------------------------------------------------------------------
Start(p) ==
    /\ state[p] = "off"
    /\ file.allow \in Overlapping \/ \A q \in Processes : Settled(q)
    /\ Room(file.slot)
    /\ state' = [state EXCEPT ![p] = "opened"]
    /\ view' = [view EXCEPT ![p] = file]
    /\ UNCHANGED <<file, made, lock, dirty, presets, dialog, lost>>

\* postInit, up to the window; the port is asked for after the slot is taken,
\* and asking looks for a slot once more.
PostInit(p) ==
    /\ state[p] = "opened" /\ Room(view[p].slot)
    /\ view[p].allow \/ ~Locked
    /\ \E u \in Fresh : \E w \in Fresh \ {u} :
         LET s == view[p].slot
             i == Lowest(s)
             t == Taken([Seeded(s, u) EXCEPT ![i] = Named(s, i, u)], i, view[p].allow)
             r == IF AsksSlot(view[p].tcp) THEN Seeded(t, w) ELSE t
             v == [view[p] EXCEPT !.slot = r, !.tcp = PortKept(@)]
         IN
         /\ num' = [num EXCEPT ![p] = i]
         /\ uuid' = [uuid EXCEPT ![p] = Named(s, i, u)]
         /\ port' = [port EXCEPT ![p] = PortFor(view[p].tcp, Lowest(t))]
         /\ Edit(p, v, Changed(s, r) \cup {k \in {Tcp} : v.tcp # view[p].tcp})
         /\ made' = made \cup ({u, w} \cap ({uuid'[p]} \cup {r[k] : k \in Slots}))
    /\ lock' = IF view[p].allow THEN lock ELSE lock \cup {p}
    /\ state' = [state EXCEPT ![p] = "running"]
    /\ UNCHANGED <<file, dialog, lost>>

\* "PXMessenger is already running", until the user closes the box.
Refuse(p) ==
    /\ state[p] = "opened" /\ ~view[p].allow /\ Locked
    /\ state' = [state EXCEPT ![p] = "refused"]
    /\ UNCHANGED <<file, made, lock, view, dirty, presets, dialog, lost>>

\* QSettings writes and reads when the event loop gets to it.
Flush(p) ==
    /\ dirty[p] # {} /\ state[p] # "off"
    /\ file' = Merged(view[p], dirty[p])
    /\ view' = [view EXCEPT ![p] = file']
    /\ dirty' = [dirty EXCEPT ![p] = {}]
    /\ UNCHANGED <<made, lock, state, presets, dialog, lost>>

\* The destructor of PXMAgentPrivate writes the uuid of the presets to their
\* slot, whatever they are; then its members go, QSettings writing the rest.
Quit(p) ==
    /\ state[p] \in {"running", "refused"} /\ dialog[p] = {}
    /\ file' = Merged([view[p] EXCEPT !.slot = Given(@, num[p], uuid[p])], dirty[p] \cup {num[p]})
    /\ Gone(p)
    /\ UNCHANGED <<made, lost>>

\* The lock file of a dead process does not count.
Crash(p) ==
    /\ MayCrash /\ state[p] # "off"
    /\ Gone(p)
    /\ lost' = IF state[p] = "running" THEN lost \cup {num[p]} ELSE lost
    /\ UNCHANGED <<file, made>>

\* readIni asks for the port as postInit does.
OpenSettings(p) ==
    /\ state[p] = "running" /\ dialog[p] = {} /\ Room(view[p].slot) /\ NotWrapped(view[p].tcp)
    /\ \E u \in Fresh :
         LET v == view[p]
             r == IF AsksSlot(v.tcp) THEN Seeded(v.slot, u) ELSE v.slot
         IN
         /\ dialog' = [dialog EXCEPT ![p] = {PortFor(v.tcp, Lowest(v.slot))}]
         /\ Edit(p, [v EXCEPT !.slot = r, !.tcp = PortKept(@)],
                 Changed(v.slot, r) \cup {k \in {Tcp} : PortKept(v.tcp) # v.tcp})
         /\ made' = made \cup ({u} \cap {r[k] : k \in Slots})
    /\ UNCHANGED <<file, lock, state, presets, lost>>

\* accept, with the port as it was shown.
Accept(p) ==
    /\ dialog[p] # {}
    /\ \E allow \in BOOLEAN, tcp \in dialog[p] :
         /\ allow = view[p].allow \/ MayToggle
         /\ Edit(p, [view[p] EXCEPT !.allow = allow, !.tcp = tcp], {Allow, Tcp})
    /\ dialog' = [dialog EXCEPT ![p] = {}]
    /\ UNCHANGED <<file, made, lock, state, presets, lost>>

Reject(p) ==
    /\ dialog[p] # {}
    /\ dialog' = [dialog EXCEPT ![p] = {}]
    /\ UNCHANGED <<file, made, lock, state, view, dirty, presets, lost>>

-------------------------------------------------------------------------------
Init ==
    /\ file \in [slot : {[i \in Slots |-> Empty]}, allow : Modes, tcp : {BasePort}]
    /\ made = {} /\ lock = {} /\ lost = {}
    /\ state = [p \in Processes |-> "off"]
    /\ view = [p \in Processes |-> Unread]
    /\ dirty = [p \in Processes |-> {}]
    /\ num = [p \in Processes |-> 0]
    /\ uuid = [p \in Processes |-> Null]
    /\ port = [p \in Processes |-> 0]
    /\ dialog = [p \in Processes |-> {}]

Next == \E p \in Processes :
    \/ Start(p) \/ PostInit(p) \/ Refuse(p) \/ Flush(p) \/ Quit(p) \/ Crash(p)
    \/ OpenSettings(p) \/ Accept(p) \/ Reject(p)

Spec == Init /\ [][Next]_vars

-------------------------------------------------------------------------------
Settings == [slot : [Slots -> UUIDs \cup {InUse, Empty, Null}], allow : BOOLEAN, tcp : Ports]

\* The variables have their types.
TypeOK ==
    /\ file \in Settings /\ view \in [Processes -> Settings]
    /\ made \subseteq UUIDs /\ lock \subseteq Processes /\ lost \subseteq Slots
    /\ state \in [Processes -> {"off", "opened", "running", "refused"}]
    /\ dirty \in [Processes -> SUBSET Keys]
    /\ num \in [Processes -> Slots]
    /\ uuid \in [Processes -> UUIDs \cup {Null}]
    /\ port \in [Processes -> Ports]
    /\ dialog \in [Processes -> SUBSET Ports]

\* No two running processes are the same peer to everybody else.
UniqueIdentity == \A p, q \in Running : uuid[p] = uuid[q] => p = q

\* A slot is marked as in use by the process that will free it, unless that
\* crashed.
InUseIsHeld ==
    \A i \in Slots : file.slot[i] = InUse => i \in lost \/ \E p \in Running : num[p] = i

\* The types, and who holds the slots.
IdentitySound == TypeOK /\ InUseIsHeld
===============================================================================
