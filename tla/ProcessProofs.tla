---------------------------- MODULE ProcessProofs ----------------------------
(***************************************************************************)
(* Theorems about one process of the program and about several of them on  *)
(* one computer: Identity, what each takes from the settings file they     *)
(* share, for any number of processes and slots, and Lifecycle, how the    *)
(* threads of each are started and stopped, for any bound on the attempts. *)
(***************************************************************************)
EXTENDS Identity, Lifecycle, QueueLemmas, FiniteSetTheorems, WellFoundedInduction, TLAPS

Contents == UUIDs \cup {InUse, Empty, Null}

\* What only a process that runs can have, and the marks it is to write.
Writers ==
    \A p \in Processes :
        /\ dirty[p] # {} \/ dialog[p] # {} => state[p] = "running"
        /\ state[p] = "running" => uuid[p] \in UUIDs
        /\ \A k \in Slots : k \in dirty[p] /\ view[p].slot[k] = InUse => num[p] = k

IdInv == TypeOK /\ Writers /\ InUseIsHeld

-------------------------------------------------------------------------------
\* A row of slots that are not all in use has a lowest one that is not.
LEMMA LowestFree ==
    ASSUME NEW s, NEW j \in Slots, s[j] # InUse
    PROVE  Lowest(s) \in Slots /\ s[Lowest(s)] # InUse
<1> DEFINE T == {i \in Slots : s[i] # InUse}
<1>1. T \subseteq Nat /\ T # {} /\ \A i \in T : \A k \in 0..(i - 1) : k \in Slots
  BY SlotsAssumption DEF Slots
<1>2. PICK i \in T : \A k \in T : ~(<<k, i>> \in OpToRel(<, Nat))
  BY <1>1, NatLessThanWellFounded, WFMin
<1>3. \A k \in T : ~(k < i)
  BY <1>1, <1>2 DEF OpToRel
<1>4. i \in Slots /\ s[i] # InUse /\ \A k \in 0..(i - 1) : s[k] = InUse
  BY <1>1, <1>3
<1> QED BY <1>4 DEF Lowest

\* With two that are not in use, one is left when another is taken.
LEMMA RoomForTwo ==
    ASSUME NEW s, Room(s), NEW i \in Slots
    PROVE  \E j \in Slots \ {i} : s[j] # InUse
<1> DEFINE T == {j \in Slots : s[j] # InUse}
<1> SUFFICES ASSUME T \subseteq {i} PROVE FALSE
  OBVIOUS
<1>1. IsFiniteSet({i}) /\ Cardinality({i}) = 1
  BY FS_Singleton
<1>2. Cardinality(T) <= 1
  BY <1>1, FS_Subset
<1>3. IsFiniteSet(T) /\ Cardinality(T) \in Nat
  BY <1>1, FS_Subset, FS_CardinalityType
<1> QED BY <1>2, <1>3 DEF Room

\* getUUIDNumber writes at most one uuid, to a slot that was empty.
LEMMA SeededSlot ==
    ASSUME NEW s \in [Slots -> Contents], NEW w \in UUIDs
    PROVE  /\ Seeded(s, w) \in [Slots -> Contents]
           /\ \A k \in Slots : Seeded(s, w)[k] = s[k] \/ (Seeded(s, w)[k] = w /\ s[k] = Empty)
           /\ \A j, k \in Slots : Seeded(s, w)[j] # s[j] /\ Seeded(s, w)[k] # s[k] => j = k
BY DEF Seeded, Contents

\* The port is 16 bits wide.
LEMMA PortType ==
    ASSUME NEW tcp \in Ports, NEW i \in Slots
    PROVE  PortFor(tcp, i) \in Ports /\ PortKept(tcp) \in Ports
<1> DEFINE m == (tcp + i) % 65536
           f == PortFor(tcp, i)
           k == PortKept(tcp)
<1>1. i \in Nat /\ tcp \in Nat
  BY SlotsAssumption DEF Slots, Ports
<1>2. m \in 0..65535 /\ 0 \in 0..65535
  BY <1>1
<1>3. k \in {0, tcp} /\ f \in {0, m}
  BY DEF PortKept, PortFor
<1> HIDE DEF m, f, k
<1>4. ASSUME NEW x \in {0, m} PROVE x \in Ports
  BY <1>2, SMT DEF Ports
<1>5. f \in Ports
  BY <1>3, <1>4
<1>6. k \in Ports
  BY <1>3, <1>4
<1> QED BY <1>5, <1>6 DEF f, k

\* What p is once it has taken slot i, u and w being new.
Takes(p, i, u, w) ==
    /\ i \in Slots /\ u \in Fresh /\ w \in Fresh /\ u # w
    /\ view[p].slot[i] # InUse
    /\ state' = [state EXCEPT ![p] = "running"] /\ num' = [num EXCEPT ![p] = i]
    /\ uuid' = [uuid EXCEPT ![p] = uuid'[p]] /\ uuid'[p] \in UUIDs
    /\ uuid'[p] = u \/ uuid'[p] = view[p].slot[i]
    /\ port' = [port EXCEPT ![p] = port'[p]] /\ port'[p] \in Ports
    /\ view' = [view EXCEPT ![p] = view'[p]] /\ view'[p] \in Settings
    /\ view'[p].allow = view[p].allow
    /\ view'[p].slot[i] = IF view[p].allow THEN InUse ELSE uuid'[p]
    /\ \A k \in Slots \ {i} : view'[p].slot[k] = view[p].slot[k] \/ view'[p].slot[k] = w
    /\ \A j, k \in Slots \ {i} : view'[p].slot[j] # view[p].slot[j] /\ view'[p].slot[k] # view[p].slot[k]
                                   => j = k
    /\ dirty' = [dirty EXCEPT ![p] = dirty'[p]] /\ dirty'[p] \subseteq Keys
    /\ \A k \in Slots : k \in dirty'[p] <=> k \in dirty[p] \/ view'[p].slot[k] # view[p].slot[k]
    /\ made \subseteq made' /\ made' \subseteq made \cup {u, w}
    /\ {u, w} \cap ({uuid'[p]} \cup {view'[p].slot[k] : k \in Slots}) \subseteq made'
    /\ lock' = IF view[p].allow THEN lock ELSE lock \cup {p}
    /\ UNCHANGED <<file, dialog, lost>>

\* postInit takes the lowest slot that is not in use.
LEMMA PostInitTakes ==
    ASSUME TypeOK, NEW p \in Processes, PostInit(p)
    PROVE  /\ state[p] = "opened" /\ (view[p].allow \/ lock = {})
           /\ \E i \in Slots, u, w \in Fresh : Takes(p, i, u, w)
<1> DEFINE s == view[p].slot
           i == Lowest(s)
<1>1. /\ view[p] \in Settings /\ s \in [Slots -> Contents] /\ view[p].tcp \in Ports
      /\ view[p].allow \in BOOLEAN /\ Fresh \subseteq UUIDs
      /\ Room(s)
  BY DEF TypeOK, Settings, Contents, PostInit, Fresh
<1>2. i \in Slots /\ s[i] # InUse
  <2>1. 0 \in Slots
    BY SlotsAssumption DEF Slots
  <2>2. \E j \in Slots : s[j] # InUse
    BY <1>1, <2>1, RoomForTwo
  <2> QED BY <2>2, LowestFree
<1>3. PICK u \in Fresh, w \in Fresh : u # w /\
        LET t == Taken([Seeded(s, u) EXCEPT ![i] = Named(s, i, u)], i, view[p].allow)
            r == IF AsksSlot(view[p].tcp) THEN Seeded(t, w) ELSE t
            v == [view[p] EXCEPT !.slot = r, !.tcp = PortKept(@)]
        IN
        /\ num' = [num EXCEPT ![p] = i]
        /\ uuid' = [uuid EXCEPT ![p] = Named(s, i, u)]
        /\ port' = [port EXCEPT ![p] = PortFor(view[p].tcp, Lowest(t))]
        /\ Edit(p, v, Changed(s, r) \cup {k \in {Tcp} : v.tcp # view[p].tcp})
        /\ made' = made \cup ({u, w} \cap ({uuid'[p]} \cup {r[k] : k \in Slots}))
  BY DEF PostInit
<1> DEFINE n == Named(s, i, u)
           t == Taken([Seeded(s, u) EXCEPT ![i] = n], i, view[p].allow)
           r == IF AsksSlot(view[p].tcp) THEN Seeded(t, w) ELSE t
           v == [view[p] EXCEPT !.slot = r, !.tcp = PortKept(@)]
           K == Changed(s, r) \cup {k \in {Tcp} : v.tcp # view[p].tcp}
<1>4. /\ num' = [num EXCEPT ![p] = i] /\ uuid' = [uuid EXCEPT ![p] = n]
      /\ port' = [port EXCEPT ![p] = PortFor(view[p].tcp, Lowest(t))]
      /\ view' = [view EXCEPT ![p] = v] /\ dirty' = [dirty EXCEPT ![p] = @ \cup K]
      /\ made' = made \cup ({u, w} \cap ({uuid'[p]} \cup {r[k] : k \in Slots}))
  BY <1>3 DEF Edit
<1>5. n \in UUIDs /\ (n = u \/ n = s[i])
  BY <1>1, <1>2 DEF Named, Contents
<1>6. Seeded(s, u) \in [Slots -> Contents] /\ \A k \in Slots \ {i} : Seeded(s, u)[k] = s[k]
  BY <1>1, <1>2 DEF Seeded, Contents
<1>7. /\ t \in [Slots -> Contents]
      /\ t[i] = IF view[p].allow THEN InUse ELSE n
      /\ \A k \in Slots \ {i} : t[k] = s[k]
  BY <1>1, <1>2, <1>5, <1>6 DEF Taken, Contents
<1>8. Lowest(t) \in Slots
  <2>1. \E j \in Slots : t[j] # InUse
    BY <1>1, <1>2, <1>7, RoomForTwo
  <2> HIDE DEF t
  <2> QED BY <2>1, LowestFree
<1>9. PortFor(view[p].tcp, Lowest(t)) \in Ports /\ PortKept(view[p].tcp) \in Ports
  <2> HIDE DEF t
  <2> QED BY <1>1, <1>8, PortType
<1>10. /\ r \in [Slots -> Contents]
       /\ \A k \in Slots : r[k] = t[k] \/ (r[k] = w /\ t[k] = Empty)
       /\ \A j, k \in Slots : r[j] # t[j] /\ r[k] # t[k] => j = k
  <2> HIDE DEF t
  <2> QED BY <1>1, <1>7, SeededSlot
<1> HIDE DEF n, t, r
<1>11. r[i] = IF view[p].allow THEN InUse ELSE n
  BY <1>2, <1>5, <1>7, <1>10, ValuesAssumption
<1>12. /\ v.slot = r /\ v.allow = view[p].allow /\ v \in Settings
  BY <1>1, <1>9, <1>10 DEF Settings, Contents
<1>13. K \subseteq Keys /\ \A k \in Slots : k \in K <=> r[k] # s[k]
  BY ValuesAssumption DEF Changed, Keys
<1> HIDE DEF v, K
<1>14. /\ num' = [num EXCEPT ![p] = i] /\ uuid'[p] = n /\ port'[p] \in Ports /\ view'[p] = v
       /\ dirty'[p] = dirty[p] \cup K
  BY <1>4, <1>9 DEF TypeOK
<1>15. /\ state[p] = "opened" /\ (view[p].allow \/ lock = {})
       /\ state' = [state EXCEPT ![p] = "running"]
       /\ lock' = IF view[p].allow THEN lock ELSE lock \cup {p}
       /\ UNCHANGED <<file, dialog, lost>>
  BY DEF PostInit, Locked
<1>16. \A k \in Slots \ {i} : r[k] = s[k] \/ r[k] = w
  BY <1>7, <1>10
<1>17. \A j, k \in Slots \ {i} : r[j] # s[j] /\ r[k] # s[k] => j = k
  BY <1>7, <1>10
<1>18. dirty[p] \subseteq Keys
  BY DEF TypeOK
<1> HIDE DEF s, i
<1>19. Takes(p, i, u, w)
  <2>1. /\ uuid' = [uuid EXCEPT ![p] = uuid'[p]] /\ port' = [port EXCEPT ![p] = port'[p]]
        /\ view' = [view EXCEPT ![p] = view'[p]] /\ dirty' = [dirty EXCEPT ![p] = dirty'[p]]
    BY <1>4, <1>14 DEF TypeOK
  <2>2. /\ made \subseteq made' /\ made' \subseteq made \cup {u, w}
        /\ {u, w} \cap ({uuid'[p]} \cup {r[k] : k \in Slots}) \subseteq made'
    BY <1>4
  <2>3. view[p].slot = s /\ view'[p].slot = r
    BY <1>12, <1>14 DEF s
  <2>4. s[i] # InUse /\ i \in Slots
    BY <1>2
  <2>7. u # w
    BY <1>3
  <2>5. \A k \in Slots : k \in dirty'[p] <=> k \in dirty[p] \/ r[k] # s[k]
    BY <1>13, <1>14
  <2>6. dirty'[p] \subseteq Keys
    BY <1>13, <1>14, <1>18
  <2> QED BY <1>5, <1>11, <1>12, <1>14, <1>15, <1>16, <1>17, <2>1, <2>2, <2>3, <2>4, <2>5, <2>6, <2>7
          DEF Takes
<1> QED BY <1>2, <1>15, <1>19

\* Looking at the settings gives the view of p at most one uuid, u, which is
\* new; the port on show has 16 bits.
Looks(p, u) ==
    /\ state[p] = "running" /\ u \in Fresh
    /\ view' = [view EXCEPT ![p] = view'[p]] /\ view'[p] \in Settings
    /\ view'[p].allow = view[p].allow
    /\ \A k \in Slots : view'[p].slot[k] = view[p].slot[k] \/ view'[p].slot[k] = u
    /\ \A j, k \in Slots : view'[p].slot[j] # view[p].slot[j] /\ view'[p].slot[k] # view[p].slot[k]
                             => j = k
    /\ \A k \in Slots : view[p].slot[k] # Empty => view'[p].slot[k] = view[p].slot[k]
    /\ dirty' = [dirty EXCEPT ![p] = dirty'[p]] /\ dirty'[p] \subseteq Keys
    /\ \A k \in Slots : k \in dirty'[p] <=> k \in dirty[p] \/ view'[p].slot[k] # view[p].slot[k]
    /\ dialog' = [dialog EXCEPT ![p] = dialog'[p]] /\ dialog'[p] \subseteq Ports
    /\ made \subseteq made' /\ made' \subseteq made \cup {u}
    /\ {u} \cap {view'[p].slot[k] : k \in Slots} \subseteq made'
    /\ UNCHANGED <<file, lock, state, presets, lost>>

\* The settings dialog, when it opens, looks up and keeps as any reader does.
LEMMA OpenSettingsLooks ==
    ASSUME TypeOK, NEW p \in Processes, OpenSettings(p)
    PROVE  \E u \in Fresh : Looks(p, u)
<1> DEFINE s == view[p].slot
           q == PortFor(view[p].tcp, Lowest(s))
<1>1. /\ view[p] \in Settings /\ s \in [Slots -> Contents] /\ view[p].tcp \in Ports
      /\ Fresh \subseteq UUIDs /\ Room(s) /\ dirty[p] \subseteq Keys
  BY DEF TypeOK, Settings, Contents, OpenSettings, Fresh
<1>2. PICK u \in Fresh :
        LET v == view[p]
            r == IF AsksSlot(v.tcp) THEN Seeded(v.slot, u) ELSE v.slot
        IN
        /\ dialog' = [dialog EXCEPT ![p] = {PortFor(v.tcp, Lowest(v.slot))}]
        /\ Edit(p, [v EXCEPT !.slot = r, !.tcp = PortKept(@)],
                Changed(v.slot, r) \cup {k \in {Tcp} : PortKept(v.tcp) # v.tcp})
        /\ made' = made \cup ({u} \cap {r[k] : k \in Slots})
  BY DEF OpenSettings
<1> DEFINE r == IF AsksSlot(view[p].tcp) THEN Seeded(s, u) ELSE s
           v == [view[p] EXCEPT !.slot = r, !.tcp = PortKept(@)]
           K == Changed(s, r) \cup {k \in {Tcp} : PortKept(view[p].tcp) # view[p].tcp}
<1>3. /\ dialog' = [dialog EXCEPT ![p] = {q}]
      /\ view' = [view EXCEPT ![p] = v] /\ dirty' = [dirty EXCEPT ![p] = @ \cup K]
      /\ made' = made \cup ({u} \cap {r[k] : k \in Slots})
  BY <1>2 DEF Edit
<1>4. q \in Ports /\ PortKept(view[p].tcp) \in Ports
  <2>1. 0 \in Slots
    BY SlotsAssumption DEF Slots
  <2>2. \E j \in Slots : s[j] # InUse
    BY <1>1, <2>1, RoomForTwo
  <2>3. Lowest(s) \in Slots
    BY <2>2, LowestFree
  <2> QED BY <1>1, <2>3, PortType
<1>5. /\ r \in [Slots -> Contents]
      /\ \A k \in Slots : r[k] = s[k] \/ (r[k] = u /\ s[k] = Empty)
      /\ \A j, k \in Slots : r[j] # s[j] /\ r[k] # s[k] => j = k
  BY <1>1, SeededSlot
<1> HIDE DEF r
<1>6. /\ v.slot = r /\ v.allow = view[p].allow /\ v \in Settings
  BY <1>1, <1>4, <1>5 DEF Settings, Contents
<1>7. K \subseteq Keys /\ \A k \in Slots : k \in K <=> r[k] # s[k]
  BY ValuesAssumption DEF Changed, Keys
<1> HIDE DEF v, K, q
<1>8. view'[p] = v /\ dirty'[p] = dirty[p] \cup K /\ dialog'[p] = {q}
  BY <1>3 DEF TypeOK
<1>9. /\ view' = [view EXCEPT ![p] = view'[p]] /\ dirty' = [dirty EXCEPT ![p] = dirty'[p]]
      /\ dialog' = [dialog EXCEPT ![p] = dialog'[p]]
  BY <1>3, <1>8 DEF TypeOK
<1>10. state[p] = "running" /\ UNCHANGED <<file, lock, state, presets, lost>>
  BY DEF OpenSettings
<1>11. /\ made \subseteq made' /\ made' \subseteq made \cup {u}
       /\ {u} \cap {r[k] : k \in Slots} \subseteq made'
  BY <1>3
<1>12. view[p].slot = s /\ view'[p].slot = r
  BY <1>6, <1>8
<1> HIDE DEF s
<1>13. /\ dirty'[p] \subseteq Keys
       /\ \A k \in Slots : k \in dirty'[p] <=> k \in dirty[p] \/ r[k] # s[k]
  BY <1>1, <1>7, <1>8
<1>14. dialog'[p] \subseteq Ports
  BY <1>4, <1>8
<1>15. \A k \in Slots : s[k] # Empty => r[k] = s[k]
  BY <1>5
<1>16. Looks(p, u)
  BY <1>5, <1>6, <1>8, <1>9, <1>10, <1>11, <1>12, <1>13, <1>14, <1>15 DEF Looks
<1> QED BY <1>16

\* What quitting, or writing, makes of the file.
LEMMA MergedFile ==
    ASSUME TypeOK, NEW v \in Settings, NEW K
    PROVE  /\ Merged(v, K) \in Settings
           /\ \A k \in Slots : Merged(v, K).slot[k] = IF k \in K THEN v.slot[k] ELSE file.slot[k]
           /\ Merged(v, K).allow = IF Allow \in K THEN v.allow ELSE file.allow
<1>1. file \in Settings
  BY DEF TypeOK
<1>2. /\ [i \in Slots |-> IF i \in K THEN v.slot[i] ELSE file.slot[i]] \in [Slots -> Contents]
      /\ (IF Allow \in K THEN v.allow ELSE file.allow) \in BOOLEAN
      /\ (IF Tcp \in K THEN v.tcp ELSE file.tcp) \in Ports
  BY <1>1 DEF Settings, Contents
<1> QED BY <1>2 DEF Merged, Settings, Contents

\* What quitting writes: the uuid of p, and what p has not written yet.
LEMMA QuitWrites ==
    ASSUME TypeOK, NEW p \in Processes, Quit(p)
    PROVE  /\ file' \in Settings /\ num[p] \in Slots /\ file'.slot[num[p]] = uuid[p]
           /\ \A k \in Slots \ {num[p]} :
                 file'.slot[k] = IF k \in dirty[p] THEN view[p].slot[k] ELSE file.slot[k]
           /\ file'.allow = IF Allow \in dirty[p] THEN view[p].allow ELSE file.allow
<1> DEFINE v == [view[p] EXCEPT !.slot = Given(@, num[p], uuid[p])]
           K == dirty[p] \cup {num[p]}
<1>1. /\ view[p] \in Settings /\ num[p] \in Slots /\ uuid[p] \in Contents
      /\ view[p].slot \in [Slots -> Contents]
  BY DEF TypeOK, Settings, Contents
<1>2. /\ Given(view[p].slot, num[p], uuid[p]) \in [Slots -> Contents]
      /\ Given(view[p].slot, num[p], uuid[p])[num[p]] = uuid[p]
      /\ \A k \in Slots \ {num[p]} : Given(view[p].slot, num[p], uuid[p])[k] = view[p].slot[k]
  BY <1>1 DEF Given
<1>3. /\ v \in Settings /\ v.slot = Given(view[p].slot, num[p], uuid[p]) /\ v.allow = view[p].allow
  BY <1>1, <1>2 DEF Settings, Contents
<1>4. file' = Merged(v, K)
  BY DEF Quit
<1>5. num[p] # Allow
  BY <1>1, ValuesAssumption
<1>6. \A k : k \in K <=> k \in dirty[p] \/ k = num[p]
  OBVIOUS
<1> HIDE DEF v, K
<1>7. /\ file' \in Settings
      /\ \A k \in Slots : file'.slot[k] = IF k \in K THEN v.slot[k] ELSE file.slot[k]
      /\ file'.allow = IF Allow \in K THEN v.allow ELSE file.allow
  <2>1. /\ Merged(v, K) \in Settings
        /\ \A k \in Slots : Merged(v, K).slot[k] = IF k \in K THEN v.slot[k] ELSE file.slot[k]
        /\ Merged(v, K).allow = IF Allow \in K THEN v.allow ELSE file.allow
    BY <1>3, MergedFile
  <2> QED BY <1>4, <2>1
<1>8. file'.slot[num[p]] = uuid[p]
  BY <1>1, <1>2, <1>3, <1>6, <1>7
<1>9. ASSUME NEW k \in Slots \ {num[p]}
      PROVE  file'.slot[k] = IF k \in dirty[p] THEN view[p].slot[k] ELSE file.slot[k]
  BY <1>2, <1>3, <1>6, <1>7, <1>9
<1>10. file'.allow = IF Allow \in dirty[p] THEN view[p].allow ELSE file.allow
  BY <1>3, <1>5, <1>6, <1>7
<1> QED BY <1>1, <1>7, <1>8, <1>9, <1>10

\* The process has left nothing of itself but the file.
LEMMA GoneTypes ==
    ASSUME TypeOK, NEW p \in Processes, Gone(p)
    PROVE  /\ view' \in [Processes -> Settings] /\ lock' \subseteq Processes
           /\ state' \in [Processes -> {"off", "opened", "running", "refused"}]
           /\ dirty' \in [Processes -> SUBSET Keys] /\ num' \in [Processes -> Slots]
           /\ uuid' \in [Processes -> UUIDs \cup {Null}]
           /\ port' \in [Processes -> Ports] /\ dialog' \in [Processes -> SUBSET Ports]
           /\ state'[p] = "off" /\ dirty'[p] = {} /\ dialog'[p] = {}
           /\ \A q \in Processes \ {p} :
                 /\ state'[q] = state[q] /\ view'[q] = view[q] /\ dirty'[q] = dirty[q]
                 /\ num'[q] = num[q] /\ uuid'[q] = uuid[q] /\ dialog'[q] = dialog[q]
<1>1. 0 \in Slots /\ 0 \in Ports
  BY SlotsAssumption DEF Slots, Ports
<1>2. Unread \in Settings
  BY <1>1 DEF Unread, Settings
<1> QED BY <1>1, <1>2 DEF Gone, TypeOK

\* What QSettings writes when the event loop gets to it.
LEMMA FlushWrites ==
    ASSUME TypeOK, NEW p \in Processes, Flush(p)
    PROVE  /\ file' \in Settings
           /\ \A k \in Slots : file'.slot[k] = IF k \in dirty[p] THEN view[p].slot[k] ELSE file.slot[k]
           /\ file'.allow = IF Allow \in dirty[p] THEN view[p].allow ELSE file.allow
           /\ view' = [view EXCEPT ![p] = file'] /\ dirty' = [dirty EXCEPT ![p] = {}]
           /\ dirty[p] # {}
           /\ UNCHANGED <<made, lock, state, num, uuid, port, dialog, lost>>
<1>1. view[p] \in Settings /\ file' = Merged(view[p], dirty[p])
  BY DEF TypeOK, Flush
<1> QED BY <1>1, MergedFile DEF Flush, presets

\* A slot stays marked for the process that marked it until that one quits or
\* is gone.
LEMMA HeldStays ==
    ASSUME IdInv, NEW p \in Processes, state[p] # "running",
           \A q \in Processes \ {p} : state'[q] = state[q] /\ num'[q] = num[q],
           lost' = lost,
           \A k \in Slots : file'.slot[k] = InUse => file.slot[k] = InUse
    PROVE  InUseIsHeld'
BY DEF IdInv, InUseIsHeld, Running

\* No step makes an inventory of the slots untrue.
LEMMA IdInvStep ==
    ASSUME IdInv, [Next]_vars
    PROVE  IdInv'
<1>t. TypeOK /\ Writers /\ InUseIsHeld
  BY DEF IdInv
<1>1. CASE UNCHANGED vars
  BY <1>1, <1>t DEF vars, presets, TypeOK, Writers, InUseIsHeld, Running, IdInv
<1>2. ASSUME NEW p \in Processes, Start(p) PROVE IdInv'
  <2>1. /\ state[p] = "off" /\ state' = [state EXCEPT ![p] = "opened"]
        /\ view' = [view EXCEPT ![p] = file]
        /\ UNCHANGED <<file, made, lock, dirty, num, uuid, port, dialog, lost>>
    BY <1>2 DEF Start, presets
  <2>2. TypeOK'
    BY <1>t, <2>1 DEF TypeOK
  <2>3. dirty[p] = {} /\ dialog[p] = {}
    BY <1>t, <2>1 DEF Writers
  <2>4. /\ state'[p] = "opened" /\ \A q \in Processes \ {p} : state'[q] = state[q] /\ view'[q] = view[q]
    BY <1>t, <2>1 DEF TypeOK
  <2>5. Writers'
    BY <1>t, <2>1, <2>3, <2>4 DEF Writers
  <2>6. InUseIsHeld'
    BY <2>1, <2>4, HeldStays
  <2> QED BY <2>2, <2>5, <2>6 DEF IdInv
<1>3. ASSUME NEW p \in Processes, PostInit(p) PROVE IdInv'
  <2>1. PICK i \in Slots, u \in Fresh, w \in Fresh : state[p] = "opened" /\ Takes(p, i, u, w)
    BY <1>3, <1>t, PostInitTakes
  <2>2. /\ u \in UUIDs /\ w \in UUIDs /\ w # InUse /\ lock' \subseteq Processes
    BY <1>t, <2>1, ValuesAssumption DEF Fresh, Takes, TypeOK
  <2>3. /\ state' = [state EXCEPT ![p] = "running"] /\ num' = [num EXCEPT ![p] = i]
        /\ uuid' = [uuid EXCEPT ![p] = uuid'[p]] /\ uuid'[p] \in UUIDs
        /\ port' = [port EXCEPT ![p] = port'[p]] /\ port'[p] \in Ports
        /\ view' = [view EXCEPT ![p] = view'[p]] /\ view'[p] \in Settings
        /\ dirty' = [dirty EXCEPT ![p] = dirty'[p]] /\ dirty'[p] \subseteq Keys
        /\ made' \subseteq UUIDs
        /\ UNCHANGED <<file, dialog, lost>>
        /\ \A k \in Slots : k \in dirty'[p] <=> k \in dirty[p] \/ view'[p].slot[k] # view[p].slot[k]
        /\ \A k \in Slots \ {i} : view'[p].slot[k] = view[p].slot[k] \/ view'[p].slot[k] = w
    BY <1>t, <2>1, <2>2 DEF Takes, TypeOK
  <2>4. TypeOK'
    BY <1>t, <2>2, <2>3 DEF TypeOK
  <2>5. dirty[p] = {} /\ dialog[p] = {}
    BY <1>t, <2>1 DEF Writers
  <2>6. /\ state'[p] = "running" /\ num'[p] = i
        /\ \A q \in Processes \ {p} : /\ state'[q] = state[q] /\ view'[q] = view[q]
                                      /\ num'[q] = num[q] /\ uuid'[q] = uuid[q]
                                      /\ dirty'[q] = dirty[q]
    BY <1>t, <2>3 DEF TypeOK
  <2>7. \A k \in Slots : k \in dirty'[p] /\ view'[p].slot[k] = InUse => k = i
    BY <2>2, <2>3, <2>5
  <2>8. Writers'
    BY <1>t, <2>3, <2>6, <2>7 DEF Writers
  <2>9. InUseIsHeld'
    BY <2>1, <2>3, <2>6, HeldStays
  <2> QED BY <2>4, <2>8, <2>9 DEF IdInv
<1>4. ASSUME NEW p \in Processes, Refuse(p) PROVE IdInv'
  <2>1. /\ state[p] = "opened" /\ state' = [state EXCEPT ![p] = "refused"]
        /\ UNCHANGED <<file, made, lock, view, dirty, num, uuid, port, dialog, lost>>
    BY <1>4 DEF Refuse, presets
  <2>2. TypeOK'
    BY <1>t, <2>1 DEF TypeOK
  <2>3. dirty[p] = {} /\ dialog[p] = {}
    BY <1>t, <2>1 DEF Writers
  <2>4. /\ state'[p] = "refused" /\ \A q \in Processes \ {p} : state'[q] = state[q]
    BY <1>t, <2>1 DEF TypeOK
  <2>5. Writers'
    BY <1>t, <2>1, <2>3, <2>4 DEF Writers
  <2>6. InUseIsHeld'
    BY <2>1, <2>4, HeldStays
  <2> QED BY <2>2, <2>5, <2>6 DEF IdInv
<1>5. ASSUME NEW p \in Processes, Flush(p) PROVE IdInv'
  <2>1. /\ file' \in Settings
        /\ \A k \in Slots : file'.slot[k] = IF k \in dirty[p] THEN view[p].slot[k] ELSE file.slot[k]
        /\ view' = [view EXCEPT ![p] = file'] /\ dirty' = [dirty EXCEPT ![p] = {}]
        /\ dirty[p] # {}
        /\ UNCHANGED <<made, lock, state, num, uuid, port, dialog, lost>>
    BY <1>5, <1>t, FlushWrites
  <2>2. TypeOK'
    BY <1>t, <2>1 DEF TypeOK
  <2>3. /\ dirty'[p] = {} /\ \A q \in Processes \ {p} : view'[q] = view[q] /\ dirty'[q] = dirty[q]
    BY <1>t, <2>1 DEF TypeOK
  <2>4. Writers'
    BY <1>t, <2>1, <2>3 DEF Writers
  <2>5. InUseIsHeld'
    BY <1>t, <2>1 DEF Writers, InUseIsHeld, Running
  <2> QED BY <2>2, <2>4, <2>5 DEF IdInv
<1>6. ASSUME NEW p \in Processes, Quit(p) PROVE IdInv'
  <2>1. /\ file' \in Settings /\ num[p] \in Slots /\ file'.slot[num[p]] = uuid[p]
        /\ \A k \in Slots \ {num[p]} :
              file'.slot[k] = IF k \in dirty[p] THEN view[p].slot[k] ELSE file.slot[k]
    BY <1>6, <1>t, QuitWrites
  <2>2. Gone(p) /\ UNCHANGED <<made, lost>>
    BY <1>6 DEF Quit
  <2>3. TypeOK'
    BY <1>t, <2>1, <2>2, GoneTypes DEF TypeOK
  <2>4. /\ state'[p] = "off" /\ dirty'[p] = {} /\ dialog'[p] = {}
        /\ \A q \in Processes \ {p} :
              /\ state'[q] = state[q] /\ view'[q] = view[q] /\ dirty'[q] = dirty[q]
              /\ num'[q] = num[q] /\ uuid'[q] = uuid[q] /\ dialog'[q] = dialog[q]
    BY <1>t, <2>2, GoneTypes
  <2>5. Writers'
    BY <1>t, <2>4 DEF Writers
  <2>6. uuid[p] # InUse
    BY <1>t, ValuesAssumption DEF TypeOK
  <2>7. ASSUME NEW k \in Slots, file'.slot[k] = InUse PROVE file.slot[k] = InUse /\ num[p] # k
    BY <1>t, <2>1, <2>6, <2>7 DEF Writers
  <2>8. InUseIsHeld'
    BY <1>t, <2>2, <2>4, <2>7 DEF InUseIsHeld, Running
  <2> QED BY <2>3, <2>5, <2>8 DEF IdInv
<1>7. ASSUME NEW p \in Processes, Crash(p) PROVE IdInv'
  <2>1. /\ Gone(p) /\ UNCHANGED <<file, made>>
        /\ lost' = IF state[p] = "running" THEN lost \cup {num[p]} ELSE lost
    BY <1>7 DEF Crash
  <2>2. /\ state'[p] = "off" /\ dirty'[p] = {} /\ dialog'[p] = {}
        /\ \A q \in Processes \ {p} :
              /\ state'[q] = state[q] /\ view'[q] = view[q] /\ dirty'[q] = dirty[q]
              /\ num'[q] = num[q] /\ uuid'[q] = uuid[q] /\ dialog'[q] = dialog[q]
    BY <1>t, <2>1, GoneTypes
  <2>3. TypeOK'
    BY <1>t, <2>1, GoneTypes DEF TypeOK
  <2>4. Writers'
    BY <1>t, <2>2 DEF Writers
  <2>5. InUseIsHeld'
    BY <1>t, <2>1, <2>2 DEF InUseIsHeld, Running
  <2> QED BY <2>3, <2>4, <2>5 DEF IdInv
<1>8. ASSUME NEW p \in Processes, OpenSettings(p) PROVE IdInv'
  <2>1. PICK u \in Fresh : Looks(p, u)
    BY <1>8, <1>t, OpenSettingsLooks
  <2>2. /\ state[p] = "running" /\ u \in UUIDs /\ u # InUse
        /\ view' = [view EXCEPT ![p] = view'[p]] /\ view'[p] \in Settings
        /\ dirty' = [dirty EXCEPT ![p] = dirty'[p]] /\ dirty'[p] \subseteq Keys
        /\ dialog' = [dialog EXCEPT ![p] = dialog'[p]] /\ dialog'[p] \subseteq Ports
        /\ made' \subseteq UUIDs
        /\ UNCHANGED <<file, lock, state, num, uuid, port, lost>>
        /\ \A k \in Slots : view'[p].slot[k] = view[p].slot[k] \/ view'[p].slot[k] = u
        /\ \A k \in Slots : k \in dirty'[p] <=> k \in dirty[p] \/ view'[p].slot[k] # view[p].slot[k]
    BY <1>t, <2>1, ValuesAssumption DEF Looks, presets, Fresh, TypeOK
  <2>3. TypeOK'
    BY <1>t, <2>2 DEF TypeOK
  <2>4. \A q \in Processes \ {p} : view'[q] = view[q] /\ dirty'[q] = dirty[q] /\ dialog'[q] = dialog[q]
    BY <1>t, <2>2 DEF TypeOK
  <2>5. Writers'
    BY <1>t, <2>2, <2>4 DEF Writers
  <2>6. InUseIsHeld'
    BY <1>t, <2>2 DEF InUseIsHeld, Running
  <2> QED BY <2>3, <2>5, <2>6 DEF IdInv
<1>9. ASSUME NEW p \in Processes, Accept(p) \/ Reject(p) PROVE IdInv'
  <2>1. PICK v \in Settings, K \in SUBSET {Allow, Tcp} :
           /\ v.slot = view[p].slot
           /\ view' = [view EXCEPT ![p] = v] /\ dirty' = [dirty EXCEPT ![p] = @ \cup K]
    <3>1. view[p] \in Settings /\ dialog[p] \subseteq Ports /\ dirty[p] = dirty[p] \cup {}
      BY <1>t DEF TypeOK
    <3>2. CASE Accept(p)
      <4>1. PICK allow \in BOOLEAN, tcp \in dialog[p] :
               Edit(p, [view[p] EXCEPT !.allow = allow, !.tcp = tcp], {Allow, Tcp})
        BY <3>2 DEF Accept
      <4>2. /\ [view[p] EXCEPT !.allow = allow, !.tcp = tcp] \in Settings
            /\ [view[p] EXCEPT !.allow = allow, !.tcp = tcp].slot = view[p].slot
        BY <3>1 DEF Settings
      <4> QED BY <4>1, <4>2 DEF Edit
    <3>3. CASE Reject(p)
      <4>1. view' = [view EXCEPT ![p] = view[p]] /\ dirty' = [dirty EXCEPT ![p] = @ \cup {}]
        BY <1>t, <3>3 DEF Reject, TypeOK
      <4> QED BY <3>1, <4>1
    <3> QED BY <1>9, <3>2, <3>3
  <2>2. /\ dialog[p] # {} /\ dialog' = [dialog EXCEPT ![p] = {}]
        /\ UNCHANGED <<file, made, lock, state, num, uuid, port, lost>>
    BY <1>9 DEF Accept, Reject, presets
  <2>3. K \subseteq Keys /\ K \cap Slots = {}
    BY <2>1, ValuesAssumption DEF Keys
  <2>4. TypeOK'
    BY <1>t, <2>1, <2>2, <2>3 DEF TypeOK
  <2>5. /\ view'[p].slot = view[p].slot /\ \A k \in Slots : k \in dirty'[p] => k \in dirty[p]
        /\ \A q \in Processes \ {p} : view'[q] = view[q] /\ dirty'[q] = dirty[q] /\ dialog'[q] = dialog[q]
    BY <1>t, <2>1, <2>2, <2>3 DEF TypeOK
  <2>6. Writers'
    BY <1>t, <2>2, <2>5 DEF Writers
  <2>7. InUseIsHeld'
    BY <1>t, <2>2 DEF InUseIsHeld, Running
  <2> QED BY <2>4, <2>6, <2>7 DEF IdInv
<1> QED BY <1>1, <1>2, <1>3, <1>4, <1>5, <1>6, <1>7, <1>8, <1>9 DEF Next

\* The program starts with every slot free.
LEMMA InitIdInv ==
    ASSUME Init
    PROVE  IdInv
<1>1. 0 \in Slots /\ 0 \in Ports /\ BasePort \in Ports /\ Modes \subseteq BOOLEAN
  BY SlotsAssumption, FlagsAssumption DEF Slots, Ports
<1>2. Unread \in Settings /\ file \in Settings /\ \A k \in Slots : file.slot[k] = Empty
  BY <1>1 DEF Unread, Settings, Init
<1> QED BY <1>1, <1>2, ValuesAssumption DEF Init, IdInv, TypeOK, Writers, InUseIsHeld

\* In every behaviour, also with processes that start while others do, with
\* the switch toggled and after crashes, no slot is marked as in use for good
\* but by a crash (getUUID, resetUUID).
THEOREM IdentityIsSound == Spec => []IdentitySound
<1>1. Init => IdInv
  BY InitIdInv
<1>2. IdInv => IdentitySound
  BY DEF IdInv, IdentitySound
<1> QED BY <1>1, <1>2, IdInvStep, PTL DEF Spec

-------------------------------------------------------------------------------
(***************************************************************************)
(* Whose the uuids are, when nobody changes the switch while processes run *)
(* and, where more than one may run, none starts before the others have    *)
(* written what they know.                                                 *)
(***************************************************************************)
Careful == ~MayToggle /\ TRUE \notin Overlapping

\* Every process sees the same switch.
Alike == \A p \in Processes : state[p] # "off" => view[p].allow = file.allow

Made ==
    /\ \A k \in Slots : file.slot[k] \in UUIDs => file.slot[k] \in made
    /\ \A p \in Processes, k \in Slots : view[p].slot[k] \in UUIDs => view[p].slot[k] \in made
    /\ \A p \in Processes : uuid[p] \in UUIDs => uuid[p] \in made

OneLock ==
    /\ \A p \in Processes : state[p] = "running" => p \in lock
    /\ \A p, q \in lock : p = q

Has(p, u) == state[p] = "running" /\ uuid[p] = u

\* q is to write u to slot k.
Seeds(q, k, u) == k \in dirty[q] /\ view[q].slot[k] = u

OneOpened ==
    /\ \A p \in Processes : state[p] # "refused"
    /\ \A p, q \in Processes : state[p] = "opened" /\ state[q] = "opened" => p = q

HeldOnce == \A p, q \in Processes, u \in UUIDs : Has(p, u) /\ Has(q, u) => p = q

FiledOnce == \A j, k \in Slots : file.slot[j] = file.slot[k] /\ file.slot[j] \in UUIDs => j = k

\* The file still has a uuid that a process has taken only until that process
\* writes.
AboutToLeave ==
    \A p \in Processes, k \in Slots :
        Has(p, file.slot[k]) => num[p] = k /\ Seeds(p, k, InUse)

SeedsAreNew ==
    \A q \in Processes, k \in Slots, u \in UUIDs : Seeds(q, k, u) =>
        /\ \A p \in Processes : ~Has(p, u)
        /\ \A j \in Slots : file.slot[j] # u
        /\ \A p \in Processes, j \in Slots : Seeds(p, j, u) => p = q /\ j = k

\* What a process that starts has read is nobody's, and in one place.
OpenedSees ==
    \A p \in Processes, k \in Slots, u \in UUIDs : state[p] = "opened" /\ view[p].slot[k] = u =>
        /\ \A q \in Processes : ~Has(q, u)
        /\ \A q \in Processes, j \in Slots : ~Seeds(q, j, u)
        /\ \A j \in Slots : file.slot[j] = u => j = k

Own == OneOpened /\ HeldOnce /\ FiledOnce /\ AboutToLeave /\ SeedsAreNew /\ OpenedSees

OwnInv == /\ Alike /\ Made
          /\ ~file.allow => OneLock
          /\ file.allow => Own

\* A uuid that is not made yet is nowhere.
LEMMA FreshIsNowhere ==
    ASSUME IdInv, Made, NEW u \in Fresh
    PROVE  /\ u \in UUIDs /\ u # InUse
           /\ \A k \in Slots : file.slot[k] # u
           /\ \A q \in Processes, k \in Slots : view[q].slot[k] # u
           /\ \A q \in Processes : ~Has(q, u)
           /\ \A q \in Processes, k \in Slots : ~Seeds(q, k, u)
BY ValuesAssumption DEF IdInv, TypeOK, Fresh, Made, Has, Seeds

\* A process starts while nothing is left to write.
LEMMA OwnStart ==
    ASSUME IdInv, OwnInv, Own, NEW p \in Processes, state[p] = "off",
           state' = [state EXCEPT ![p] = "opened"], view' = [view EXCEPT ![p] = file],
           \A q \in Processes : Settled(q),
           UNCHANGED <<file, made, lock, dirty, num, uuid, port, dialog, lost>>
    PROVE  Own'
<1>1. /\ state'[p] = "opened" /\ view'[p] = file
      /\ \A q \in Processes \ {p} : state'[q] = state[q] /\ view'[q] = view[q]
      /\ \A q \in Processes : dirty[q] = {} /\ dirty'[q] = {} /\ state[q] # "opened"
  BY DEF IdInv, TypeOK, Settled
<1>2. \A q \in Processes : \A u : Has(q, u)' <=> Has(q, u)
  BY <1>1 DEF Has
<1>3. \A q \in Processes : \A k, u : ~Seeds(q, k, u)' /\ ~Seeds(q, k, u)
  BY <1>1 DEF Seeds
<1>4. OneOpened' /\ HeldOnce' /\ FiledOnce' /\ SeedsAreNew'
  BY <1>1, <1>2, <1>3 DEF Own, OneOpened, HeldOnce, FiledOnce, SeedsAreNew
<1>5. AboutToLeave'
  BY <1>2, <1>3 DEF Own, AboutToLeave
<1>6. OpenedSees'
  BY <1>1, <1>2, <1>3 DEF Own, OpenedSees, AboutToLeave, FiledOnce
<1> QED BY <1>4, <1>5, <1>6 DEF Own

\* The process that starts takes a slot, and with it what was nobody's.
LEMMA OwnTakes ==
    ASSUME IdInv, OwnInv, Own, file.allow, NEW p \in Processes, state[p] = "opened",
           NEW i \in Slots, NEW u \in Fresh, NEW w \in Fresh, Takes(p, i, u, w)
    PROVE  Own'
<1>1. /\ dirty[p] = {} /\ view[p].allow
  BY DEF IdInv, Writers, OwnInv, Alike
<1>2. /\ state'[p] = "running" /\ num'[p] = i /\ view'[p].slot[i] = InUse
      /\ uuid'[p] = u \/ uuid'[p] = view[p].slot[i]
      /\ uuid'[p] \in UUIDs /\ u # w /\ file' = file
      /\ \A k \in Slots : k \in dirty'[p] => k = i \/ view'[p].slot[k] = w
      /\ \A j, k \in Slots \ {i} : j \in dirty'[p] /\ k \in dirty'[p] => j = k
      /\ i \in dirty'[p]
      /\ \A q \in Processes \ {p} : /\ state'[q] = state[q] /\ view'[q] = view[q]
                                    /\ num'[q] = num[q] /\ uuid'[q] = uuid[q]
                                    /\ dirty'[q] = dirty[q]
  BY <1>1 DEF Takes, IdInv, TypeOK
<1>3. Made
  BY DEF OwnInv
<1>4. \A q \in Processes \ {p} : \A k, x :
          /\ Has(q, x)' <=> Has(q, x)
          /\ Seeds(q, k, x)' <=> Seeds(q, k, x)
  BY <1>2 DEF Has, Seeds
<1>5. /\ \A x : Has(p, x)' => x = uuid'[p]
      /\ \A x : ~Has(p, x)
      /\ \A k \in Slots, x \in UUIDs : Seeds(p, k, x)' => x = w /\ k # i
  BY <1>2, ValuesAssumption DEF Has, Seeds
<1>6. /\ \A q \in Processes : ~Has(q, uuid'[p])
      /\ \A q \in Processes, j \in Slots : ~Seeds(q, j, uuid'[p])
      /\ \A j \in Slots : file.slot[j] = uuid'[p] => j = i
      /\ uuid'[p] # w
  <2>1. CASE uuid'[p] = u
    BY <1>2, <1>3, <2>1, FreshIsNowhere
  <2>2. CASE uuid'[p] = view[p].slot[i]
    BY <1>2, <1>3, <2>2, FreshIsNowhere DEF Own, OpenedSees
  <2> QED BY <1>2, <2>1, <2>2
<1>7. /\ \A q \in Processes : ~Has(q, w)
      /\ \A q \in Processes, j \in Slots : ~Seeds(q, j, w)
      /\ \A j \in Slots : file.slot[j] # w
  BY <1>3, FreshIsNowhere
<1>8. OneOpened' /\ FiledOnce'
  BY <1>2 DEF Own, OneOpened, FiledOnce
<1>9. HeldOnce'
  <2> SUFFICES ASSUME NEW q \in Processes, NEW r \in Processes, NEW x \in UUIDs,
                      Has(q, x)', Has(r, x)'
               PROVE  q = r
    BY DEF HeldOnce
  <2>1. CASE q # p /\ r # p
    BY <1>4, <2>1 DEF Own, HeldOnce
  <2>2. CASE q = p /\ r # p
    BY <1>4, <1>5, <1>6, <2>2
  <2>3. CASE q # p /\ r = p
    BY <1>4, <1>5, <1>6, <2>3
  <2> QED BY <2>1, <2>2, <2>3
<1>10. AboutToLeave'
  <2> SUFFICES ASSUME NEW q \in Processes, NEW k \in Slots, Has(q, file.slot[k])'
               PROVE  num'[q] = k /\ Seeds(q, k, InUse)'
    BY <1>2 DEF AboutToLeave
  <2>1. CASE q = p
    <3>1. Seeds(p, i, InUse)'
      BY <1>2 DEF Seeds
    <3>2. k = i
      BY <1>2, <1>5, <1>6, <2>1
    <3> QED BY <1>2, <2>1, <3>1, <3>2
  <2>2. CASE q # p
    <3>1. Has(q, file.slot[k])
      BY <1>2, <2>2 DEF Has
    <3>2. num[q] = k /\ Seeds(q, k, InUse)
      BY <3>1 DEF Own, AboutToLeave
    <3> QED BY <1>2, <1>4, <2>2, <3>2
  <2> QED BY <2>1, <2>2
<1>11. SeedsAreNew'
  <2> SUFFICES ASSUME NEW q \in Processes, NEW k \in Slots, NEW x \in UUIDs, Seeds(q, k, x)'
               PROVE  /\ \A r \in Processes : ~Has(r, x)'
                      /\ \A j \in Slots : file.slot[j] # x
                      /\ \A r \in Processes, j \in Slots : Seeds(r, j, x)' => r = q /\ j = k
    BY <1>2 DEF SeedsAreNew
  <2>1. CASE q = p
    <3>1. x = w /\ k # i
      BY <1>5, <2>1
    <3>2. \A r \in Processes : ~Has(r, x)'
      BY <1>4, <1>5, <1>6, <1>7, <3>1
    <3>3. \A j \in Slots : Seeds(p, j, x)' => j = k
      BY <1>2, <1>5, <2>1, <3>1 DEF Seeds
    <3> QED BY <1>4, <1>7, <2>1, <3>1, <3>2, <3>3
  <2>2. CASE q # p
    <3>1. Seeds(q, k, x) /\ x # w /\ x # uuid'[p]
      BY <1>4, <1>6, <1>7, <2>2
    <3>2. /\ \A r \in Processes : ~Has(r, x)
          /\ \A j \in Slots : file.slot[j] # x
          /\ \A r \in Processes, j \in Slots : Seeds(r, j, x) => r = q /\ j = k
      BY <3>1 DEF Own, SeedsAreNew
    <3> QED BY <1>4, <1>5, <3>1, <3>2
  <2> QED BY <2>1, <2>2
<1>12. OpenedSees'
  BY <1>2 DEF Own, OneOpened, OpenedSees
<1> QED BY <1>8, <1>9, <1>10, <1>11, <1>12 DEF Own

\* Writing what a process has changed.
LEMMA OwnFlush ==
    ASSUME IdInv, OwnInv, Own, NEW p \in Processes, Flush(p)
    PROVE  Own'
<1>1. /\ \A k \in Slots : file'.slot[k] = IF k \in dirty[p] THEN view[p].slot[k] ELSE file.slot[k]
      /\ view' = [view EXCEPT ![p] = file'] /\ dirty' = [dirty EXCEPT ![p] = {}]
      /\ dirty[p] # {}
      /\ UNCHANGED <<made, lock, state, num, uuid, port, dialog, lost>>
  BY FlushWrites DEF IdInv
<1>2. /\ state[p] = "running" /\ dirty'[p] = {}
      /\ \A q \in Processes \ {p} : view'[q] = view[q] /\ dirty'[q] = dirty[q]
  BY <1>1 DEF IdInv, Writers, TypeOK
<1>3. \A q \in Processes : \A x : Has(q, x)' <=> Has(q, x)
  BY <1>1 DEF Has
<1>4. /\ \A k, x : ~Seeds(p, k, x)'
      /\ \A q \in Processes \ {p} : \A k, x : Seeds(q, k, x)' <=> Seeds(q, k, x)
  BY <1>2 DEF Seeds
<1>5. \A k \in Slots : Seeds(p, k, file'.slot[k]) \/ (k \notin dirty[p] /\ file'.slot[k] = file.slot[k])
  BY <1>1 DEF Seeds
<1>6. OneOpened' /\ HeldOnce'
  BY <1>1, <1>3 DEF Own, OneOpened, HeldOnce
<1>7. FiledOnce'
  BY <1>5 DEF Own, FiledOnce, SeedsAreNew
<1>8. AboutToLeave'
  <2> SUFFICES ASSUME NEW q \in Processes, NEW k \in Slots, Has(q, file'.slot[k])
               PROVE  num[q] = k /\ Seeds(q, k, InUse)'
    BY <1>1, <1>3 DEF AboutToLeave
  <2>1. file'.slot[k] \in UUIDs
    BY DEF Has, IdInv, Writers
  <2>2. k \notin dirty[p] /\ file'.slot[k] = file.slot[k]
    BY <1>5, <2>1 DEF Own, SeedsAreNew
  <2>3. num[q] = k /\ Seeds(q, k, InUse)
    BY <2>2 DEF Own, AboutToLeave
  <2>4. q # p
    BY <2>2, <2>3 DEF Seeds
  <2> QED BY <1>4, <2>3, <2>4
<1>9. SeedsAreNew'
  <2> SUFFICES ASSUME NEW q \in Processes, NEW k \in Slots, NEW x \in UUIDs, Seeds(q, k, x)'
               PROVE  /\ \A r \in Processes : ~Has(r, x)'
                      /\ \A j \in Slots : file'.slot[j] # x
                      /\ \A r \in Processes, j \in Slots : Seeds(r, j, x)' => r = q /\ j = k
    BY DEF SeedsAreNew
  <2>1. q # p /\ Seeds(q, k, x)
    BY <1>4
  <2>2. /\ \A r \in Processes : ~Has(r, x)
        /\ \A j \in Slots : file.slot[j] # x
        /\ \A r \in Processes, j \in Slots : Seeds(r, j, x) => r = q /\ j = k
    BY <2>1 DEF Own, SeedsAreNew
  <2>3. \A j \in Slots : file'.slot[j] # x
    BY <1>5, <2>1, <2>2
  <2>4. \A r \in Processes, j \in Slots : Seeds(r, j, x)' => r = q /\ j = k
    BY <1>4, <2>2
  <2> QED BY <1>3, <2>2, <2>3, <2>4
<1>10. OpenedSees'
  <2> SUFFICES ASSUME NEW q \in Processes, NEW k \in Slots, NEW x \in UUIDs,
                      state[q] = "opened", view'[q].slot[k] = x
               PROVE  /\ \A r \in Processes : ~Has(r, x)'
                      /\ \A r \in Processes, j \in Slots : ~Seeds(r, j, x)'
                      /\ \A j \in Slots : file'.slot[j] = x => j = k
    BY <1>1 DEF OpenedSees
  <2>1. view[q].slot[k] = x
    BY <1>2
  <2>2. /\ \A r \in Processes : ~Has(r, x)
        /\ \A r \in Processes, j \in Slots : ~Seeds(r, j, x)
        /\ \A j \in Slots : file.slot[j] = x => j = k
    BY <2>1 DEF Own, OpenedSees
  <2>3. \A j \in Slots : file'.slot[j] = x => j = k
    BY <1>5, <2>2
  <2>4. \A r \in Processes, j \in Slots : ~Seeds(r, j, x)'
    BY <1>4, <2>2
  <2> QED BY <1>3, <2>2, <2>3, <2>4
<1> QED BY <1>6, <1>7, <1>8, <1>9, <1>10 DEF Own

\* A process that goes writes only what it has to write, if it writes, and
\* its own uuid.
LEMMA OwnGone ==
    ASSUME IdInv, OwnInv, Own, NEW p \in Processes, Gone(p),
           \/ Quit(p)
           \/ file' = file
    PROVE  Own'
<1>1. /\ state'[p] = "off" /\ dirty'[p] = {}
      /\ \A q \in Processes \ {p} :
            /\ state'[q] = state[q] /\ view'[q] = view[q] /\ dirty'[q] = dirty[q]
            /\ num'[q] = num[q] /\ uuid'[q] = uuid[q]
  BY GoneTypes DEF IdInv
<1>2. /\ \A x : ~Has(p, x)'
      /\ \A q \in Processes \ {p} : \A x : Has(q, x)' <=> Has(q, x)
  BY <1>1 DEF Has
<1>3. /\ \A k, x : ~Seeds(p, k, x)'
      /\ \A q \in Processes \ {p} : \A k, x : Seeds(q, k, x)' <=> Seeds(q, k, x)
  BY <1>1 DEF Seeds
<1>4. \A k \in Slots :
        \/ Has(p, file'.slot[k]) /\ num[p] = k
        \/ Seeds(p, k, file'.slot[k])
        \/ file'.slot[k] = file.slot[k]
  <2>1. CASE Quit(p)
    <3>1. state[p] = "running"
      BY <2>1 DEF Quit, Own, OneOpened
    <3>2. /\ file'.slot[num[p]] = uuid[p]
          /\ \A k \in Slots \ {num[p]} :
                file'.slot[k] = IF k \in dirty[p] THEN view[p].slot[k] ELSE file.slot[k]
      BY <2>1, QuitWrites DEF IdInv
    <3> QED BY <3>1, <3>2 DEF Has, Seeds
  <2>2. CASE file' = file
    BY <2>2
  <2> QED BY <2>1, <2>2
<1>5. OneOpened' /\ HeldOnce'
  <2>1. OneOpened'
    BY <1>1 DEF Own, OneOpened
  <2> QED BY <1>2, <2>1 DEF Own, HeldOnce
<1>6. FiledOnce'
  BY <1>4 DEF Own, FiledOnce, SeedsAreNew, AboutToLeave
<1>7. AboutToLeave'
  <2> SUFFICES ASSUME NEW q \in Processes, NEW k \in Slots, Has(q, file.slot[k])'
               PROVE  num'[q] = k /\ Seeds(q, k, InUse)'
    BY DEF AboutToLeave
  <2>1. q # p /\ Has(q, file'.slot[k])
    BY <1>2
  <2>2. file'.slot[k] \in UUIDs
    BY <2>1 DEF Has, IdInv, Writers
  <2>3. file'.slot[k] = file.slot[k]
    BY <1>4, <2>1, <2>2 DEF Own, SeedsAreNew, HeldOnce
  <2>4. num[q] = k /\ Seeds(q, k, InUse)
    BY <2>1, <2>3 DEF Own, AboutToLeave
  <2> QED BY <1>1, <1>3, <2>1, <2>4
<1>8. SeedsAreNew'
  <2> SUFFICES ASSUME NEW q \in Processes, NEW k \in Slots, NEW x \in UUIDs, Seeds(q, k, x)'
               PROVE  /\ \A r \in Processes : ~Has(r, x)'
                      /\ \A j \in Slots : file'.slot[j] # x
                      /\ \A r \in Processes, j \in Slots : Seeds(r, j, x)' => r = q /\ j = k
    BY DEF SeedsAreNew
  <2>1. q # p /\ Seeds(q, k, x)
    BY <1>3
  <2>2. /\ \A r \in Processes : ~Has(r, x)
        /\ \A j \in Slots : file.slot[j] # x
        /\ \A r \in Processes, j \in Slots : Seeds(r, j, x) => r = q /\ j = k
    BY <2>1 DEF Own, SeedsAreNew
  <2>3. \A j \in Slots : file'.slot[j] # x
    BY <1>4, <2>1, <2>2
  <2>4. \A r \in Processes, j \in Slots : Seeds(r, j, x)' => r = q /\ j = k
    BY <1>3, <2>2
  <2>5. \A r \in Processes : ~Has(r, x)'
    BY <1>2, <2>2
  <2> QED BY <2>3, <2>4, <2>5
<1>9. OpenedSees'
  <2> SUFFICES ASSUME NEW q \in Processes, NEW k \in Slots, NEW x \in UUIDs,
                      state'[q] = "opened", view'[q].slot[k] = x
               PROVE  /\ \A r \in Processes : ~Has(r, x)'
                      /\ \A r \in Processes, j \in Slots : ~Seeds(r, j, x)'
                      /\ \A j \in Slots : file'.slot[j] = x => j = k
    BY DEF OpenedSees
  <2>1. q # p /\ state[q] = "opened" /\ view[q].slot[k] = x
    BY <1>1
  <2>2. /\ \A r \in Processes : ~Has(r, x)
        /\ \A r \in Processes, j \in Slots : ~Seeds(r, j, x)
        /\ \A j \in Slots : file.slot[j] = x => j = k
    BY <2>1 DEF Own, OpenedSees
  <2>3. \A j \in Slots : file'.slot[j] = x => j = k
    BY <1>4, <2>2
  <2>4. \A r \in Processes, j \in Slots : ~Seeds(r, j, x)'
    BY <1>3, <2>2
  <2>5. \A r \in Processes : ~Has(r, x)'
    BY <1>2, <2>2
  <2> QED BY <2>3, <2>4, <2>5
<1> QED BY <1>5, <1>6, <1>7, <1>8, <1>9 DEF Own

\* The settings dialog gives a process one more uuid to write, a new one.
LEMMA OwnLooks ==
    ASSUME IdInv, OwnInv, Own, NEW p \in Processes, NEW u \in Fresh, Looks(p, u)
    PROVE  Own'
<1>1. /\ state[p] = "running" /\ UNCHANGED <<file, state, num, uuid>>
      /\ \A k \in Slots : k \in dirty'[p] => k \in dirty[p] \/ view'[p].slot[k] = u
      /\ \A k \in Slots : view'[p].slot[k] = view[p].slot[k] \/ view'[p].slot[k] = u
      /\ \A k \in Slots : view[p].slot[k] = InUse => view'[p].slot[k] = InUse
      /\ \A k \in Slots : k \in dirty[p] => k \in dirty'[p]
      /\ \A q \in Processes \ {p} : view'[q] = view[q] /\ dirty'[q] = dirty[q]
  BY ValuesAssumption DEF Looks, IdInv, TypeOK, presets
<1>2. \A q \in Processes : \A x : Has(q, x)' <=> Has(q, x)
  BY <1>1 DEF Has
<1>3. Made
  BY DEF OwnInv
<1>4. /\ \A k \in Slots : \A x : Seeds(p, k, x)' => Seeds(p, k, x) \/ x = u
      /\ \A k \in Slots : Seeds(p, k, InUse) => Seeds(p, k, InUse)'
      /\ \A q \in Processes \ {p} : \A k, x : Seeds(q, k, x)' <=> Seeds(q, k, x)
  BY <1>1 DEF Seeds
<1>5. \A j, k \in Slots : view'[p].slot[j] = u /\ view'[p].slot[k] = u => j = k
  <2>1. \A k \in Slots : view[p].slot[k] # u
    BY <1>3, FreshIsNowhere
  <2> QED BY <2>1 DEF Looks
<1>6. /\ u \in UUIDs
      /\ \A q \in Processes : ~Has(q, u)
      /\ \A j \in Slots : file.slot[j] # u
      /\ \A q \in Processes, j \in Slots : ~Seeds(q, j, u)
      /\ \A q \in Processes, j \in Slots : view[q].slot[j] # u
  BY <1>3, FreshIsNowhere
<1>7. OneOpened' /\ FiledOnce'
  BY <1>1 DEF Own, OneOpened, FiledOnce
<1>8. HeldOnce'
  BY <1>2 DEF Own, HeldOnce
<1>9. AboutToLeave'
  <2> SUFFICES ASSUME NEW q \in Processes, NEW k \in Slots, Has(q, file.slot[k])'
               PROVE  num[q] = k /\ Seeds(q, k, InUse)'
    BY <1>1 DEF AboutToLeave
  <2>1. num[q] = k /\ Seeds(q, k, InUse)
    BY <1>1, <1>2 DEF Own, AboutToLeave, Has
  <2> QED BY <1>4, <2>1
<1>10. SeedsAreNew'
  <2> SUFFICES ASSUME NEW q \in Processes, NEW k \in Slots, NEW x \in UUIDs, Seeds(q, k, x)'
               PROVE  /\ \A r \in Processes : ~Has(r, x)'
                      /\ \A j \in Slots : file.slot[j] # x
                      /\ \A r \in Processes, j \in Slots : Seeds(r, j, x)' => r = q /\ j = k
    BY <1>1 DEF SeedsAreNew
  <2>1. CASE x = u
    <3>1. \A r \in Processes, j \in Slots : Seeds(r, j, u)' => r = p /\ view'[p].slot[j] = u
      BY <1>4, <1>6 DEF Seeds
    <3>2. q = p /\ view'[p].slot[k] = u
      BY <2>1, <3>1
    <3>3. \A r \in Processes, j \in Slots : Seeds(r, j, x)' => r = q /\ j = k
      BY <1>5, <2>1, <3>1, <3>2
    <3> QED BY <1>2, <1>6, <2>1, <3>3
  <2>2. CASE x # u
    <3>1. Seeds(q, k, x)
      BY <1>4, <2>2
    <3>2. /\ \A r \in Processes : ~Has(r, x)
          /\ \A j \in Slots : file.slot[j] # x
          /\ \A r \in Processes, j \in Slots : Seeds(r, j, x) => r = q /\ j = k
      BY <3>1 DEF Own, SeedsAreNew
    <3>3. \A r \in Processes, j \in Slots : Seeds(r, j, x)' => r = q /\ j = k
      BY <1>4, <2>2, <3>2
    <3> QED BY <1>2, <3>2, <3>3
  <2> QED BY <2>1, <2>2
<1>11. OpenedSees'
  <2> SUFFICES ASSUME NEW q \in Processes, NEW k \in Slots, NEW x \in UUIDs,
                      state[q] = "opened", view'[q].slot[k] = x
               PROVE  /\ \A r \in Processes : ~Has(r, x)'
                      /\ \A r \in Processes, j \in Slots : ~Seeds(r, j, x)'
                      /\ \A j \in Slots : file.slot[j] = x => j = k
    BY <1>1 DEF OpenedSees
  <2>1. q # p /\ view[q].slot[k] = x /\ x # u
    BY <1>1, <1>6
  <2>2. /\ \A r \in Processes : ~Has(r, x)
        /\ \A r \in Processes, j \in Slots : ~Seeds(r, j, x)
        /\ \A j \in Slots : file.slot[j] = x => j = k
    BY <2>1 DEF Own, OpenedSees
  <2>3. \A r \in Processes, j \in Slots : ~Seeds(r, j, x)'
    BY <1>4, <2>1, <2>2
  <2> QED BY <1>2, <2>2, <2>3
<1> QED BY <1>7, <1>8, <1>9, <1>10, <1>11 DEF Own

\* A step that changes nothing but the switch's and the port's keys.
LEMMA OwnSame ==
    ASSUME IdInv, Own, UNCHANGED <<file, state, num, uuid>>,
           \A q \in Processes : view'[q].slot = view[q].slot,
           \A q \in Processes, k \in Slots : k \in dirty'[q] <=> k \in dirty[q]
    PROVE  Own'
<1>1. \A q \in Processes : \A x : Has(q, x)' <=> Has(q, x)
  BY DEF Has
<1>2. \A q \in Processes, k \in Slots : \A x : Seeds(q, k, x)' <=> Seeds(q, k, x)
  BY DEF Seeds
<1>3. OneOpened' /\ FiledOnce'
  BY DEF Own, OneOpened, FiledOnce
<1>4. HeldOnce' /\ AboutToLeave'
  BY <1>1, <1>2 DEF Own, HeldOnce, AboutToLeave
<1>5. SeedsAreNew'
  BY <1>1, <1>2 DEF Own, SeedsAreNew
<1>6. OpenedSees'
  BY <1>1, <1>2 DEF Own, OpenedSees
<1> QED BY <1>3, <1>4, <1>5, <1>6 DEF Own

\* The settings dialog leaves the slots alone.
LEMMA DialogSlots ==
    ASSUME TypeOK, NEW p \in Processes, Accept(p) \/ Reject(p)
    PROVE  /\ \A q \in Processes : view'[q].slot = view[q].slot
           /\ \A q \in Processes, k \in Slots : k \in dirty'[q] <=> k \in dirty[q]
           /\ UNCHANGED <<file, made, lock, state, num, uuid>>
<1>1. CASE Reject(p)
  BY <1>1 DEF Reject, presets
<1>2. CASE Accept(p)
  <2>1. PICK allow \in BOOLEAN, tcp \in dialog[p] :
           Edit(p, [view[p] EXCEPT !.allow = allow, !.tcp = tcp], {Allow, Tcp})
    BY <1>2 DEF Accept
  <2>2. view[p] \in Settings
    BY DEF TypeOK
  <2>3. /\ [view[p] EXCEPT !.allow = allow, !.tcp = tcp].slot = view[p].slot
    BY <2>2 DEF Settings
  <2>4. /\ \A q \in Processes : view'[q].slot = view[q].slot
        /\ \A q \in Processes, k \in Slots : k \in dirty'[q] <=> k \in dirty[q]
    BY <2>1, <2>3, ValuesAssumption DEF Edit, TypeOK
  <2> QED BY <1>2, <2>4 DEF Accept, presets
<1> QED BY <1>1, <1>2

\* Nor does it touch the switch unless the user does.
LEMMA DialogChanges ==
    ASSUME Careful, TypeOK, NEW p \in Processes, Accept(p) \/ Reject(p)
    PROVE  \A q \in Processes : view'[q].allow = view[q].allow
<1>1. CASE Reject(p)
  BY <1>1 DEF Reject
<1>2. CASE Accept(p)
  <2>1. PICK allow \in BOOLEAN, tcp \in dialog[p] :
           /\ allow = view[p].allow
           /\ Edit(p, [view[p] EXCEPT !.allow = allow, !.tcp = tcp], {Allow, Tcp})
    BY <1>2 DEF Accept, Careful
  <2>2. view[p] \in Settings
    BY DEF TypeOK
  <2>3. [view[p] EXCEPT !.allow = allow, !.tcp = tcp].allow = view[p].allow
    BY <2>1, <2>2 DEF Settings
  <2> QED BY <2>1, <2>3 DEF Edit, TypeOK
<1> QED BY <1>1, <1>2

\* Who sees which switch does not change.
LEMMA AlikeStep ==
    ASSUME Careful, IdInv, Alike, [Next]_vars
    PROVE  Alike' /\ file'.allow = file.allow
<1>t. TypeOK
  BY DEF IdInv
<1>1. CASE UNCHANGED vars
  BY <1>1 DEF vars, Alike
<1>2. ASSUME NEW p \in Processes, Start(p) PROVE Alike' /\ file'.allow = file.allow
  BY <1>2, <1>t DEF Start, Alike, TypeOK
<1>3. ASSUME NEW p \in Processes, PostInit(p) PROVE Alike' /\ file'.allow = file.allow
  <2>1. PICK i \in Slots, u \in Fresh, w \in Fresh : state[p] = "opened" /\ Takes(p, i, u, w)
    BY <1>3, <1>t, PostInitTakes
  <2>2. /\ view'[p].allow = view[p].allow /\ file' = file
        /\ \A q \in Processes \ {p} : state'[q] = state[q] /\ view'[q] = view[q]
    BY <1>t, <2>1 DEF Takes, TypeOK
  <2> QED BY <2>1, <2>2 DEF Alike
<1>4. ASSUME NEW p \in Processes, Refuse(p) PROVE Alike' /\ file'.allow = file.allow
  BY <1>4, <1>t DEF Refuse, Alike, TypeOK
<1>5. ASSUME NEW p \in Processes, Flush(p) PROVE Alike' /\ file'.allow = file.allow
  <2>1. /\ file'.allow = IF Allow \in dirty[p] THEN view[p].allow ELSE file.allow
        /\ view' = [view EXCEPT ![p] = file'] /\ state' = state
    BY <1>5, <1>t, FlushWrites
  <2>2. state[p] # "off"
    BY <1>5 DEF Flush
  <2>3. view'[p] = file' /\ \A q \in Processes \ {p} : view'[q] = view[q]
    BY <1>t, <2>1 DEF TypeOK
  <2> QED BY <2>1, <2>2, <2>3 DEF Alike
<1>6. ASSUME NEW p \in Processes, Quit(p) PROVE Alike' /\ file'.allow = file.allow
  <2>1. /\ file'.allow = IF Allow \in dirty[p] THEN view[p].allow ELSE file.allow
        /\ Gone(p) /\ state[p] # "off"
    BY <1>6, <1>t, QuitWrites DEF Quit
  <2>2. /\ state'[p] = "off"
        /\ \A q \in Processes \ {p} : state'[q] = state[q] /\ view'[q] = view[q]
    BY <1>t, <2>1, GoneTypes
  <2> QED BY <2>1, <2>2 DEF Alike
<1>7. ASSUME NEW p \in Processes, Crash(p) PROVE Alike' /\ file'.allow = file.allow
  <2>1. Gone(p) /\ file' = file
    BY <1>7 DEF Crash
  <2>2. /\ state'[p] = "off"
        /\ \A q \in Processes \ {p} : state'[q] = state[q] /\ view'[q] = view[q]
    BY <1>t, <2>1, GoneTypes
  <2> QED BY <2>1, <2>2 DEF Alike
<1>8. ASSUME NEW p \in Processes, OpenSettings(p) PROVE Alike' /\ file'.allow = file.allow
  <2>1. PICK u \in Fresh : Looks(p, u)
    BY <1>8, <1>t, OpenSettingsLooks
  <2>2. /\ view'[p].allow = view[p].allow /\ file' = file /\ state' = state
        /\ \A q \in Processes \ {p} : view'[q] = view[q]
    BY <1>t, <2>1 DEF Looks, TypeOK
  <2> QED BY <2>2 DEF Alike
<1>9. ASSUME NEW p \in Processes, Accept(p) \/ Reject(p) PROVE Alike' /\ file'.allow = file.allow
  <2>1. /\ \A q \in Processes : view'[q].allow = view[q].allow
        /\ UNCHANGED <<file, state>>
    BY <1>9, <1>t, DialogSlots, DialogChanges
  <2> QED BY <2>1 DEF Alike
<1> QED BY <1>1, <1>2, <1>3, <1>4, <1>5, <1>6, <1>7, <1>8, <1>9 DEF Next

\* What has been made is recorded.
LEMMA MadeStep ==
    ASSUME IdInv, Made, [Next]_vars
    PROVE  Made'
<1>t. TypeOK
  BY DEF IdInv
<1>1. CASE UNCHANGED vars
  BY <1>1 DEF vars, presets, Made
<1>2. ASSUME NEW p \in Processes, Start(p) PROVE Made'
  BY <1>2, <1>t DEF Start, Made, TypeOK, presets
<1>3. ASSUME NEW p \in Processes, PostInit(p) PROVE Made'
  <2>1. PICK i \in Slots, u \in Fresh, w \in Fresh : state[p] = "opened" /\ Takes(p, i, u, w)
    BY <1>3, <1>t, PostInitTakes
  <2>2. /\ file' = file /\ made \subseteq made'
        /\ \A q \in Processes \ {p} : view'[q] = view[q] /\ uuid'[q] = uuid[q]
    BY <1>t, <2>1 DEF Takes, TypeOK
  <2>3. uuid'[p] \in made'
    BY <2>1 DEF Takes, Made
  <2>4. ASSUME NEW k \in Slots, view'[p].slot[k] \in UUIDs PROVE view'[p].slot[k] \in made'
    <3>1. CASE k = i
      BY <2>1, <2>3, <2>4, <3>1, ValuesAssumption DEF Takes
    <3>2. CASE k # i
      BY <2>1, <2>4, <3>2 DEF Takes, Made
    <3> QED BY <3>1, <3>2
  <2> QED BY <2>2, <2>3, <2>4 DEF Made
<1>4. ASSUME NEW p \in Processes, Refuse(p) PROVE Made'
  BY <1>4 DEF Refuse, Made, presets
<1>5. ASSUME NEW p \in Processes, Flush(p) PROVE Made'
  <2>1. /\ \A k \in Slots : file'.slot[k] = IF k \in dirty[p] THEN view[p].slot[k] ELSE file.slot[k]
        /\ view' = [view EXCEPT ![p] = file'] /\ UNCHANGED <<made, uuid>>
    BY <1>5, <1>t, FlushWrites
  <2>2. \A k \in Slots : file'.slot[k] \in UUIDs => file'.slot[k] \in made
    BY <2>1 DEF Made
  <2>3. view'[p] = file' /\ \A q \in Processes \ {p} : view'[q] = view[q]
    BY <1>t, <2>1 DEF TypeOK
  <2> QED BY <2>1, <2>2, <2>3 DEF Made
<1>6. ASSUME NEW p \in Processes, Gone(p), made' = made,
             \A k \in Slots : file'.slot[k] \in UUIDs => file'.slot[k] \in made
      PROVE  Made'
  <2>1. /\ view'[p] = Unread /\ uuid'[p] = Null
        /\ \A q \in Processes \ {p} : view'[q] = view[q] /\ uuid'[q] = uuid[q]
    BY <1>6, <1>t DEF Gone, TypeOK
  <2>2. \A k \in Slots : Unread.slot[k] = Empty
    BY DEF Unread
  <2> QED BY <1>6, <2>1, <2>2, ValuesAssumption DEF Made
<1>7. ASSUME NEW p \in Processes, Quit(p) PROVE Made'
  <2>1. /\ file'.slot[num[p]] = uuid[p]
        /\ \A k \in Slots \ {num[p]} :
              file'.slot[k] = IF k \in dirty[p] THEN view[p].slot[k] ELSE file.slot[k]
        /\ Gone(p) /\ made' = made
    BY <1>7, <1>t, QuitWrites DEF Quit
  <2>2. \A k \in Slots : file'.slot[k] \in UUIDs => file'.slot[k] \in made
    BY <2>1 DEF Made
  <2> QED BY <1>6, <2>1, <2>2
<1>8. ASSUME NEW p \in Processes, Crash(p) PROVE Made'
  BY <1>6, <1>8 DEF Crash, Made
<1>9. ASSUME NEW p \in Processes, OpenSettings(p) PROVE Made'
  <2>1. PICK u \in Fresh : Looks(p, u)
    BY <1>9, <1>t, OpenSettingsLooks
  <2>2. /\ UNCHANGED <<file, uuid>> /\ made \subseteq made'
        /\ \A q \in Processes \ {p} : view'[q] = view[q]
        /\ \A k \in Slots : view'[p].slot[k] = view[p].slot[k] \/ view'[p].slot[k] \in made'
    BY <1>t, <2>1 DEF Looks, TypeOK, presets
  <2> QED BY <2>2 DEF Made
<1>10. ASSUME NEW p \in Processes, Accept(p) \/ Reject(p) PROVE Made'
  <2>1. /\ \A q \in Processes : view'[q].slot = view[q].slot
        /\ UNCHANGED <<file, uuid, made>>
    BY <1>10, <1>t, DialogSlots
  <2> QED BY <2>1 DEF Made
<1> QED BY <1>1, <1>2, <1>3, <1>4, <1>5, <1>7, <1>8, <1>9, <1>10 DEF Next

\* The lock file lets one process run, where only one may.
LEMMA OneLockStep ==
    ASSUME IdInv, Alike, ~file.allow, OneLock, [Next]_vars
    PROVE  OneLock'
<1>t. TypeOK
  BY DEF IdInv
<1>1. CASE UNCHANGED vars
  BY <1>1 DEF vars, OneLock
<1>2. ASSUME NEW p \in Processes, Start(p) PROVE OneLock'
  BY <1>2, <1>t DEF Start, OneLock, TypeOK
<1>3. ASSUME NEW p \in Processes, PostInit(p) PROVE OneLock'
  <2>1. PICK i \in Slots, u \in Fresh, w \in Fresh :
           state[p] = "opened" /\ (view[p].allow \/ lock = {}) /\ Takes(p, i, u, w)
    BY <1>3, <1>t, PostInitTakes
  <2>2. lock = {} /\ lock' = {p}
    BY <2>1 DEF Takes, Alike
  <2>3. \A q \in Processes \ {p} : state'[q] = state[q]
    BY <1>t, <2>1 DEF Takes, TypeOK
  <2> QED BY <2>2, <2>3 DEF OneLock
<1>4. ASSUME NEW p \in Processes, Refuse(p) PROVE OneLock'
  BY <1>4, <1>t DEF Refuse, OneLock, TypeOK
<1>5. ASSUME NEW p \in Processes, Flush(p) PROVE OneLock'
  BY <1>5 DEF Flush, OneLock
<1>6. ASSUME NEW p \in Processes, Gone(p) PROVE OneLock'
  <2>1. /\ state'[p] = "off" /\ lock' = lock \ {p}
        /\ \A q \in Processes \ {p} : state'[q] = state[q]
    BY <1>6, <1>t, GoneTypes DEF Gone
  <2> QED BY <2>1 DEF OneLock
<1>7. ASSUME NEW p \in Processes, Quit(p) \/ Crash(p) PROVE OneLock'
  BY <1>6, <1>7 DEF Quit, Crash
<1>8. ASSUME NEW p \in Processes, OpenSettings(p) \/ Accept(p) \/ Reject(p) PROVE OneLock'
  BY <1>8 DEF OpenSettings, Accept, Reject, OneLock
<1> QED BY <1>1, <1>2, <1>3, <1>4, <1>5, <1>7, <1>8 DEF Next

\* Where more than one may run, no step gives two processes one uuid.
LEMMA OwnStep ==
    ASSUME Careful, IdInv, OwnInv, file.allow, [Next]_vars
    PROVE  Own'
<1>t. TypeOK /\ Own
  BY DEF IdInv, OwnInv
<1>1. CASE UNCHANGED vars
  BY <1>1, <1>t, OwnSame DEF vars, presets
<1>2. ASSUME NEW p \in Processes, Start(p) PROVE Own'
  <2>1. \A q \in Processes : Settled(q)
    BY <1>2 DEF Start, Careful
  <2> QED BY <1>2, <1>t, <2>1, OwnStart DEF Start, presets
<1>3. ASSUME NEW p \in Processes, PostInit(p) PROVE Own'
  <2>1. PICK i \in Slots, u \in Fresh, w \in Fresh : state[p] = "opened" /\ Takes(p, i, u, w)
    BY <1>3, <1>t, PostInitTakes
  <2> QED BY <1>t, <2>1, OwnTakes
<1>4. ASSUME NEW p \in Processes, Refuse(p) PROVE Own'
  BY <1>4 DEF Refuse, OwnInv, Alike
<1>5. ASSUME NEW p \in Processes, Flush(p) PROVE Own'
  BY <1>5, <1>t, OwnFlush
<1>6. ASSUME NEW p \in Processes, Quit(p) \/ Crash(p) PROVE Own'
  <2>1. Gone(p) /\ (Quit(p) \/ file' = file)
    BY <1>6 DEF Quit, Crash
  <2> QED BY <1>t, <2>1, OwnGone
<1>7. ASSUME NEW p \in Processes, OpenSettings(p) PROVE Own'
  <2>1. PICK u \in Fresh : Looks(p, u)
    BY <1>7, <1>t, OpenSettingsLooks
  <2> QED BY <1>t, <2>1, OwnLooks
<1>8. ASSUME NEW p \in Processes, Accept(p) \/ Reject(p) PROVE Own'
  BY <1>8, <1>t, DialogSlots, OwnSame
<1> QED BY <1>1, <1>2, <1>3, <1>4, <1>5, <1>6, <1>7, <1>8 DEF Next

\* If nobody changes the switch and, where several processes may run, none
\* starts before the others have written what they know, then no two running
\* processes have one uuid: not after crashes, not with a settings dialog open
\* (getUUID, resetUUID, the lock file).
THEOREM IdentityIsUnique ==
    ASSUME Careful
    PROVE  Spec => []UniqueIdentity
<1>1. Init => IdInv /\ OwnInv
  <2> SUFFICES ASSUME Init PROVE IdInv /\ OwnInv
    OBVIOUS
  <2>1. IdInv
    BY InitIdInv
  <2>2. /\ \A k \in Slots : file.slot[k] = Empty /\ Unread.slot[k] = Empty
        /\ \A p \in Processes : /\ state[p] = "off" /\ view[p] = Unread /\ dirty[p] = {}
                                /\ uuid[p] = Null
        /\ lock = {}
    BY DEF Init, Unread
  <2>3. Alike /\ Made /\ OneLock
    BY <2>2, ValuesAssumption DEF Alike, Made, OneLock
  <2>4. OneOpened /\ HeldOnce /\ FiledOnce /\ AboutToLeave /\ SeedsAreNew /\ OpenedSees
    BY <2>2, ValuesAssumption
    DEF OneOpened, HeldOnce, FiledOnce, AboutToLeave, SeedsAreNew, OpenedSees, Has, Seeds
  <2> QED BY <2>1, <2>3, <2>4 DEF OwnInv, Own
<1>2. IdInv /\ OwnInv /\ [Next]_vars => (IdInv /\ OwnInv)'
  <2> SUFFICES ASSUME IdInv, OwnInv, [Next]_vars PROVE IdInv' /\ OwnInv'
    OBVIOUS
  <2>1. Alike' /\ file'.allow = file.allow
    BY AlikeStep DEF OwnInv
  <2>2. Made'
    BY MadeStep DEF OwnInv
  <2>3. ~file.allow => OneLock'
    BY OneLockStep DEF OwnInv
  <2>4. file.allow => Own'
    BY OwnStep
  <2> QED BY <2>1, <2>2, <2>3, <2>4, IdInvStep DEF OwnInv
<1>3. IdInv /\ OwnInv => UniqueIdentity
  <2> SUFFICES ASSUME IdInv, OwnInv, NEW p \in Running, NEW q \in Running, uuid[p] = uuid[q]
               PROVE  p = q
    BY DEF UniqueIdentity
  <2>1. CASE file.allow
    BY <2>1 DEF Running, IdInv, Writers, OwnInv, Own, HeldOnce, Has
  <2>2. CASE ~file.allow
    BY <2>2 DEF Running, OwnInv, OneLock
  <2> QED BY <2>1, <2>2
<1> QED BY <1>1, <1>2, <1>3, PTL DEF Spec

(***************************************************************************)
(* The threads of one process.                                             *)
(***************************************************************************)

\* The worker knows of the pair, or is about to.
PairGiven == internal = "pair" \/ "pair" \in ToSet(inbox)

\* The pair is there while the server's event loop runs; the server leaves the
\* loop by itself only because that failed.
PairStands ==
    /\ pair = "none" <=> ~PairGiven
    /\ server \in {"none", "begin", "listening"} => pair = "none"
    /\ server \in {"dispatching", "freeing"} <=> pair = "made"
    /\ server = "freeing" \/ pair = "freed" \/ "exit" \in ToSet(pipe)
         => failed \/ worker \in {"waiting", "done"}

\* What needs the pair comes after it.
AttemptsFollow ==
    \A i \in DOMAIN inbox : inbox[i] = "attempt" =>
        internal = "pair" \/ \E j \in DOMAIN inbox : j < i /\ inbox[j] = "pair"

\* How far the threads are behind each other.
InStep ==
    /\ main = "init" => worker = "none"
    /\ main = "made" <=> worker = "made"
    /\ worker = "none" <=> server = "none"
    /\ quitting <=> main \in {"waiting", "waited", "gaveBack", "gone"} /\ worker # "none"
    /\ worker \in {"finishing", "waiting", "done"} => quitting
    /\ worker = "done" => server = "done"
    /\ main \in {"waited", "gaveBack", "gone"} => late \/ worker \in {"none", "done"}
    /\ slot = "free" => main \in {"init", "gaveBack", "gone"} \/ worker = "none"
    /\ quitting => hasty \/ internal = "pair" \/ server = "done"

Order == PairStands /\ AttemptsFollow /\ InStep

LifeInv == /\ LifecycleSound /\ SlotGivenBackLast
           /\ fault = "none" => Order

-------------------------------------------------------------------------------
\* What is queued twice over is queued.
LEMMA ConcatSet ==
    ASSUME NEW S, NEW q \in Seq(S), NEW r \in Seq(S)
    PROVE  /\ q \o r \in Seq(S)
           /\ ToSet(q \o r) = ToSet(q) \cup ToSet(r)
<1>1. /\ q \o r \in Seq(S) /\ Len(q) \in Nat /\ Len(r) \in Nat
      /\ Len(q \o r) = Len(q) + Len(r)
      /\ \A i \in 1..(Len(q) + Len(r)) : (q \o r)[i] = IF i <= Len(q) THEN q[i] ELSE r[i - Len(q)]
  BY ConcatProperties, LenProperties
<1>2. /\ DOMAIN q = 1..Len(q) /\ DOMAIN r = 1..Len(r) /\ DOMAIN (q \o r) = 1..(Len(q) + Len(r))
  BY <1>1, LenProperties
<1>3. ASSUME NEW x \in ToSet(q \o r) PROVE x \in ToSet(q) \cup ToSet(r)
  BY <1>1, <1>2 DEF ToSet
<1>4. ASSUME NEW x \in ToSet(q) PROVE x \in ToSet(q \o r)
  BY <1>1, <1>2 DEF ToSet
<1>5. ASSUME NEW x \in ToSet(r) PROVE x \in ToSet(q \o r)
  <2>1. PICK i \in 1..Len(r) : r[i] = x
    BY <1>2 DEF ToSet
  <2>2. Len(q) + i \in DOMAIN (q \o r) /\ (q \o r)[Len(q) + i] = x
    BY <1>1, <1>2, <2>1
  <2> QED BY <2>2 DEF ToSet
<1> QED BY <1>1, <1>3, <1>4, <1>5

\* What the server says is queued behind what it said before.
LEMMA TellKeeps ==
    ASSUME inbox \in Seq(Notices), AttemptsFollow, NEW s \in Seq(Notices),
           inbox' = inbox \o s, internal' = internal,
           PairGiven \/ \A i \in DOMAIN s : s[i] # "attempt"
    PROVE  /\ inbox' \in Seq(Notices) /\ AttemptsFollow'
           /\ PairGiven' <=> PairGiven \/ "pair" \in ToSet(s)
<1>1. /\ inbox' \in Seq(Notices) /\ ToSet(inbox') = ToSet(inbox) \cup ToSet(s)
  BY ConcatSet
<1>2. /\ Len(inbox) \in Nat /\ Len(s) \in Nat
      /\ Len(inbox') = Len(inbox) + Len(s)
      /\ \A i \in 1..(Len(inbox) + Len(s)) :
            inbox'[i] = IF i <= Len(inbox) THEN inbox[i] ELSE s[i - Len(inbox)]
  BY ConcatProperties, LenProperties
<1>3. /\ DOMAIN inbox = 1..Len(inbox) /\ DOMAIN s = 1..Len(s)
      /\ DOMAIN inbox' = 1..(Len(inbox) + Len(s))
  BY <1>1, <1>2, LenProperties
<1>4. AttemptsFollow'
  <2> SUFFICES ASSUME NEW i \in 1..(Len(inbox) + Len(s)), inbox'[i] = "attempt", internal # "pair"
               PROVE  \E j \in DOMAIN inbox' : j < i /\ inbox'[j] = "pair"
    BY <1>3 DEF AttemptsFollow
  <2>1. CASE i <= Len(inbox)
    <3>1. i \in DOMAIN inbox /\ inbox[i] = "attempt"
      BY <1>2, <1>3, <2>1
    <3>2. PICK j \in DOMAIN inbox : j < i /\ inbox[j] = "pair"
      BY <3>1 DEF AttemptsFollow
    <3>3. j \in DOMAIN inbox' /\ inbox'[j] = "pair"
      BY <1>2, <1>3, <3>2
    <3> QED BY <3>2, <3>3
  <2>2. CASE i > Len(inbox)
    <3>1. i - Len(inbox) \in DOMAIN s /\ s[i - Len(inbox)] = "attempt"
      BY <1>2, <1>3, <2>2
    <3>2. PICK j \in DOMAIN inbox : inbox[j] = "pair"
      BY <3>1 DEF PairGiven, ToSet
    <3>3. j \in DOMAIN inbox' /\ inbox'[j] = "pair" /\ j < i
      BY <1>2, <1>3, <2>2, <3>2
    <3> QED BY <3>3
  <2> QED BY <1>2, <2>1, <2>2
<1> QED BY <1>1, <1>4 DEF PairGiven

\* Handling a notice: the pair, when it is told, is known.
LEMMA HandleKeeps ==
    ASSUME inbox \in Seq(Notices), AttemptsFollow, inbox # <<>>,
           inbox' = Tail(inbox), internal \in {"anything", "pair"},
           internal' = IF Head(inbox) = "pair" THEN "pair" ELSE internal
    PROVE  /\ inbox' \in Seq(Notices) /\ AttemptsFollow'
           /\ PairGiven' <=> PairGiven
           /\ Head(inbox) = "attempt" => internal = "pair"
<1>1. /\ inbox' \in Seq(Notices)
      /\ ToSet(inbox') \subseteq ToSet(inbox) /\ ToSet(inbox) \subseteq {Head(inbox)} \cup ToSet(inbox')
      /\ Head(inbox) \in ToSet(inbox)
  BY TailSet
<1>2. Len(inbox) \in Nat \ {0} /\ DOMAIN inbox = 1..Len(inbox) /\ Head(inbox) = inbox[1]
  BY EmptySeq, LenProperties
<1>3. /\ DOMAIN inbox' = 1..(Len(inbox) - 1)
      /\ \A i \in 1..(Len(inbox) - 1) : inbox'[i] = inbox[i + 1]
  BY <1>1, HeadTailProperties, LenProperties
<1>4. AttemptsFollow'
  <2> SUFFICES ASSUME NEW i \in 1..(Len(inbox) - 1), inbox'[i] = "attempt", internal' # "pair"
               PROVE  \E j \in DOMAIN inbox' : j < i /\ inbox'[j] = "pair"
    BY <1>3 DEF AttemptsFollow
  <2>1. inbox[i + 1] = "attempt" /\ i + 1 \in DOMAIN inbox /\ internal # "pair" /\ inbox[1] # "pair"
    BY <1>2, <1>3
  <2>2. PICK j \in DOMAIN inbox : j < i + 1 /\ inbox[j] = "pair"
    BY <2>1 DEF AttemptsFollow
  <2>3. j - 1 \in DOMAIN inbox' /\ j - 1 < i /\ inbox'[j - 1] = "pair"
    BY <1>2, <1>3, <2>1, <2>2
  <2> QED BY <2>3
<1>5. Head(inbox) = "attempt" => internal = "pair"
  BY <1>2 DEF AttemptsFollow
<1>6. PairGiven' <=> PairGiven
  BY <1>1 DEF PairGiven
<1> QED BY <1>1, <1>4, <1>5, <1>6

\* The steps that touch no queue.
LEMMA QuietSteps ==
    ASSUME LifeInv, fault = "none",
           \/ PostInitAccepted \/ PostInitRefused \/ StartWorker \/ CloseWindow \/ QuitWorker
           \/ WorkerWaited \/ WorkerLate \/ ResetUUID \/ Exit
           \/ EnterLoop \/ LeaveLoop \/ ServerWaited \/ ServerLate
           \/ DispatchFails \/ FreePairs
    PROVE  LifeInv'
<1> USE DEF LifeTypeOK, EndsInOrder, SlotGivenBackLast, mainVars, workerVars, serverVars,
            history, InStep, PairStands
<1>t. /\ LifeTypeOK /\ SlotGivenBackLast /\ PairStands /\ AttemptsFollow /\ InStep
  BY DEF LifeInv, LifecycleSound, Order
<1>q. /\ UNCHANGED <<inbox, internal, pipe>>
      /\ PairGiven' <=> PairGiven
      /\ AttemptsFollow' <=> AttemptsFollow
  <2>1. UNCHANGED <<inbox, internal, pipe>>
    BY DEF PostInitAccepted, PostInitRefused, StartWorker, CloseWindow, QuitWorker, WorkerWaited,
           WorkerLate, ResetUUID, Exit, EnterLoop, LeaveLoop, ServerWaited, ServerLate,
           DispatchFails, FreePairs
  <2> QED BY <2>1 DEF PairGiven, AttemptsFollow
<1>s. SUFFICES LifeTypeOK' /\ EndsInOrder' /\ SlotGivenBackLast'
               /\ (fault' = "none" => PairStands' /\ InStep')
  BY <1>t, <1>q DEF LifeInv, LifecycleSound, Order
<1>1. CASE PostInitAccepted
  BY <1>t, <1>q, <1>1 DEF PostInitAccepted
<1>2. CASE PostInitRefused
  BY <1>t, <1>q, <1>2 DEF PostInitRefused
<1>3. CASE StartWorker
  BY <1>t, <1>q, <1>3 DEF StartWorker
<1>4. CASE CloseWindow
  BY <1>t, <1>q, <1>4 DEF CloseWindow
<1>5. CASE QuitWorker
  BY <1>t, <1>q, <1>5 DEF QuitWorker, ServerRuns, PairGiven, ToSet, ToSet
<1>6. CASE WorkerWaited
  BY <1>t, <1>q, <1>6 DEF WorkerWaited
<1>7. CASE WorkerLate
  BY <1>t, <1>q, <1>7 DEF WorkerLate
<1>8. CASE ResetUUID
  BY <1>t, <1>q, <1>8 DEF ResetUUID
<1>9. CASE Exit
  BY <1>t, <1>q, <1>9 DEF Exit
<1>10. CASE EnterLoop
  BY <1>t, <1>q, <1>10 DEF EnterLoop
<1>11. CASE LeaveLoop
  BY <1>t, <1>q, <1>11 DEF LeaveLoop
<1>12. CASE ServerWaited
  BY <1>t, <1>q, <1>12 DEF ServerWaited
<1>13. CASE ServerLate
  BY <1>t, <1>q, <1>13 DEF ServerLate
<1>14. CASE DispatchFails
  BY <1>t, <1>q, <1>14 DEF DispatchFails
<1>15. CASE FreePairs
  BY <1>t, <1>q, <1>15 DEF FreePairs
<1> QED BY <1>1, <1>2, <1>3, <1>4, <1>5, <1>6, <1>7, <1>8, <1>9, <1>10, <1>11, <1>12, <1>13,
           <1>14, <1>15

\* The worker's steps that read its queue or write to the server.
LEMMA WorkerSteps ==
    ASSUME LifeInv, fault = "none", Handle \/ DestroyWorker
    PROVE  LifeInv'
<1> USE DEF LifeTypeOK, EndsInOrder, SlotGivenBackLast, mainVars, workerVars, serverVars,
            history, InStep, PairStands
<1>t. /\ LifeTypeOK /\ SlotGivenBackLast /\ PairStands /\ AttemptsFollow /\ InStep
  BY DEF LifeInv, LifecycleSound, Order
<1>p. ASSUME NEW m \in {"connectTo", "exit"}, pipe' = Append(pipe, m)
      PROVE  /\ pipe' \in Seq({"connectTo", "exit"})
             /\ "exit" \in ToSet(pipe') <=> "exit" \in ToSet(pipe) \/ m = "exit"
  BY <1>t, <1>p, AppendSet
<1>1. CASE Handle
  <2>1. /\ worker = "loop" /\ inbox # <<>> /\ inbox' = Tail(inbox)
        /\ internal' = IF Head(inbox) = "pair" THEN "pair" ELSE internal
        /\ boxed' \in {boxed, boxed + 1}
        /\ UNCHANGED <<main, quitting, slot, worker, server, pair, attempts, failed, hasty, late>>
        /\ \/ Head(inbox) = "attempt" /\ WriteToServer("connectTo")
           \/ UNCHANGED <<pipe, fault>>
    BY <1>1 DEF Handle
  <2>2. /\ inbox' \in Seq(Notices) /\ AttemptsFollow'
        /\ PairGiven' <=> PairGiven
        /\ Head(inbox) = "attempt" => internal = "pair"
    BY <1>t, <2>1, HandleKeeps
  <2>3. CASE UNCHANGED <<pipe, fault>>
    BY <1>t, <2>1, <2>2, <2>3 DEF LifeInv, LifecycleSound, Order
  <2>4. CASE fault' = "none" /\ pipe' = Append(pipe, "connectTo")
    BY <1>t, <1>p, <2>1, <2>2, <2>4 DEF LifeInv, LifecycleSound, Order
  <2>5. CASE internal = "pair" /\ pair # "made" /\ fault' = "useAfterFree" /\ UNCHANGED pipe
    BY <1>t, <2>1, <2>2, <2>5 DEF LifeInv, LifecycleSound, Order, PairGiven
  <2> QED BY <2>1, <2>2, <2>3, <2>4, <2>5 DEF WriteToServer
<1>2. CASE DestroyWorker
  <2>1. /\ worker = "finishing"
        /\ UNCHANGED <<main, quitting, slot, boxed, internal, server, pair, attempts, failed, inbox,
                       hasty, late>>
        /\ \/ server \notin {"none", "done"} /\ WriteToServer("exit") /\ worker' = "waiting"
           \/ server \in {"none", "done"} /\ worker' = "done" /\ UNCHANGED <<pipe, fault>>
    BY <1>2 DEF DestroyWorker, ServerRuns, ExitCode, AfterExit
  <2>2. (PairGiven' <=> PairGiven) /\ (AttemptsFollow' <=> AttemptsFollow)
    BY <2>1 DEF PairGiven, AttemptsFollow
  <2>3. CASE server \in {"none", "done"} /\ worker' = "done" /\ UNCHANGED <<pipe, fault>>
    BY <1>t, <2>1, <2>2, <2>3 DEF LifeInv, LifecycleSound, Order
  <2>4. CASE server \notin {"none", "done"} /\ worker' = "waiting" /\ UNCHANGED fault
             /\ pipe' = Append(pipe, "exit")
    BY <1>t, <1>p, <2>1, <2>2, <2>4 DEF LifeInv, LifecycleSound, Order
  <2>5. CASE server \notin {"none", "done"} /\ worker' = "waiting" /\ UNCHANGED pipe
             /\ \/ internal # "pair" /\ fault' = "wildWrite"
                \/ internal = "pair" /\ pair # "made" /\ fault' = "useAfterFree"
    BY <1>t, <2>1, <2>2, <2>5 DEF LifeInv, LifecycleSound, Order, PairGiven
  <2> QED BY <2>1, <2>3, <2>4, <2>5 DEF WriteToServer
<1> QED BY <1>1, <1>2

\* The server's steps that say something or read the internal pair.
LEMMA ServerSteps ==
    ASSUME LifeInv, fault = "none",
           \/ Begin \/ SetupFails \/ SetupSucceeds \/ UdpReceive \/ InternalCommsRead
           \/ Finish
    PROVE  LifeInv'
<1> USE DEF LifeTypeOK, EndsInOrder, SlotGivenBackLast, mainVars, workerVars, serverVars,
            history, InStep, PairStands
<1>t. /\ LifeTypeOK /\ SlotGivenBackLast /\ PairStands /\ AttemptsFollow /\ InStep
  BY DEF LifeInv, LifecycleSound, Order
<1>p. /\ \A m \in Notices : /\ <<m>> \in Seq(Notices) /\ ToSet(<<m>>) = {m}
                              /\ DOMAIN <<m>> = {1} /\ <<m>>[1] = m
      /\ \A m, n \in Notices : /\ <<m>> \o <<n>> \in Seq(Notices)
                                 /\ ToSet(<<m>> \o <<n>>) = {m, n}
                                 /\ \A i \in DOMAIN (<<m>> \o <<n>>) : (<<m>> \o <<n>>)[i] \in {m, n}
      /\ \A n \in Notices : <<>> \o <<n>> = <<n>>
  <2>1. ASSUME NEW m \in Notices
        PROVE  /\ <<m>> \in Seq(Notices) /\ ToSet(<<m>>) = {m}
               /\ DOMAIN <<m>> = {1} /\ <<m>>[1] = m
    BY DEF ToSet
  <2>2. ASSUME NEW m \in Notices, NEW n \in Notices
        PROVE  /\ <<m>> \o <<n>> \in Seq(Notices)
               /\ ToSet(<<m>> \o <<n>>) = {m, n}
    <3>1. /\ <<m>> \in Seq(Notices) /\ ToSet(<<m>>) = {m}
          /\ <<n>> \in Seq(Notices) /\ ToSet(<<n>>) = {n}
      BY <2>1
    <3>2. /\ <<m>> \o <<n>> \in Seq(Notices)
          /\ ToSet(<<m>> \o <<n>>) = ToSet(<<m>>) \cup ToSet(<<n>>)
      BY <3>1, ConcatSet
    <3> QED BY <3>1, <3>2
  <2>3. ASSUME NEW m \in Notices, NEW n \in Notices, NEW i \in DOMAIN (<<m>> \o <<n>>)
        PROVE  (<<m>> \o <<n>>)[i] \in {m, n}
    BY <2>2 DEF ToSet
  <2>4. ASSUME NEW n \in Notices PROVE <<>> \o <<n>> = <<n>>
    BY <2>1, ConcatEmptySeq
  <2> QED BY <2>1, <2>2, <2>3, <2>4
<1>s. SUFFICES LifeTypeOK' /\ EndsInOrder' /\ SlotGivenBackLast' /\ AttemptsFollow'
               /\ PairStands' /\ InStep'
  BY <1>t DEF LifeInv, LifecycleSound, Order
<1>1. CASE Begin
  <2>1. /\ server = "begin" /\ server' = "listening" /\ inbox' = inbox \o <<"self">>
        /\ UNCHANGED <<main, quitting, slot, worker, boxed, internal, pair, attempts, failed, pipe,
                       hasty, late, fault>>
    BY <1>1 DEF Begin, Tell, Greeting
  <2>2. PICK s \in Seq(Notices) : s = <<"self">>
    BY <1>p DEF Notices
  <2>4. ToSet(s) = {"self"} /\ \A i \in DOMAIN s : s[i] = "self"
    BY <1>p, <2>2 DEF Notices
  <2>3. inbox' \in Seq(Notices) /\ AttemptsFollow' /\ (PairGiven' <=> PairGiven)
    BY <1>t, <2>1, <2>2, <2>4, TellKeeps
  <2> QED BY <1>t, <2>1, <2>3
<1>2. CASE SetupFails
  <2>1. /\ server = "listening" /\ server' = "ending" /\ failed' = TRUE
        /\ inbox' = inbox \o <<"failure">> \/ inbox' = inbox \o (<<"ports">> \o <<"failure">>)
        /\ UNCHANGED <<main, quitting, slot, worker, boxed, internal, pair, attempts, pipe,
                       hasty, late, fault>>
    <3>1. "failure" \in Notices
      BY DEF Notices
    <3> QED BY <1>2, <1>p, <3>1 DEF SetupFails, Tell, Alarm
  <2>2. "failure" \in Notices /\ "ports" \in Notices
    BY DEF Notices
  <2>3. inbox' \in Seq(Notices) /\ AttemptsFollow' /\ (PairGiven' <=> PairGiven)
    <3>1. CASE inbox' = inbox \o <<"failure">>
      <4>1. PICK s \in Seq(Notices) : s = <<"failure">>
        BY <1>p, <2>2
      <4>2. ToSet(s) = {"failure"} /\ \A i \in DOMAIN s : s[i] = "failure"
        BY <1>p, <2>2, <4>1
      <4> QED BY <1>t, <2>1, <3>1, <4>1, <4>2, TellKeeps
    <3>2. CASE inbox' = inbox \o (<<"ports">> \o <<"failure">>)
      <4>1. PICK s \in Seq(Notices) : s = <<"ports">> \o <<"failure">>
        BY <1>p, <2>2
      <4>2. ToSet(s) = {"ports", "failure"} /\ \A i \in DOMAIN s : s[i] \in {"ports", "failure"}
        BY <1>p, <2>2, <4>1
      <4> QED BY <1>t, <2>1, <3>2, <4>1, <4>2, TellKeeps
    <3> QED BY <2>1, <3>1, <3>2
  <2> QED BY <1>t, <2>1, <2>3
<1>3. CASE SetupSucceeds
  <2>1. /\ server = "listening" /\ server' = "dispatching" /\ pair' = "made"
        /\ inbox' = inbox \o (<<"ports">> \o <<"pair">>)
        /\ UNCHANGED <<main, quitting, slot, worker, boxed, internal, attempts, failed, pipe,
                       hasty, late, fault>>
    BY <1>3 DEF SetupSucceeds, Tell, Announced
  <2>2. "pair" \in Notices /\ "ports" \in Notices
    BY DEF Notices
  <2>3. inbox' \in Seq(Notices) /\ AttemptsFollow' /\ PairGiven'
    <3>1. PICK s \in Seq(Notices) : s = <<"ports">> \o <<"pair">>
      BY <1>p, <2>2
    <3>2. ToSet(s) = {"ports", "pair"} /\ \A i \in DOMAIN s : s[i] \in {"ports", "pair"}
      BY <1>p, <2>2, <3>1
    <3> QED BY <1>t, <2>1, <3>1, <3>2, TellKeeps
  <2> QED BY <1>t, <2>1, <2>3
<1>4. CASE UdpReceive
  <2>1. /\ server = "dispatching" /\ attempts < MaxAttempts /\ attempts' = attempts + 1
        /\ inbox' = inbox \o <<"attempt">>
        /\ UNCHANGED <<main, quitting, slot, worker, boxed, internal, server, pair, failed, pipe,
                       hasty, late, fault>>
    BY <1>4 DEF UdpReceive, Tell
  <2>2. "attempt" \in Notices
    BY DEF Notices
  <2>3. PairGiven
    BY <1>t, <2>1
  <2>4. inbox' \in Seq(Notices) /\ AttemptsFollow' /\ (PairGiven' <=> PairGiven)
    BY <1>t, <1>p, <2>1, <2>2, <2>3, TellKeeps
  <2> QED BY <1>t, <2>1, <2>4, AttemptsAssumption
<1>5. CASE InternalCommsRead
  <2>1. /\ server = "dispatching" /\ pipe # <<>> /\ pipe' = Tail(pipe)
        /\ server' = IF Head(pipe) = "exit" THEN "freeing" ELSE server
        /\ UNCHANGED <<main, quitting, slot, worker, boxed, internal, pair, attempts, failed, inbox,
                       hasty, late, fault>>
    BY <1>5 DEF InternalCommsRead
  <2>2. /\ pipe' \in Seq({"connectTo", "exit"}) /\ Head(pipe) \in ToSet(pipe)
        /\ ToSet(pipe') \subseteq ToSet(pipe)
    BY <1>t, <2>1, TailSet
  <2>3. (PairGiven' <=> PairGiven) /\ (AttemptsFollow' <=> AttemptsFollow)
    BY <2>1 DEF PairGiven, AttemptsFollow
  <2> QED BY <1>t, <2>1, <2>2, <2>3
<1>6. CASE Finish
  <2>1. /\ server = "ending" /\ server' = "done" /\ inbox' = inbox \o <<"finished">>
        /\ UNCHANGED <<main, quitting, slot, worker, boxed, internal, pair, attempts, failed, pipe,
                       hasty, late, fault>>
    BY <1>6 DEF Finish, Tell
  <2>2. PICK s \in Seq(Notices) : s = <<"finished">>
    BY <1>p DEF Notices
  <2>4. ToSet(s) = {"finished"} /\ \A i \in DOMAIN s : s[i] = "finished"
    BY <1>p, <2>2 DEF Notices
  <2>3. inbox' \in Seq(Notices) /\ AttemptsFollow' /\ (PairGiven' <=> PairGiven)
    BY <1>t, <2>1, <2>2, <2>4, TellKeeps
  <2> QED BY <1>t, <2>1, <2>3
<1> QED BY <1>1, <1>2, <1>3, <1>4, <1>5, <1>6

\* The inductive invariant of start-up and shut-down.
LEMMA LifeInvariant == LifeSpec => []LifeInv
<1>1. LifeInit => LifeInv
  <2> SUFFICES ASSUME LifeInit PROVE LifeInv
    OBVIOUS
  <2>1. /\ ToSet(inbox) = {} /\ ToSet(pipe) = {} /\ DOMAIN inbox = {}
        /\ inbox \in Seq(Notices) /\ pipe \in Seq({"connectTo", "exit"})
    BY DEF LifeInit, ToSet
  <2>2. LifeTypeOK
    <3>1. 0 \in 0..MaxAttempts
      BY AttemptsAssumption
    <3>2. boxed = 0 /\ attempts = 0 /\ 0 \in Nat
      BY DEF LifeInit
    <3> QED BY <2>1, <3>1, <3>2 DEF LifeInit, LifeTypeOK
  <2>3. PairStands /\ AttemptsFollow /\ InStep
    BY <2>1 DEF LifeInit, PairStands, PairGiven, AttemptsFollow, InStep
  <2> QED BY <2>2, <2>3 DEF LifeInit, LifeInv, LifecycleSound, EndsInOrder, SlotGivenBackLast, Order
<1>2. LifeInv /\ [LifeNext]_(lifeVars) => LifeInv'
  <2> SUFFICES ASSUME LifeInv, [LifeNext]_(lifeVars) PROVE LifeInv'
    OBVIOUS
  <2>1. CASE UNCHANGED lifeVars
    BY <2>1
    DEF lifeVars, LifeInv, LifecycleSound, LifeTypeOK, EndsInOrder, SlotGivenBackLast, Order,
        PairStands, PairGiven, AttemptsFollow, InStep
  <2>2. CASE LifeNext
    BY <2>2, QuietSteps, WorkerSteps, ServerSteps DEF LifeNext, Main, Worker, Server
  <2> QED BY <2>1, <2>2
<1> QED BY <1>1, <1>2, PTL DEF LifeSpec

\* A thread is written to, waited for and destroyed in order, unless the user
\* quits while the server is being set up, the event loop fails or a wait is
\* given up (the destructors of PXMAgentPrivate and PXMPeerWorkerPrivate).
THEOREM LifecycleIsSound == LifeSpec => []LifecycleSound
<1>1. LifeInv => LifecycleSound
  BY DEF LifeInv
<1> QED BY <1>1, LifeInvariant, PTL

\* The uuid is given back after the last thread that sends in its name.
THEOREM SlotIsGivenBackLast == LifeSpec => []SlotGivenBackLast
<1>1. LifeInv => SlotGivenBackLast
  BY DEF LifeInv
<1> QED BY <1>1, LifeInvariant, PTL
==============================================================================
