---------------------------- MODULE PeerListProofs ----------------------------
(***************************************************************************)
(* Proofs about the message viewer and the list beside it.  Of the viewer: *)
(* the stack and the saved histories never hold a conversation twice, and  *)
(* the viewer implements Conversations.  Of the list: whatever it does to  *)
(* the viewer is what MessageView allows, so that what is proved of the    *)
(* viewer holds in the window; what it shows is what there is, what it     *)
(* marks is what has not been read, what it says of a connection is so,    *)
(* and the current conversation is the one on display.                     *)
(***************************************************************************)
EXTENDS PeerList, QueueLemmas, FiniteSetTheorems

Widgets == Convs \cup {Label}

ViewInv == TypeOK /\ OneHome /\ StackBounded

-------------------------------------------------------------------------------
(***************************************************************************)
(* Giving way.  s is the stack with a conversation c newly in front.       *)
(***************************************************************************)
Fronted(s, c) ==
    /\ s \in Seq(Widgets) /\ IsInjective(s) /\ s[1] = c
    /\ Len(s) >= 1 /\ Len(s) <= Cap + 1

\* After removeLastWidget c is still in front, within the limit, and what
\* gave way is the greeting or another conversation.
LEMMA GivingWay ==
    ASSUME NEW c \in Convs, NEW s, Fronted(s, c)
    PROVE  /\ Trimmed(s) \in Seq(Widgets) /\ IsInjective(Trimmed(s))
           /\ Len(Trimmed(s)) <= Cap /\ Trimmed(s) # <<>> /\ Trimmed(s)[1] = c
           /\ Evicted(s) \subseteq Convs \ {c}
           /\ \A d \in Convs : d \in ToSet(Trimmed(s)) <=> d \in ToSet(s) \ Evicted(s)
           /\ Evicted(s) \subseteq ToSet(s)
<1>1. Len(s) \in Nat /\ DOMAIN s = 1..Len(s) /\ Cap \in Nat /\ Cap >= 2
  BY LenProperties, CapAssumption DEF Fronted
<1>2. CASE ~Full(s)
  BY <1>1, <1>2, EmptySeq DEF Full, Trimmed, Evicted, Fronted
<1>3. CASE Full(s)
  <2>1. Len(s) >= 2 /\ Len(s) >= 1
    BY <1>1, <1>3 DEF Full
  <2>2. /\ Front(s) \in Seq(Widgets) /\ IsInjective(Front(s))
        /\ Len(Front(s)) = Len(s) - 1
        /\ Last(s) \in ToSet(s) /\ ToSet(Front(s)) = ToSet(s) \ {Last(s)}
        /\ Front(s)[1] = c
    BY <2>1, FrontSet DEF Fronted
  <2>3. Last(s) # c
    BY <1>1, <2>1 DEF Last, Fronted, IsInjective
  <2>4. Last(s) \in Widgets
    BY <1>1, <2>1, ElementOfSeq DEF Last, Fronted
  <2>5. Front(s) # <<>>
    BY <1>1, <2>1, <2>2, EmptySeq
  <2>6. Len(Front(s)) <= Cap
    BY <1>1, <2>2 DEF Fronted
  <2>7. Trimmed(s) = Front(s) /\ Evicted(s) = {Last(s)} \ {Label}
    BY <1>3 DEF Trimmed, Evicted
  <2>8. Evicted(s) \subseteq Convs \ {c}
    BY <2>3, <2>4, <2>7 DEF Widgets
  <2>9. \A d \in Convs : d # Label
    BY LabelAssumption
  <2> QED BY <2>2, <2>5, <2>6, <2>7, <2>8, <2>9
<1> QED BY <1>2, <1>3

\* A widget moved to the front.
LEMMA MovedWidget ==
    ASSUME ViewInv, NEW c \in Convs, NEW i \in DOMAIN stack, stack[i] = c
    PROVE  LET s == <<c>> \o RemoveAt(stack, i) IN
             Fronted(s, c) /\ ToSet(s) = ToSet(stack)
<1> DEFINE r == RemoveAt(stack, i)
           s == <<c>> \o r
<1>1. /\ stack \in Seq(Widgets) /\ IsInjective(stack) /\ Len(stack) <= Cap
      /\ Len(stack) \in Nat /\ DOMAIN stack = 1..Len(stack) /\ Cap \in Nat
  BY LenProperties, CapAssumption DEF ViewInv, TypeOK, OneHome, StackBounded, Widgets
<1>2. c \in ToSet(stack) /\ c \in Widgets
  BY DEF ToSet, Widgets
<1>3. /\ r \in Seq(Widgets) /\ IsInjective(r) /\ Len(r) = Len(stack) - 1
      /\ ToSet(r) = ToSet(stack) \ {c}
  BY <1>1, RemoveAtSet
<1> HIDE DEF r
<1>4. /\ s \in Seq(Widgets) /\ IsInjective(s) /\ ToSet(s) = {c} \cup ToSet(r)
      /\ Len(s) = Len(r) + 1 /\ s[1] = c
  BY <1>2, <1>3, InFront
<1> HIDE DEF s
<1>5. ToSet(s) = ToSet(stack) /\ Len(s) = Len(stack) /\ Len(stack) >= 1
  BY <1>1, <1>2, <1>3, <1>4
<1>6. Fronted(s, c)
  BY <1>1, <1>4, <1>5 DEF Fronted
<1> QED BY <1>5, <1>6 DEF r, s

\* A widget made for a conversation that had none.
LEMMA MadeWidget ==
    ASSUME ViewInv, NEW c \in Convs, c \notin OnStack
    PROVE  LET s == <<c>> \o stack IN
             Fronted(s, c) /\ ToSet(s) = {c} \cup ToSet(stack)
<1> DEFINE s == <<c>> \o stack
<1>1. /\ stack \in Seq(Widgets) /\ IsInjective(stack) /\ Len(stack) <= Cap
      /\ Len(stack) \in Nat /\ Cap \in Nat
  BY LenProperties, CapAssumption DEF ViewInv, TypeOK, OneHome, StackBounded, Widgets
<1>2. c \notin ToSet(stack) /\ c \in Widgets
  BY DEF OnStack, Widgets
<1>3. /\ s \in Seq(Widgets) /\ IsInjective(s) /\ ToSet(s) = {c} \cup ToSet(stack)
      /\ Len(s) = Len(stack) + 1 /\ s[1] = c
  BY <1>1, <1>2, InFront
<1> QED BY <1>1, <1>3 DEF Fronted

\* The saved texts keep their type.
LEMMA SavedType ==
    ASSUME ViewInv, NEW s PROVE Saved(s) \in [Convs -> Seq(Texts)]
BY DEF Saved, ViewInv, TypeOK

\* So is what is restored, of a uuid nothing is kept under, too.
LEMMA RestoredType ==
    ASSUME ViewInv, NEW c \in Convs PROVE Restored(c) \in Seq(Texts)
BY EmptySeq DEF Restored, ViewInv, TypeOK

-------------------------------------------------------------------------------
(***************************************************************************)
(* The invariant.                                                          *)
(***************************************************************************)
\* A conversation new in the list starts without texts and changes no other.
LEMMA NewHistoryKeeps ==
    ASSUME ViewInv, NEW c \in Convs, NewHistory(c)
    PROVE  /\ ViewInv' /\ Listed' = Listed \cup {c} /\ stack'[1] = stack[1]
           /\ OnStack' = OnStack \cup {c} \/ OnStack' = OnStack
           /\ history \subseteq history' /\ history' \subseteq history \cup {c}
           /\ \A d \in Convs \ {c} : page'[d] = page[d] /\ stored'[d] = stored[d]
           /\ c \in OnStack' => page'[c] = <<>>
           /\ c \in history' => stored'[c] = <<>>
<1>1. /\ stack \in Seq(Widgets) /\ Len(stack) \in Nat /\ DOMAIN stack = 1..Len(stack)
      /\ stack # <<>> /\ Cap \in Nat /\ Len(stack) >= 1 /\ <<>> \in Seq(Texts)
      /\ c \in Widgets /\ c \notin OnStack /\ c \notin history
  BY LenProperties, EmptySeq, CapAssumption DEF ViewInv, TypeOK, Widgets, NewHistory, Listed
<1>2. CASE Full(stack)
  BY <1>1, <1>2 DEF NewHistory, ViewInv, TypeOK, OneHome, StackBounded, Listed, OnStack
<1>3. CASE ~Full(stack)
  <2>1. /\ stack' = Append(stack, c) /\ page' = [page EXCEPT ![c] = <<>>]
        /\ history' = history /\ stored' = stored
    BY <1>3 DEF NewHistory
  <2>2. stack' \in Seq(Widgets) /\ ToSet(stack') = ToSet(stack) \cup {c}
    BY <1>1, <2>1, AppendSet
  <2>3. Len(stack') = Len(stack) + 1 /\ stack'[1] = stack[1]
    BY <1>1, <2>1, AppendProperties
  <2>4. OnceIn(stack, Widgets) /\ c \notin ToSet(stack)
    BY <1>1 DEF ViewInv, OneHome, IsInjective, OnceIn, OnStack
  <2>5. OnceIn(stack', Widgets)
    BY <1>1, <2>1, <2>4, OnceAppend
  <2>6. IsInjective(stack')
    BY <2>2, <2>5, ElementOfSeq, LenProperties DEF OnceIn, IsInjective
  <2>7. OnStack' = OnStack \cup {c}
    BY <2>2 DEF OnStack
  <2>8. Len(stack') <= Cap
    BY <1>1, <1>3, <2>3 DEF Full
  <2>9. TypeOK'
    BY <1>1, <2>1, <2>2, <2>3, EmptySeq DEF ViewInv, TypeOK, Widgets
  <2> QED BY <1>1, <2>1, <2>3, <2>6, <2>7, <2>8, <2>9
          DEF ViewInv, TypeOK, OneHome, StackBounded, Listed
<1> QED BY <1>2, <1>3

\* Selecting a conversation changes no conversation's texts and displays it.
LEMMA SwitchKeeps ==
    ASSUME ViewInv, NEW c \in Convs, SwitchToUuid(c)
    PROVE  /\ ViewInv' /\ Listed' = Listed /\ c \in Listed /\ stack'[1] = c
           /\ \A d \in Convs :
                (IF d \in OnStack THEN page[d] ELSE Restored(d))
                  = (IF d \in OnStack' THEN page'[d] ELSE Restored(d)')
<1>1. CASE SwitchToWidget(c)
  <2>1. PICK i \in DOMAIN stack : stack[i] = c /\ stack' = Trimmed(<<c>> \o RemoveAt(stack, i))
                /\ history' = history \cup Evicted(<<c>> \o RemoveAt(stack, i))
                /\ stored' = Saved(<<c>> \o RemoveAt(stack, i))
    BY <1>1 DEF SwitchToWidget
  <2> DEFINE s == <<c>> \o RemoveAt(stack, i)
  <2>2. Fronted(s, c) /\ ToSet(s) = ToSet(stack)
    BY <2>1, MovedWidget
  <2>3. stack' = Trimmed(s) /\ history' = history \cup Evicted(s) /\ stored' = Saved(s)
        /\ page' = page
    BY <1>1, <2>1 DEF SwitchToWidget
  <2> HIDE DEF s
  <2>4. /\ stack' \in Seq(Widgets) /\ IsInjective(stack')
        /\ Len(stack') <= Cap /\ stack' # <<>> /\ stack'[1] = c
        /\ Evicted(s) \subseteq Convs \ {c}
        /\ \A d \in Convs : d \in ToSet(stack') <=> d \in ToSet(s) \ Evicted(s)
        /\ Evicted(s) \subseteq ToSet(s)
    BY <2>2, <2>3, GivingWay
  <2>5. OnStack' = OnStack \ Evicted(s) /\ Evicted(s) \subseteq OnStack /\ c \in OnStack
    BY <2>1, <2>2, <2>4 DEF OnStack, ToSet
  <2>6. stored' \in [Convs -> Seq(Texts)]
    BY <2>3, SavedType
  <2>7. ViewInv'
    BY <2>3, <2>4, <2>5, <2>6 DEF ViewInv, TypeOK, OneHome, StackBounded, Widgets
  <2>8. Listed' = Listed /\ c \in Listed
    BY <2>3, <2>5 DEF Listed
  <2>9. \A d \in Convs : d \in history => d \notin OnStack
    BY DEF ViewInv, OneHome
  <2> QED BY <2>3, <2>4, <2>5, <2>7, <2>8, <2>9 DEF Saved, Restored
<1>2. CASE SwitchToHistory(c)
  <2> DEFINE s == <<c>> \o stack
  <2>1. /\ c \in Listed \ OnStack /\ stack' = Trimmed(s)
        /\ history' = (history \cup Evicted(s)) \ {c}
        /\ stored' = Saved(s) /\ page' = [page EXCEPT ![c] = Restored(c)]
    BY <1>2 DEF SwitchToHistory, Forgotten
  <2>2. Fronted(s, c) /\ ToSet(s) = {c} \cup ToSet(stack)
    BY <2>1, MadeWidget
  <2> HIDE DEF s
  <2>4. /\ stack' \in Seq(Widgets) /\ IsInjective(stack')
        /\ Len(stack') <= Cap /\ stack' # <<>> /\ stack'[1] = c
        /\ Evicted(s) \subseteq Convs \ {c}
        /\ \A d \in Convs : d \in ToSet(stack') <=> d \in ToSet(s) \ Evicted(s)
        /\ Evicted(s) \subseteq ToSet(s)
    BY <2>1, <2>2, GivingWay
  <2>5. OnStack' = (OnStack \cup {c}) \ Evicted(s) /\ Evicted(s) \subseteq OnStack
    BY <2>2, <2>4 DEF OnStack
  <2>6. stored' \in [Convs -> Seq(Texts)] /\ page' \in [Convs -> Seq(Texts)]
    BY <2>1, SavedType, RestoredType DEF ViewInv, TypeOK
  <2>7. ViewInv'
    BY <2>1, <2>4, <2>5, <2>6 DEF ViewInv, TypeOK, OneHome, StackBounded, Widgets
  <2>8. Listed' = Listed /\ c \in Listed
    BY <2>1, <2>4, <2>5 DEF Listed
  <2>9. \A d \in Convs : d \in history => d \notin OnStack
    BY DEF ViewInv, OneHome
  <2> QED BY <2>1, <2>4, <2>5, <2>7, <2>8, <2>9 DEF Saved, Restored, ViewInv, TypeOK
<1> QED BY <1>1, <1>2 DEF SwitchToUuid

\* A text moves no conversation.
LEMMA AppendKeeps ==
    ASSUME ViewInv, NEW c \in Convs, NEW t \in Texts, AppendText(c, t)
    PROVE  ViewInv' /\ Listed' = Listed /\ stack' = stack
<1>1. \A q \in Seq(Texts) : Append(q, t) \in Seq(Texts)
  BY AppendProperties
<1>2. stack' = stack /\ history' \in {history, history \cup {c}}
      /\ (history' # history => c \in Listed \ OnStack)
  BY DEF AppendText
<1>3. page' \in [Convs -> Seq(Texts)] /\ stored' \in [Convs -> Seq(Texts)]
  BY <1>1, RestoredType DEF AppendText, Filed, ViewInv, TypeOK
<1> QED BY <1>2, <1>3 DEF ViewInv, TypeOK, OneHome, StackBounded, OnStack, Listed

\* The greeting and the global chat have a widget each.
LEMMA InitialView == Init => ViewInv
<1> SUFFICES ASSUME Init PROVE ViewInv
  OBVIOUS
<1>1. Global # Label /\ Global \in Widgets /\ Label \in Widgets
  BY GlobalAssumption, LabelAssumption DEF Widgets
<1>2. stack \in Seq(Widgets) /\ Len(stack) = 2 /\ stack[1] = Label /\ stack[2] = Global
  BY <1>1 DEF Init
<1>3. stack # <<>> /\ DOMAIN stack = 1..2
  BY <1>2, EmptySeq, LenProperties
<1>4. IsInjective(stack)
  BY <1>1, <1>2, <1>3 DEF IsInjective
<1> QED BY <1>2, <1>3, <1>4, CapAssumption
        DEF ViewInv, Init, TypeOK, OneHome, StackBounded, Widgets

\* Every operation of the viewer keeps the invariant.
LEMMA StepKeepsView == ViewInv /\ [Next]_vars => ViewInv'
<1> SUFFICES ASSUME ViewInv, [Next]_vars PROVE ViewInv'
  OBVIOUS
<1>1. CASE Next
  BY <1>1, NewHistoryKeeps, SwitchKeeps, AppendKeeps DEF Next
<1>2. CASE UNCHANGED vars
  BY <1>2 DEF vars, ViewInv, TypeOK, OneHome, StackBounded, OnStack
<1> QED BY <1>1, <1>2

\* The stack never exceeds its limit and no conversation has two homes.
THEOREM ViewInvariant == Spec => []ViewInv
BY InitialView, StepKeepsView, PTL DEF Spec

\* No conversation has two homes, or a home too many, and the number of
\* widgets stays within the limit, for every limit and all conversations.
THEOREM ViewIsSound == Spec => []ViewSound
<1>1. ViewInv => ViewSound
  BY DEF ViewInv, ViewSound
<1> QED BY <1>1, ViewInvariant, PTL

-------------------------------------------------------------------------------
(***************************************************************************)
(* The refinement: where a text is kept does not matter to its reader.     *)
(***************************************************************************)
\* Neither a new conversation nor a selected one changes what is in any.
LEMMA LogKept ==
    ASSUME ViewInv, NEW c \in Convs, NewHistory(c) \/ SwitchToUuid(c)
    PROVE  \A d \in Convs : Log(d)' = Log(d)
<1>1. CASE NewHistory(c)
  <2>1. /\ Listed' = Listed \cup {c} /\ c \notin Listed
        /\ OnStack' = OnStack \cup {c} \/ OnStack' = OnStack
        /\ history \subseteq history' /\ history' \subseteq history \cup {c}
        /\ \A d \in Convs \ {c} : page'[d] = page[d] /\ stored'[d] = stored[d]
        /\ c \in OnStack' => page'[c] = <<>>
        /\ c \in history' => stored'[c] = <<>>
    BY <1>1, NewHistoryKeeps DEF NewHistory
  <2> QED BY <2>1 DEF Log, Restored, Listed
<1>2. CASE SwitchToUuid(c)
  BY <1>2, SwitchKeeps DEF Log, Restored
<1> QED BY <1>1, <1>2

\* A text is added to one conversation, wherever that is kept.
LEMMA LogGrows ==
    ASSUME ViewInv, NEW c \in Convs, NEW t \in Texts, AppendText(c, t)
    PROVE  /\ c \in Listed
           /\ \A d \in Convs : Log(d)' = IF d = c THEN Append(Log(c), t) ELSE Log(d)
<1>1. Listed' = Listed /\ stack' = stack /\ OnStack' = OnStack
  BY AppendKeeps DEF AppendText, OnStack
<1>2. c \in Listed
  BY DEF AppendText, Listed
<1> QED BY <1>1, <1>2 DEF AppendText, Filed, Log, Restored, ViewInv, TypeOK

\* No text is lost, doubled or reordered, however often its conversation
\* gives its widget away and gets it back.
THEOREM KeepsEveryText == Spec => KeepsConversations
<1>1. Init => C!Init
  <2> SUFFICES ASSUME Init PROVE C!Init
    OBVIOUS
  <2>1. Global # Label /\ Label \notin Convs /\ Global \in Convs /\ Null \in Convs
    BY GlobalAssumption, NullAssumption, LabelAssumption
  <2>2. ToSet(stack) = {Label, Global}
    BY DEF Init, ToSet
  <2>3. Listed = {Global, Null}
    BY <2>1, <2>2 DEF Listed, OnStack, Init
  <2> QED BY <2>3 DEF C!Init, Init, Restored
<1>2. ViewInv /\ [Next]_vars => [C!Next]_(C!vars)
  <2> SUFFICES ASSUME ViewInv, [Next]_vars PROVE [C!Next]_(C!vars)
    OBVIOUS
  <2>1. ASSUME NEW c \in Convs, NewHistory(c) PROVE C!List(c)
    <3>1. Listed' = Listed \cup {c} /\ stack'[1] = stack[1] /\ c \notin Listed
      BY <2>1, NewHistoryKeeps DEF NewHistory
    <3>2. \A d \in Convs : Log(d)' = Log(d)
      BY <2>1, LogKept
    <3> QED BY <3>1, <3>2 DEF C!List, Log, Restored
  <2>2. ASSUME NEW c \in Convs, SwitchToUuid(c) PROVE C!Open(c)
    <3>1. Listed' = Listed /\ c \in Listed /\ stack'[1] = c
      BY <2>2, SwitchKeeps
    <3>2. \A d \in Convs : Log(d)' = Log(d)
      BY <2>2, LogKept
    <3> QED BY <3>1, <3>2 DEF C!Open, Log, Restored
  <2>3. ASSUME NEW c \in Convs, NEW t \in Texts, AppendText(c, t) PROVE C!Say(c, t)
    <3>1. Listed' = Listed /\ stack' = stack
      BY <2>3, AppendKeeps
    <3>2. /\ c \in Listed
          /\ \A d \in Convs : Log(d)' = IF d = c THEN Append(Log(c), t) ELSE Log(d)
      BY <2>3, LogGrows
    <3> QED BY <3>1, <3>2 DEF C!Say, Log, Restored
  <2>4. CASE UNCHANGED vars
    BY <2>4 DEF vars, C!vars, Listed, OnStack, Restored
  <2> QED BY <2>1, <2>2, <2>3, <2>4 DEF Next, C!Next
<1> QED BY <1>1, <1>2, ViewInvariant, PTL DEF Spec, KeepsConversations, C!Spec

-------------------------------------------------------------------------------
(***************************************************************************)
(* The window: the list with the viewer.                                   *)
(***************************************************************************)
\* While the global chat is out of the list, the main thread is in the middle
\* of a signal that a peer has authenticated.
InTheMiddle == taken => inbox # <<>> /\ Head(inbox).kind = "authed"

\* The worker alerts the window of what is said, and of nothing else; no
\* notice reads like what is said.
Heard == {m \in Signals : m.kind = "text" => (m.alert <=> m.text = "said")}
Asked == {m \in Posts : m.kind = "notice" => m.text # "said"}

ListInv ==
    /\ IsFiniteSet(known) /\ known \subseteq Peers /\ rows \in Seq(Peers)
    /\ inbox \in Seq(Heard) /\ outbox \in Seq(Asked)
    /\ InTheMiddle

\* What a signal carries.
LEMMA SignalFields ==
    ASSUME NEW m \in Heard
    PROVE  /\ m.kind = "text" => m.conv \in Chats \cap Convs /\ m.text \in Texts
           /\ m.kind = "authed" => m.peer \in Peers /\ m.name \in Names
BY GlobalAssumption DEF Heard, Signals, Chats, Peers

\* What is printed, with an alert or without, is a signal.
LEMMA PrintSignal ==
    ASSUME NEW c \in Chats, NEW t \in Texts
    PROVE  (t = "said" => Text(c, t, TRUE) \in Heard) /\ (t # "said" => Text(c, t, FALSE) \in Heard)
BY DEF Heard, Signals, Text

\* What a post carries.
LEMMA PostFields ==
    ASSUME NEW m \in Asked
    PROVE  /\ m.conv \in Chats \cap Convs
           /\ m.kind = "notice" => m.conv \in Peers /\ m.text \in Texts /\ m.text # "said"
BY GlobalAssumption DEF Asked, Posts, Chats, Peers

\* More signals are queued behind the one being handled.
LEMMA Queueing ==
    ASSUME ListInv, NEW s \in Seq(Heard), Tell(s)
    PROVE  inbox' \in Seq(Heard) /\ InTheMiddle'
<1>1. /\ inbox' = inbox \o s /\ taken' = taken /\ inbox \in Seq(Heard)
      /\ Len(inbox) \in Nat /\ Len(s) \in Nat
  BY LenProperties DEF Tell, ListInv, listVars
<1>2. /\ inbox' \in Seq(Heard) /\ Len(inbox') = Len(inbox) + Len(s)
      /\ \A i \in 1..Len(inbox) : inbox'[i] = inbox[i]
  BY <1>1, ConcatProperties
<1>3. ASSUME taken PROVE inbox' # <<>> /\ Head(inbox').kind = "authed"
  <2>1. inbox # <<>> /\ Head(inbox).kind = "authed"
    BY <1>3 DEF ListInv, InTheMiddle
  <2>2. Len(inbox) >= 1 /\ Len(inbox') >= 1
    BY <1>1, <1>2, <2>1, EmptySeq
  <2>3. inbox' # <<>> /\ Head(inbox) = inbox[1] /\ Head(inbox') = inbox'[1]
    BY <1>1, <1>2, <2>1, <2>2, EmptySeq, HeadTailProperties
  <2> QED BY <1>2, <2>1, <2>2, <2>3
<1> QED BY <1>1, <1>2, <1>3 DEF InTheMiddle

\* The texts Texts stands for.
LEMMA TextNames ==
    {"said", "mine", "date", "gone", "back", "renamed"} \subseteq Texts
BY TextsAssumption

\* What the worker does keeps the invariant and touches neither the viewer nor
\* the list.
LEMMA WorkerKeeps ==
    ASSUME ListInv, Worker
    PROVE  ListInv' /\ UNCHANGED <<vars, listVars>>
<1> USE TextNames
<1>0. ASSUME NEW m \in Heard PROVE <<m>> \in Seq(Heard)
  BY <1>0
<1>1. ASSUME NEW p \in Peers, LearnOf(p) PROVE ListInv' /\ UNCHANGED <<vars, listVars>>
  <2>1. <<>> \in Seq(Heard) /\ Tell(<<>>)
    BY <1>1 DEF LearnOf
  <2>2. inbox' \in Seq(Heard) /\ InTheMiddle'
    BY <2>1, Queueing
  <2>3. IsFiniteSet(known')
    BY <1>1, FS_AddElement DEF LearnOf, ListInv
  <2> QED BY <1>1, <2>2, <2>3 DEF LearnOf, ListInv, Tell, listVars
<1>2. ASSUME NEW p \in Peers, ConnectionStatusChange(p)
      PROVE  ListInv' /\ UNCHANGED <<vars, listVars>>
  <2>1. <<Gone(p)>> \in Seq(Heard) /\ Tell(<<Gone(p)>>)
    BY <1>0, <1>2 DEF ConnectionStatusChange, Heard, Signals, Gone
  <2>2. inbox' \in Seq(Heard) /\ InTheMiddle'
    BY <2>1, Queueing
  <2> QED BY <1>2, <2>2 DEF ConnectionStatusChange, ListInv, Tell, listVars
<1>3. ASSUME NEW p \in Peers, NEW n \in Names, NewAuthedPeer(p, n)
      PROVE  ListInv' /\ UNCHANGED <<vars, listVars>>
  <2>1. <<Authed(p, n)>> \in Seq(Heard) /\ Tell(<<Authed(p, n)>>)
    BY <1>0, <1>3 DEF NewAuthedPeer, Heard, Signals, Authed
  <2>2. inbox' \in Seq(Heard) /\ InTheMiddle'
    BY <2>1, Queueing
  <2> QED BY <1>3, <2>2 DEF NewAuthedPeer, ListInv, Tell, listVars
<1>4. ASSUME NEW c \in Chats, MsgRecieved(c)
      PROVE  ListInv' /\ UNCHANGED <<vars, listVars>>
  <2>1. <<Text(c, "said", TRUE)>> \in Seq(Heard) /\ Tell(<<Text(c, "said", TRUE)>>)
    BY <1>0, <1>4, PrintSignal DEF MsgRecieved
  <2>2. inbox' \in Seq(Heard) /\ InTheMiddle'
    BY <2>1, Queueing
  <2> QED BY <1>4, <2>2 DEF MsgRecieved, ListInv, Tell, listVars, workerVars
<1>5. ASSUME MidnightTimerPersistent PROVE ListInv' /\ UNCHANGED <<vars, listVars>>
  <2>1. PICK order \in SetToSeqs(known \cup {Global}) :
          Tell([i \in DOMAIN order |-> Text(order[i], "date", FALSE)])
    BY <1>5 DEF MidnightTimerPersistent
  <2> DEFINE n == Cardinality(known \cup {Global})
             s == [i \in DOMAIN order |-> Text(order[i], "date", FALSE)]
  <2>2. n \in Nat
    BY FS_AddElement, FS_CardinalityType DEF ListInv
  <2>3. order \in [1..n -> known \cup {Global}]
    BY DEF SetToSeqs
  <2>4. \A i \in 1..n : Text(order[i], "date", FALSE) \in Heard
    <3> SUFFICES ASSUME NEW i \in 1..n PROVE Text(order[i], "date", FALSE) \in Heard
      OBVIOUS
    <3>1. order[i] \in Chats
      BY <2>3 DEF ListInv, Chats
    <3> QED BY <3>1, PrintSignal
  <2>5. s \in [1..n -> Heard]
    BY <2>3, <2>4
  <2> HIDE DEF n, s
  <2>6. s \in Seq(Heard)
    BY <2>2, <2>5, SeqDef
  <2>7. inbox' \in Seq(Heard) /\ InTheMiddle'
    <3>1. Tell(s)
      BY <2>1 DEF s
    <3> QED BY <2>6, <3>1, Queueing
  <2> QED BY <1>5, <2>1, <2>7 DEF MidnightTimerPersistent, ListInv, Tell, listVars, workerVars
<1>6. ASSUME AddMessageToPeer PROVE ListInv' /\ UNCHANGED <<vars, listVars>>
  <2>1. outbox' \in Seq(Asked) /\ Head(outbox) \in Asked
    BY <1>6, TailSet DEF AddMessageToPeer, ListInv
  <2>2. ASSUME NEW m \in Asked PROVE Printed(m) \in Seq(Heard)
    <3>1. CASE m.kind = "notice" /\ m.conv \in known
      <4>1. m.conv \in Chats /\ m.text \in Texts /\ m.text # "said"
        BY <3>1, PostFields
      <4>2. Text(m.conv, m.text, FALSE) \in Heard
        BY <4>1, PrintSignal
      <4> QED BY <1>0, <3>1, <4>2 DEF Printed
    <3>2. CASE m.kind = "typed" /\ m.conv \in known
      <4>1. Text(m.conv, "mine", FALSE) \in Heard
        BY PostFields, PrintSignal
      <4> QED BY <1>0, <3>2, <4>1 DEF Printed
    <3>3. CASE ~(m.kind = "notice" /\ m.conv \in known) /\ ~(m.kind = "typed" /\ m.conv \in known)
      <4>1. Printed(m) = <<>>
        BY <3>3 DEF Printed
      <4> QED BY <4>1
    <3> QED BY <3>1, <3>2, <3>3
  <2>3. inbox' \in Seq(Heard) /\ InTheMiddle'
    BY <1>6, <2>1, <2>2, Queueing DEF AddMessageToPeer
  <2> QED BY <1>6, <2>1, <2>3 DEF AddMessageToPeer, ListInv, Tell, listVars, workerVars
<1> QED BY <1>1, <1>2, <1>3, <1>4, <1>5, <1>6 DEF Worker
-------------------------------------------------------------------------------
(***************************************************************************)
(* The main thread.                                                        *)
(***************************************************************************)
\* The first signal in the queue is one, and so are the others.
LEMMA FirstSignal ==
    ASSUME ListInv, inbox # <<>>
    PROVE  Head(inbox) \in Heard /\ Tail(inbox) \in Seq(Heard)
BY TailSet DEF ListInv

\* A sorted list holds what was sorted, each once.
LEMMA Arranged ==
    ASSUME NEW S, IsFiniteSet(S), NEW s \in SetToSeqs(S)
    PROVE  s \in Seq(S) /\ IsInjective(s) /\ ToSet(s) = S
<1> DEFINE n == Cardinality(S)
<1>1. n \in Nat /\ IsFiniteSet(1..n) /\ Cardinality(1..n) = n
  BY FS_CardinalityType, FS_Interval
<1>2. s \in [1..n -> S] /\ \A i, j \in 1..n : i # j => s[i] # s[j]
  BY DEF SetToSeqs
<1> HIDE DEF n
<1>3. s \in Injection(1..n, S)
  BY <1>2 DEF Injection, IsInjective
<1>4. s \in Surjection(1..n, S)
  BY <1>1, <1>3, FS_Injection DEF n
<1>5. \A x \in S : \E i \in 1..n : s[i] = x
  BY <1>4 DEF Surjection
<1>6. s \in Seq(S)
  BY <1>1, <1>2, SeqDef
<1>7. DOMAIN s = 1..n
  BY <1>2
<1> QED BY <1>2, <1>5, <1>6, <1>7 DEF ToSet, IsInjective

\* The list is finite.
LEMMA ListIsFinite ==
    ASSUME rows \in Seq(Peers)
    PROVE  IsFiniteSet(InList)
<1>1. Len(rows) \in Nat /\ DOMAIN rows = 1..Len(rows) /\ IsFiniteSet(1..Len(rows))
  BY LenProperties, FS_Interval
<1>2. rows \in Surjection(1..Len(rows), InList)
  BY <1>1 DEF Surjection, InList, ToSet
<1> QED BY <1>1, <1>2, FS_Surjection

\* With one more peer it is a list of peers again.
LEMMA RowsArePeers ==
    ASSUME rows \in Seq(Peers), NEW p \in Peers, NEW s \in Sorted(InList \cup {p})
    PROVE  s \in Seq(Peers)
<1>1. InList \cup {p} \subseteq Peers
  BY ElementOfSeq, LenProperties DEF InList, ToSet
<1>2. IsFiniteSet(InList \cup {p})
  BY ListIsFinite, FS_AddElement
<1>3. s \in SetToSeqs(InList \cup {p})
  BY DEF Sorted
<1>4. s \in Seq(InList \cup {p})
  BY <1>2, <1>3, Arranged
<1> QED BY <1>1, <1>4, SeqMonotonic

\* Another item becomes current: the viewer takes a step of its own, and
\* displays what the list says.
LEMMA CurrentKeeps ==
    ASSUME ViewInv, NEW c \in Convs, CurrentItemChanged(c)
    PROVE  [Next]_vars /\ DisplayMatchesList'
<1>1. SwitchToUuid(c) /\ current' = c
  BY DEF CurrentItemChanged, Displays
<1>2. stack'[1] = c
  BY <1>1, SwitchKeeps
<1> QED BY <1>1, <1>2 DEF Next, DisplayMatchesList

\* An item that may become current when the first is taken has a uuid.
LEMMA NeighboursHaveUuids ==
    ASSUME rows \in Seq(Peers) PROVE Neighbours \subseteq Convs
<1>1. rows # <<>> => Head(rows) \in Peers
  BY HeadTailProperties
<1> QED BY <1>1, NullAssumption DEF Neighbours, Peers

\* A text changes what the viewer holds and not what it displays.
LEMMA AppendedKeeps ==
    ASSUME ViewInv, NEW c \in Convs, NEW t \in Texts, Appended(c, t)
    PROVE  [Next]_vars /\ stack' = stack
<1>1. CASE c \in Listed
  <2>1. AppendText(c, t)
    BY <1>1 DEF Appended
  <2> QED BY <2>1, AppendKeeps DEF Next
<1>2. CASE c \notin Listed
  BY <1>2 DEF Appended, vars
<1> QED BY <1>1, <1>2

\* Notices are posts.
LEMMA SetItalicsKeeps ==
    ASSUME ListInv, NEW p \in Peers, NEW on \in BOOLEAN, SetItalics(p, on)
    PROVE  outbox' \in Seq(Asked)
<1>1. CASE Restyles(p, on)
  <2>1. Notice(p, IF on THEN "gone" ELSE "back") \in Asked
    BY TextNames DEF Notice, Asked, Posts
  <2> QED BY <1>1, <2>1, AppendProperties DEF SetItalics, ListInv
<1>2. CASE ~Restyles(p, on)
  BY <1>2 DEF SetItalics, ListInv
<1> QED BY <1>1, <1>2

\* What the main thread does keeps the invariant, is a step of the viewer or
\* none, and keeps list and viewer together.
LEMMA WindowKeeps ==
    ASSUME ListInv, ViewInv, DisplayMatchesList, Window
    PROVE  ListInv' /\ [Next]_vars /\ DisplayMatchesList'
<1>1. ASSUME NEW c \in Chats, Select(c) PROVE ListInv' /\ [Next]_vars /\ DisplayMatchesList'
  <2>1. CurrentItemChanged(c)
    BY <1>1 DEF Select
  <2>2. [Next]_vars /\ DisplayMatchesList'
    BY <2>1, CurrentKeeps, GlobalAssumption DEF Chats, Peers
  <2> QED BY <1>1, <2>2 DEF Select, ListInv, InTheMiddle, workerVars
<1>2. ASSUME SendButtonClicked PROVE ListInv' /\ [Next]_vars /\ DisplayMatchesList'
  <2>1. Typed(current) \in Asked
    BY <1>2 DEF SendButtonClicked, Typed, Asked, Posts
  <2>2. outbox' \in Seq(Asked)
    BY <1>2, <2>1, AppendProperties DEF SendButtonClicked, ListInv
  <2> QED BY <1>2, <2>2
          DEF SendButtonClicked, ListInv, InTheMiddle, workerVars, listVars, vars, DisplayMatchesList
<1>3. ASSUME SetItalicsOnItem PROVE ListInv' /\ [Next]_vars /\ DisplayMatchesList'
  <2>1. inbox # <<>> /\ Head(inbox).kind = "gone" /\ SetItalics(Head(inbox).peer, TRUE)
    BY <1>3 DEF SetItalicsOnItem, Signalled
  <2>2. Head(inbox).peer \in Peers /\ inbox' \in Seq(Heard)
    BY <1>3, <2>1, FirstSignal DEF Heard, Signals, SetItalicsOnItem, Handled
  <2>3. outbox' \in Seq(Asked)
    BY <2>1, <2>2, SetItalicsKeeps
  <2> QED BY <1>3, <2>2, <2>3
          DEF SetItalicsOnItem, Signalled, Handled, ListInv, InTheMiddle, workerVars, vars,
              DisplayMatchesList
<1>4. ASSUME UpdateListWidget PROVE ListInv' /\ [Next]_vars /\ DisplayMatchesList'
  <2>1. inbox # <<>> /\ Head(inbox).kind = "authed" /\ inbox' = inbox
    BY <1>4 DEF UpdateListWidget, Signalled
  <2>2. Head(inbox).peer \in Peers
    BY <2>1, FirstSignal, SignalFields
  <2>3. Notice(Head(inbox).peer, "renamed") \in Asked
    BY <2>2, TextNames DEF Notice, Asked, Posts
  <2>4. outbox' \in Seq(Asked)
    BY <1>4, <2>3, AppendProperties DEF UpdateListWidget, ListInv
  <2>5. [Next]_vars /\ DisplayMatchesList'
    <3>1. CASE current = Global
      <4>1. PICK c \in Neighbours : CurrentItemChanged(c)
        BY <1>4, <3>1 DEF UpdateListWidget
      <4> QED BY <4>1, CurrentKeeps, NeighboursHaveUuids DEF ListInv
    <3>2. CASE current # Global
      BY <1>4, <3>2 DEF UpdateListWidget, vars, DisplayMatchesList
    <3> QED BY <3>1, <3>2
  <2> QED BY <1>4, <2>1, <2>4, <2>5 DEF UpdateListWidget, ListInv, InTheMiddle, workerVars
<1>5. ASSUME ListUpdated PROVE ListInv' /\ [Next]_vars /\ DisplayMatchesList'
  <2> DEFINE p == Head(inbox).peer
  <2>1. inbox # <<>> /\ Head(inbox).kind = "authed"
    BY <1>5 DEF ListUpdated, ListInv, InTheMiddle
  <2>2. p \in Peers /\ p \in Convs /\ inbox' \in Seq(Heard)
    BY <1>5, <2>1, FirstSignal, SignalFields DEF ListUpdated, Handled, Peers
  <2>3. /\ outbox' \in Seq(Asked)
        /\ [Next]_vars /\ stack'[1] = stack[1]
    <3>1. CASE p \in InList
      <4>1. SetItalics(p, FALSE) /\ UNCHANGED vars
        BY <1>5, <3>1 DEF ListUpdated
      <4> QED BY <2>2, <4>1, SetItalicsKeeps DEF vars
    <3>2. CASE p \notin InList
      <4>1. NewHistory(p) /\ outbox' = outbox
        BY <1>5, <3>2 DEF ListUpdated
      <4>2. stack'[1] = stack[1]
        BY <2>2, <4>1, NewHistoryKeeps
      <4> QED BY <2>2, <4>1, <4>2 DEF Next, ListInv
    <3> QED BY <3>1, <3>2
  <2>4. rows' \in Seq(Peers)
    <3>1. rows' \in Sorted(InList \cup {p})
      BY <1>5 DEF ListUpdated
    <3> QED BY <2>2, <3>1, RowsArePeers DEF ListInv
  <2> QED BY <1>5, <2>2, <2>3, <2>4
          DEF ListUpdated, Handled, ListInv, InTheMiddle, workerVars, DisplayMatchesList
<1>6. ASSUME UpdateUnchanged PROVE ListInv' /\ [Next]_vars /\ DisplayMatchesList'
  <2>1. inbox # <<>> /\ Head(inbox).kind = "authed" /\ SetItalics(Head(inbox).peer, FALSE)
    BY <1>6 DEF UpdateUnchanged, Signalled
  <2>2. Head(inbox).peer \in Peers /\ inbox' \in Seq(Heard)
    BY <1>6, <2>1, FirstSignal, SignalFields DEF UpdateUnchanged, Handled
  <2>3. outbox' \in Seq(Asked)
    BY <2>1, <2>2, SetItalicsKeeps
  <2> QED BY <1>6, <2>2, <2>3
          DEF UpdateUnchanged, Signalled, Handled, ListInv, InTheMiddle, workerVars, vars,
              DisplayMatchesList
<1>7. ASSUME PrintToTextBrowser PROVE ListInv' /\ [Next]_vars /\ DisplayMatchesList'
  <2> DEFINE m == Head(inbox)
  <2>1. inbox # <<>> /\ m.kind = "text" /\ Appended(m.conv, m.text)
    BY <1>7 DEF PrintToTextBrowser, Signalled
  <2>2. m.conv \in Convs /\ m.text \in Texts /\ inbox' \in Seq(Heard)
    BY <1>7, <2>1, FirstSignal, SignalFields DEF PrintToTextBrowser, Handled
  <2>3. [Next]_vars /\ stack' = stack
    BY <2>1, <2>2, AppendedKeeps
  <2> QED BY <1>7, <2>2, <2>3
          DEF PrintToTextBrowser, Signalled, Handled, ListInv, InTheMiddle, workerVars,
              DisplayMatchesList
<1> QED BY <1>1, <1>2, <1>3, <1>4, <1>5, <1>6, <1>7 DEF Window

-------------------------------------------------------------------------------
\* A step of the window is one of the viewer or leaves the viewer alone.
LEMMA ListStep ==
    ASSUME ListInv, ViewInv, DisplayMatchesList, [ListNext]_allVars
    PROVE  ListInv' /\ [Next]_vars /\ DisplayMatchesList'
<1>1. CASE Worker
  <2>1. ListInv' /\ UNCHANGED <<vars, listVars>>
    BY <1>1, WorkerKeeps
  <2> QED BY <2>1 DEF vars, listVars, DisplayMatchesList
<1>2. CASE Window
  BY <1>2, WindowKeeps
<1>3. CASE UNCHANGED allVars
  BY <1>3 DEF allVars, vars, listVars, workerVars, ListInv, InTheMiddle, DisplayMatchesList
<1> QED BY <1>1, <1>2, <1>3 DEF ListNext

\* The initial state of the window is that of the viewer.
LEMMA ListStart == ListInit => Init /\ ListInv /\ DisplayMatchesList
<1> SUFFICES ASSUME ListInit PROVE Init /\ ListInv /\ DisplayMatchesList
  OBVIOUS
<1>1. IsFiniteSet(known)
  BY FS_EmptySet DEF ListInit
<1>2. NoItem \notin Convs
  BY ItemsAssumption
<1> QED BY <1>1, <1>2, EmptySeq DEF ListInit, ListInv, InTheMiddle, DisplayMatchesList

\* The list drives the viewer only in ways MessageView allows, and what is
\* typed goes to the conversation on display.
THEOREM ListDrivesView ==
    ListSpec => Spec /\ []DisplayMatchesList
<1>1. ListInit => Init /\ ListInv /\ ViewInv /\ DisplayMatchesList
  <2>1. Init => ViewInv
    BY InitialView
  <2> QED BY <2>1, ListStart
<1>2. ListInv /\ ViewInv /\ DisplayMatchesList /\ [ListNext]_allVars
        => [Next]_vars /\ (ListInv /\ ViewInv /\ DisplayMatchesList)'
  BY ListStep, StepKeepsView
<1> QED BY <1>1, <1>2, PTL DEF ListSpec, Spec

\* In the window as in the viewer alone: conversations have one home and the
\* number of widgets keeps within the limit.
THEOREM WindowViewIsSound == ListSpec => []ViewSound
BY ListDrivesView, ViewIsSound, PTL

\* In the window as in the viewer alone: no text is lost, doubled or reordered.
THEOREM WindowKeepsEveryText == ListSpec => KeepsConversations
BY ListDrivesView, KeepsEveryText, PTL

-------------------------------------------------------------------------------
(***************************************************************************)
(* What the list shows and what it marks.                                  *)
(***************************************************************************)
InOrder == \A i, j \in DOMAIN rows : i < j => hostname[rows[i]] <= hostname[rows[j]]

Shown ==
    /\ rows \in Seq(Peers) /\ IsInjective(rows)
    /\ InList = Listed \ {Global, Null} /\ {Global, Null} \subseteq Listed
    /\ ~taken => InOrder
    /\ current \in Convs \cup {NoItem}
    /\ red \subseteq Chats /\ italic \subseteq InList

\* The current conversation has been read to its end.
ReadUp ==
    /\ seen \in [Convs -> Nat]
    /\ \A c \in Convs : seen[c] <= Len(Log(c))
    /\ current \in Convs => seen[current] = Len(Log(current))

\* Steps of the list that leave the items and their order alone.
LEMMA ShownKept ==
    ASSUME Shown, UNCHANGED <<rows, hostname, taken>>, Listed' = Listed,
           current' \in Convs \cup {NoItem},
           red' \subseteq Chats, italic' \subseteq InList
    PROVE  Shown'
BY DEF Shown, InOrder, InList

\* Another item becomes current: its mark goes, and nothing else changes.
LEMMA CurrentMoves ==
    ASSUME ViewInv, NEW c \in Convs, CurrentItemChanged(c)
    PROVE  /\ current' = c /\ red' = red \ {c} /\ Listed' = Listed
           /\ \A d \in Convs : Log(d)' = Log(d)
BY SwitchKeeps, LogKept DEF CurrentItemChanged, Displays, Unmarked

\* What setItalics makes of the style of an item in the list.
LEMMA ItalicsInList ==
    ASSUME Shown, NEW p, NEW on \in BOOLEAN, SetItalics(p, on)
    PROVE  italic' \subseteq InList
BY DEF Shown, SetItalics, Restyles

\* What a step does to the marks: of what is not a text, of a text.
Quiet ==
    /\ red' = red \ {current'}
    /\ \A d \in Convs : Log(d)' = Log(d)

Loud(c, t) ==
    /\ c \in Listed /\ current' = current
    /\ red' = IF t = "said" /\ current # c THEN red \cup {c} ELSE red
    /\ \A d \in Convs : Log(d)' = IF d = c THEN Append(Log(c), t) ELSE Log(d)

\* A step that touches no mark and no text is quiet: the current conversation
\* has none.
LEMMA StillQuiet ==
    ASSUME ViewInv, Shown, ReadUp, MarksAreUnread,
           current' = current, red' = red, \A d \in Convs : Log(d)' = Log(d)
    PROVE  Quiet
<1>1. \A c \in Convs : seen[c] \in Nat /\ Len(Log(c)) \in Nat
  BY LenProperties DEF ReadUp, Log, Restored, ViewInv, TypeOK
<1>2. current \in Convs => (seen[current] + 1)..Len(Log(current)) = {}
  BY <1>1 DEF ReadUp
<1>3. current \in Convs => current \notin red
  BY <1>2 DEF MarksAreUnread
<1>4. Chats \subseteq Convs
  BY GlobalAssumption DEF Chats, Peers
<1> QED BY <1>3, <1>4 DEF Quiet, Shown

\* What the main thread does keeps the list as it should be, and marks what
\* is said where nobody looks.
LEMMA WindowShows ==
    ASSUME ListInv, ViewInv, Shown, ReadUp, MarksAreUnread, Window
    PROVE  Shown' /\ (Quiet \/ \E c \in Convs, t \in Texts : Loud(c, t))
<1>0. ASSUME current' = current, red' = red, \A d \in Convs : Log(d)' = Log(d)
      PROVE  Quiet
  BY <1>0, StillQuiet
<1>v. ASSUME UNCHANGED vars PROVE Listed' = Listed /\ \A d \in Convs : Log(d)' = Log(d)
  BY <1>v DEF vars, Listed, OnStack, Log, Restored
<1>g. Global \in Convs /\ NoItem \notin Convs /\ Null \in Convs
  BY GlobalAssumption, NullAssumption, ItemsAssumption
<1>1. ASSUME NEW c \in Chats, Select(c) PROVE Shown' /\ Quiet
  <2>0. c \in Convs
    BY GlobalAssumption DEF Chats, Peers
  <2>1. CurrentItemChanged(c) /\ UNCHANGED <<rows, hostname, italic, taken>>
    BY <1>1 DEF Select
  <2>2. /\ current' = c /\ red' = red \ {c} /\ Listed' = Listed
        /\ \A d \in Convs : Log(d)' = Log(d)
    BY <2>0, <2>1, CurrentMoves
  <2>3. red' \subseteq Chats /\ italic' \subseteq InList
    BY <2>1, <2>2 DEF Shown
  <2> QED BY <2>0, <2>1, <2>2, <2>3, ShownKept DEF Quiet
<1>2. ASSUME SendButtonClicked PROVE Shown' /\ Quiet
  <2>1. UNCHANGED vars /\ UNCHANGED <<rows, hostname, current, red, italic, taken>>
    BY <1>2 DEF SendButtonClicked, listVars
  <2>2. red' \subseteq Chats /\ italic' \subseteq InList /\ current' \in Convs \cup {NoItem}
    BY <2>1 DEF Shown
  <2> QED BY <1>0, <1>v, <2>1, <2>2, ShownKept
<1>3. ASSUME SetItalicsOnItem \/ UpdateUnchanged PROVE Shown' /\ Quiet
  <2>1. /\ UNCHANGED vars /\ UNCHANGED <<rows, hostname, current, red, taken>>
        /\ \E on \in BOOLEAN : SetItalics(Head(inbox).peer, on)
    BY <1>3 DEF SetItalicsOnItem, UpdateUnchanged
  <2>2. italic' \subseteq InList
    BY <2>1, ItalicsInList
  <2>3. red' \subseteq Chats /\ current' \in Convs \cup {NoItem}
    BY <2>1 DEF Shown
  <2> QED BY <1>0, <1>v, <2>1, <2>2, <2>3, ShownKept
<1>4. ASSUME UpdateListWidget PROVE Shown' /\ Quiet
  <2>1. taken' = TRUE /\ UNCHANGED <<rows, italic>>
    BY <1>4 DEF UpdateListWidget
  <2>2. /\ current' \in Convs \cup {NoItem} /\ red' \subseteq red
        /\ Listed' = Listed /\ Quiet
    <3>1. CASE current = Global
      <4>1. PICK c \in Neighbours : CurrentItemChanged(c)
        BY <1>4, <3>1 DEF UpdateListWidget
      <4>2. c \in Convs
        BY <4>1, NeighboursHaveUuids DEF Shown
      <4> QED BY <4>1, <4>2, CurrentMoves DEF Quiet
    <3>2. CASE current # Global
      <4>1. UNCHANGED <<vars, current, red>>
        BY <1>4, <3>2 DEF UpdateListWidget
      <4> QED BY <1>0, <1>v, <4>1 DEF Shown
    <3> QED BY <3>1, <3>2
  <2> QED BY <2>1, <2>2 DEF Shown, InList
<1>5. ASSUME ListUpdated PROVE Shown' /\ Quiet
  <2> DEFINE p == Head(inbox).peer
  <2>1. p \in Peers /\ p \in Convs
    <3>1. inbox # <<>> /\ Head(inbox).kind = "authed"
      BY <1>5 DEF ListUpdated, ListInv, InTheMiddle
    <3> QED BY <3>1, FirstSignal, SignalFields DEF Peers
  <2>2. taken' = FALSE /\ rows' \in Sorted(InList \cup {p}) /\ UNCHANGED <<hostname, current, red>>
    BY <1>5 DEF ListUpdated
  <2>3. /\ rows' \in Seq(InList \cup {p}) /\ IsInjective(rows') /\ ToSet(rows') = InList \cup {p}
        /\ \A i, j \in DOMAIN rows' : i < j => hostname[rows'[i]] <= hostname[rows'[j]]
    <3>1. IsFiniteSet(InList \cup {p})
      BY ListIsFinite, FS_AddElement DEF Shown
    <3>2. rows' \in SetToSeqs(InList \cup {p})
      BY <2>2 DEF Sorted
    <3> HIDE DEF p
    <3>3. rows' \in Seq(InList \cup {p}) /\ IsInjective(rows') /\ ToSet(rows') = InList \cup {p}
      BY <3>1, <3>2, Arranged
    <3> QED BY <2>2, <3>3 DEF Sorted
  <2>4. InList \subseteq Peers
    BY ElementOfSeq, LenProperties DEF Shown, InList, ToSet
  <2>5. rows' \in Seq(Peers) /\ InList' = InList \cup {p}
    <3>1. InList \cup {p} \subseteq Peers
      BY <2>1, <2>4
    <3>2. rows' \in Seq(Peers)
      BY <2>3, <3>1, SeqMonotonic
    <3> QED BY <2>3, <3>2 DEF InList
  <2>6. /\ Listed' = Listed \cup {p} /\ italic' \subseteq InList
        /\ \A d \in Convs : Log(d)' = Log(d)
    <3>1. CASE p \in InList
      <4>1. SetItalics(p, FALSE) /\ UNCHANGED vars
        BY <1>5, <3>1 DEF ListUpdated
      <4> QED BY <1>v, <3>1, <4>1, ItalicsInList DEF Shown
    <3>2. CASE p \notin InList
      <4>1. NewHistory(p) /\ UNCHANGED italic
        BY <1>5, <3>2 DEF ListUpdated
      <4> QED BY <2>1, <4>1, NewHistoryKeeps, LogKept DEF Shown
    <3> QED BY <3>1, <3>2
  <2>7. InList' = Listed' \ {Global, Null} /\ {Global, Null} \subseteq Listed'
    BY <2>1, <2>5, <2>6 DEF Shown, Peers
  <2>8. Shown'
    BY <2>2, <2>3, <2>5, <2>6, <2>7 DEF Shown, InOrder
  <2> QED BY <1>0, <2>2, <2>6, <2>8
<1>6. ASSUME PrintToTextBrowser
      PROVE  Shown' /\ (Quiet \/ \E c \in Convs, t \in Texts : Loud(c, t))
  <2> DEFINE m == Head(inbox)
  <2>1. /\ inbox # <<>> /\ m.kind = "text" /\ Appended(m.conv, m.text)
        /\ red' = IF m.alert /\ current # m.conv
                  THEN red \cup ({m.conv} \cap (InList \cup {Global}))
                  ELSE red
        /\ UNCHANGED <<rows, hostname, current, italic, taken>>
    BY <1>6 DEF PrintToTextBrowser, Signalled
  <2>2. m.conv \in Chats \cap Convs /\ m.text \in Texts /\ (m.alert <=> m.text = "said")
    <3>1. m \in Heard
      BY <2>1, FirstSignal
    <3> QED BY <2>1, <3>1, SignalFields DEF Heard
  <2>3. CASE m.conv \in Listed
    <3>1. AppendText(m.conv, m.text)
      BY <2>1, <2>3 DEF Appended
    <3>2. Listed' = Listed
      BY <2>2, <3>1, AppendKeeps
    <3>3. m.conv \in InList \cup {Global}
      BY <2>2, <2>3, NullAssumption DEF Shown, Chats, Peers
    <3>4. red' = IF m.text = "said" /\ current # m.conv THEN red \cup {m.conv} ELSE red
      BY <2>1, <2>2, <3>3
    <3>5. Loud(m.conv, m.text)
      BY <2>1, <2>2, <3>1, <3>4, LogGrows DEF Loud
    <3>6. Shown'
      BY <2>1, <2>2, <3>2, <3>4, ShownKept DEF Shown
    <3> QED BY <2>2, <3>5, <3>6
  <2>4. CASE m.conv \notin Listed
    <3>1. UNCHANGED vars
      BY <2>1, <2>4 DEF Appended
    <3>2. m.conv \notin InList \cup {Global}
      BY <2>4 DEF Shown
    <3>3. red' = red
      BY <2>1, <3>2
    <3>4. Shown'
      BY <1>v, <2>1, <3>1, <3>3, ShownKept DEF Shown
    <3> QED BY <1>0, <1>v, <2>1, <3>1, <3>3, <3>4
  <2> QED BY <2>3, <2>4
<1> QED BY <1>1, <1>2, <1>3, <1>4, <1>5, <1>6 DEF Window

\* A mark is as true after a step as before.
LEMMA MarksKept ==
    ASSUME ViewInv, Shown, ReadUp, MarksAreUnread,
           Quiet \/ \E c \in Convs, t \in Texts : Loud(c, t),
           seen' = [c \in Convs |-> IF current' = c THEN Len(Log(c)') ELSE seen[c]]
    PROVE  ReadUp' /\ MarksAreUnread'
<1>1. \A c \in Convs : Log(c) \in Seq(Texts) /\ Len(Log(c)) \in Nat /\ seen[c] \in Nat
  BY LenProperties, EmptySeq DEF ReadUp, Log, Restored, ViewInv, TypeOK
<1>2. CASE Quiet
  <2>1. \A c \in Convs : /\ Log(c)' = Log(c)
                         /\ seen'[c] = IF current' = c THEN Len(Log(c)) ELSE seen[c]
    BY <1>2 DEF Quiet
  <2>2. ReadUp'
    BY <1>1, <2>1 DEF ReadUp
  <2>3. ASSUME NEW c \in Convs
        PROVE  c \in red' <=> \E i \in (seen'[c] + 1)..Len(Log(c)') : Log(c)'[i] = "said"
    <3>1. CASE current' = c
      <4>1. (seen'[c] + 1)..Len(Log(c)') = {}
        BY <1>1, <2>1, <3>1
      <4> QED BY <1>2, <3>1, <4>1 DEF Quiet
    <3>2. CASE current' # c
      BY <1>2, <2>1, <3>2 DEF Quiet, MarksAreUnread
    <3> QED BY <3>1, <3>2
  <2> QED BY <2>2, <2>3 DEF MarksAreUnread
<1>3. ASSUME NEW m \in Convs, NEW t \in Texts, Loud(m, t)
      PROVE  ReadUp' /\ MarksAreUnread'
  <2>1. \A c \in Convs : /\ Log(c)' = IF c = m THEN Append(Log(m), t) ELSE Log(c)
                         /\ seen'[c] = IF current = c THEN Len(Log(c)') ELSE seen[c]
    BY <1>3 DEF Loud
  <2>2. /\ Append(Log(m), t) \in Seq(Texts) /\ Len(Append(Log(m), t)) = Len(Log(m)) + 1
        /\ \A i \in 1..Len(Log(m)) : Append(Log(m), t)[i] = Log(m)[i]
        /\ Append(Log(m), t)[Len(Log(m)) + 1] = t
    BY <1>1, AppendProperties
  <2>3. \A c \in Convs : Len(Log(c)') \in Nat /\ Len(Log(c)) <= Len(Log(c)')
    BY <1>1, <2>1, <2>2
  <2>4. ReadUp'
    BY <1>1, <1>3, <2>1, <2>3 DEF ReadUp, Loud
  <2>5. ASSUME NEW c \in Convs
        PROVE  c \in red' <=> \E i \in (seen'[c] + 1)..Len(Log(c)') : Log(c)'[i] = "said"
    <3>1. CASE current = c
      <4>1. (seen'[c] + 1)..Len(Log(c)') = {}
        BY <2>1, <2>3, <3>1
      <4>2. c \notin red
        <5>1. (seen[c] + 1)..Len(Log(c)) = {}
          BY <1>1, <3>1 DEF ReadUp
        <5> QED BY <5>1 DEF MarksAreUnread
      <4> QED BY <1>3, <3>1, <4>1, <4>2 DEF Loud
    <3>2. CASE current # c /\ c # m
      BY <1>3, <2>1, <3>2 DEF Loud, MarksAreUnread
    <3>3. CASE current # c /\ c = m
      <4>1. /\ seen'[c] = seen[c] /\ seen[c] <= Len(Log(m)) /\ Len(Log(c)') = Len(Log(m)) + 1
            /\ Log(c)'[Len(Log(m)) + 1] = t
            /\ \A i \in 1..Len(Log(m)) : Log(c)'[i] = Log(m)[i]
        BY <2>1, <2>2, <3>3 DEF ReadUp
      <4>2. CASE t = "said"
        <5>1. Len(Log(m)) + 1 \in (seen'[c] + 1)..Len(Log(c)')
          BY <1>1, <4>1
        <5> QED BY <1>3, <3>3, <4>1, <4>2, <5>1 DEF Loud
      <4>3. CASE t # "said"
        <5>1. c \in red' <=> \E i \in (seen[c] + 1)..Len(Log(m)) : Log(m)[i] = "said"
          BY <1>3, <3>3, <4>3 DEF Loud, MarksAreUnread
        <5>2. \A i \in (seen[c] + 1)..(Len(Log(m)) + 1) :
                 Log(c)'[i] = "said" <=> i \in (seen[c] + 1)..Len(Log(m)) /\ Log(m)[i] = "said"
          BY <1>1, <4>1, <4>3
        <5> QED BY <1>1, <4>1, <5>1, <5>2
      <4> QED BY <4>2, <4>3
    <3> QED BY <3>1, <3>2, <3>3
  <2> QED BY <2>4, <2>5 DEF MarksAreUnread
<1> QED BY <1>2, <1>3

AllInv == ListInv /\ ViewInv /\ DisplayMatchesList /\ Shown /\ ReadUp /\ MarksAreUnread

\* The inductive invariant of the window.
LEMMA WindowInvariant == ListSpec => []AllInv
<1>1. ListInit => AllInv
  <2> SUFFICES ASSUME ListInit PROVE AllInv
    OBVIOUS
  <2>1. ListInv /\ ViewInv /\ DisplayMatchesList
    BY ListStart, InitialView
  <2>2. /\ Global # Label /\ Label \notin Convs /\ Global \in Convs
        /\ NoItem \notin Convs
    BY GlobalAssumption, LabelAssumption, ItemsAssumption
  <2>3. Listed = {Global, Null}
    <3>1. ToSet(stack) = {Label, Global} /\ history = {}
      BY DEF ListInit, Init, ToSet
    <3> QED BY <2>2, <3>1 DEF Listed, OnStack
  <2>4. rows \in Seq(Peers) /\ IsInjective(rows) /\ InList = {} /\ InOrder
    BY DEF ListInit, InList, ToSet, IsInjective, InOrder
  <2>5. Shown
    BY <2>3, <2>4 DEF Shown, ListInit
  <2>6. \A c \in Convs : Log(c) = <<>> /\ Len(Log(c)) = 0 /\ seen[c] = 0
    BY DEF ListInit, Init, Log, Restored
  <2>7. ReadUp
    BY <2>2, <2>6 DEF ReadUp, ListInit
  <2>8. MarksAreUnread
    BY <2>6 DEF MarksAreUnread, ListInit
  <2> QED BY <2>1, <2>5, <2>7, <2>8 DEF AllInv
<1>2. AllInv /\ [ListNext]_allVars => AllInv'
  <2> SUFFICES ASSUME AllInv, [ListNext]_allVars PROVE AllInv'
    OBVIOUS
  <2>1. ListInv' /\ ViewInv' /\ DisplayMatchesList'
    BY ListStep, StepKeepsView DEF AllInv
  <2>2. CASE UNCHANGED allVars
    <3>1. Shown'
      BY <2>2 DEF AllInv, Shown, InOrder, InList, allVars, vars, listVars, Listed, OnStack
    <3>2. \A c \in Convs : Log(c)' = Log(c)
      BY <2>2 DEF allVars, vars, Log, Restored, OnStack
    <3>3. ReadUp' /\ MarksAreUnread'
      BY <2>2, <3>2 DEF AllInv, ReadUp, MarksAreUnread, allVars, listVars
    <3> QED BY <2>1, <3>1, <3>3 DEF AllInv
  <2>3. CASE ListNext
    <3>1. Shown' /\ (Quiet \/ \E c \in Convs, t \in Texts : Loud(c, t))
      <4>1. CASE Worker
        <5>1. UNCHANGED vars /\ UNCHANGED listVars
          BY <4>1, WorkerKeeps DEF AllInv
        <5>2. Shown'
          BY <5>1 DEF AllInv, Shown, InOrder, InList, vars, listVars, Listed, OnStack
        <5>3. \A c \in Convs : Log(c)' = Log(c)
          BY <5>1 DEF vars, Log, Restored, OnStack
        <5>4. current' = current /\ red' = red
          BY <5>1 DEF listVars
        <5> QED BY <5>2, <5>3, <5>4, StillQuiet DEF AllInv
      <4>2. CASE Window
        BY <4>2, WindowShows DEF AllInv
      <4> QED BY <2>3, <4>1, <4>2 DEF ListNext
    <3>2. ReadUp' /\ MarksAreUnread'
      BY <2>3, <3>1, MarksKept DEF AllInv, ListNext
    <3> QED BY <2>1, <3>1, <3>2 DEF AllInv
  <2> QED BY <2>2, <2>3
<1> QED BY <1>1, <1>2, PTL DEF ListSpec

\* The items are the listed peers in the order of their names, also after the
\* global chat was out of the list (updateListWidget).
THEOREM ListIsSound == ListSpec => []ListSound
<1>1. AllInv => ListSound
  <2> SUFFICES ASSUME AllInv PROVE ListSound
    OBVIOUS
  <2>1. Heard \subseteq Signals /\ Asked \subseteq Posts
    BY DEF Heard, Asked
  <2>2. inbox \in Seq(Signals) /\ outbox \in Seq(Posts)
    BY <2>1, SeqMonotonic DEF AllInv, ListInv
  <2> QED BY <2>2 DEF AllInv, Shown, InOrder, ListSound
<1> QED BY <1>1, WindowInvariant, PTL

\* A conversation is red exactly when it has been spoken in since it was last
\* current, also when the list makes another item current by itself
\* (currentItemChanged, printToTextBrowser, updateListWidget).
THEOREM MarksAreTrue == ListSpec => []MarksAreUnread
<1>1. AllInv => MarksAreUnread
  BY DEF AllInv
<1> QED BY <1>1, WindowInvariant, PTL

-------------------------------------------------------------------------------
(***************************************************************************)
(* The notices.  What a conversation has and what is on the way to it make *)
(* one sequence; each step of the notices through the queues leaves the    *)
(* turns they come by as they are.                                         *)
(***************************************************************************)
\* What s says by turns ends with whether the peer is gone.
Truth(s, gone) == ByTurns(s) /\ (gone <=> SaidGone(s, Len(s)))

\* Two texts that are the same, or neither of which is such a notice.
Alike(x, y) == x \in StatusTexts \/ y \in StatusTexts => x = y

Said == Texts \cup {"nothing"}

\* Whatever else is said, and wherever, changes nothing: s has m more texts
\* than r behind the first a, none of them a notice that p went or came back.
LEMMA SaidBetween ==
    ASSUME NEW s \in Seq(Said), NEW r \in Seq(Said), NEW a \in Nat, NEW m \in Nat,
           Len(s) = Len(r) + m, a <= Len(r),
           \A i \in 1..a : Alike(s[i], r[i]),
           \A i \in (a + 1)..Len(r) : Alike(s[i + m], r[i]),
           \A i \in (a + 1)..(a + m) : s[i] \notin StatusTexts,
           NEW gone
    PROVE  Truth(s, gone) <=> Truth(r, gone)
<1>1. /\ Len(r) \in Nat /\ DOMAIN r = 1..Len(r) /\ DOMAIN s = 1..(Len(r) + m)
      /\ "gone" \in StatusTexts /\ "back" \in StatusTexts
  BY LenProperties DEF StatusTexts
<1>2. /\ \A i \in 1..a : /\ s[i] \in StatusTexts <=> r[i] \in StatusTexts
                         /\ s[i] = "gone" <=> r[i] = "gone"
                         /\ s[i] = "back" <=> r[i] = "back"
      /\ \A i \in (a + 1)..Len(r) : /\ s[i + m] \in StatusTexts <=> r[i] \in StatusTexts
                                    /\ s[i + m] = "gone" <=> r[i] = "gone"
                                    /\ s[i + m] = "back" <=> r[i] = "back"
      /\ \A i \in (a + 1)..(a + m) : s[i] \notin StatusTexts /\ s[i] # "gone"
  BY <1>1 DEF Alike
<1>3. \A n \in 0..a : SaidGone(s, n) <=> SaidGone(r, n)
  <2> SUFFICES ASSUME NEW n \in 0..a PROVE SaidGone(s, n) <=> SaidGone(r, n)
    OBVIOUS
  <2>1. \A i \in 1..n : /\ s[i] = "gone" <=> r[i] = "gone"
                        /\ s[i] \in StatusTexts <=> r[i] \in StatusTexts
    BY <1>2
  <2>2. \A i \in 1..n : \A j \in (i + 1)..n : j \in 1..n
    OBVIOUS
  <2> QED BY <2>1, <2>2 DEF SaidGone
<1>4. ASSUME NEW n \in a..Len(r) PROVE SaidGone(s, n + m) <=> SaidGone(r, n)
  <2>1. ASSUME NEW i \in 1..n, r[i] = "gone", \A j \in (i + 1)..n : r[j] \notin StatusTexts
        PROVE  SaidGone(s, n + m)
    <3>1. CASE i <= a
      <4>1. s[i] = "gone" /\ i \in 1..(n + m)
        BY <1>1, <1>2, <2>1, <3>1
      <4>2. ASSUME NEW j \in (i + 1)..(n + m) PROVE s[j] \notin StatusTexts
        <5>1. CASE j <= a
          BY <1>1, <1>2, <2>1, <5>1
        <5>2. CASE j > a /\ j <= a + m
          BY <1>2, <5>2
        <5>3. CASE j > a + m
          <6>1. j - m \in (a + 1)..Len(r) /\ j - m \in (i + 1)..n /\ (j - m) + m = j
            BY <1>1, <3>1, <5>3
          <6> QED BY <1>2, <2>1, <6>1
        <5> QED BY <5>1, <5>2, <5>3
      <4> QED BY <4>1, <4>2 DEF SaidGone
    <3>2. CASE i > a
      <4>1. s[i + m] = "gone" /\ i + m \in 1..(n + m)
        BY <1>1, <1>2, <2>1, <3>2
      <4>2. ASSUME NEW j \in (i + m + 1)..(n + m) PROVE s[j] \notin StatusTexts
        <5>1. j - m \in (a + 1)..Len(r) /\ j - m \in (i + 1)..n /\ (j - m) + m = j
          BY <1>1, <3>2
        <5> QED BY <1>2, <2>1, <5>1
      <4> QED BY <4>1, <4>2 DEF SaidGone
    <3> QED BY <3>1, <3>2
  <2>2. ASSUME NEW i \in 1..(n + m), s[i] = "gone", \A j \in (i + 1)..(n + m) : s[j] \notin StatusTexts
        PROVE  SaidGone(r, n)
    <3>1. CASE i <= a
      <4>1. r[i] = "gone" /\ i \in 1..n
        BY <1>1, <1>2, <2>2, <3>1
      <4>2. ASSUME NEW j \in (i + 1)..n PROVE r[j] \notin StatusTexts
        <5>1. CASE j <= a
          BY <1>1, <1>2, <2>2, <5>1
        <5>2. CASE j > a
          <6>1. j + m \in (i + 1)..(n + m)
            BY <1>1, <5>2
          <6> QED BY <1>1, <1>2, <2>2, <5>2, <6>1
        <5> QED BY <5>1, <5>2
      <4> QED BY <4>1, <4>2 DEF SaidGone
    <3>2. CASE i > a
      <4>1. i > a + m
        BY <1>2, <2>2, <3>2
      <4>2. i - m \in (a + 1)..Len(r) /\ i - m \in 1..n /\ (i - m) + m = i
        BY <1>1, <4>1
      <4>3. r[i - m] = "gone"
        BY <1>2, <2>2, <4>2
      <4>4. ASSUME NEW j \in ((i - m) + 1)..n PROVE r[j] \notin StatusTexts
        <5>1. j \in (a + 1)..Len(r) /\ j + m \in (i + 1)..(n + m)
          BY <1>1, <4>2
        <5> QED BY <1>2, <2>2, <5>1
      <4> QED BY <4>2, <4>3, <4>4 DEF SaidGone
    <3> QED BY <3>1, <3>2
  <2> QED BY <2>1, <2>2 DEF SaidGone
<1>5. ByTurns(s) => ByTurns(r)
  <2> SUFFICES ASSUME ByTurns(s), NEW n \in 1..Len(r), r[n] \in StatusTexts
               PROVE  r[n] = "back" <=> SaidGone(r, n - 1)
    BY <1>1 DEF ByTurns
  <2>1. CASE n <= a
    <3>1. n - 1 \in 0..a /\ n \in DOMAIN s
      BY <1>1, <2>1
    <3> QED BY <1>2, <1>3, <2>1, <3>1 DEF ByTurns
  <2>2. CASE n > a
    <3>1. n - 1 \in a..Len(r) /\ n + m \in DOMAIN s /\ (n + m) - 1 = (n - 1) + m
      BY <1>1, <2>2
    <3> QED BY <1>2, <1>4, <2>2, <3>1 DEF ByTurns
  <2> QED BY <2>1, <2>2
<1>6. ByTurns(r) => ByTurns(s)
  <2> SUFFICES ASSUME ByTurns(r), NEW n \in 1..(Len(r) + m), s[n] \in StatusTexts
               PROVE  s[n] = "back" <=> SaidGone(s, n - 1)
    BY <1>1 DEF ByTurns
  <2>1. CASE n <= a
    <3>1. n - 1 \in 0..a /\ n \in DOMAIN r
      BY <1>1, <2>1
    <3> QED BY <1>2, <1>3, <2>1, <3>1 DEF ByTurns
  <2>2. CASE n > a
    <3>1. n > a + m
      BY <1>2, <2>2
    <3>2. n - m \in (a + 1)..Len(r) /\ (n - m) - 1 \in a..Len(r) /\ n - m \in DOMAIN r
          /\ n - 1 = ((n - m) - 1) + m /\ (n - m) + m = n
      BY <1>1, <3>1
    <3> QED BY <1>2, <1>4, <3>2 DEF ByTurns
  <2> QED BY <2>1, <2>2
<1>7. SaidGone(s, Len(s)) <=> SaidGone(r, Len(r))
  BY <1>1, <1>4
<1> QED BY <1>5, <1>6, <1>7 DEF Truth

\* The other notice behind it all turns the tide.
LEMMA Turned ==
    ASSUME NEW s \in Seq(Said), NEW gone \in BOOLEAN, Truth(s, gone)
    PROVE  Truth(Append(s, IF gone THEN "back" ELSE "gone"), ~gone)
<1> DEFINE x == IF gone THEN "back" ELSE "gone"
           r == Append(s, x)
<1>1. /\ Len(s) \in Nat /\ DOMAIN s = 1..Len(s) /\ DOMAIN r = 1..(Len(s) + 1)
      /\ Len(r) = Len(s) + 1 /\ r[Len(s) + 1] = x /\ x \in StatusTexts
      /\ \A i \in 1..Len(s) : r[i] = s[i]
  <2>1. x \in {"gone", "back"}
    OBVIOUS
  <2>2. s \in Seq(Said \cup {x})
    BY SeqMonotonic
  <2> HIDE DEF x
  <2> QED BY <2>1, <2>2, AppendProperties, LenProperties DEF StatusTexts
<1> HIDE DEF r
<1>2. \A n \in 0..Len(s) : SaidGone(r, n) <=> SaidGone(s, n)
  BY <1>1 DEF SaidGone
<1>3. SaidGone(r, Len(s) + 1) <=> x = "gone"
  BY <1>1 DEF SaidGone
<1>4. ByTurns(r)
  <2> SUFFICES ASSUME NEW n \in 1..(Len(s) + 1), r[n] \in StatusTexts
               PROVE  r[n] = "back" <=> SaidGone(r, n - 1)
    BY <1>1 DEF ByTurns
  <2>1. CASE n <= Len(s)
    <3>1. n - 1 \in 0..Len(s) /\ n \in 1..Len(s)
      BY <1>1, <2>1
    <3> QED BY <1>1, <1>2, <3>1 DEF Truth, ByTurns
  <2>2. CASE n = Len(s) + 1
    BY <1>1, <1>2, <2>2 DEF Truth
  <2> QED BY <1>1, <2>1, <2>2
<1> QED BY <1>1, <1>3, <1>4 DEF Truth, r

\* Where the texts of three sequences are, one behind the other.
LEMMA InThree ==
    ASSUME NEW a \in Seq(Said), NEW b \in Seq(Said), NEW c \in Seq(Said)
    PROVE  /\ a \o b \o c \in Seq(Said)
           /\ Len(a) \in Nat /\ Len(b) \in Nat /\ Len(c) \in Nat
           /\ Len(a \o b \o c) = Len(a) + Len(b) + Len(c)
           /\ \A i \in 1..Len(a) : (a \o b \o c)[i] = a[i]
           /\ \A i \in (Len(a) + 1)..(Len(a) + Len(b)) : (a \o b \o c)[i] = b[i - Len(a)]
           /\ \A i \in (Len(a) + Len(b) + 1)..(Len(a) + Len(b) + Len(c)) :
                (a \o b \o c)[i] = c[i - (Len(a) + Len(b))]
<1>1. /\ Len(a) \in Nat /\ Len(b) \in Nat /\ Len(c) \in Nat
      /\ a \o b \in Seq(Said) /\ Len(a \o b) = Len(a) + Len(b)
      /\ \A i \in 1..(Len(a) + Len(b)) :
           (a \o b)[i] = IF i <= Len(a) THEN a[i] ELSE b[i - Len(a)]
  BY ConcatProperties, LenProperties
<1> DEFINE ab == a \o b
<1>2. /\ ab \o c \in Seq(Said) /\ Len(ab \o c) = Len(ab) + Len(c)
      /\ \A i \in 1..(Len(ab) + Len(c)) :
           (ab \o c)[i] = IF i <= Len(ab) THEN ab[i] ELSE c[i - Len(ab)]
  BY <1>1, ConcatProperties, LenProperties
<1> QED BY <1>1, <1>2

\* More is put behind the second of them, and it is no notice.
LEMMA MoreToCome ==
    ASSUME NEW a \in Seq(Said), NEW b \in Seq(Said), NEW c \in Seq(Said), NEW d \in Seq(Said),
           \A i \in 1..Len(d) : d[i] \notin StatusTexts, NEW gone
    PROVE  Truth(a \o (b \o d) \o c, gone) <=> Truth(a \o b \o c, gone)
<1> DEFINE bd == b \o d
           s == a \o bd \o c
           r == a \o b \o c
           k == Len(a) + Len(b)
<1>1. /\ bd \in Seq(Said) /\ Len(bd) = Len(b) + Len(d) /\ Len(d) \in Nat
      /\ \A i \in 1..(Len(b) + Len(d)) : bd[i] = IF i <= Len(b) THEN b[i] ELSE d[i - Len(b)]
  BY ConcatProperties, LenProperties
<1>0. bd \in Seq(Said)
  BY <1>1
<1> HIDE DEF bd
<1>2. /\ r \in Seq(Said) /\ Len(a) \in Nat /\ Len(b) \in Nat /\ Len(c) \in Nat
      /\ Len(r) = Len(a) + Len(b) + Len(c)
      /\ \A i \in 1..Len(a) : r[i] = a[i]
      /\ \A i \in (Len(a) + 1)..(Len(a) + Len(b)) : r[i] = b[i - Len(a)]
      /\ \A i \in (Len(a) + Len(b) + 1)..(Len(a) + Len(b) + Len(c)) :
           r[i] = c[i - (Len(a) + Len(b))]
  BY InThree
<1>3. /\ s \in Seq(Said) /\ Len(s) = Len(a) + Len(bd) + Len(c)
      /\ \A i \in 1..Len(a) : s[i] = a[i]
      /\ \A i \in (Len(a) + 1)..(Len(a) + Len(bd)) : s[i] = bd[i - Len(a)]
      /\ \A i \in (Len(a) + Len(bd) + 1)..(Len(a) + Len(bd) + Len(c)) :
           s[i] = c[i - (Len(a) + Len(bd))]
  BY <1>0, InThree
<1> HIDE DEF s, r
<1>4. /\ k \in Nat /\ Len(s) = Len(r) + Len(d) /\ k <= Len(r)
      /\ \A i \in 1..k : s[i] = r[i]
      /\ \A i \in (k + 1)..Len(r) : s[i + Len(d)] = r[i]
      /\ \A i \in (k + 1)..(k + Len(d)) : s[i] = d[i - k]
  <2>1. k \in Nat /\ Len(s) = Len(r) + Len(d) /\ k <= Len(r)
    BY <1>1, <1>2, <1>3
  <2>2. ASSUME NEW i \in 1..k PROVE s[i] = r[i]
    <3>1. CASE i <= Len(a)
      BY <1>2, <1>3, <3>1
    <3>2. CASE i > Len(a)
      <4>1. /\ i \in (Len(a) + 1)..(Len(a) + Len(b)) /\ i \in (Len(a) + 1)..(Len(a) + Len(bd))
            /\ i - Len(a) \in 1..(Len(b) + Len(d)) /\ i - Len(a) <= Len(b)
        BY <1>1, <1>2, <3>2
      <4> QED BY <1>1, <1>2, <1>3, <4>1
    <3> QED BY <1>2, <3>1, <3>2
  <2>3. ASSUME NEW i \in (k + 1)..Len(r) PROVE s[i + Len(d)] = r[i]
    <3>1. /\ i + Len(d) \in (Len(a) + Len(bd) + 1)..(Len(a) + Len(bd) + Len(c))
          /\ i + Len(d) - (Len(a) + Len(bd)) = i - (Len(a) + Len(b))
          /\ i \in (Len(a) + Len(b) + 1)..(Len(a) + Len(b) + Len(c))
      BY <1>1, <1>2
    <3>2. s[i + Len(d)] = c[i + Len(d) - (Len(a) + Len(bd))]
      BY <1>3, <3>1
    <3>3. r[i] = c[i - (Len(a) + Len(b))]
      BY <1>2, <3>1
    <3> QED BY <3>1, <3>2, <3>3
  <2>4. ASSUME NEW i \in (k + 1)..(k + Len(d)) PROVE s[i] = d[i - k]
    <3>1. /\ i \in (Len(a) + 1)..(Len(a) + Len(bd)) /\ i - Len(a) \in 1..(Len(b) + Len(d))
          /\ ~(i - Len(a) <= Len(b)) /\ (i - Len(a)) - Len(b) = i - k
      BY <1>1, <1>2
    <3> QED BY <1>1, <1>3, <3>1
  <2> QED BY <2>1, <2>2, <2>3, <2>4
<1>5. \A i \in (k + 1)..(k + Len(d)) : s[i] \notin StatusTexts
  <2> SUFFICES ASSUME NEW i \in (k + 1)..(k + Len(d)) PROVE s[i] \notin StatusTexts
    OBVIOUS
  <2>1. i - k \in 1..Len(d)
    BY <1>1, <1>4
  <2> QED BY <1>4, <2>1
<1> HIDE DEF k
<1>6. /\ s \in Seq(Said) /\ r \in Seq(Said) /\ Len(d) \in Nat
      /\ \A i \in 1..k : Alike(s[i], r[i])
      /\ \A i \in (k + 1)..Len(r) : Alike(s[i + Len(d)], r[i])
  BY <1>1, <1>2, <1>3, <1>4 DEF Alike
<1>7. Truth(s, gone) <=> Truth(r, gone)
  BY <1>4, <1>5, <1>6, SaidBetween
<1> QED BY <1>7 DEF s, r, bd

\* The first of the second is handled, and it is no notice.
LEMMA Dropped ==
    ASSUME NEW a \in Seq(Said), NEW b \in Seq(Said), NEW c \in Seq(Said),
           b # <<>>, Head(b) \notin StatusTexts, NEW gone
    PROVE  Truth(a \o Tail(b) \o c, gone) <=> Truth(a \o b \o c, gone)
<1> DEFINE t == Tail(b)
           s == a \o b \o c
           r == a \o t \o c
           k == Len(a)
<1>1. /\ t \in Seq(Said) /\ Len(b) \in Nat \ {0} /\ Len(t) = Len(b) - 1 /\ Head(b) = b[1]
      /\ \A i \in 1..(Len(b) - 1) : t[i] = b[i + 1]
  BY HeadTailProperties, LenProperties, EmptySeq
<1>0. t \in Seq(Said)
  BY <1>1
<1> HIDE DEF t
<1>2. /\ s \in Seq(Said) /\ Len(a) \in Nat /\ Len(c) \in Nat
      /\ Len(s) = Len(a) + Len(b) + Len(c)
      /\ \A i \in 1..Len(a) : s[i] = a[i]
      /\ \A i \in (Len(a) + 1)..(Len(a) + Len(b)) : s[i] = b[i - Len(a)]
      /\ \A i \in (Len(a) + Len(b) + 1)..(Len(a) + Len(b) + Len(c)) :
           s[i] = c[i - (Len(a) + Len(b))]
  BY InThree
<1>3. /\ r \in Seq(Said) /\ Len(r) = Len(a) + Len(t) + Len(c)
      /\ \A i \in 1..Len(a) : r[i] = a[i]
      /\ \A i \in (Len(a) + 1)..(Len(a) + Len(t)) : r[i] = t[i - Len(a)]
      /\ \A i \in (Len(a) + Len(t) + 1)..(Len(a) + Len(t) + Len(c)) :
           r[i] = c[i - (Len(a) + Len(t))]
  BY <1>0, InThree
<1> HIDE DEF s, r
<1>4. Len(s) = Len(r) + 1 /\ k \in Nat /\ k <= Len(r) /\ \A i \in 1..k : s[i] = r[i]
  BY <1>1, <1>2, <1>3
<1>5. ASSUME NEW i \in (k + 1)..Len(r) PROVE s[i + 1] = r[i]
  <2>1. CASE i <= Len(a) + Len(t)
    <3>1. /\ i \in (Len(a) + 1)..(Len(a) + Len(t)) /\ i + 1 \in (Len(a) + 1)..(Len(a) + Len(b))
          /\ i - Len(a) \in 1..(Len(b) - 1) /\ (i - Len(a)) + 1 = i + 1 - Len(a)
      BY <1>1, <1>2, <2>1
    <3>2. s[i + 1] = b[i + 1 - Len(a)] /\ r[i] = t[i - Len(a)]
      BY <1>2, <1>3, <3>1
    <3>3. t[i - Len(a)] = b[(i - Len(a)) + 1]
      BY <1>1, <3>1
    <3> QED BY <3>1, <3>2, <3>3
  <2>2. CASE i > Len(a) + Len(t)
    <3>1. /\ i \in (Len(a) + Len(t) + 1)..(Len(a) + Len(t) + Len(c))
          /\ i + 1 \in (Len(a) + Len(b) + 1)..(Len(a) + Len(b) + Len(c))
          /\ i + 1 - (Len(a) + Len(b)) = i - (Len(a) + Len(t))
      BY <1>1, <1>2, <1>3, <2>2
    <3>2. s[i + 1] = c[i + 1 - (Len(a) + Len(b))]
      BY <1>2, <3>1
    <3>3. r[i] = c[i - (Len(a) + Len(t))]
      BY <1>3, <3>1
    <3> QED BY <3>1, <3>2, <3>3
  <2> QED BY <1>1, <1>2, <1>3, <2>1, <2>2
<1>6. \A i \in (k + 1)..(k + 1) : s[i] \notin StatusTexts
  <2>1. k + 1 \in (Len(a) + 1)..(Len(a) + Len(b)) /\ k + 1 - Len(a) = 1
    BY <1>1, <1>2
  <2>2. s[k + 1] = b[1]
    BY <1>2, <2>1
  <2> QED BY <1>1, <1>4, <2>2
<1> HIDE DEF k
<1>7. /\ s \in Seq(Said) /\ r \in Seq(Said) /\ 1 \in Nat
      /\ \A i \in 1..k : Alike(s[i], r[i])
      /\ \A i \in (k + 1)..Len(r) : Alike(s[i + 1], r[i])
  BY <1>2, <1>3, <1>4, <1>5 DEF Alike
<1>8. Truth(s, gone) <=> Truth(r, gone)
  BY <1>4, <1>6, <1>7, SaidBetween
<1> QED BY <1>8 DEF s, r, t

\* The first of what is behind is moved to the end of what is before it, as it
\* is or as another text that is no notice.
LEMMA Moved ==
    ASSUME NEW a \in Seq(Said), NEW b \in Seq(Said), b # <<>>, NEW x \in Said, Alike(x, Head(b))
    PROVE  /\ Append(a, x) \o Tail(b) \in Seq(Said) /\ a \o b \in Seq(Said)
           /\ Len(Append(a, x) \o Tail(b)) = Len(a \o b)
           /\ \A i \in 1..Len(a \o b) : Alike((Append(a, x) \o Tail(b))[i], (a \o b)[i])
<1> DEFINE t == Tail(b)
           ax == Append(a, x)
<1>1. /\ t \in Seq(Said) /\ Len(b) \in Nat \ {0} /\ Len(t) = Len(b) - 1 /\ Head(b) = b[1]
      /\ \A i \in 1..(Len(b) - 1) : t[i] = b[i + 1]
  BY HeadTailProperties, LenProperties, EmptySeq
<1>2. /\ ax \in Seq(Said) /\ Len(a) \in Nat /\ Len(ax) = Len(a) + 1
      /\ ax[Len(a) + 1] = x /\ \A i \in 1..Len(a) : ax[i] = a[i]
  BY AppendProperties, LenProperties
<1> HIDE DEF t, ax
<1>3. /\ a \o b \in Seq(Said) /\ Len(a \o b) = Len(a) + Len(b)
      /\ \A i \in 1..(Len(a) + Len(b)) : (a \o b)[i] = IF i <= Len(a) THEN a[i] ELSE b[i - Len(a)]
  BY ConcatProperties
<1>4. /\ ax \o t \in Seq(Said) /\ Len(ax \o t) = Len(ax) + Len(t)
      /\ \A i \in 1..(Len(ax) + Len(t)) : (ax \o t)[i] = IF i <= Len(ax) THEN ax[i] ELSE t[i - Len(ax)]
  BY <1>1, <1>2, ConcatProperties
<1>5. ASSUME NEW i \in 1..Len(a \o b) PROVE Alike((ax \o t)[i], (a \o b)[i])
  <2>1. CASE i <= Len(a)
    BY <1>1, <1>2, <1>3, <1>4, <2>1 DEF Alike
  <2>2. CASE i = Len(a) + 1
    BY <1>1, <1>2, <1>3, <1>4, <2>2
  <2>3. CASE i > Len(a) + 1
    <3>1. /\ i - Len(ax) \in 1..(Len(b) - 1) /\ (i - Len(ax)) + 1 = i - Len(a)
          /\ i \in 1..(Len(a) + Len(b)) /\ i \in 1..(Len(ax) + Len(t))
          /\ ~(i <= Len(a)) /\ ~(i <= Len(ax))
      BY <1>1, <1>2, <1>3, <2>3
    <3>2. (ax \o t)[i] = t[i - Len(ax)]
      BY <1>4, <3>1
    <3>3. (a \o b)[i] = b[i - Len(a)]
      BY <1>3, <3>1
    <3>4. t[i - Len(ax)] = b[(i - Len(ax)) + 1]
      BY <1>1, <3>1
    <3> QED BY <3>1, <3>2, <3>3, <3>4 DEF Alike
  <2>4. i <= Len(a) \/ i = Len(a) + 1 \/ i > Len(a) + 1
    BY <1>1, <1>2, <1>3
  <2> QED BY <2>1, <2>2, <2>3, <2>4
<1> QED BY <1>1, <1>2, <1>3, <1>4, <1>5 DEF t, ax

\* Two sequences that are alike are as true.
LEMMA AlikeTruth ==
    ASSUME NEW s \in Seq(Said), NEW r \in Seq(Said), Len(s) = Len(r),
           \A i \in 1..Len(r) : Alike(s[i], r[i]), NEW gone
    PROVE  Truth(s, gone) <=> Truth(r, gone)
<1>1. Len(r) \in Nat
  BY LenProperties
<1> DEFINE k == Len(r)
<1>2. k \in Nat /\ Len(s) = Len(r) + 0 /\ k <= Len(r) /\ 0 \in Nat
  BY <1>1
<1>3. (\A i \in (k + 1)..Len(r) : Alike(s[i + 0], r[i])) /\ \A i \in (k + 1)..(k + 0) : s[i] \notin StatusTexts
  BY <1>1
<1> QED BY <1>2, <1>3, SaidBetween

\* The first of the third is handled, and it is no notice.
LEMMA LastDropped ==
    ASSUME NEW a \in Seq(Said), NEW b \in Seq(Said), NEW c \in Seq(Said),
           c # <<>>, Head(c) \notin StatusTexts, NEW gone
    PROVE  Truth(a \o b \o Tail(c), gone) <=> Truth(a \o b \o c, gone)
<1> DEFINE ab == a \o b
           e == <<>>
<1>1. ab \in Seq(Said) /\ e \in Seq(Said)
  BY ConcatProperties
<1>2. Tail(c) \in Seq(Said)
  BY HeadTailProperties
<1> HIDE DEF ab
<1>3. (ab \o c) \in Seq(Said) /\ (ab \o Tail(c)) \in Seq(Said)
  BY <1>1, <1>2, ConcatProperties
<1>4. ab \o c \o e = ab \o c /\ ab \o Tail(c) \o e = ab \o Tail(c)
  BY <1>3, ConcatEmptySeq
<1>5. Truth(ab \o Tail(c) \o e, gone) <=> Truth(ab \o c \o e, gone)
  BY <1>1, Dropped
<1> QED BY <1>4, <1>5 DEF ab

\* The first of the third moves to the end of the second, or another text does.
LEMMA MovedOn ==
    ASSUME NEW a \in Seq(Said), NEW b \in Seq(Said), NEW c \in Seq(Said), c # <<>>,
           NEW x \in Said, Alike(x, Head(c)), NEW gone
    PROVE  Truth(a \o Append(b, x) \o Tail(c), gone) <=> Truth(a \o b \o c, gone)
<1> DEFINE ab == a \o b
<1>1. ab \in Seq(Said)
  BY ConcatProperties
<1>2. a \o Append(b, x) = Append(ab, x)
  <2>1. Append(b, x) = b \o <<x>> /\ <<x>> \in Seq(Said)
    BY AppendIsConcat
  <2>2. Append(ab, x) = ab \o <<x>>
    BY <1>1, AppendIsConcat
  <2>3. a \o (b \o <<x>>) = (a \o b) \o <<x>>
    BY <2>1, ConcatAssociative
  <2> QED BY <2>1, <2>2, <2>3
<1> HIDE DEF ab
<1>3. /\ Append(ab, x) \o Tail(c) \in Seq(Said) /\ ab \o c \in Seq(Said)
      /\ Len(Append(ab, x) \o Tail(c)) = Len(ab \o c)
      /\ \A i \in 1..Len(ab \o c) : Alike((Append(ab, x) \o Tail(c))[i], (ab \o c)[i])
  BY <1>1, Moved
<1>4. Truth(Append(ab, x) \o Tail(c), gone) <=> Truth(ab \o c, gone)
  BY <1>3, AlikeTruth
<1> QED BY <1>2, <1>4 DEF ab

\* The first of the second moves to the end of the first.
LEMMA FirstIsSaid ==
    ASSUME NEW a \in Seq(Said), NEW b \in Seq(Said), NEW c \in Seq(Said), b # <<>>, NEW gone
    PROVE  Truth(Append(a, Head(b)) \o Tail(b) \o c, gone) <=> Truth(a \o b \o c, gone)
<1> DEFINE x == Head(b)
           s == Append(a, x) \o Tail(b)
           r == a \o b
<1>1. x \in Said /\ Alike(x, x)
  BY HeadTailProperties DEF Alike
<1>2. s \in Seq(Said) /\ r \in Seq(Said) /\ Len(s) = Len(r) /\ \A i \in 1..Len(r) : Alike(s[i], r[i])
  BY <1>1, Moved
<1> HIDE DEF s, r
<1>3. /\ s \o c \in Seq(Said) /\ Len(s \o c) = Len(s) + Len(c) /\ Len(s) \in Nat /\ Len(c) \in Nat
      /\ \A i \in 1..(Len(s) + Len(c)) : (s \o c)[i] = IF i <= Len(s) THEN s[i] ELSE c[i - Len(s)]
  <2>1. s \in Seq(Said)
    BY <1>2
  <2> QED BY <2>1, ConcatProperties, LenProperties
<1>4. /\ r \o c \in Seq(Said) /\ Len(r \o c) = Len(r) + Len(c)
      /\ \A i \in 1..(Len(r) + Len(c)) : (r \o c)[i] = IF i <= Len(r) THEN r[i] ELSE c[i - Len(r)]
  <2>1. r \in Seq(Said)
    BY <1>2
  <2> QED BY <2>1, ConcatProperties
<1>5. ASSUME NEW i \in 1..Len(r \o c) PROVE Alike((s \o c)[i], (r \o c)[i])
  <2>1. i \in 1..(Len(r) + Len(c)) /\ Len(r) = Len(s)
    BY <1>2, <1>4
  <2>2. CASE i <= Len(r)
    <3>1. (s \o c)[i] = s[i] /\ (r \o c)[i] = r[i] /\ i \in 1..Len(r)
      BY <1>3, <1>4, <2>1, <2>2
    <3> QED BY <1>2, <3>1
  <2>3. CASE ~(i <= Len(r))
    <3>1. (s \o c)[i] = (r \o c)[i]
      BY <1>3, <1>4, <2>1, <2>3
    <3> QED BY <3>1 DEF Alike
  <2> QED BY <2>2, <2>3
<1>6. Len(s \o c) = Len(r \o c)
  BY <1>2, <1>3, <1>4
<1>7. Truth(s \o c, gone) <=> Truth(r \o c, gone)
  BY <1>3, <1>4, <1>5, <1>6, AlikeTruth
<1> QED BY <1>7 DEF s, r

\* What is in either queue.
Mail == Heard \cup Asked

\* What a queue is to say are texts, one of each of its elements.
LEMMA WayType ==
    ASSUME NEW p, NEW q \in Seq(Mail)
    PROVE  /\ OnTheWay(p, q) \in Seq(Said) /\ Len(OnTheWay(p, q)) = Len(q) /\ Len(q) \in Nat
           /\ \A i \in 1..Len(q) : OnTheWay(p, q)[i] = SaysTo(p, q[i]) /\ q[i] \in Mail
<1>1. /\ Len(q) \in Nat /\ DOMAIN q = 1..Len(q) /\ \A i \in 1..Len(q) : q[i] \in Mail
  BY LenProperties, ElementOfSeq
<1>2. \A m \in Mail : SaysTo(p, m) \in Said
  <2> SUFFICES ASSUME NEW m \in Mail, m.kind \in {"text", "notice"} PROVE m.text \in Texts
    BY DEF SaysTo, Said
  <2>1. CASE m \in Heard
    BY <2>1 DEF Heard, Signals
  <2>2. CASE m \in Asked
    BY <2>2 DEF Asked, Posts
  <2> QED BY <2>1, <2>2 DEF Mail
<1>3. OnTheWay(p, q) \in [1..Len(q) -> Said]
  BY <1>1, <1>2 DEF OnTheWay
<1>4. OnTheWay(p, q) \in Seq(Said) /\ Len(OnTheWay(p, q)) = Len(q)
  BY <1>1, <1>3, SeqDef, LenProperties
<1> QED BY <1>1, <1>4 DEF OnTheWay

\* The first element says what comes first.
LEMMA WayTail ==
    ASSUME NEW p, NEW q \in Seq(Mail), q # <<>>
    PROVE  /\ Tail(q) \in Seq(Mail) /\ Head(q) \in Mail
           /\ OnTheWay(p, q) # <<>> /\ Head(OnTheWay(p, q)) = SaysTo(p, Head(q))
           /\ OnTheWay(p, Tail(q)) = Tail(OnTheWay(p, q))
<1> DEFINE w == OnTheWay(p, q)
           t == Tail(q)
           v == OnTheWay(p, t)
<1>1. /\ t \in Seq(Mail) /\ Head(q) \in Mail /\ Head(q) = q[1] /\ Len(q) \in Nat \ {0}
      /\ Len(t) = Len(q) - 1 /\ \A i \in 1..(Len(q) - 1) : t[i] = q[i + 1]
  BY HeadTailProperties, LenProperties, EmptySeq
<1>2. /\ w \in Seq(Said) /\ Len(w) = Len(q)
      /\ \A i \in 1..Len(q) : w[i] = SaysTo(p, q[i])
  BY WayType
<1>3. t \in Seq(Mail)
  BY <1>1
<1> HIDE DEF t, w
<1>4. /\ v \in Seq(Said) /\ Len(v) = Len(t)
      /\ \A i \in 1..Len(t) : v[i] = SaysTo(p, t[i])
  BY <1>3, WayType
<1> HIDE DEF v
<1>5. w # <<>> /\ Tail(w) \in Seq(Said) /\ Len(Tail(w)) = Len(w) - 1 /\ Head(w) = w[1]
      /\ \A i \in 1..(Len(w) - 1) : Tail(w)[i] = w[i + 1]
  <2>1. w # <<>>
    BY <1>1, <1>2, EmptySeq
  <2> QED BY <1>2, <2>1, HeadTailProperties
<1>6. v = Tail(w)
  <2>1. \A i \in 1..Len(v) : v[i] = Tail(w)[i]
    <3> SUFFICES ASSUME NEW i \in 1..(Len(q) - 1) PROVE v[i] = Tail(w)[i]
      BY <1>1, <1>4
    <3>1. i + 1 \in 1..Len(q) /\ i \in 1..Len(t) /\ i \in 1..(Len(w) - 1)
      BY <1>1, <1>2
    <3> QED BY <1>1, <1>2, <1>4, <1>5, <3>1
  <2>2. Len(v) = Len(Tail(w))
    BY <1>1, <1>2, <1>4, <1>5
  <2> QED BY <1>4, <1>5, <2>1, <2>2, SeqEqual
<1>7. Head(w) = SaysTo(p, Head(q))
  BY <1>1, <1>2, <1>5
<1> QED BY <1>1, <1>5, <1>6, <1>7 DEF t, v, w

\* Two queues, one behind the other, say what the one and then the other says.
LEMMA WayMore ==
    ASSUME NEW p, NEW q \in Seq(Mail), NEW r \in Seq(Mail)
    PROVE  q \o r \in Seq(Mail) /\ OnTheWay(p, q \o r) = OnTheWay(p, q) \o OnTheWay(p, r)
<1> DEFINE s == q \o r
           w == OnTheWay(p, q)
           v == OnTheWay(p, r)
           u == OnTheWay(p, s)
<1>1. /\ s \in Seq(Mail) /\ Len(q) \in Nat /\ Len(r) \in Nat /\ Len(s) = Len(q) + Len(r)
      /\ \A i \in 1..(Len(q) + Len(r)) : s[i] = IF i <= Len(q) THEN q[i] ELSE r[i - Len(q)]
  BY ConcatProperties, LenProperties
<1>2. s \in Seq(Mail)
  BY <1>1
<1>3. /\ w \in Seq(Said) /\ Len(w) = Len(q)
      /\ \A i \in 1..Len(q) : w[i] = SaysTo(p, q[i])
  BY WayType
<1>4. /\ v \in Seq(Said) /\ Len(v) = Len(r)
      /\ \A i \in 1..Len(r) : v[i] = SaysTo(p, r[i])
  BY WayType
<1> HIDE DEF s, w, v
<1>5. /\ u \in Seq(Said) /\ Len(u) = Len(s)
      /\ \A i \in 1..Len(s) : u[i] = SaysTo(p, s[i])
  BY <1>2, WayType
<1> HIDE DEF u
<1>6. /\ w \o v \in Seq(Said) /\ Len(w \o v) = Len(w) + Len(v)
      /\ \A i \in 1..(Len(w) + Len(v)) : (w \o v)[i] = IF i <= Len(w) THEN w[i] ELSE v[i - Len(w)]
  <2>1. w \in Seq(Said) /\ v \in Seq(Said)
    BY <1>3, <1>4
  <2> QED BY <2>1, ConcatProperties
<1>7. \A i \in 1..Len(u) : u[i] = (w \o v)[i]
  <2> SUFFICES ASSUME NEW i \in 1..(Len(q) + Len(r)) PROVE u[i] = (w \o v)[i]
    BY <1>1, <1>5
  <2>1. CASE i <= Len(q)
    <3>1. i \in 1..Len(q) /\ i \in 1..Len(s) /\ i \in 1..(Len(w) + Len(v))
      BY <1>1, <1>3, <1>4, <2>1
    <3> QED BY <1>1, <1>3, <1>5, <1>6, <2>1, <3>1
  <2>2. CASE ~(i <= Len(q))
    <3>1. i - Len(q) \in 1..Len(r) /\ i \in 1..Len(s) /\ i \in 1..(Len(w) + Len(v))
      BY <1>1, <1>3, <1>4, <2>2
    <3>2. u[i] = SaysTo(p, r[i - Len(q)])
      BY <1>1, <1>5, <2>2, <3>1
    <3>3. (w \o v)[i] = v[i - Len(q)]
      BY <1>3, <1>6, <2>2, <3>1
    <3> QED BY <1>4, <3>1, <3>2, <3>3
  <2> QED BY <2>1, <2>2
<1>8. Len(u) = Len(w \o v)
  BY <1>1, <1>3, <1>4, <1>5, <1>6
<1>9. u = w \o v
  BY <1>5, <1>6, <1>7, <1>8, SeqEqual
<1> QED BY <1>2, <1>9 DEF u, s, w, v

\* One more in the queue says one thing more.
LEMMA WayAppend ==
    ASSUME NEW p, NEW q \in Seq(Mail), NEW m \in Mail
    PROVE  /\ Append(q, m) \in Seq(Mail) /\ SaysTo(p, m) \in Said
           /\ OnTheWay(p, Append(q, m)) = Append(OnTheWay(p, q), SaysTo(p, m))
<1> DEFINE s == Append(q, m)
           w == OnTheWay(p, q)
           u == OnTheWay(p, s)
<1>1. /\ s \in Seq(Mail) /\ Len(q) \in Nat /\ Len(s) = Len(q) + 1 /\ s[Len(q) + 1] = m
      /\ \A i \in 1..Len(q) : s[i] = q[i]
  BY AppendProperties, LenProperties
<1>2. s \in Seq(Mail)
  BY <1>1
<1>3. /\ w \in Seq(Said) /\ Len(w) = Len(q)
      /\ \A i \in 1..Len(q) : w[i] = SaysTo(p, q[i])
  BY WayType
<1> HIDE DEF s, w
<1>4. /\ u \in Seq(Said) /\ Len(u) = Len(s)
      /\ \A i \in 1..Len(s) : u[i] = SaysTo(p, s[i])
  BY <1>2, WayType
<1> HIDE DEF u
<1>5. SaysTo(p, m) \in Said
  <2>1. Len(s) \in 1..Len(s) /\ u[Len(s)] = SaysTo(p, m)
    BY <1>1, <1>4
  <2> QED BY <1>4, <2>1, ElementOfSeq
<1>6. /\ Append(w, SaysTo(p, m)) \in Seq(Said) /\ Len(Append(w, SaysTo(p, m))) = Len(w) + 1
      /\ \A i \in 1..Len(w) : Append(w, SaysTo(p, m))[i] = w[i]
      /\ Append(w, SaysTo(p, m))[Len(w) + 1] = SaysTo(p, m)
  BY <1>3, <1>5, AppendProperties
<1> DEFINE x == Append(w, SaysTo(p, m))
<1> HIDE DEF x
<1>7. x \in Seq(Said) /\ Len(x) = Len(u) /\ \A i \in 1..Len(u) : u[i] = x[i]
  <2>1. x \in Seq(Said) /\ Len(x) = Len(q) + 1 /\ Len(u) = Len(q) + 1
    BY <1>1, <1>3, <1>4, <1>6 DEF x
  <2>2. \A i \in 1..Len(q) : u[i] = x[i]
    BY <1>1, <1>3, <1>4, <1>6 DEF x
  <2>3. u[Len(q) + 1] = x[Len(q) + 1]
    BY <1>1, <1>3, <1>4, <1>6 DEF x
  <2> QED BY <1>1, <2>1, <2>2, <2>3
<1>8. u = x
  BY <1>4, <1>7, SeqEqual
<1> QED BY <1>2, <1>5, <1>8 DEF u, s, w, x

\* What p has been told, and is going to be.
Told(p) == Log(p) \o OnTheWay(p, inbox) \o OnTheWay(p, outbox)

\* Of a peer that is not in the list, too, since nothing is on the way to it.
Turns == \A p \in Peers : Truth(Told(p), p \in italic)

\* Notices are of peers in the list, which are in the worker's table.
Addressed ==
    /\ InList \subseteq known
    /\ \A i \in DOMAIN inbox :
         /\ inbox[i].kind = "text" /\ inbox[i].text \in StatusTexts => inbox[i].conv \in InList
         /\ inbox[i].kind = "authed" => inbox[i].peer \in known
    /\ \A i \in DOMAIN outbox : outbox[i].kind = "notice" => outbox[i].conv \in InList

\* The parts Told is made of.
LEMMA PartsTold ==
    ASSUME ListInv, ViewInv, NEW p \in Peers
    PROVE  /\ p \in Convs /\ Log(p) \in Seq(Said)
           /\ inbox \in Seq(Mail) /\ outbox \in Seq(Mail)
           /\ OnTheWay(p, inbox) \in Seq(Said) /\ OnTheWay(p, outbox) \in Seq(Said)
<1>1. Texts \subseteq Said /\ Heard \subseteq Mail /\ Asked \subseteq Mail /\ p \in Convs
  BY DEF Said, Mail, Peers
<1>2. Log(p) \in Seq(Texts)
  BY <1>1, EmptySeq DEF Log, Restored, ViewInv, TypeOK
<1>3. Log(p) \in Seq(Said) /\ inbox \in Seq(Mail) /\ outbox \in Seq(Mail)
  BY <1>1, <1>2, SeqMonotonic DEF ListInv
<1> QED BY <1>1, <1>3, WayType

\* The worker has more to tell, and no notice.
LEMMA TellsNoNotice ==
    ASSUME ListInv, ViewInv, Addressed, Turns, NEW s \in Seq(Heard), Tell(s), outbox' = outbox,
           known \subseteq known',
           \A i \in 1..Len(s) : /\ s[i].kind = "text" => s[i].text \notin StatusTexts
                                /\ s[i].kind = "authed" => s[i].peer \in known'
    PROVE  Addressed' /\ Turns'
<1>1. /\ inbox' = inbox \o s /\ inbox \in Seq(Heard) /\ Len(inbox) \in Nat /\ Len(s) \in Nat
      /\ InList' = InList /\ italic' = italic /\ \A c : Log(c)' = Log(c)
  BY LenProperties DEF Tell, ListInv, listVars, vars, InList, Log, Restored, OnStack
<1>2. /\ DOMAIN inbox' = 1..(Len(inbox) + Len(s)) /\ DOMAIN inbox = 1..Len(inbox)
      /\ \A i \in 1..(Len(inbox) + Len(s)) :
           inbox'[i] = IF i <= Len(inbox) THEN inbox[i] ELSE s[i - Len(inbox)]
  BY <1>1, ConcatProperties, LenProperties
<1>3. Addressed'
  <2> SUFFICES ASSUME NEW i \in DOMAIN inbox'
               PROVE  /\ inbox'[i].kind = "text" /\ inbox'[i].text \in StatusTexts
                           => inbox'[i].conv \in InList
                      /\ inbox'[i].kind = "authed" => inbox'[i].peer \in known'
    BY <1>1 DEF Addressed
  <2>1. CASE i <= Len(inbox)
    <3>1. i \in DOMAIN inbox /\ inbox'[i] = inbox[i]
      BY <1>1, <1>2, <2>1
    <3> QED BY <3>1 DEF Addressed
  <2>2. CASE ~(i <= Len(inbox))
    <3>1. i - Len(inbox) \in 1..Len(s) /\ inbox'[i] = s[i - Len(inbox)]
      BY <1>1, <1>2, <2>2
    <3> QED BY <3>1
  <2> QED BY <2>1, <2>2
<1>4. Turns'
  <2> SUFFICES ASSUME NEW p \in Peers
               PROVE  Truth(Log(p) \o OnTheWay(p, inbox') \o OnTheWay(p, outbox), p \in italic)
    BY <1>1 DEF Turns, Told
  <2>1. s \in Seq(Mail)
    BY SeqMonotonic DEF Mail
  <2>2. /\ Log(p) \in Seq(Said) /\ OnTheWay(p, inbox) \in Seq(Said)
        /\ OnTheWay(p, outbox) \in Seq(Said) /\ inbox \in Seq(Mail)
    BY PartsTold
  <2>3. OnTheWay(p, inbox') = OnTheWay(p, inbox) \o OnTheWay(p, s)
    BY <1>1, <2>1, <2>2, WayMore
  <2>4. /\ OnTheWay(p, s) \in Seq(Said)
        /\ \A i \in 1..Len(OnTheWay(p, s)) : OnTheWay(p, s)[i] \notin StatusTexts
    <3>1. /\ OnTheWay(p, s) \in Seq(Said) /\ Len(OnTheWay(p, s)) = Len(s)
          /\ \A i \in 1..Len(s) : OnTheWay(p, s)[i] = SaysTo(p, s[i])
      BY <2>1, WayType
    <3>2. \A i \in 1..Len(s) : s[i].kind # "notice"
      BY ElementOfSeq DEF Heard, Signals
    <3>3. \A i \in 1..Len(s) : SaysTo(p, s[i]) \notin StatusTexts
      BY <3>2 DEF SaysTo, StatusTexts
    <3> QED BY <3>1, <3>3
  <2>5. Truth(Log(p) \o OnTheWay(p, inbox) \o OnTheWay(p, outbox), p \in italic)
    BY DEF Turns, Told
  <2> QED BY <2>2, <2>3, <2>4, <2>5, MoreToCome
<1> QED BY <1>3, <1>4

\* A post comes to the worker: it makes a text of a notice, and what is said
\* in the end is the same.
LEMMA PostsComeBack ==
    ASSUME ListInv, ViewInv, Addressed, Turns, AddMessageToPeer
    PROVE  Addressed' /\ Turns'
<1> DEFINE h == Head(outbox)
<1>1. /\ outbox # <<>> /\ outbox' = Tail(outbox) /\ inbox' = inbox \o Printed(h)
      /\ InList' = InList /\ italic' = italic /\ known' = known /\ \A c : Log(c)' = Log(c)
  BY DEF AddMessageToPeer, Tell, listVars, vars, InList, Log, Restored, OnStack, workerVars
<1>2. /\ h \in Asked /\ h = outbox[1] /\ Len(outbox) \in Nat \ {0} /\ DOMAIN outbox = 1..Len(outbox)
      /\ DOMAIN outbox' = 1..(Len(outbox) - 1)
      /\ \A i \in 1..(Len(outbox) - 1) : outbox'[i] = outbox[i + 1]
  BY <1>1, HeadTailProperties, LenProperties, EmptySeq DEF ListInv
<1>3. \A i \in DOMAIN outbox' : outbox'[i].kind = "notice" => outbox'[i].conv \in InList
  <2> SUFFICES ASSUME NEW i \in 1..(Len(outbox) - 1), outbox[i + 1].kind = "notice"
               PROVE  outbox[i + 1].conv \in InList
    BY <1>2
  <2>1. i + 1 \in DOMAIN outbox
    BY <1>2
  <2> QED BY <2>1 DEF Addressed
<1>4. h.kind = "notice" => h.conv \in InList /\ h.conv \in known
  BY <1>2 DEF Addressed
<1>5. h.kind \in {"notice", "typed"} /\ h.conv \in Chats \cap Convs
  BY <1>2, PostFields DEF Asked, Posts
<1> HIDE DEF h
<1>6. CASE Printed(h) = <<>>
  <2>1. inbox' = inbox
    BY <1>1, <1>6, ConcatEmptySeq DEF ListInv
  <2>2. Addressed'
    BY <1>1, <1>3, <2>1 DEF Addressed
  <2>3. h.kind # "notice"
    BY <1>4, <1>6 DEF Printed
  <2>4. ASSUME NEW p \in Peers PROVE Truth(Told(p)', p \in italic')
    <3>1. /\ Log(p) \in Seq(Said) /\ OnTheWay(p, inbox) \in Seq(Said) /\ outbox \in Seq(Mail)
          /\ OnTheWay(p, outbox) \in Seq(Said)
      BY PartsTold
    <3>2. /\ OnTheWay(p, outbox) # <<>> /\ Head(OnTheWay(p, outbox)) = SaysTo(p, h)
          /\ OnTheWay(p, outbox') = Tail(OnTheWay(p, outbox))
      BY <1>1, <3>1, WayTail DEF h
    <3>3. SaysTo(p, h) \notin StatusTexts
      BY <1>5, <2>3 DEF SaysTo, StatusTexts
    <3>4. Truth(Log(p) \o OnTheWay(p, inbox) \o OnTheWay(p, outbox), p \in italic)
      BY DEF Turns, Told
    <3>5. Truth(Log(p) \o OnTheWay(p, inbox) \o Tail(OnTheWay(p, outbox)), p \in italic)
      BY <3>1, <3>2, <3>3, <3>4, LastDropped
    <3> QED BY <1>1, <2>1, <3>2, <3>5 DEF Told
  <2> QED BY <2>2, <2>4 DEF Turns
<1>7. ASSUME NEW m \in Heard, Printed(h) = <<m>>, m.kind = "text", m.conv = h.conv,
             m.text \in StatusTexts \/ h.kind = "notice" => h.kind = "notice" /\ m.text = h.text
      PROVE  Addressed' /\ Turns'
  <2>1. inbox \in Seq(Heard) /\ inbox' = Append(inbox, m)
    BY <1>1, <1>7, AppendIsConcat DEF ListInv
  <2>2. /\ Len(inbox) \in Nat /\ DOMAIN inbox = 1..Len(inbox) /\ DOMAIN inbox' = 1..(Len(inbox) + 1)
        /\ inbox'[Len(inbox) + 1] = m /\ \A i \in 1..Len(inbox) : inbox'[i] = inbox[i]
    BY <2>1, AppendProperties, LenProperties
  <2>3. Addressed'
    BY <1>1, <1>3, <1>4, <1>7, <2>2 DEF Addressed
  <2>4. ASSUME NEW p \in Peers PROVE Truth(Told(p)', p \in italic')
    <3>1. /\ Log(p) \in Seq(Said) /\ OnTheWay(p, inbox) \in Seq(Said) /\ outbox \in Seq(Mail)
          /\ OnTheWay(p, outbox) \in Seq(Said) /\ inbox \in Seq(Mail) /\ m \in Mail
      BY PartsTold DEF Mail
    <3>2. /\ OnTheWay(p, outbox) # <<>> /\ Head(OnTheWay(p, outbox)) = SaysTo(p, h)
          /\ OnTheWay(p, outbox') = Tail(OnTheWay(p, outbox))
      BY <1>1, <3>1, WayTail DEF h
    <3>3. OnTheWay(p, inbox') = Append(OnTheWay(p, inbox), SaysTo(p, m)) /\ SaysTo(p, m) \in Said
      BY <2>1, <3>1, WayAppend
    <3>4. Alike(SaysTo(p, m), SaysTo(p, h))
      BY <1>5, <1>7 DEF SaysTo, StatusTexts, Alike
    <3>5. Truth(Log(p) \o OnTheWay(p, inbox) \o OnTheWay(p, outbox), p \in italic)
      BY DEF Turns, Told
    <3>6. Truth(Log(p) \o OnTheWay(p, inbox') \o Tail(OnTheWay(p, outbox)), p \in italic)
      <4> DEFINE x == SaysTo(p, m)
                 z == OnTheWay(p, outbox)
      <4>1. z \in Seq(Said) /\ z # <<>> /\ x \in Said /\ Alike(x, Head(z))
        BY <3>1, <3>2, <3>3, <3>4
      <4> HIDE DEF x, z
      <4>2. Truth(Log(p) \o Append(OnTheWay(p, inbox), x) \o Tail(z), p \in italic)
              <=> Truth(Log(p) \o OnTheWay(p, inbox) \o z, p \in italic)
        BY <3>1, <4>1, MovedOn
      <4> QED BY <3>3, <3>5, <4>2 DEF x, z
    <3> QED BY <1>1, <3>2, <3>6 DEF Told
  <2> QED BY <2>3, <2>4 DEF Turns
<1>8. CASE Printed(h) # <<>>
  <2>1. CASE h.kind = "notice"
    <3>1. Printed(h) = <<Text(h.conv, h.text, FALSE)>>
      BY <1>4, <2>1 DEF Printed
    <3>2. Text(h.conv, h.text, FALSE) \in Heard
      BY <1>2, <2>1, PostFields, PrintSignal
    <3> QED BY <1>7, <2>1, <3>1, <3>2 DEF Text
  <2>2. CASE h.kind # "notice"
    <3>1. Printed(h) = <<Text(h.conv, "mine", FALSE)>>
      BY <1>8, <2>2 DEF Printed
    <3>2. Text(h.conv, "mine", FALSE) \in Heard
      BY <1>5, TextNames, PrintSignal
    <3> QED BY <1>7, <2>2, <3>1, <3>2 DEF Text, StatusTexts
  <2> QED BY <2>1, <2>2
<1> QED BY <1>6, <1>8

\* One more text that is no notice changes nothing.
LEMMA OneMore ==
    ASSUME NEW s \in Seq(Said), NEW x \in Said, x \notin StatusTexts, NEW gone
    PROVE  Truth(Append(s, x), gone) <=> Truth(s, gone)
<1> DEFINE k == Len(s)
           r == Append(s, x)
<1>1. /\ r \in Seq(Said) /\ Len(r) = Len(s) + 1 /\ k \in Nat /\ r[Len(s) + 1] = x
      /\ \A i \in 1..Len(s) : r[i] = s[i]
  BY AppendProperties, LenProperties
<1> HIDE DEF r
<1>2. /\ k <= Len(s) /\ 1 \in Nat /\ \A i \in 1..k : Alike(r[i], s[i])
      /\ \A i \in (k + 1)..Len(s) : Alike(r[i + 1], s[i])
      /\ \A i \in (k + 1)..(k + 1) : r[i] \notin StatusTexts
  BY <1>1 DEF Alike
<1>3. r \in Seq(Said) /\ Len(r) = Len(s) + 1 /\ k \in Nat
  BY <1>1
<1> HIDE DEF k
<1>4. Truth(r, gone) <=> Truth(s, gone)
  BY <1>2, <1>3, SaidBetween
<1> QED BY <1>4 DEF r

\* One more behind the third of three is one more behind them all.
LEMMA EndOfThree ==
    ASSUME NEW a \in Seq(Said), NEW b \in Seq(Said), NEW c \in Seq(Said), NEW x \in Said
    PROVE  a \o b \o c \in Seq(Said) /\ a \o b \o Append(c, x) = Append(a \o b \o c, x)
<1> DEFINE ab == a \o b
           e == <<x>>
<1>1. ab \in Seq(Said) /\ e \in Seq(Said) /\ Append(c, x) = c \o e
  BY ConcatProperties, AppendIsConcat
<1> HIDE DEF ab
<1>2. ab \o c \in Seq(Said)
  BY <1>1, ConcatProperties
<1>3. Append(ab \o c, x) = (ab \o c) \o e
  BY <1>2, AppendIsConcat
<1>4. (ab \o c) \o e = ab \o (c \o e)
  BY <1>1, ConcatAssociative
<1> QED BY <1>1, <1>2, <1>3, <1>4 DEF ab

\* The window posts m behind what is on the way already; it is of p.
LEMMA PostTurns ==
    ASSUME NEW p \in Peers, NEW a \in Seq(Said), NEW b \in Seq(Said), NEW q \in Seq(Mail),
           NEW m \in Mail, NEW gone \in BOOLEAN, NEW new \in BOOLEAN,
           Truth(a \o b \o OnTheWay(p, q), gone),
           \/ new = gone /\ SaysTo(p, m) \notin StatusTexts
           \/ new = ~gone /\ SaysTo(p, m) = IF gone THEN "back" ELSE "gone"
    PROVE  Truth(a \o b \o OnTheWay(p, Append(q, m)), new)
<1> DEFINE w == OnTheWay(p, q)
           x == SaysTo(p, m)
           s == a \o b \o w
<1>1. w \in Seq(Said) /\ x \in Said /\ OnTheWay(p, Append(q, m)) = Append(w, x)
  BY WayType, WayAppend
<1>2. Truth(s, gone) /\ \/ new = gone /\ x \notin StatusTexts
                        \/ new = ~gone /\ x = IF gone THEN "back" ELSE "gone"
  OBVIOUS
<1> HIDE DEF w, x
<1>3. s \in Seq(Said) /\ a \o b \o Append(w, x) = Append(s, x)
  BY <1>1, EndOfThree
<1> HIDE DEF s
<1>4. Truth(Append(s, x), new)
  <2>1. CASE new = gone /\ x \notin StatusTexts
    BY <1>1, <1>2, <1>3, <2>1, OneMore
  <2>2. CASE new = ~gone /\ x = IF gone THEN "back" ELSE "gone"
    BY <1>2, <1>3, <2>2, Turned
  <2> QED BY <1>2, <2>1, <2>2
<1> QED BY <1>1, <1>3, <1>4

\* The window posts what is no notice that a peer went or came back.
LEMMA PostsKeep ==
    ASSUME ListInv, ViewInv, Addressed, Turns, NEW m \in Asked, outbox' = Append(outbox, m),
           UNCHANGED <<inbox, italic, known>>, InList' = InList, \A c \in Convs : Log(c)' = Log(c),
           m.kind = "notice" => m.conv \in InList /\ m.text \notin StatusTexts
    PROVE  Addressed' /\ Turns'
<1>1. /\ Len(outbox) \in Nat /\ DOMAIN outbox = 1..Len(outbox) /\ DOMAIN outbox' = 1..(Len(outbox) + 1)
      /\ outbox'[Len(outbox) + 1] = m /\ \A i \in 1..Len(outbox) : outbox'[i] = outbox[i]
  BY AppendProperties, LenProperties DEF ListInv
<1>2. Addressed'
  BY <1>1 DEF Addressed
<1>3. ASSUME NEW p \in Peers PROVE Truth(Told(p)', p \in italic')
  <2>1. /\ Log(p) \in Seq(Said) /\ OnTheWay(p, inbox) \in Seq(Said) /\ outbox \in Seq(Mail)
        /\ m \in Mail /\ p \in Convs
    BY PartsTold DEF Mail
  <2>2. SaysTo(p, m) \notin StatusTexts
    BY DEF SaysTo, StatusTexts, Asked, Posts
  <2>3. Truth(Log(p) \o OnTheWay(p, inbox) \o OnTheWay(p, outbox), p \in italic)
    BY DEF Turns, Told
  <2>4. (p \in italic) \in BOOLEAN
    OBVIOUS
  <2>5. Truth(Log(p) \o OnTheWay(p, inbox) \o OnTheWay(p, outbox'), p \in italic)
    BY <2>1, <2>2, <2>3, <2>4, PostTurns
  <2> QED BY <2>1, <2>5 DEF Told
<1> QED BY <1>2, <1>3 DEF Turns

\* A signal that a peer went or authenticated is handled: the notice that is
\* posted is the other one, if there is one.
LEMMA StyleTurns ==
    ASSUME ListInv, ViewInv, Addressed, Turns,
           inbox # <<>>, Head(inbox).kind \in {"gone", "authed"}, inbox' = Tail(inbox),
           NEW p \in Peers, NEW on \in BOOLEAN,
           SetItalics(p, on) \/ UNCHANGED <<italic, outbox>>,
           known' = known, InList \subseteq InList', InList' \subseteq known,
           \A c \in Convs : Log(c)' = Log(c)
    PROVE  Addressed' /\ Turns'
<1> DEFINE h == Head(inbox)
           x == IF on THEN "gone" ELSE "back"
<1>1. /\ Len(inbox) \in Nat \ {0} /\ DOMAIN inbox = 1..Len(inbox)
      /\ DOMAIN inbox' = 1..(Len(inbox) - 1)
      /\ \A i \in 1..(Len(inbox) - 1) : inbox'[i] = inbox[i + 1]
  BY HeadTailProperties, LenProperties, EmptySeq DEF ListInv
<1>2. \/ UNCHANGED <<italic, outbox>>
      \/ /\ outbox' = Append(outbox, Notice(p, x)) /\ p \in InList
         /\ p \in italic' <=> p \notin italic
         /\ p \in italic <=> ~on
         /\ \A q \in Peers \ {p} : q \in italic' <=> q \in italic
  BY DEF SetItalics, Restyles
<1>3. Notice(p, x) \in Asked /\ Notice(p, x).conv = p /\ Notice(p, x).kind = "notice"
      /\ Notice(p, x).text = x
  BY TextNames DEF Asked, Posts, Notice
<1>4. \A i \in DOMAIN inbox' :
        /\ inbox'[i].kind = "text" /\ inbox'[i].text \in StatusTexts => inbox'[i].conv \in InList
        /\ inbox'[i].kind = "authed" => inbox'[i].peer \in known
  <2> SUFFICES ASSUME NEW i \in 1..(Len(inbox) - 1)
               PROVE  /\ inbox[i + 1].kind = "text" /\ inbox[i + 1].text \in StatusTexts
                           => inbox[i + 1].conv \in InList
                      /\ inbox[i + 1].kind = "authed" => inbox[i + 1].peer \in known
    BY <1>1
  <2>1. i + 1 \in DOMAIN inbox
    BY <1>1
  <2> QED BY <2>1 DEF Addressed
<1>5. \A i \in DOMAIN outbox' : outbox'[i].kind = "notice" => outbox'[i].conv \in InList
  <2>1. CASE outbox' = outbox
    BY <2>1 DEF Addressed
  <2>2. CASE outbox' = Append(outbox, Notice(p, x)) /\ p \in InList
    <3>1. /\ Len(outbox) \in Nat /\ DOMAIN outbox = 1..Len(outbox)
          /\ DOMAIN outbox' = 1..(Len(outbox) + 1)
          /\ outbox'[Len(outbox) + 1] = Notice(p, x)
          /\ \A i \in 1..Len(outbox) : outbox'[i] = outbox[i]
      BY <1>3, <2>2, AppendProperties, LenProperties DEF ListInv
    <3>2. \A i \in 1..Len(outbox) : outbox'[i].kind = "notice" => outbox'[i].conv \in InList
      BY <3>1 DEF Addressed
    <3>3. outbox'[Len(outbox) + 1].conv \in InList
      BY <1>3, <2>2, <3>1
    <3> QED BY <3>1, <3>2, <3>3
  <2> QED BY <1>2, <2>1, <2>2
<1>6. Addressed'
  BY <1>4, <1>5 DEF Addressed
<1>7. ASSUME NEW q \in Peers PROVE Truth(Told(q)', q \in italic')
  <2>1. /\ Log(q) \in Seq(Said) /\ OnTheWay(q, inbox) \in Seq(Said) /\ outbox \in Seq(Mail)
        /\ inbox \in Seq(Mail) /\ OnTheWay(q, outbox) \in Seq(Said) /\ q \in Convs
        /\ Notice(p, x) \in Mail
    BY <1>3, PartsTold DEF Mail
  <2>2. /\ OnTheWay(q, inbox) # <<>> /\ Head(OnTheWay(q, inbox)) = SaysTo(q, h)
        /\ OnTheWay(q, inbox') = Tail(OnTheWay(q, inbox)) /\ inbox' \in Seq(Mail)
    BY <2>1, WayTail
  <2>3. SaysTo(q, h) \notin StatusTexts
    BY DEF SaysTo, StatusTexts
  <2>4. Truth(Log(q) \o OnTheWay(q, inbox) \o OnTheWay(q, outbox), q \in italic)
    BY DEF Turns, Told
  <2>5. Truth(Log(q) \o OnTheWay(q, inbox') \o OnTheWay(q, outbox), q \in italic)
    <3> DEFINE w == OnTheWay(q, inbox)
    <3>1. w \in Seq(Said) /\ w # <<>> /\ Head(w) \notin StatusTexts
      BY <2>1, <2>2, <2>3
    <3> HIDE DEF w
    <3>2. Truth(Log(q) \o Tail(w) \o OnTheWay(q, outbox), q \in italic)
            <=> Truth(Log(q) \o w \o OnTheWay(q, outbox), q \in italic)
      BY <2>1, <3>1, Dropped
    <3> QED BY <2>2, <2>4, <3>2 DEF w
  <2>6. Truth(Log(q) \o OnTheWay(q, inbox') \o OnTheWay(q, outbox'), q \in italic')
    <3>1. CASE UNCHANGED <<italic, outbox>>
      BY <2>5, <3>1
    <3>2. CASE /\ outbox' = Append(outbox, Notice(p, x)) /\ p \in InList
               /\ p \in italic' <=> p \notin italic
               /\ p \in italic <=> ~on
               /\ \A r \in Peers \ {p} : r \in italic' <=> r \in italic
      <4> DEFINE now == q \in italic
                 new == q \in italic'
                 m == Notice(p, x)
                 b == OnTheWay(q, inbox')
      <4>1. /\ now \in BOOLEAN /\ new \in BOOLEAN
            /\ \/ new = now /\ SaysTo(q, m) \notin StatusTexts
               \/ new = ~now /\ SaysTo(q, m) = IF now THEN "back" ELSE "gone"
        <5>1. CASE q = p
          BY <1>3, <3>2, <5>1 DEF SaysTo
        <5>2. CASE q # p
          BY <1>3, <3>2, <5>2 DEF SaysTo, StatusTexts
        <5> QED BY <5>1, <5>2
      <4>2. b \in Seq(Said)
        BY <2>2, WayType
      <4>3. m \in Mail /\ Truth(Log(q) \o b \o OnTheWay(q, outbox), now)
        BY <2>1, <2>5
      <4> HIDE DEF now, new, m, b
      <4>4. Truth(Log(q) \o b \o OnTheWay(q, Append(outbox, m)), new)
        BY <2>1, <4>1, <4>2, <4>3, PostTurns
      <4> QED BY <3>2, <4>4 DEF new, m, b
    <3> QED BY <1>2, <3>1, <3>2
  <2> QED BY <2>1, <2>6 DEF Told
<1> QED BY <1>6, <1>7 DEF Turns

\* A text is handled: it is put behind what its conversation has, or dropped
\* when nobody of the list has it.
LEMMA PrintTurns ==
    ASSUME ListInv, ViewInv, Shown, Addressed, Turns, PrintToTextBrowser
    PROVE  Addressed' /\ Turns'
<1> DEFINE h == Head(inbox)
<1>1. /\ inbox # <<>> /\ inbox' = Tail(inbox) /\ h.kind = "text" /\ Appended(h.conv, h.text)
      /\ UNCHANGED <<rows, italic, outbox, known>>
  BY DEF PrintToTextBrowser, Signalled, Handled, workerVars
<1>2. h.conv \in Convs /\ h.text \in Texts /\ h \in Mail
  BY <1>1, FirstSignal, SignalFields DEF Mail
<1>3. /\ Len(inbox) \in Nat \ {0} /\ DOMAIN inbox = 1..Len(inbox) /\ inbox[1] = h
      /\ DOMAIN inbox' = 1..(Len(inbox) - 1)
      /\ \A i \in 1..(Len(inbox) - 1) : inbox'[i] = inbox[i + 1]
  BY <1>1, HeadTailProperties, LenProperties, EmptySeq DEF ListInv
<1>4. Addressed'
  <2>1. \A i \in 1..(Len(inbox) - 1) : i + 1 \in DOMAIN inbox
    BY <1>3
  <2> QED BY <1>1, <1>3, <2>1 DEF Addressed, InList
<1>5. h.conv \notin Listed => h.text \notin StatusTexts
  <2>1. h.text \in StatusTexts => h.conv \in InList
    BY <1>1, <1>3 DEF Addressed
  <2> QED BY <2>1 DEF Shown
<1>6. \A d \in Convs : Log(d)' = IF d = h.conv /\ h.conv \in Listed
                                 THEN Append(Log(d), h.text) ELSE Log(d)
  <2>1. CASE h.conv \in Listed
    BY <1>1, <1>2, <2>1, LogGrows DEF Appended
  <2>2. CASE h.conv \notin Listed
    BY <1>1, <2>2 DEF Appended, vars, Log, Restored, OnStack
  <2> QED BY <2>1, <2>2
<1>7. ASSUME NEW p \in Peers PROVE Truth(Told(p)', p \in italic')
  <2> DEFINE w == OnTheWay(p, inbox)
             c == OnTheWay(p, outbox)
             x == SaysTo(p, h)
  <2>1. /\ Log(p) \in Seq(Said) /\ w \in Seq(Said) /\ c \in Seq(Said)
        /\ inbox \in Seq(Mail) /\ p \in Convs
    BY PartsTold
  <2>2. w # <<>> /\ Head(w) = x /\ OnTheWay(p, inbox') = Tail(w)
    BY <1>1, <2>1, WayTail
  <2>3. Truth(Log(p) \o w \o c, p \in italic)
    BY DEF Turns, Told
  <2>4. CASE h.conv = p /\ h.conv \in Listed
    <3>1. x = h.text /\ x \in Said
      BY <1>1, <1>2, <2>4 DEF SaysTo, Said
    <3> HIDE DEF w, c, x
    <3>2. Truth(Append(Log(p), x) \o Tail(w) \o c, p \in italic)
      BY <2>1, <2>2, <2>3, <3>1, FirstIsSaid
    <3>3. Log(p)' = Append(Log(p), x)
      BY <1>6, <2>1, <2>4, <3>1
    <3> QED BY <1>1, <2>2, <3>2, <3>3 DEF Told, c
  <2>5. CASE ~(h.conv = p /\ h.conv \in Listed)
    <3>1. x \notin StatusTexts
      BY <1>1, <1>5, <2>5 DEF SaysTo, StatusTexts
    <3> HIDE DEF w, c, x
    <3>2. Truth(Log(p) \o Tail(w) \o c, p \in italic)
      BY <2>1, <2>2, <2>3, <3>1, Dropped
    <3>3. Log(p)' = Log(p)
      BY <1>6, <2>1, <2>5
    <3> QED BY <1>1, <2>2, <3>2, <3>3 DEF Told, c
  <2> QED BY <2>4, <2>5
<1> QED BY <1>4, <1>7 DEF Turns

-------------------------------------------------------------------------------
\* A signal of the connection of p, and what such signals are about: the last
\* one on the way tells what the worker thinks, and without one the list does.
IsNews(m, p) == m.kind \in {"gone", "authed"} /\ m.peer = p

LastNews(p) ==
    \A i \in DOMAIN inbox :
        IsNews(inbox[i], p) /\ (\A j \in DOMAIN inbox : j > i => ~IsNews(inbox[j], p))
            => (status[p] = "gone" <=> inbox[i].kind = "gone")

NoNews(p) ==
    p \in InList /\ (\A i \in DOMAIN inbox : ~IsNews(inbox[i], p))
        => (p \in italic <=> status[p] = "gone")

NewsTrue == /\ status \in [Peers -> {"none", "up", "gone"}]
            /\ \A p \in Peers : LastNews(p) /\ NoNews(p)

\* The worker tells of other things.
LEMMA OtherThings ==
    ASSUME ListInv, NewsTrue, NEW s \in Seq(Heard), inbox' = inbox \o s,
           UNCHANGED <<rows, italic, status>>, \A i \in 1..Len(s) : s[i].kind = "text"
    PROVE  NewsTrue'
<1>1. /\ Len(inbox) \in Nat /\ Len(s) \in Nat /\ DOMAIN inbox = 1..Len(inbox)
      /\ DOMAIN inbox' = 1..(Len(inbox) + Len(s))
      /\ \A i \in 1..Len(inbox) : inbox'[i] = inbox[i]
      /\ \A i \in (Len(inbox) + 1)..(Len(inbox) + Len(s)) : inbox'[i] = s[i - Len(inbox)]
  BY ConcatProperties, LenProperties DEF ListInv
<1>2. ASSUME NEW p \in Peers, NEW i \in (Len(inbox) + 1)..(Len(inbox) + Len(s))
      PROVE  ~IsNews(inbox'[i], p)
  <2>1. i - Len(inbox) \in 1..Len(s)
    BY <1>1
  <2> QED BY <1>1, <2>1 DEF IsNews
<1>3. ASSUME NEW p \in Peers PROVE LastNews(p)' /\ NoNews(p)'
  <2>1. LastNews(p) /\ NoNews(p)
    BY DEF NewsTrue
  <2>2. \A i \in DOMAIN inbox : i \in DOMAIN inbox' /\ inbox'[i] = inbox[i]
    BY <1>1
  <2>3. \A i \in DOMAIN inbox' : IsNews(inbox'[i], p) => i \in DOMAIN inbox
    BY <1>1, <1>2
  <2>4. LastNews(p)'
    BY <2>1, <2>2, <2>3 DEF LastNews
  <2>5. NoNews(p)'
    BY <2>1, <2>2 DEF NoNews, InList
  <2> QED BY <2>4, <2>5
<1> QED BY <1>3 DEF NewsTrue

\* The worker tells of p.
LEMMA NewsTold ==
    ASSUME ListInv, NewsTrue, NEW p \in Peers, NEW m \in Heard, IsNews(m, p),
           inbox' = inbox \o <<m>>, UNCHANGED <<rows, italic>>,
           NEW x \in {"up", "gone"}, status' = [status EXCEPT ![p] = x],
           x = "gone" <=> m.kind = "gone"
    PROVE  NewsTrue'
<1>1. /\ Len(inbox) \in Nat /\ DOMAIN inbox = 1..Len(inbox)
      /\ DOMAIN inbox' = 1..(Len(inbox) + 1)
      /\ \A i \in 1..Len(inbox) : inbox'[i] = inbox[i]
      /\ inbox'[Len(inbox) + 1] = m
  <2>1. inbox' = Append(inbox, m)
    BY AppendIsConcat DEF ListInv
  <2> QED BY <2>1, AppendProperties, LenProperties DEF ListInv
<1>2. /\ status' \in [Peers -> {"none", "up", "gone"}] /\ status'[p] = x
      /\ \A q \in Peers \ {p} : status'[q] = status[q]
  BY DEF NewsTrue
<1>3. ASSUME NEW q \in Peers PROVE LastNews(q)' /\ NoNews(q)'
  <2>1. LastNews(q) /\ NoNews(q)
    BY DEF NewsTrue
  <2>2. CASE q = p
    <3>1. NoNews(q)'
      BY <1>1, <2>2 DEF NoNews
    <3>2. \A i \in DOMAIN inbox' : i # Len(inbox) + 1 => Len(inbox) + 1 > i
      BY <1>1
    <3>3. LastNews(q)'
      BY <1>1, <1>2, <2>2, <3>2 DEF LastNews
    <3> QED BY <3>1, <3>3
  <2>3. CASE q # p
    <3>1. ~IsNews(m, q)
      BY <2>3 DEF IsNews
    <3>2. \A i \in DOMAIN inbox' : IsNews(inbox'[i], q) => i \in DOMAIN inbox
      BY <1>1, <3>1
    <3>3. \A i \in DOMAIN inbox : i \in DOMAIN inbox' /\ inbox'[i] = inbox[i]
      BY <1>1
    <3>4. LastNews(q)'
      BY <1>2, <2>1, <2>3, <3>2, <3>3 DEF LastNews
    <3>5. NoNews(q)'
      BY <1>2, <2>1, <2>3, <3>3 DEF NoNews, InList
    <3> QED BY <3>4, <3>5
  <2> QED BY <2>2, <2>3
<1> QED BY <1>2, <1>3 DEF NewsTrue

\* The window handles a signal, and does with the style what it says.
LEMMA NewsHandled ==
    ASSUME ListInv, NewsTrue, inbox # <<>>, inbox' = Tail(inbox), status' = status,
           \A p \in Peers : IF IsNews(Head(inbox), p)
                            THEN p \in InList' => (p \in italic' <=> Head(inbox).kind = "gone")
                            ELSE (p \in italic' <=> p \in italic) /\ (p \in InList' <=> p \in InList)
    PROVE  NewsTrue'
<1>1. /\ Len(inbox) \in Nat \ {0} /\ DOMAIN inbox = 1..Len(inbox) /\ inbox[1] = Head(inbox)
      /\ DOMAIN inbox' = 1..(Len(inbox) - 1)
      /\ \A i \in 1..(Len(inbox) - 1) : inbox'[i] = inbox[i + 1]
  BY HeadTailProperties, LenProperties, EmptySeq DEF ListInv
<1>2. ASSUME NEW p \in Peers PROVE LastNews(p)' /\ NoNews(p)'
  <2>1. LastNews(p) /\ NoNews(p)
    BY DEF NewsTrue
  <2>2. LastNews(p)'
    <3> SUFFICES ASSUME NEW i \in 1..(Len(inbox) - 1), IsNews(inbox[i + 1], p),
                        \A j \in 1..(Len(inbox) - 1) : j > i => ~IsNews(inbox[j + 1], p)
                 PROVE  status[p] = "gone" <=> inbox[i + 1].kind = "gone"
      BY <1>1 DEF LastNews
    <3>1. ASSUME NEW j \in DOMAIN inbox, j > i + 1 PROVE ~IsNews(inbox[j], p)
      <4>1. j - 1 \in 1..(Len(inbox) - 1) /\ j - 1 > i /\ (j - 1) + 1 = j
        BY <1>1, <3>1
      <4> QED BY <4>1
    <3>2. i + 1 \in DOMAIN inbox
      BY <1>1
    <3> QED BY <2>1, <3>1, <3>2 DEF LastNews
  <2>3. NoNews(p)'
    <3> SUFFICES ASSUME p \in InList', \A i \in 1..(Len(inbox) - 1) : ~IsNews(inbox[i + 1], p)
                 PROVE  p \in italic' <=> status[p] = "gone"
      BY <1>1 DEF NoNews
    <3>1. ASSUME NEW j \in DOMAIN inbox, j > 1 PROVE ~IsNews(inbox[j], p)
      <4>1. j - 1 \in 1..(Len(inbox) - 1) /\ (j - 1) + 1 = j
        BY <1>1, <3>1
      <4> QED BY <4>1
    <3>2. CASE IsNews(Head(inbox), p)
      <4>1. 1 \in DOMAIN inbox
        BY <1>1
      <4>2. status[p] = "gone" <=> Head(inbox).kind = "gone"
        BY <1>1, <2>1, <3>1, <3>2, <4>1 DEF LastNews
      <4> QED BY <3>2, <4>2
    <3>3. CASE ~IsNews(Head(inbox), p)
      <4>1. \A j \in DOMAIN inbox : ~IsNews(inbox[j], p)
        BY <1>1, <3>1, <3>3
      <4> QED BY <2>1, <3>3, <4>1 DEF NoNews
    <3> QED BY <3>2, <3>3
  <2> QED BY <2>2, <2>3
<1> QED BY <1>2 DEF NewsTrue

\* What carries StatusShown.
StatusInv == Addressed /\ Turns /\ NewsTrue

\* What the worker does keeps the notices and the news true.
LEMMA WorkerTells ==
    ASSUME ListInv, ViewInv, StatusInv, Worker
    PROVE  StatusInv'
<1>0. Addressed /\ Turns /\ NewsTrue
  BY DEF StatusInv
<1>v. ASSUME NEW s, Tell(s) PROVE inbox' = inbox \o s /\ UNCHANGED <<rows, italic>>
  BY <1>v DEF Tell, listVars
<1>1. ASSUME NEW p \in Peers, LearnOf(p) PROVE StatusInv'
  <2>1. /\ Tell(<<>>) /\ outbox' = outbox /\ known \subseteq known' /\ status' = status
        /\ <<>> \in Seq(Heard) /\ Len(<<>>) = 0
    BY <1>1 DEF LearnOf
  <2> DEFINE s == <<>>
  <2>2. /\ Tell(s) /\ s \in Seq(Heard)
        /\ \A i \in 1..Len(s) : s[i].kind = "text" /\ s[i].text \notin StatusTexts
    BY <2>1
  <2> HIDE DEF s
  <2>3. \A i \in 1..Len(s) : /\ s[i].kind = "text" => s[i].text \notin StatusTexts
                             /\ s[i].kind = "authed" => s[i].peer \in known'
    BY <2>2
  <2>4. Addressed' /\ Turns'
    BY <1>0, <2>1, <2>2, <2>3, TellsNoNotice
  <2>5. NewsTrue'
    BY <1>0, <1>v, <2>1, <2>2, OtherThings
  <2> QED BY <2>4, <2>5 DEF StatusInv
<1>2. ASSUME NEW p \in Peers, NEW m \in Heard, NEW x \in {"up", "gone"},
             IsNews(m, p), x = "gone" <=> m.kind = "gone", m.kind = "authed" => m.peer \in known',
             Tell(<<m>>), outbox' = outbox, known' = known, status' = [status EXCEPT ![p] = x]
      PROVE  StatusInv'
  <2> DEFINE s == <<m>>
  <2>1. s \in Seq(Heard) /\ Len(s) = 1 /\ s[1] = m /\ Tell(s)
    BY <1>2
  <2> HIDE DEF s
  <2>2. \A i \in 1..Len(s) : /\ s[i].kind = "text" => s[i].text \notin StatusTexts
                             /\ s[i].kind = "authed" => s[i].peer \in known'
    BY <1>2, <2>1 DEF IsNews
  <2>3. Addressed' /\ Turns'
    BY <1>0, <1>2, <2>1, <2>2, TellsNoNotice
  <2>4. NewsTrue'
    BY <1>0, <1>2, <1>v, NewsTold
  <2> QED BY <2>3, <2>4 DEF StatusInv
<1>3. ASSUME NEW p \in Peers, ConnectionStatusChange(p) PROVE StatusInv'
  <2>1. Gone(p) \in Heard /\ IsNews(Gone(p), p) /\ Gone(p).kind = "gone"
    BY DEF Heard, Signals, Gone, IsNews
  <2> QED BY <1>2, <1>3, <2>1 DEF ConnectionStatusChange
<1>4. ASSUME NEW p \in Peers, NEW n \in Names, NewAuthedPeer(p, n) PROVE StatusInv'
  <2>1. /\ Authed(p, n) \in Heard /\ IsNews(Authed(p, n), p) /\ Authed(p, n).kind = "authed"
        /\ Authed(p, n).peer = p
    BY DEF Heard, Signals, Authed, IsNews
  <2>2. p \in known' /\ known' = known
    BY <1>4 DEF NewAuthedPeer
  <2> QED BY <1>2, <1>4, <2>1, <2>2 DEF NewAuthedPeer
<1>5. ASSUME NEW s \in Seq(Heard), Tell(s), UNCHANGED <<outbox, known, status>>,
             \A i \in 1..Len(s) : s[i].kind = "text" /\ s[i].text \notin StatusTexts
      PROVE  StatusInv'
  <2>1. Addressed' /\ Turns'
    BY <1>0, <1>5, TellsNoNotice
  <2>2. NewsTrue'
    BY <1>0, <1>v, <1>5, OtherThings
  <2> QED BY <2>1, <2>2 DEF StatusInv
<1>6. ASSUME NEW c \in Chats, MsgRecieved(c) PROVE StatusInv'
  <2> DEFINE m == Text(c, "said", TRUE)
             s == <<m>>
  <2>1. m \in Heard /\ m.kind = "text" /\ m.text = "said"
    BY TextNames, PrintSignal DEF Text
  <2> HIDE DEF m
  <2>2. s \in Seq(Heard) /\ Len(s) = 1 /\ s[1] = m
    BY <2>1
  <2>3. Tell(s) /\ UNCHANGED <<outbox, known, status>>
    BY <1>6 DEF MsgRecieved, workerVars, m
  <2> HIDE DEF s
  <2> QED BY <1>5, <2>1, <2>2, <2>3 DEF StatusTexts
<1>7. ASSUME MidnightTimerPersistent PROVE StatusInv'
  <2>1. PICK order \in SetToSeqs(known \cup {Global}) :
          Tell([i \in DOMAIN order |-> Text(order[i], "date", FALSE)])
    BY <1>7 DEF MidnightTimerPersistent
  <2> DEFINE s == [i \in DOMAIN order |-> Text(order[i], "date", FALSE)]
  <2>2. IsFiniteSet(known \cup {Global}) /\ known \cup {Global} \subseteq Chats
    BY FS_AddElement DEF ListInv, Chats
  <2>3. order \in Seq(known \cup {Global})
    BY <2>2, Arranged
  <2>4. Len(order) \in Nat /\ DOMAIN order = 1..Len(order) /\ \A i \in 1..Len(order) : order[i] \in Chats
    BY <2>2, <2>3, LenProperties, ElementOfSeq
  <2>5. \A i \in 1..Len(order) : Text(order[i], "date", FALSE) \in Heard
    <3> SUFFICES ASSUME NEW i \in 1..Len(order) PROVE Text(order[i], "date", FALSE) \in Heard
      OBVIOUS
    <3> QED BY <2>4, TextNames, PrintSignal
  <2>6. s \in [1..Len(order) -> Heard]
    BY <2>4, <2>5
  <2>7. s \in Seq(Heard) /\ Len(s) = Len(order)
    <3> DEFINE n == Len(order)
    <3>1. n \in Nat /\ s \in [1..n -> Heard]
      BY <2>4, <2>6
    <3> HIDE DEF n, s
    <3>2. s \in Seq(Heard) /\ Len(s) = n
      BY <3>1, SeqDef, LenProperties
    <3> QED BY <3>2 DEF n
  <2>8. \A i \in 1..Len(s) : s[i].kind = "text" /\ s[i].text \notin StatusTexts
    BY <2>4, <2>7 DEF Text, StatusTexts
  <2>9. Tell(s) /\ UNCHANGED <<outbox, known, status>>
    BY <1>7, <2>1 DEF MidnightTimerPersistent, workerVars
  <2> HIDE DEF s
  <2> QED BY <1>5, <2>7, <2>8, <2>9
<1>8. ASSUME AddMessageToPeer PROVE StatusInv'
  <2> DEFINE s == Printed(Head(outbox))
  <2>1. Addressed' /\ Turns'
    BY <1>0, <1>8, PostsComeBack
  <2>2. Tell(s) /\ status' = status /\ Head(outbox) \in Asked
    BY <1>8, TailSet DEF AddMessageToPeer, workerVars, ListInv
  <2>3. s \in Seq(Heard) /\ \A i \in 1..Len(s) : s[i].kind = "text"
    <3> DEFINE h == Head(outbox)
    <3>1. ASSUME NEW t \in Texts, t # "said", s = <<Text(h.conv, t, FALSE)>>
          PROVE  s \in Seq(Heard) /\ \A i \in 1..Len(s) : s[i].kind = "text"
      <4> DEFINE m == Text(h.conv, t, FALSE)
      <4>1. h.conv \in Chats
        BY <2>2, PostFields
      <4> HIDE DEF h
      <4>2. m \in Heard /\ m.kind = "text"
        BY <3>1, <4>1, PrintSignal DEF Text
      <4> HIDE DEF m, s
      <4>3. s = <<m>>
        BY <3>1 DEF m
      <4> QED BY <4>2, <4>3
    <3>2. CASE h.kind = "notice" /\ h.conv \in known
      <4>1. s = <<Text(h.conv, h.text, FALSE)>> /\ h.text \in Texts /\ h.text # "said"
        BY <2>2, <3>2, PostFields DEF Printed
      <4> QED BY <3>1, <4>1
    <3>3. CASE h.kind = "typed" /\ h.conv \in known
      <4>1. s = <<Text(h.conv, "mine", FALSE)>>
        BY <3>3 DEF Printed
      <4> QED BY <3>1, <4>1, TextNames
    <3>4. CASE ~(h.kind = "notice" /\ h.conv \in known) /\ ~(h.kind = "typed" /\ h.conv \in known)
      <4>1. s = <<>>
        BY <3>4 DEF Printed
      <4>2. <<>> \in Seq(Heard) /\ Len(<<>>) = 0
        OBVIOUS
      <4> HIDE DEF s
      <4> QED BY <4>1, <4>2
    <3> QED BY <3>2, <3>3, <3>4
  <2>4. NewsTrue'
    <3> HIDE DEF s
    <3> QED BY <1>0, <1>v, <2>2, <2>3, OtherThings
  <2> QED BY <2>1, <2>4 DEF StatusInv
<1> QED BY <1>1, <1>3, <1>4, <1>6, <1>7, <1>8 DEF Worker

\* What the main thread does keeps the notices and the news true.
LEMMA WindowTells ==
    ASSUME ListInv, ViewInv, Shown, Shown', StatusInv, Window
    PROVE  StatusInv'
<1>0. Addressed /\ Turns /\ NewsTrue /\ InList \subseteq Peers
  BY ElementOfSeq, LenProperties DEF StatusInv, Shown, InList, ToSet
<1>i. ASSUME UNCHANGED vars PROVE \A c \in Convs : Log(c)' = Log(c)
  BY <1>i DEF vars, Log, Restored, OnStack
<1>1. ASSUME UNCHANGED <<rows, italic, inbox, known, status>>,
             \A c \in Convs : Log(c)' = Log(c),
             \/ outbox' = outbox
             \/ \E m \in Asked : /\ outbox' = Append(outbox, m)
                                 /\ m.kind = "notice" => m.conv \in InList /\ m.text \notin StatusTexts
      PROVE  StatusInv'
  <2>1. InList' = InList
    BY <1>1 DEF InList
  <2>2. NewsTrue'
    BY <1>0, <1>1, <2>1 DEF NewsTrue, LastNews, NoNews
  <2>3. CASE outbox' = outbox
    <3>1. Addressed'
      BY <1>0, <1>1, <2>1, <2>3 DEF Addressed
    <3>2. ASSUME NEW p \in Peers PROVE Truth(Told(p)', p \in italic')
      <4>1. Log(p)' = Log(p)
        BY <1>1 DEF Peers
      <4> QED BY <1>0, <1>1, <2>3, <4>1 DEF Turns, Told
    <3> QED BY <2>2, <3>1, <3>2 DEF StatusInv, Turns
  <2>4. ASSUME NEW m \in Asked, outbox' = Append(outbox, m),
               m.kind = "notice" => m.conv \in InList /\ m.text \notin StatusTexts
        PROVE  Addressed' /\ Turns'
    BY <1>0, <1>1, <2>1, <2>4, PostsKeep
  <2> QED BY <1>1, <2>2, <2>3, <2>4 DEF StatusInv
<1>2. ASSUME NEW c \in Chats, Select(c) PROVE StatusInv'
  <2>1. \A d \in Convs : Log(d)' = Log(d)
    BY <1>2, CurrentMoves, GlobalAssumption DEF Select, Chats, Peers
  <2> QED BY <1>1, <1>2, <2>1 DEF Select, workerVars
<1>3. ASSUME SendButtonClicked PROVE StatusInv'
  <2>1. Typed(current) \in Asked /\ Typed(current).kind # "notice"
    BY <1>3 DEF SendButtonClicked, Typed, Asked, Posts
  <2> QED BY <1>1, <1>i, <1>3, <2>1 DEF SendButtonClicked, workerVars, listVars
<1>4. ASSUME UpdateListWidget PROVE StatusInv'
  <2> DEFINE m == Notice(Head(inbox).peer, "renamed")
  <2>1. Head(inbox).peer \in Peers
    BY <1>4, FirstSignal, SignalFields DEF UpdateListWidget, Signalled
  <2>2. /\ m \in Asked /\ m.kind = "notice" /\ m.conv = Head(inbox).peer
        /\ m.text \notin StatusTexts
    BY <2>1, TextNames DEF Notice, Asked, Posts, StatusTexts
  <2>3. \A d \in Convs : Log(d)' = Log(d)
    <3>1. CASE current = Global
      <4>1. PICK c \in Neighbours : CurrentItemChanged(c)
        BY <1>4, <3>1 DEF UpdateListWidget
      <4> QED BY <4>1, CurrentMoves, NeighboursHaveUuids DEF ListInv
    <3>2. CASE current # Global
      BY <1>4, <1>i, <3>2 DEF UpdateListWidget
    <3> QED BY <3>1, <3>2
  <2>4. /\ outbox' = IF Head(inbox).peer \in InList THEN Append(outbox, m) ELSE outbox
        /\ UNCHANGED <<rows, italic, inbox, known, status>>
    BY <1>4 DEF UpdateListWidget, workerVars
  <2> HIDE DEF m
  <2> QED BY <1>1, <2>2, <2>3, <2>4
<1>5. ASSUME NEW p \in Peers, NEW on \in BOOLEAN, inbox # <<>>, inbox' = Tail(inbox),
             IsNews(Head(inbox), p), on <=> Head(inbox).kind = "gone",
             \/ SetItalics(p, on)
             \/ ~on /\ p \notin InList /\ UNCHANGED <<italic, outbox>>,
             UNCHANGED <<known, status>>, \A c \in Convs : Log(c)' = Log(c),
             InList' = InList \/ (InList' = InList \cup {p} /\ Head(inbox).kind = "authed")
      PROVE  StatusInv'
  <2>1. Head(inbox).kind \in {"gone", "authed"} /\ Head(inbox).peer = p
    BY <1>5 DEF IsNews
  <2>2. InList' \subseteq known /\ InList \subseteq InList'
    <3>1. 1 \in DOMAIN inbox /\ inbox[1] = Head(inbox)
      BY <1>5, HeadTailProperties, LenProperties, EmptySeq DEF ListInv
    <3>2. Head(inbox).kind = "authed" => p \in known
      BY <1>0, <2>1, <3>1 DEF Addressed
    <3> QED BY <1>0, <1>5, <3>2 DEF Addressed
  <2>3. Addressed' /\ Turns'
    BY <1>0, <1>5, <2>1, <2>2, StyleTurns
  <2>4. ASSUME NEW q \in Peers
        PROVE  IF IsNews(Head(inbox), q)
               THEN q \in InList' => (q \in italic' <=> Head(inbox).kind = "gone")
               ELSE (q \in italic' <=> q \in italic) /\ (q \in InList' <=> q \in InList)
    <3>1. CASE q = p
      <4>1. CASE SetItalics(p, on)
        <5>1. p \in InList => (p \in italic' <=> on)
          BY <4>1 DEF SetItalics, Restyles
        <5>2. p \notin InList => p \notin italic'
          BY <4>1 DEF SetItalics, Restyles, Shown
        <5>3. p \notin InList /\ p \in InList' => ~on
          BY <1>5
        <5> QED BY <1>5, <3>1, <5>1, <5>2, <5>3
      <4>2. CASE ~on /\ p \notin InList /\ UNCHANGED <<italic, outbox>>
        BY <1>5, <3>1, <4>2 DEF Shown
      <4> QED BY <1>5, <4>1, <4>2
    <3>2. CASE q # p
      <4>1. ~IsNews(Head(inbox), q)
        BY <2>1, <3>2 DEF IsNews
      <4>2. q \in italic' <=> q \in italic
        BY <1>5, <3>2 DEF SetItalics
      <4> QED BY <1>5, <3>2, <4>1, <4>2
    <3> QED BY <3>1, <3>2
  <2>5. NewsTrue'
    BY <1>0, <1>5, <2>4, NewsHandled
  <2> QED BY <2>3, <2>5 DEF StatusInv
<1>6. ASSUME SetItalicsOnItem PROVE StatusInv'
  <2> DEFINE p == Head(inbox).peer
  <2>1. inbox # <<>> /\ Head(inbox).kind = "gone" /\ SetItalics(p, TRUE) /\ inbox' = Tail(inbox)
        /\ UNCHANGED <<vars, rows, known, status>>
    BY <1>6 DEF SetItalicsOnItem, Signalled, Handled, workerVars
  <2>2. p \in Peers /\ IsNews(Head(inbox), p)
    BY <2>1, FirstSignal DEF Heard, Signals, IsNews
  <2>3. InList' = InList /\ \A c \in Convs : Log(c)' = Log(c)
    BY <1>i, <2>1 DEF InList
  <2> HIDE DEF p
  <2> QED BY <1>5, <2>1, <2>2, <2>3
<1>7. ASSUME UpdateUnchanged PROVE StatusInv'
  <2> DEFINE p == Head(inbox).peer
  <2>1. inbox # <<>> /\ Head(inbox).kind = "authed" /\ SetItalics(p, FALSE) /\ inbox' = Tail(inbox)
        /\ UNCHANGED <<vars, rows, known, status>>
    BY <1>7 DEF UpdateUnchanged, Signalled, Handled, workerVars
  <2>2. p \in Peers /\ IsNews(Head(inbox), p)
    BY <2>1, FirstSignal, SignalFields DEF IsNews
  <2>3. InList' = InList /\ \A c \in Convs : Log(c)' = Log(c)
    BY <1>i, <2>1 DEF InList
  <2> HIDE DEF p
  <2> QED BY <1>5, <2>1, <2>2, <2>3
<1>8. ASSUME ListUpdated PROVE StatusInv'
  <2> DEFINE p == Head(inbox).peer
  <2>1. inbox # <<>> /\ Head(inbox).kind = "authed" /\ inbox' = Tail(inbox)
        /\ UNCHANGED <<known, status>>
    BY <1>8 DEF ListUpdated, ListInv, InTheMiddle, Handled, workerVars
  <2>2. p \in Peers /\ p \in Convs /\ IsNews(Head(inbox), p)
    BY <2>1, FirstSignal, SignalFields DEF IsNews, Peers
  <2>3. InList' = InList \cup {p}
    <3>1. IsFiniteSet(InList \cup {p})
      BY ListIsFinite, FS_AddElement DEF Shown
    <3>2. rows' \in SetToSeqs(InList \cup {p})
      BY <1>8 DEF ListUpdated, Sorted
    <3> HIDE DEF p
    <3> QED BY <3>1, <3>2, Arranged DEF InList
  <2>4. /\ \A c \in Convs : Log(c)' = Log(c)
        /\ SetItalics(p, FALSE) \/ (p \notin InList /\ UNCHANGED <<italic, outbox>>)
    <3>1. CASE p \in InList
      BY <1>8, <1>i, <3>1 DEF ListUpdated
    <3>2. CASE p \notin InList
      <4>1. NewHistory(p) /\ UNCHANGED <<italic, outbox>>
        BY <1>8, <3>2 DEF ListUpdated
      <4> QED BY <2>2, <3>2, <4>1, LogKept
    <3> QED BY <3>1, <3>2
  <2> HIDE DEF p
  <2> QED BY <1>5, <2>1, <2>2, <2>3, <2>4
<1>9. ASSUME PrintToTextBrowser PROVE StatusInv'
  <2>1. Addressed' /\ Turns'
    BY <1>0, <1>9, PrintTurns
  <2>2. /\ inbox # <<>> /\ Head(inbox).kind = "text" /\ inbox' = Tail(inbox)
        /\ UNCHANGED <<rows, italic, status>>
    BY <1>9 DEF PrintToTextBrowser, Signalled, Handled, workerVars
  <2>3. InList' = InList /\ \A p \in Peers : ~IsNews(Head(inbox), p)
    BY <2>2 DEF InList, IsNews
  <2>4. NewsTrue'
    BY <1>0, <2>2, <2>3, NewsHandled
  <2> QED BY <2>1, <2>4 DEF StatusInv
<1> QED BY <1>2, <1>3, <1>4, <1>6, <1>7, <1>8, <1>9 DEF Window

\* At the start nobody is in the list, and nothing has been said.
LEMMA StatusStart == ListInit => StatusInv
<1> SUFFICES ASSUME ListInit PROVE StatusInv
  OBVIOUS
<1>1. /\ inbox = <<>> /\ outbox = <<>> /\ italic = {} /\ InList = {}
      /\ DOMAIN inbox = {} /\ DOMAIN outbox = {}
  BY DEF ListInit, InList, ToSet
<1>2. ASSUME NEW p \in Peers PROVE Truth(Told(p), p \in italic)
  <2>1. Log(p) = <<>>
    BY DEF Log, Restored, ListInit, Init, Peers
  <2>2. OnTheWay(p, inbox) = <<>> /\ OnTheWay(p, outbox) = <<>>
    <3> DEFINE w == OnTheWay(p, <<>>)
    <3>1. <<>> \in Seq(Mail) /\ Len(<<>>) = 0
      OBVIOUS
    <3>2. w \in Seq(Said) /\ Len(w) = 0
      BY <3>1, WayType
    <3> HIDE DEF w
    <3>3. w = <<>>
      BY <3>2, EmptySeq
    <3> QED BY <1>1, <3>3 DEF w
  <2>3. Told(p) = <<>>
    BY <2>1, <2>2, ConcatEmptySeq DEF Told
  <2>4. DOMAIN <<>> = {} /\ Len(<<>>) = 0
    OBVIOUS
  <2>5. Truth(<<>>, FALSE)
    BY <2>4 DEF Truth, ByTurns, SaidGone
  <2> QED BY <1>1, <2>3, <2>5 DEF Truth
<1>3. Addressed
  BY <1>1 DEF Addressed
<1>4. NewsTrue
  BY <1>1 DEF NewsTrue, LastNews, NoNews, ListInit
<1> QED BY <1>2, <1>3, <1>4 DEF StatusInv, Turns

\* In the list and in the conversation, the user is told of a peer's connection
\* what is so, as far as the queues between the threads have been emptied
\* (setItalicsOnItem, updateListWidget, addMessageToPeer, printToTextBrowser).
THEOREM StatusIsShown == ListSpec => []StatusShown
<1>1. AllInv /\ AllInv' /\ StatusInv /\ [ListNext]_allVars => StatusInv'
  <2> SUFFICES ASSUME AllInv, AllInv', StatusInv, [ListNext]_allVars PROVE StatusInv'
    OBVIOUS
  <2>1. CASE Worker
    BY <2>1, WorkerTells DEF AllInv
  <2>2. CASE Window
    BY <2>2, WindowTells DEF AllInv
  <2>3. CASE UNCHANGED allVars
    <3>1. /\ InList' = InList /\ UNCHANGED <<inbox, outbox, known, status, italic>>
          /\ \A c \in Convs : Log(c)' = Log(c)
      BY <2>3 DEF allVars, vars, listVars, workerVars, InList, Log, Restored, OnStack
    <3>2. Addressed' /\ NewsTrue'
      BY <3>1 DEF StatusInv, Addressed, NewsTrue, LastNews, NoNews
    <3>3. ASSUME NEW p \in Peers PROVE Truth(Told(p)', p \in italic')
      <4>1. Log(p)' = Log(p)
        BY <3>1 DEF Peers
      <4> QED BY <3>1, <4>1 DEF StatusInv, Turns, Told
    <3> QED BY <3>2, <3>3 DEF StatusInv, Turns
  <2> QED BY <2>1, <2>2, <2>3 DEF ListNext
<1>2. AllInv /\ StatusInv => StatusShown
  <2> SUFFICES ASSUME AllInv, StatusInv PROVE StatusShown
    OBVIOUS
  <2>1. InList \subseteq Peers
    BY ElementOfSeq, LenProperties DEF AllInv, Shown, InList, ToSet
  <2>2. NoticesTellTheTruth
    BY <2>1 DEF StatusInv, Turns, Told, Truth, NoticesTellTheTruth
  <2>3. ASSUME NEW p \in InList,
               \A i \in DOMAIN inbox :
                   inbox[i] # Gone(p) /\ inbox[i] \notin {Authed(p, n) : n \in Names}
        PROVE  p \in italic <=> status[p] = "gone"
    <3>1. ASSUME NEW i \in DOMAIN inbox PROVE ~IsNews(inbox[i], p)
      <4> DEFINE m == inbox[i]
      <4>1. m \in Heard
        BY ElementOfSeq, LenProperties DEF AllInv, ListInv
      <4> HIDE DEF m
      <4>2. m.kind = "gone" /\ m.peer = p => m = Gone(p)
        BY <4>1 DEF Heard, Signals, Gone
      <4>3. m.kind = "authed" /\ m.peer = p => m \in {Authed(p, n) : n \in Names}
        BY <4>1 DEF Heard, Signals, Authed
      <4> QED BY <2>3, <4>2, <4>3 DEF m, IsNews
    <3> QED BY <2>1, <3>1 DEF StatusInv, NewsTrue, NoNews
  <2> QED BY <2>2, <2>3 DEF ItalicsTellStatus, StatusShown
<1> QED BY <1>1, <1>2, StatusStart, WindowInvariant, PTL DEF ListSpec
===============================================================================
