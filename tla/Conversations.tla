---------------------------- MODULE Conversations ----------------------------
(***************************************************************************)
(* What the message viewer promises its user: every listed conversation    *)
(* keeps all of its texts in the order they came, and selecting it shows   *)
(* them.  Nothing is said of where the texts are kept.                     *)
(***************************************************************************)
EXTENDS Sequences

CONSTANTS
    Convs,   \* the uuids pages are kept under
    Global,  \* the uuid of the global chat, listed from the start
    Null,    \* the null uuid, whose page is there from the start, too
    Label,   \* the greeting shown before anything is selected
    Texts    \* what can be said

VARIABLES
    listed,  \* the conversations in the list
    log,     \* the texts of each
    open     \* the conversation on display, or the greeting

vars == <<listed, log, open>>

Init ==
    /\ listed = {Global, Null}
    /\ log = [c \in Convs |-> <<>>]
    /\ open = Label

List(c) ==
    /\ c \notin listed
    /\ listed' = listed \cup {c}
    /\ UNCHANGED <<log, open>>

Say(c, t) ==
    /\ c \in listed
    /\ log' = [log EXCEPT ![c] = Append(@, t)]
    /\ UNCHANGED <<listed, open>>

Open(c) ==
    /\ c \in listed
    /\ open' = c
    /\ UNCHANGED <<listed, log>>

Next == \E c \in Convs : List(c) \/ Open(c) \/ \E t \in Texts : Say(c, t)

Spec == Init /\ [][Next]_vars
===============================================================================
