------------------------------- MODULE Lifecycle -------------------------------
(***************************************************************************)
(* How the three threads of a process come up and go down.                 *)
(*                                                                         *)
(* The main thread makes the worker, whose constructor starts the server   *)
(* thread; the thread of the worker itself is started last, so what the    *)
(* server has to say waits in the queue of an object that no thread runs   *)
(* yet.  On the way down the main thread tells the worker thread to quit   *)
(* and waits for it; the destructor of the worker, run as its thread       *)
(* finishes, tells the server to exit, over an internal pair of            *)
(* bufferevents, and waits for that; both waits give up after a while.     *)
(* The worker knows its end of the pair from a message of the server.      *)
(*                                                                         *)
(* The names that begin with Life, or life, set it apart from Identity,    *)
(* which has another part of what the same process does.                   *)
(***************************************************************************)
EXTENDS Naturals, Sequences, SequencesExt

CONSTANT MaxAttempts  \* bound: peers that make themselves known in a run

ASSUME AttemptsAssumption == MaxAttempts \in Nat

VARIABLES
    main,      \* where the main thread is
    worker,    \* where the worker thread is
    server,    \* where the server thread is
    quitting,  \* QThread::quit was called for the worker thread
    inbox,     \* what is queued for the worker
    boxed,     \* warning boxes the worker has opened
    internal,  \* what internalBev points to: its end of the pair, or anything
    pair,      \* the internal pair of bufferevents
    pipe,      \* messages on it
    slot,      \* has the process a uuid slot of the ini file?
    attempts,  \* how many peers have made themselves known
    failed,    \* the server's set-up, or its event loop, has failed
    hasty,     \* the user quit before the worker had heard of the pair
    late,      \* a wait was given up
    fault      \* the first thing that ends the process there and then

lifeVars == <<main, worker, server, quitting, inbox, boxed, internal, pair, pipe, slot,
              attempts, failed, hasty, late, fault>>

mainVars   == <<main, quitting, slot>>
workerVars == <<worker, boxed, internal>>
serverVars == <<server, pair, attempts, failed>>
history    == <<hasty, late>>

Notices == {"self", "ports", "pair", "failure", "attempt", "finished"}

\* QThread::isRunning
ServerRuns == server \notin {"none", "done"}

\* Forms of the helpers below that a slip in the code would give them; the
\* specification does not use them.
Mutant_Announced == <<>>
Mutant_AfterExit == "done"
Mutant_Alarm == <<>>
Mutant_ExitCode == "connectTo"

\* setSelfCommsBufferevent, setInternalBufferevent, serverSetupFailure
Greeting  == <<"self">>
Announced == <<"pair">>
Alarm     == <<"failure">>

ExitCode  == "exit"

\* bufferevent_write(internalBev, ...)
WriteToServer(m) ==
    IF internal # "pair"
    THEN fault' = "wildWrite" /\ UNCHANGED pipe
    ELSE IF pair # "made"
    THEN fault' = "useAfterFree" /\ UNCHANGED pipe
    ELSE pipe' = Append(pipe, m) /\ UNCHANGED fault

-------------------------------------------------------------------------------
(***************************************************************************)
(* The main thread.                                                        *)
(***************************************************************************)
\* postInit up to the worker: the slot is taken, the constructor of
\* PXMPeerWorker starts the server thread.
PostInitAccepted ==
    /\ main = "init"
    /\ main' = "made"
    /\ slot' = "held"
    /\ worker' = "made"
    /\ server' = "begin"
    /\ UNCHANGED <<quitting, inbox, boxed, internal, pair, pipe, attempts, failed, history, fault>>

\* Another process has the lock file: alreadyRunning.
PostInitRefused ==
    /\ main = "init"
    /\ main' = "closing"
    /\ UNCHANGED <<quitting, slot, workerVars, serverVars, inbox, pipe, history, fault>>

\* The end of postInit: workerThread->start() and window->show().
StartWorker ==
    /\ main = "made"
    /\ main' = "open"
    /\ worker' = "started"
    /\ UNCHANGED <<quitting, slot, boxed, internal, serverVars, inbox, pipe, history, fault>>

\* closeEvent, lastWindowClosed, quit: exec returns.
CloseWindow ==
    /\ main = "open"
    /\ main' = "closing"
    /\ UNCHANGED <<quitting, slot, workerVars, serverVars, inbox, pipe, history, fault>>

\* The destructor of PXMAgentPrivate.
QuitWorker ==
    /\ main = "closing"
    /\ IF worker = "none"
       THEN main' = "waited" /\ UNCHANGED <<quitting, hasty>>
       ELSE /\ main' = "waiting"
            /\ quitting' = TRUE
            /\ hasty' = ((ServerRuns /\ pair = "none") \/ "pair" \in ToSet(inbox))
    /\ UNCHANGED <<slot, workerVars, serverVars, inbox, pipe, late, fault>>

\* workerThread->wait(3000), which may give up.
WorkerWaited ==
    /\ main = "waiting" /\ worker = "done"
    /\ main' = "waited"
    /\ UNCHANGED <<quitting, slot, workerVars, serverVars, inbox, pipe, history, fault>>

WorkerLate ==
    /\ main = "waiting" /\ worker # "done"
    /\ main' = "waited"
    /\ late' = TRUE
    /\ UNCHANGED <<quitting, slot, workerVars, serverVars, inbox, pipe, hasty, fault>>

ResetUUID ==
    /\ main = "waited"
    /\ main' = "gaveBack"
    /\ slot' = "free"
    /\ UNCHANGED <<quitting, workerVars, serverVars, inbox, pipe, history, fault>>

\* Its QObject children go with the agent; a QThread must not be running.
Exit ==
    /\ main = "gaveBack"
    /\ main' = "gone"
    /\ fault' = IF worker \in {"none", "done"} THEN fault ELSE "destroyedRunning"
    /\ UNCHANGED <<quitting, slot, workerVars, serverVars, inbox, pipe, history>>

Main ==
    \/ PostInitAccepted \/ PostInitRefused \/ StartWorker \/ QuitWorker
    \/ WorkerWaited \/ ResetUUID \/ Exit

-------------------------------------------------------------------------------
(***************************************************************************)
(* The worker thread.                                                      *)
(***************************************************************************)
\* QThread::exec, which returns at once if quit was called before.
EnterLoop ==
    /\ worker = "started"
    /\ worker' = "loop"
    /\ UNCHANGED <<mainVars, boxed, internal, serverVars, inbox, pipe, history, fault>>

\* Once quit has been called, what is queued may be handled or may not.
Handle ==
    /\ worker = "loop" /\ inbox # <<>>
    /\ LET n == Head(inbox) IN
         /\ internal' = IF n = "pair" THEN "pair" ELSE internal
         \* warnBox has no receiver, so the box is opened by this thread
         /\ boxed' = IF n = "failure" THEN boxed + 1 ELSE boxed
         /\ IF n = "attempt" THEN WriteToServer("connectTo") ELSE UNCHANGED <<pipe, fault>>
    /\ inbox' = Tail(inbox)
    /\ UNCHANGED <<mainVars, worker, serverVars, history>>

LeaveLoop ==
    /\ worker = "loop" /\ quitting
    /\ worker' = "finishing"
    /\ UNCHANGED <<mainVars, boxed, internal, serverVars, inbox, pipe, history, fault>>

AfterExit == "waiting"

\* The destructor of PXMPeerWorkerPrivate, run because the thread's finished
\* signal is connected to deleteLater: every entry of the table goes first.
DestroyWorker ==
    /\ worker = "finishing"
    /\ IF ServerRuns
       THEN WriteToServer(ExitCode) /\ worker' = AfterExit
       ELSE worker' = "done" /\ UNCHANGED <<pipe, fault>>
    /\ UNCHANGED <<mainVars, boxed, internal, serverVars, inbox, history>>

\* server->wait(5000), which may give up; the server is a child of the worker.
ServerWaited ==
    /\ worker = "waiting" /\ server = "done"
    /\ worker' = "done"
    /\ UNCHANGED <<mainVars, boxed, internal, serverVars, inbox, pipe, history, fault>>

ServerLate ==
    /\ worker = "waiting" /\ server # "done"
    /\ late' = TRUE
    /\ fault' = "destroyedRunning"
    /\ UNCHANGED <<mainVars, workerVars, serverVars, inbox, pipe, hasty>>

Worker == EnterLoop \/ Handle \/ LeaveLoop \/ DestroyWorker \/ ServerWaited

-------------------------------------------------------------------------------
(***************************************************************************)
(* The server thread: ServerThread::run.                                   *)
(***************************************************************************)
Tell(s) == inbox' = inbox \o s

Begin ==
    /\ server = "begin"
    /\ server' = "listening"
    /\ Tell(Greeting)
    /\ UNCHANGED <<mainVars, workerVars, pair, attempts, failed, pipe, history, fault>>

\* A socket cannot be had, or (later) an event.
SetupFails ==
    /\ server = "listening"
    /\ server' = "ending"
    /\ failed' = TRUE
    /\ \E told \in {<<>>, <<"ports">>} : Tell(told \o Alarm)
    /\ UNCHANGED <<mainVars, workerVars, pair, attempts, pipe, history, fault>>

SetupSucceeds ==
    /\ server = "listening"
    /\ server' = "dispatching"
    /\ pair' = "made"
    /\ Tell(<<"ports">> \o Announced)
    /\ UNCHANGED <<mainVars, workerVars, attempts, failed, pipe, history, fault>>

\* udpRecieve: a /name: datagram.
UdpReceive ==
    /\ server = "dispatching" /\ attempts < MaxAttempts
    /\ attempts' = attempts + 1
    /\ Tell(<<"attempt">>)
    /\ UNCHANGED <<mainVars, workerVars, server, pair, failed, pipe, history, fault>>

InternalCommsRead ==
    /\ server = "dispatching" /\ pipe # <<>>
    /\ server' = IF Head(pipe) = "exit" THEN "freeing" ELSE server
    /\ pipe' = Tail(pipe)
    /\ UNCHANGED <<mainVars, workerVars, pair, attempts, failed, inbox, history, fault>>

\* event_base_dispatch returns with an error.
DispatchFails ==
    /\ server = "dispatching"
    /\ server' = "freeing"
    /\ failed' = TRUE
    /\ UNCHANGED <<mainVars, workerVars, pair, attempts, inbox, pipe, history, fault>>

FreePairs ==
    /\ server = "freeing"
    /\ server' = "ending"
    /\ pair' = "freed"
    /\ UNCHANGED <<mainVars, workerVars, attempts, failed, inbox, pipe, history, fault>>

\* The finished signal is connected to the server's own deleteLater, in the
\* worker thread.
Finish ==
    /\ server = "ending"
    /\ server' = "done"
    /\ Tell(<<"finished">>)
    /\ UNCHANGED <<mainVars, workerVars, pair, attempts, failed, pipe, history, fault>>

Server == Begin \/ SetupFails \/ SetupSucceeds \/ InternalCommsRead \/ FreePairs \/ Finish

-------------------------------------------------------------------------------
LifeInit ==
    /\ main = "init" /\ worker = "none" /\ server = "none"
    /\ quitting = FALSE
    /\ inbox = <<>> /\ pipe = <<>>
    /\ boxed = 0
    /\ internal = "anything" /\ pair = "none"
    /\ slot = "free"
    /\ attempts = 0
    /\ failed = FALSE /\ hasty = FALSE /\ late = FALSE
    /\ fault = "none"

\* After a fault there is no process.
LifeNext ==
    /\ fault = "none"
    /\ \/ Main \/ CloseWindow \/ WorkerLate
       \/ Worker \/ ServerLate
       \/ Server \/ UdpReceive \/ DispatchFails

LifeSpec == LifeInit /\ [][LifeNext]_lifeVars

\* The three threads run; nothing makes the user close the window, a peer
\* appear, the event loop fail or a wait be given up.
LifeFairSpec ==
    /\ LifeSpec
    /\ WF_lifeVars(fault = "none" /\ Main)
    /\ WF_lifeVars(fault = "none" /\ Worker)
    /\ WF_lifeVars(fault = "none" /\ Server)

-------------------------------------------------------------------------------
\* The variables have their types.
LifeTypeOK ==
    /\ main \in {"init", "made", "open", "closing", "waiting", "waited", "gaveBack", "gone"}
    /\ worker \in {"none", "made", "started", "loop", "finishing", "waiting", "done"}
    /\ server \in {"none", "begin", "listening", "dispatching", "freeing", "ending", "done"}
    /\ quitting \in BOOLEAN /\ failed \in BOOLEAN /\ hasty \in BOOLEAN /\ late \in BOOLEAN
    /\ inbox \in Seq(Notices)
    /\ boxed \in Nat /\ attempts \in 0..MaxAttempts
    /\ internal \in {"anything", "pair"}
    /\ pair \in {"none", "made", "freed"}
    /\ pipe \in Seq({"connectTo", "exit"})
    /\ slot \in {"free", "held"}
    /\ fault \in {"none", "wildWrite", "useAfterFree", "destroyedRunning"}

\* The process ends in order: the worker writes to the server only over a pair
\* it has been given and that is still there, and no object goes before the
\* thread it stands for.  Otherwise the user quit while the server was being
\* set up, the event loop failed or a wait was given up; a set-up that failed
\* is never the reason once that thread has ended.
EndsInOrder == fault # "none" => hasty \/ late \/ (failed /\ pair # "none")

\* The types, and the order of the end.
LifecycleSound == LifeTypeOK /\ EndsInOrder

\* The uuid is free for the next process only when this one has no thread left
\* that sends in its name.
SlotGivenBackLast ==
    slot = "free" /\ main # "init" =>
        late \/ (worker \in {"none", "done"} /\ server \in {"none", "done"})

\* Closing the window ends the process, without a wait being given up.
ShutsDown == main = "closing" ~> main = "gone" \/ fault # "none"

\* The user hears of a set-up that failed.
FailureIsTold == failed /\ pair = "none" ~> boxed > 0 \/ main = "gone" \/ quitting
===============================================================================
