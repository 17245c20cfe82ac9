----------------------------- MODULE BDMInject -----------------------------
(***************************************************************************)
(* The indexer thread (BlockDataManagerThread) and its rendezvous object   *)
(* (BDM_Inject), src/cppForSwig/BDM_mainthread.h.                          *)
(*                                                                         *)
(* Callers wake the worker with notify() and block in waitRun() until a    *)
(* run() that follows their notify has completed.  The worker walks its    *)
(* start-up phases, then sleeps in wait(ms) and calls run() when notified. *)
(* The rendezvous keeps two counters: the number of notify() calls and the *)
(* notify count covered by the last completed run (the run-complete mark). *)
(* waitRun() snapshots the notify count and returns once the run-complete  *)
(* mark reaches it, or at once when the sticky failure flag is set.        *)
(* requestShutdown() is observed by the worker at its checkpoints; the    *)
(* notifications already made are drained first (spec.md 4.4: Shutdown is *)
(* drained by shutdownAndWait), then the thread emits its final callback   *)
(* and exits.                                                              *)
(*                                                                         *)
(* The bodies of these methods are not in the repository's headers; their  *)
(* behaviour is taken from the header comments and from spec.md 4.4 and 5. *)
(***************************************************************************)
EXTENDS Naturals, Sequences, FiniteSets

CONSTANTS
    Callers,      \* threads that call notify() then waitRun()
    MaxNotify     \* bound on the number of notify() calls in a behaviour

ASSUME Callers # {} /\ MaxNotify \in Nat \ {0}

\* The worker's phases (spec.md 4.4): start-up, steady state, and the two ends.
StartupPhases == <<"Start", "Init", "ScanHeaders", "ScanBlocks", "BuildHistory">>
Phases == {StartupPhases[i] : i \in 1..Len(StartupPhases)}
            \cup {"Ready", "Applying", "Failed", "Shutdown"}
\* Phases in which the worker has stopped for good.
Stopped == {"Failed", "Shutdown"}

VARIABLES
    notifyCount,   \* number of notify() calls so far
    servedCount,   \* run-complete mark: notify count covered by the last completed run
    runSnap,       \* notify count read when the current run() began
    failure,       \* the sticky failure flag (setFailureFlag)
    phase,         \* the worker thread's phase
    dbReady,       \* the isDBReady latch
    shutdownReq,   \* requestShutdown() has been called
    finalCallback, \* a last callback (finished or failed) came after requestShutdown()
    pc,            \* pc[c]: "idle", "notified" (after notify) or "waitRun"
    snap,          \* snap[c]: notify count read by c on entering waitRun()
    result,        \* result[c]: how c's last waitRun() ended
    shutPc,        \* the shutdown requester: "idle", "waiting" or "done"
    shutAnswer,    \* what requestShutdown() returned
    \* history variables, read only by the properties
    seenByRun,     \* callers that had notified when the current run began
    ranAfter,      \* callers for which a run begun after their notify has completed
    waitingAtRun,  \* callers already inside waitRun() when the current run began
    coveredWait    \* callers whose waitRun() began before a completed run

vars == <<notifyCount, servedCount, runSnap, failure, phase, dbReady,
          shutdownReq, finalCallback, pc, snap, result, shutPc, shutAnswer,
          seenByRun, ranAfter, waitingAtRun, coveredWait>>
worker == <<servedCount, runSnap, failure, phase, dbReady, finalCallback>>
history == <<seenByRun, ranAfter, waitingAtRun, coveredWait>>

TypeOK ==
    /\ notifyCount \in 0..MaxNotify
    /\ servedCount \in 0..notifyCount
    /\ runSnap \in 0..MaxNotify
    /\ failure \in BOOLEAN
    /\ phase \in Phases
    /\ dbReady \in BOOLEAN
    /\ shutdownReq \in BOOLEAN
    /\ finalCallback \in BOOLEAN
    /\ pc \in [Callers -> {"idle", "notified", "waitRun"}]
    /\ snap \in [Callers -> 0..MaxNotify]
    /\ result \in [Callers -> {"none", "ran", "failed"}]
    /\ shutPc \in {"idle", "waiting", "done"}
    /\ shutAnswer \in BOOLEAN
    /\ seenByRun \subseteq Callers /\ ranAfter \subseteq Callers
    /\ waitingAtRun \subseteq Callers /\ coveredWait \subseteq Callers

\* Some notify() is not yet covered by a completed run().
Pending == notifyCount > servedCount

Init ==
    /\ notifyCount = 0 /\ servedCount = 0 /\ runSnap = 0
    /\ failure = FALSE
    /\ phase = "Start"
    /\ dbReady = FALSE
    /\ shutdownReq = FALSE
    /\ finalCallback = FALSE
    /\ pc = [c \in Callers |-> "idle"]
    /\ snap = [c \in Callers |-> 0]
    /\ result = [c \in Callers |-> "none"]
    /\ shutPc = "idle" /\ shutAnswer = FALSE
    /\ seenByRun = {} /\ ranAfter = {} /\ waitingAtRun = {} /\ coveredWait = {}

-----------------------------------------------------------------------------
(* Caller side                                                             *)

\* notify(): wake the worker; notifications coalesce into one counter.
Notify(c) ==
    /\ pc[c] = "idle"
    /\ notifyCount < MaxNotify
    /\ notifyCount' = notifyCount + 1
    /\ pc' = [pc EXCEPT ![c] = "notified"]
    /\ seenByRun' = seenByRun \ {c} /\ ranAfter' = ranAfter \ {c}
    /\ waitingAtRun' = waitingAtRun \ {c} /\ coveredWait' = coveredWait \ {c}
    /\ UNCHANGED <<worker, shutdownReq, snap, result, shutPc, shutAnswer>>

\* waitRun() entry: snapshot the notify count, then block.
WaitRun(c) ==
    /\ pc[c] = "notified"
    /\ snap' = [snap EXCEPT ![c] = notifyCount]
    /\ pc' = [pc EXCEPT ![c] = "waitRun"]
    /\ UNCHANGED <<notifyCount, worker, shutdownReq, result, shutPc,
                   shutAnswer, history>>

\* waitRun() returns normally once the run-complete mark reaches its snapshot.
WaitRunReturn(c) ==
    /\ pc[c] = "waitRun"
    /\ servedCount >= snap[c]
    /\ pc' = [pc EXCEPT ![c] = "idle"]
    /\ result' = [result EXCEPT ![c] = "ran"]
    /\ UNCHANGED <<notifyCount, worker, shutdownReq, snap, shutPc,
                   shutAnswer, history>>

\* Mutant: the failure flag is only looked at after a run has completed.
WaitRunThrowAfterRun(c) ==
    /\ pc[c] = "waitRun"
    /\ failure /\ servedCount >= snap[c]
    /\ pc' = [pc EXCEPT ![c] = "idle"]
    /\ result' = [result EXCEPT ![c] = "failed"]
    /\ UNCHANGED <<notifyCount, worker, shutdownReq, snap, shutPc,
                   shutAnswer, history>>

\* waitRun() throws BDMFailure once the failure flag is set.
WaitRunThrow(c) ==
    /\ pc[c] = "waitRun"
    /\ failure
    /\ pc' = [pc EXCEPT ![c] = "idle"]
    /\ result' = [result EXCEPT ![c] = "failed"]
    /\ UNCHANGED <<notifyCount, worker, shutdownReq, snap, shutPc,
                   shutAnswer, history>>

-----------------------------------------------------------------------------
(* Worker thread                                                           *)

\* start(): one start-up phase completes and the next begins; the last one
\* leads to Ready, where the isDBReady latch is set.
StartupStep ==
    /\ \E i \in 1..Len(StartupPhases) :
         /\ phase = StartupPhases[i]
         /\ phase' = IF i = Len(StartupPhases) THEN "Ready" ELSE StartupPhases[i + 1]
    /\ ~shutdownReq \/ Pending
    /\ dbReady' = (phase' = "Ready")
    /\ UNCHANGED <<notifyCount, servedCount, runSnap, failure, finalCallback,
                   shutdownReq, pc, snap, result, shutPc, shutAnswer, history>>

\* setFailureFlag(): the worker aborts, sets the sticky flag and reports
\* the failure through its callback; it never advances again.  The shutdown
\* requester can only take a callback made after its request as the last one.
SetFailureFlag ==
    /\ failure' = TRUE
    /\ phase' = "Failed"
    /\ finalCallback' = shutdownReq
    /\ UNCHANGED <<servedCount, runSnap, dbReady>>

\* A start-up phase fails (corrupt database, magic mismatch, ...).
StartupFail ==
    /\ phase \in {StartupPhases[i] : i \in 2..Len(StartupPhases)}
    /\ SetFailureFlag
    /\ UNCHANGED <<notifyCount, shutdownReq, pc, snap, result, shutPc,
                   shutAnswer, history>>

\* wait(ms) in Ready wakes on a pending notify and run() begins.
BeginRun ==
    /\ phase = "Ready"
    /\ notifyCount > servedCount
    /\ runSnap' = notifyCount
    /\ phase' = "Applying"
    /\ seenByRun' = {c \in Callers : pc[c] \in {"notified", "waitRun"}}
    /\ waitingAtRun' = {c \in Callers : pc[c] = "waitRun"}
    /\ UNCHANGED <<notifyCount, servedCount, failure, dbReady, finalCallback,
                   shutdownReq, pc, snap, result, shutPc, shutAnswer,
                   ranAfter, coveredWait>>

\* Mutant: the run-complete mark is read from the notify counter when run()
\* ends, so a notify() that arrived during run() counts as served.
EndRunReadsCurrent ==
    /\ phase = "Applying"
    /\ servedCount' = notifyCount
    /\ phase' = "Ready"
    /\ ranAfter' = ranAfter \cup seenByRun
    /\ coveredWait' = coveredWait \cup waitingAtRun
    /\ UNCHANGED <<notifyCount, runSnap, failure, dbReady, finalCallback,
                   shutdownReq, pc, snap, result, shutPc, shutAnswer,
                   seenByRun, waitingAtRun>>

\* Mutant: the run-complete mark is set one past the notify count the run
\* read when it began.
EndRunOffByOne ==
    /\ phase = "Applying"
    /\ servedCount' = runSnap + 1
    /\ phase' = "Ready"
    /\ ranAfter' = ranAfter \cup seenByRun
    /\ coveredWait' = coveredWait \cup waitingAtRun
    /\ UNCHANGED <<notifyCount, runSnap, failure, dbReady, finalCallback,
                   shutdownReq, pc, snap, result, shutPc, shutAnswer,
                   seenByRun, waitingAtRun>>

\* Mutant: the run-complete mark counts runs rather than notifications.
EndRunCountsRuns ==
    /\ phase = "Applying"
    /\ servedCount' = servedCount + 1
    /\ phase' = "Ready"
    /\ ranAfter' = ranAfter \cup seenByRun
    /\ coveredWait' = coveredWait \cup waitingAtRun
    /\ UNCHANGED <<notifyCount, runSnap, failure, dbReady, finalCallback,
                   shutdownReq, pc, snap, result, shutPc, shutAnswer,
                   seenByRun, waitingAtRun>>

\* run() completes: the notifications it covered are marked served and
\* every waiter is woken.
EndRun ==
    /\ phase = "Applying"
    /\ servedCount' = runSnap
    /\ phase' = "Ready"
    /\ ranAfter' = ranAfter \cup seenByRun
    /\ coveredWait' = coveredWait \cup waitingAtRun
    /\ UNCHANGED <<notifyCount, runSnap, failure, dbReady, finalCallback,
                   shutdownReq, pc, snap, result, shutPc, shutAnswer,
                   seenByRun, waitingAtRun>>

\* run() fails inside its write transaction.
RunFail ==
    /\ phase = "Applying"
    /\ SetFailureFlag
    /\ UNCHANGED <<notifyCount, shutdownReq, pc, snap, result, shutPc,
                   shutAnswer, history>>

\* The worker sees the shutdown request at a checkpoint (between phases, or
\* when wait(ms) times out in Ready) once no notification is pending (a
\* pending one keeps it starting up and running: the drain), emits its
\* final callback and exits.
ObserveShutdown ==
    /\ shutdownReq /\ ~Pending
    /\ phase \in Phases \ ({"Applying"} \cup Stopped)
    /\ phase' = "Shutdown"
    /\ dbReady' = FALSE
    /\ finalCallback' = TRUE
    /\ UNCHANGED <<notifyCount, servedCount, runSnap, failure, shutdownReq,
                   pc, snap, result, shutPc, shutAnswer, history>>

-----------------------------------------------------------------------------
(* Shutdown requester                                                      *)

\* Mutant: requestShutdown() always tells its caller to wait.
RequestShutdownAlwaysWait ==
    /\ shutPc = "idle"
    /\ shutdownReq' = TRUE
    /\ shutAnswer' = TRUE
    /\ shutPc' = IF shutAnswer' THEN "waiting" ELSE "done"
    /\ UNCHANGED <<notifyCount, worker, pc, snap, result, history>>

\* requestShutdown(): non-blocking; returns whether the caller should still
\* wait for the worker's final callback.
RequestShutdown ==
    /\ shutPc = "idle"
    /\ shutdownReq' = TRUE
    /\ shutAnswer' = (phase \notin Stopped)
    /\ shutPc' = IF shutAnswer' THEN "waiting" ELSE "done"
    /\ UNCHANGED <<notifyCount, worker, pc, snap, result, history>>

\* The requester receives the worker's final callback.
ReceiveFinalCallback ==
    /\ shutPc = "waiting"
    /\ finalCallback
    /\ shutPc' = "done"
    /\ UNCHANGED <<notifyCount, worker, shutdownReq, pc, snap, result,
                   shutAnswer, history>>

-----------------------------------------------------------------------------
WorkerStep == StartupStep \/ BeginRun \/ EndRun \/ ObserveShutdown

Next ==
    \/ \E c \in Callers : Notify(c) \/ WaitRun(c) \/ WaitRunReturn(c) \/ WaitRunThrow(c)
    \/ WorkerStep
    \/ StartupFail \/ RunFail
    \/ RequestShutdown \/ ReceiveFinalCallback

\* The worker thread is always scheduled again (weak fairness); a blocked
\* waiter is woken by the condition-variable broadcast once its condition
\* holds.  Failures, notifications and the shutdown request are not forced.
Fairness ==
    /\ WF_vars(WorkerStep)
    /\ \A c \in Callers : WF_vars(WaitRunReturn(c)) /\ WF_vars(WaitRunThrow(c))
    /\ WF_vars(ReceiveFinalCallback)

Spec == Init /\ [][Next]_vars /\ Fairness

-----------------------------------------------------------------------------
(* Properties                                                              *)

\* Notify coalescing (spec.md 8.8): one completed run() satisfies every
\* caller that was already waiting in waitRun() when the run began, however
\* many notify() calls preceded it.
CoalescedRunServesWaiters ==
    \A c \in Callers :
        (pc[c] = "waitRun" /\ c \in coveredWait) => servedCount >= snap[c]

\* Every waitRun() entered before the worker exited eventually returns,
\* normally or by BDMFailure: a failure in any phase wakes it, and a
\* shutdown requested while it waits first drains its notify().  (A
\* waitRun() begun after the thread has exited has no worker to serve it.)
WaitRunReturns ==
    \A c \in Callers : (pc[c] = "waitRun" /\ phase # "Shutdown") ~> pc[c] = "idle"

\* When requestShutdown() tells its caller to wait for the final callback,
\* that callback eventually arrives.
ShutdownAnswerHonoured ==
    shutPc = "waiting" ~> shutPc = "done"

-----------------------------------------------------------------------------
(* Refinement of the abstract rendezvous                                   *)

\* The worker's phase as the abstract worker sees it.
AbstractWorker ==
    CASE phase \in {StartupPhases[i] : i \in 1..Len(StartupPhases)} -> "starting"
      [] phase = "Ready" -> "ready"
      [] phase = "Applying" -> "running"
      [] phase = "Failed" -> "failed"
      [] phase = "Shutdown" -> "shutdown"

\* The counters are abstracted away: a caller is served once a run that
\* began after its notify has completed (ranAfter), and the current run is
\* for the callers that were unserved when it began.
R == INSTANCE Rendezvous WITH
        st <- [c \in Callers |-> CASE pc[c] = "idle" -> "idle"
                                    [] pc[c] = "notified" -> "notified"
                                    [] pc[c] = "waitRun" -> "waiting"],
        served <- ranAfter,
        captured <- IF phase = "Applying" THEN seenByRun \ ranAfter ELSE {},
        w <- AbstractWorker,
        shutReq <- shutdownReq

\* BDM_Inject with its two counters implements the rendezvous promised by
\* the comments on notify() and waitRun(): every waitRun() that returns
\* normally follows a completed run() begun after the caller's notify(), a
\* run begins only while some caller is unserved, and waiters return once
\* served or once the worker has failed.
RendezvousSpec == R!ASpec

=============================================================================
