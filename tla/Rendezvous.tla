----------------------------- MODULE Rendezvous -----------------------------
(***************************************************************************)
(* What BDM_Inject promises its callers (src/cppForSwig/BDM_mainthread.h,  *)
(* the comments on notify() and waitRun(); spec.md 4.4), without counters: *)
(* a caller that has notified is served by the first run() that begins     *)
(* after its notify and completes; its waitRun() returns normally only     *)
(* once it is served, and by BDMFailure once the worker has failed.        *)
(*                                                                         *)
(* The worker is reduced to where it is in its life: starting up, ready,   *)
(* running, failed or shut down.  A shutdown request is served only once  *)
(* no notified caller is left unserved (the drain of spec.md 4.4).         *)
(* BDMInject refines this module.                                          *)
(***************************************************************************)
CONSTANT Callers

VARIABLES
    st,        \* st[c]: "idle", "notified" (after notify()) or "waiting" (in waitRun())
    served,    \* callers served by a run that began after their last notify
    captured,  \* the unserved callers the current run began for
    w,         \* the worker: "starting", "ready", "running", "failed", "shutdown"
    shutReq    \* requestShutdown() has been called

avars == <<st, served, captured, w, shutReq>>

Pending == {c \in Callers : st[c] # "idle" /\ c \notin served}

AInit ==
    /\ st = [c \in Callers |-> "idle"]
    /\ served = {} /\ captured = {}
    /\ w = "starting" /\ shutReq = FALSE

ANotify(c) ==
    /\ st[c] = "idle"
    /\ st' = [st EXCEPT ![c] = "notified"]
    /\ served' = served \ {c}
    /\ UNCHANGED <<captured, w, shutReq>>

AWait(c) ==
    /\ st[c] = "notified"
    /\ st' = [st EXCEPT ![c] = "waiting"]
    /\ UNCHANGED <<served, captured, w, shutReq>>

AReturn(c) ==
    /\ st[c] = "waiting" /\ c \in served
    /\ st' = [st EXCEPT ![c] = "idle"]
    /\ UNCHANGED <<served, captured, w, shutReq>>

AThrow(c) ==
    /\ st[c] = "waiting" /\ w = "failed"
    /\ st' = [st EXCEPT ![c] = "idle"]
    /\ UNCHANGED <<served, captured, w, shutReq>>

AStart ==
    /\ w = "starting" /\ (~shutReq \/ Pending # {})
    /\ w' = "ready"
    /\ UNCHANGED <<st, served, captured, shutReq>>

ABegin ==
    /\ w = "ready" /\ Pending # {}
    /\ w' = "running"
    /\ captured' = Pending
    /\ UNCHANGED <<st, served, shutReq>>

AEnd ==
    /\ w = "running"
    /\ w' = "ready"
    /\ served' = served \cup captured
    /\ captured' = {}
    /\ UNCHANGED <<st, shutReq>>

AFail ==
    /\ w \in {"starting", "running"}
    /\ w' = "failed"
    /\ captured' = {}
    /\ UNCHANGED <<st, served, shutReq>>

ARequestShutdown ==
    /\ ~shutReq
    /\ shutReq' = TRUE
    /\ UNCHANGED <<st, served, captured, w>>

AShutdown ==
    /\ shutReq /\ w \in {"starting", "ready"} /\ Pending = {}
    /\ w' = "shutdown"
    /\ UNCHANGED <<st, served, captured, shutReq>>

AWorker == AStart \/ ABegin \/ AEnd \/ AShutdown

ANext ==
    \/ \E c \in Callers : ANotify(c) \/ AWait(c) \/ AReturn(c) \/ AThrow(c)
    \/ AWorker \/ AFail \/ ARequestShutdown

\* The worker keeps working while it can, and a served or failed waiter
\* returns.  Nothing is promised to a served waiter once the worker has
\* shut down: waitRun() compares the run-complete mark with the notify
\* count it read on entry, which may include other callers' notifies that
\* no run will now cover.
ASpec ==
    /\ AInit /\ [][ANext]_avars
    /\ WF_avars(AWorker)
    /\ \A c \in Callers : WF_avars(AReturn(c) /\ w # "shutdown") /\ WF_avars(AThrow(c))

=============================================================================
