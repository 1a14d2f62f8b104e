---------------------------- MODULE RestService ----------------------------
(***************************************************************************)
(* The REST server: the middleware chain of zaptrace/api/server.py and     *)
(* abuse_control.py in front of the artifact routes.  The middleware runs  *)
(* in the event loop, so the checks of one request are one step; the       *)
(* handler of an admitted request then runs in a thread, and the answer    *)
(* looks the limiter up again for its headers.                             *)
(***************************************************************************)
EXTENDS RateLimiter, ArtifactStore

CONSTANT
    Workloads    \* bound: the clients, calls, handler starts, handlers
                 \* at work at once and time of an instance

ASSUME ServiceAssumption ==
    \A w \in Workloads : /\ w.clients \subseteq Clients
                         /\ {w.starts, w.busy, w.time} \subseteq Nat

VARIABLES
    workload, \* the workload of this instance
    started,  \* handlers started (bounded by the workload)
    serving   \* the client each busy thread answers

vars == <<now, limiterVars, storeVars, workload, started, serving>>

Calls == {"create", "protect", "release", "delete", "cleanup"}

Init ==
    /\ now = 0
    /\ workload \in Workloads
    /\ started = 0
    /\ serving = [t \in Threads |-> None]
    /\ LimiterInit
    /\ StoreInit

-----------------------------------------------------------------------------
\* A request no handler thread is needed for: the limiter refuses it, or the
\* middleware after it does (no token, wrong audience, a streamed body that
\* grows too large), or the route answers from memory.  A body whose declared
\* length is too large is answered before the limiter and changes nothing.
AnswerDirectly(c) ==
    /\ c \in workload.clients /\ "probe" \in workload.calls
    /\ Check(c)
    /\ UNCHANGED <<now, storeVars, workload, started, serving>>

\* The request is admitted and its handler starts in a free thread.
Dispatch(c, t, op, s, a, reference) ==
    /\ c \in workload.clients /\ op \in workload.calls
    /\ started < workload.starts /\ serving[t] = None
    /\ Cardinality({u \in Threads : serving[u] # None}) < workload.busy
    /\ Check(c)
    /\ decision'.reason = "allowed"
    /\ StartCall(t, op, s, IF op \in {"create", "cleanup"} THEN None ELSE a,
                 IF op \in {"protect", "release"} THEN reference ELSE None)
    /\ started' = started + 1
    /\ serving' = [serving EXCEPT ![t] = c]
    /\ UNCHANGED <<now, workload>>

Work(t) ==
    /\ ThreadStep(t)
    /\ UNCHANGED <<now, limiterVars, workload, started, serving>>

\* secured_send: the headers of a handler's answer show the limiter's state
\* at that moment.
Respond(t) ==
    /\ serving[t] # None /\ thread[t] = Idle
    /\ Info(serving[t])
    /\ serving' = [serving EXCEPT ![t] = None]
    /\ UNCHANGED <<now, storeVars, workload, started>>

Tick ==
    /\ now < workload.time
    /\ now' = now + 1
    /\ UNCHANGED <<limiterVars, storeVars, workload, started, serving>>

Destroy(s) ==
    /\ "destroy" \in workload.calls
    /\ DestroySession(s)
    /\ UNCHANGED <<now, limiterVars, workload, started, serving>>

\* The server is killed and started again.
Kill ==
    /\ "kill" \in workload.calls
    /\ CrashStore
    /\ ForgetHits
    /\ serving' = [t \in Threads |-> None]
    /\ UNCHANGED <<now, workload, started>>

Next ==
    \/ \E c \in Clients : AnswerDirectly(c)
    \/ \E c \in Clients, t \in Threads, op \in Calls, s \in Sessions,
          a \in Artifacts, reference \in References : Dispatch(c, t, op, s, a, reference)
    \/ \E t \in Threads : Work(t) \/ Respond(t)
    \/ \E s \in Sessions : Destroy(s)
    \/ Tick
    \/ Kill

Spec == Init /\ [][Next]_vars

-----------------------------------------------------------------------------
\* The tables, the threads and the histories are of their types, and the
\* limiter's table never holds more keys than it may.
TypeOK == LimiterTypeOK /\ StoreTypeOK
=============================================================================
