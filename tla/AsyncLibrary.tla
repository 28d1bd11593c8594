---------------------------- MODULE AsyncLibrary ----------------------------
(***************************************************************************)
(* The asynchronous calls of zz9k.library: the pending list of             *)
(* amiga/src/zz9k_library.c and, in amiga/src/zz9k_library_resident.c, the *)
(* semaphore around every call, the dispatcher process, the completion     *)
(* interrupt, and OpenLibrary / CloseLibrary.  The mailbox below it is     *)
(* reduced to what module Mailbox shows of it: requests are completed in   *)
(* some order and completions are read first in, first out.                *)
(*                                                                         *)
(* Each task has one ZZ9KAsyncRequest, named like the task, and waits for  *)
(* its reply on its own port (or for a callback, which is the same step).  *)
(* A request is the pair [ctx, id]: contexts are numbered, and each        *)
(* numbers its requests from 1; the code compares ids only.                *)
(***************************************************************************)
EXTENDS Naturals, Sequences, FiniteSets, SequencesExt

CONSTANTS
    Tasks,         \* tasks that open the library
    Dispatcher,    \* the library's dispatcher process
    Nobody,        \* no task
    IrqSupported,  \* ZZ9K_CAP_IRQ_COMPLETION
    RingSize,      \* requests the card has in hand at most
    WaitPolls,     \* timeout_polls of ZZ9KWaitAsync
    MaxId,         \* bound: requests of one context
    MaxContexts,   \* bound: contexts opened
    MixedCalls,    \* whether the wrappers built on zz9k_call are used while
                   \* asynchronous requests are pending
    OpenInClose    \* whether a task may open the library while the last
                   \* closer waits for the dispatcher (Wait breaks Forbid)

ASSUME AsyncLibraryAssumption ==
    /\ Dispatcher \notin Tasks /\ Nobody \notin Tasks \cup {Dispatcher}
    /\ {IrqSupported, MixedCalls, OpenInClose} \subseteq BOOLEAN
    /\ {RingSize, WaitPolls, MaxId, MaxContexts} \subseteq Nat \ {0}

VARIABLES
    inflight,  \* requests the card has in hand
    ring,      \* completions not yet read
    asserted,  \* the completion interrupt
    enabled,   \* completion interrupts are enabled, and their server installed
    irqTask,   \* base->irq_task
    owner,     \* who holds base->lock across steps
    openCnt,   \* lib_OpenCnt
    ctx,       \* base->core.ctx, 0 when closed
    contexts,  \* contexts opened so far
    nextId,    \* next request id of ctx
    pending,   \* core.pending_head
    async,     \* each task's ZZ9KAsyncRequest
    posted,    \* messages each task's port received for it
    disp,      \* dispatcher process
    dispSig,   \* its interrupt signal
    dispBreak, \* its SIGBREAKF_CTRL_C
    stopReq,   \* dispatcher_stop_requested
    startTask, \* dispatcher_start_task
    stopTask,  \* dispatcher_stop_task
    pc,        \* where each task is
    tsig,      \* a task's start or stop signal
    call,      \* request of a synchronous call
    polls      \* polls of a ZZ9KWaitAsync

card  == <<inflight, ring>>
irqs  == <<asserted, enabled, irqTask>>
core  == <<ctx, contexts, nextId>>
asyncs == <<pending, async, posted>>
dispatcher == <<disp, dispSig, dispBreak, stopReq, startTask, stopTask>>
vars == <<inflight, ring, asserted, enabled, irqTask, owner, openCnt, ctx,
          contexts, nextId, pending, async, posted, disp, dispSig, dispBreak,
          stopReq, startTask, stopTask, pc, tsig, call, polls>>

---------------------------------------------------------------------------
NoRequest == [ctx |-> 0, id |-> 0]
Cancelled == [ctx |-> 0, id |-> MaxId + 1]  \* reply of a cancelled request

NoAsync == [queued |-> FALSE, completed |-> FALSE, req |-> NoRequest,
            reply |-> NoRequest]

Init ==
    /\ inflight = {} /\ ring = <<>>
    /\ asserted = FALSE /\ enabled = FALSE /\ irqTask = Nobody
    /\ owner = Nobody /\ openCnt = 0
    /\ ctx = 0 /\ contexts = 0 /\ nextId = 1
    /\ pending = <<>>
    /\ async = [t \in Tasks |-> NoAsync]
    /\ posted = [t \in Tasks |-> 0]
    /\ disp = "none" /\ dispSig = FALSE /\ dispBreak = FALSE
    /\ stopReq = FALSE /\ startTask = Nobody /\ stopTask = Nobody
    /\ pc = [t \in Tasks |-> "out"]
    /\ tsig = [t \in Tasks |-> FALSE]
    /\ call = [t \in Tasks |-> NoRequest]
    /\ polls = [t \in Tasks |-> 0]

Goto(t, where) == pc' = [pc EXCEPT ![t] = where]

---------------------------------------------------------------------------
\* zz9k_lib_enter, with the context it opens when there is none.
Enter ==
    /\ owner = Nobody
    /\ IF ctx # 0 THEN UNCHANGED <<ctx, contexts>>
                  ELSE /\ contexts < MaxContexts
                       /\ contexts' = contexts + 1 /\ ctx' = contexts + 1

FirstId == IF ctx # 0 THEN nextId ELSE 1

\* zz9k_submit after Enter, with room in the request ring.
CanSubmit == Cardinality(inflight) < RingSize /\ FirstId <= MaxId

Submit(req) ==
    /\ CanSubmit
    /\ req = [ctx |-> ctx', id |-> FirstId]
    /\ nextId' = FirstId + 1
    /\ inflight' = inflight \cup {req}

\* Faulty variant: whatever completes, the oldest request is taken for it.
FindOldest(id) == Len(pending)

\* zz9k_find_pending: the first of the list with this id, 0 when none.
FindPending(id) ==
    LET found == {i \in DOMAIN pending : async[pending[i]].req.id = id}
    IN IF found = {} THEN 0 ELSE Min(found)

\* Faulty variant: the completed request stays in the list.
UnlinkForgotten(i) == pending

Unlink(i) == RemoveAt(pending, i)

\* zz9k_dispatch_reply: complete and report the first match; drain the
\* completion when nothing matches.
Dispatch(comp) ==
    IF FindPending(comp.id) = 0
    THEN UNCHANGED asyncs
    ELSE LET i == FindPending(comp.id)
             t == pending[i]
         IN /\ pending' = Unlink(i)
            /\ async' = [async EXCEPT ![t].queued = FALSE,
                                      ![t].completed = TRUE,
                                      ![t].reply = comp]
            /\ posted' = [posted EXCEPT ![t] = posted[t] + 1]

---------------------------------------------------------------------------
\* OpenLibrary and CloseLibrary run under Forbid, which the closer's Wait for
\* the dispatcher breaks.

\* The last closer waits for the dispatcher or for the semaphore.
CloserWaits(t) == pc[t] = "stopping" \/ owner # Nobody

OpenLib(t) ==
    /\ pc[t] = "out"
    /\ \A u \in Tasks : pc[u] \in {"stop", "stopping", "close"}
                            => OpenInClose /\ CloserWaits(u)
    /\ openCnt' = openCnt + 1
    /\ Goto(t, "idle")
    /\ UNCHANGED <<card, irqs, owner, core, asyncs, dispatcher, tsig, call, polls>>

\* A task closes the library when it has nothing queued.
CloseLib(t) ==
    /\ pc[t] = "idle" /\ ~async[t].queued
    /\ openCnt' = openCnt - 1
    /\ Goto(t, IF openCnt = 1 THEN "stop" ELSE "out")
    /\ async' = [async EXCEPT ![t] = NoAsync]
    /\ posted' = [posted EXCEPT ![t] = 0]
    /\ UNCHANGED <<card, irqs, owner, core, pending, dispatcher, tsig, call, polls>>

\* zz9k_lib_dispatcher_stop.
StopDispatcher(t) ==
    /\ pc[t] = "stop" /\ owner = Nobody
    /\ IF disp = "none"
       THEN Goto(t, "close") /\ UNCHANGED dispatcher
       ELSE /\ stopReq' = TRUE /\ stopTask' = t
            /\ dispBreak' = (disp # "created")
            /\ Goto(t, "stopping")
            /\ UNCHANGED <<disp, dispSig, startTask>>
    /\ UNCHANGED <<card, irqs, owner, openCnt, core, asyncs, tsig, call, polls>>

\* zz9k_lib_close after the dispatcher: interrupt, pending list and context go.
\* zz9k_cancel_pending completes what is queued, and reports to nobody.
CloseCore(t) ==
    /\ pc[t] = "close" \/ (pc[t] = "stopping" /\ tsig[t])
    /\ owner = Nobody
    /\ tsig' = [tsig EXCEPT ![t] = FALSE]
    /\ enabled' = FALSE /\ irqTask' = Nobody
    /\ asserted' = (asserted /\ ~enabled)
    /\ async' = [u \in Tasks |->
                   IF async[u].queued
                   THEN [async[u] EXCEPT !.queued = FALSE, !.completed = TRUE,
                                         !.reply = Cancelled]
                   ELSE async[u]]
    /\ pending' = <<>>
    /\ ctx' = 0 /\ nextId' = 1
    /\ Goto(t, "out")
    /\ UNCHANGED <<card, owner, openCnt, contexts, posted, dispatcher, call, polls>>

---------------------------------------------------------------------------
\* ZZ9KCallAsyncMsg and ZZ9KCallAsync, then zz9k_lib_dispatcher_ensure.

CallAsync(t) ==
    /\ pc[t] = "idle" /\ ~async[t].queued
    /\ Enter
    /\ \E req \in [ctx : {ctx'}, id : {FirstId}] :
          /\ Submit(req)
          /\ async' = [async EXCEPT ![t] = [NoAsync EXCEPT !.queued = TRUE,
                                                           !.req = req]]
    /\ pending' = <<t>> \o pending
    /\ posted' = [posted EXCEPT ![t] = 0]
    /\ Goto(t, "ensure")
    /\ UNCHANGED <<ring, irqs, owner, openCnt, dispatcher, tsig, call, polls>>

CallAsyncRefused(t) ==
    /\ pc[t] = "idle" /\ ~async[t].queued
    /\ Enter
    /\ Cardinality(inflight) >= RingSize
    /\ nextId' = FirstId
    /\ async' = [async EXCEPT ![t] = NoAsync]
    /\ posted' = [posted EXCEPT ![t] = 0]
    /\ UNCHANGED <<card, irqs, owner, openCnt, pending, dispatcher, pc, tsig, call,
                   polls>>

EnsureDispatcher(t) ==
    /\ pc[t] = "ensure" /\ owner = Nobody
    /\ IF disp # "none" \/ ctx = 0 \/ ~IrqSupported
       THEN Goto(t, "idle") /\ UNCHANGED dispatcher
       ELSE /\ disp' = "created" /\ dispSig' = FALSE /\ dispBreak' = FALSE
            /\ stopReq' = FALSE /\ startTask' = t
            /\ Goto(t, "starting")
            /\ UNCHANGED stopTask
    /\ UNCHANGED <<card, irqs, owner, openCnt, core, asyncs, tsig, call, polls>>

EnsureDone(t) ==
    /\ pc[t] = "starting" /\ tsig[t] /\ owner = Nobody
    /\ tsig' = [tsig EXCEPT ![t] = FALSE]
    /\ startTask' = Nobody
    /\ Goto(t, "idle")
    /\ UNCHANGED <<card, irqs, owner, openCnt, core, asyncs, disp, dispSig,
                   dispBreak, stopReq, stopTask, call, polls>>

\* A request that is not found (NOT_FOUND) changes nothing.
CancelAsync(t) ==
    /\ pc[t] = "idle" /\ async[t].queued
    /\ Enter /\ nextId' = FirstId
    /\ LET i == FindPending(async[t].req.id)
       IN i # 0 /\ pending[i] = t /\ pending' = Unlink(i)
    /\ async' = [async EXCEPT ![t].queued = FALSE, ![t].completed = TRUE,
                              ![t].reply = Cancelled]
    /\ posted' = [posted EXCEPT ![t] = posted[t] + 1]
    /\ UNCHANGED <<card, irqs, owner, openCnt, dispatcher, pc, tsig, call, polls>>

---------------------------------------------------------------------------
\* The calls that hold the library's semaphore while they poll.

\* zz9k_lib_wait_async: without a dispatcher the caller takes the interrupt.
WaitAsync(t) ==
    /\ pc[t] = "idle" /\ async[t].queued
    /\ Enter /\ nextId' = FirstId
    /\ owner' = t
    /\ polls' = [polls EXCEPT ![t] = 0]
    /\ Goto(t, "wait")
    /\ IF disp = "none" /\ IrqSupported
       THEN irqTask' = t /\ enabled' = TRUE /\ asserted' = FALSE
       ELSE UNCHANGED irqs
    /\ UNCHANGED <<card, openCnt, asyncs, dispatcher, tsig, call>>

\* Faulty variant: one poll too many.
PollsLeftLate(t) == polls[t] <= WaitPolls

PollsLeft(t) == polls[t] < WaitPolls

\* One ZZ9KPoll(1) of ZZ9KWaitAsync.
WaitPoll(t) ==
    /\ pc[t] = "wait" /\ ~async[t].completed /\ PollsLeft(t)
    /\ polls' = [polls EXCEPT ![t] = polls[t] + 1]
    /\ IF ring = <<>> THEN UNCHANGED <<ring, asyncs>>
                      ELSE ring' = Tail(ring) /\ Dispatch(Head(ring))
    /\ UNCHANGED <<inflight, irqs, owner, openCnt, core, dispatcher, pc, tsig, call>>

\* It has completed, its polls ran out, or Ctrl-C ended the wait.
WaitDone(t) ==
    /\ pc[t] = "wait"
    /\ async[t].completed \/ polls[t] > 0
    /\ owner' = Nobody
    /\ polls' = [polls EXCEPT ![t] = 0]
    /\ Goto(t, "idle")
    /\ IF irqTask = t
       THEN irqTask' = Nobody /\ enabled' = FALSE /\ asserted' = FALSE
       ELSE UNCHANGED irqs
    /\ UNCHANGED <<card, openCnt, core, asyncs, dispatcher, tsig, call>>

\* ZZ9KCall, or a wrapper built on zz9k_call; its return at any time stands for
\* a timeout or an error.
BeginCall(t) ==
    /\ pc[t] = "idle"
    /\ Enter
    /\ \E req \in [ctx : {ctx'}, id : {FirstId}] :
          Submit(req) /\ call' = [call EXCEPT ![t] = req]
    /\ owner' = t
    /\ \/ Goto(t, "call")
       \/ (MixedCalls \/ pending = <<>>) /\ Goto(t, "wrapper")
    /\ UNCHANGED <<ring, irqs, openCnt, asyncs, dispatcher, tsig, polls>>

\* Faulty variant: what ZZ9KCall reads for others it throws away.
CallDrops(comp) == UNCHANGED asyncs

\* A completion that ZZ9KCall reads for another request is dispatched.
CallKeeps(comp) == Dispatch(comp)

EndCall(t) == /\ owner' = Nobody /\ Goto(t, "idle")
              /\ call' = [call EXCEPT ![t] = NoRequest]

CallPoll(t) ==
    /\ pc[t] = "call" /\ ring # <<>>
    /\ ring' = Tail(ring)
    /\ IF Head(ring).id = call[t].id
       THEN EndCall(t) /\ UNCHANGED asyncs
       ELSE CallKeeps(Head(ring)) /\ UNCHANGED <<owner, pc, call>>
    /\ UNCHANGED <<inflight, irqs, openCnt, core, dispatcher, tsig, polls>>

WrapperPoll(t) ==
    /\ pc[t] = "wrapper" /\ ring # <<>>
    /\ ring' = Tail(ring)
    /\ IF Head(ring) = call[t] THEN EndCall(t) ELSE UNCHANGED <<owner, pc, call>>
    /\ UNCHANGED <<inflight, irqs, openCnt, core, asyncs, dispatcher, tsig, polls>>

CallTimeout(t) ==
    /\ pc[t] \in {"call", "wrapper"}
    /\ EndCall(t)
    /\ UNCHANGED <<card, irqs, openCnt, core, asyncs, dispatcher, tsig, polls>>

---------------------------------------------------------------------------
\* zz9k_lib_dispatcher_proc.

\* Faulty variant: it waits for the next interrupt before it polls.
NoFirstPoll == FALSE

\* Signal to itself before the loop: completions may be in the ring already.
FirstPoll == TRUE

\* Faulty variant: dispatcher_stop_task is cleared before it is read.
StopWaiterCleared == {Nobody}

\* Who is signalled when the process has gone.
StopWaiter == {stopTask}

SignalTasks(who) == tsig' = [t \in Tasks |-> tsig[t] \/ t \in who]

DispatcherStart ==
    /\ disp = "created" /\ owner = Nobody
    /\ IF stopReq
       THEN /\ disp' = "none"
            /\ stopTask' = Nobody
            /\ SignalTasks({startTask} \cup StopWaiter)
            /\ UNCHANGED <<irqs, dispSig>>
       ELSE IF ctx = 0
       THEN /\ disp' = "none"
            /\ irqTask' = Nobody
            /\ SignalTasks({startTask})
            /\ UNCHANGED <<asserted, enabled, dispSig, stopTask>>
       ELSE /\ disp' = "waiting"
            /\ enabled' = TRUE /\ irqTask' = Dispatcher /\ asserted' = FALSE
            /\ dispSig' = FirstPoll
            /\ SignalTasks({startTask})
            /\ UNCHANGED stopTask
    /\ UNCHANGED <<card, owner, openCnt, core, asyncs, dispBreak, stopReq,
                   startTask, pc, call, polls>>

DispatcherWake ==
    /\ disp = "waiting" /\ (dispSig \/ dispBreak)
    /\ dispSig' = FALSE
    /\ disp' = IF dispBreak THEN "exiting" ELSE "polling"
    /\ UNCHANGED <<card, irqs, owner, openCnt, core, asyncs, dispBreak, stopReq,
                   startTask, stopTask, pc, tsig, call, polls>>

\* One completion of ZZ9KPoll(16); it polls until the ring is empty.
DispatcherPoll ==
    /\ disp = "polling" /\ owner = Nobody
    /\ IF stopReq
       THEN disp' = "exiting" /\ UNCHANGED <<ring, asyncs>>
       ELSE IF ring = <<>> \/ ctx = 0
       THEN disp' = "waiting" /\ UNCHANGED <<ring, asyncs>>
       ELSE ring' = Tail(ring) /\ Dispatch(Head(ring)) /\ UNCHANGED disp
    /\ UNCHANGED <<inflight, irqs, owner, openCnt, core, dispSig, dispBreak,
                   stopReq, startTask, stopTask, pc, tsig, call, polls>>

DispatcherExit ==
    /\ disp = "exiting" /\ owner = Nobody
    /\ enabled' = FALSE /\ irqTask' = Nobody
    /\ asserted' = (asserted /\ ~enabled)
    /\ disp' = "none" /\ stopReq' = FALSE /\ stopTask' = Nobody
    /\ SignalTasks(StopWaiter)
    /\ UNCHANGED <<card, owner, openCnt, core, asyncs, dispSig, dispBreak,
                   startTask, pc, call, polls>>

---------------------------------------------------------------------------
\* zz9k_lib_irq_isr: acknowledge, then signal whoever waits.
Isr ==
    /\ asserted /\ enabled /\ ctx # 0
    /\ asserted' = FALSE
    /\ dispSig' = (dispSig \/ (irqTask = Dispatcher /\ disp # "none"))
    /\ UNCHANGED <<card, enabled, irqTask, owner, openCnt, core, asyncs, disp,
                   dispBreak, stopReq, startTask, stopTask, pc, tsig, call, polls>>

\* The card completes a request and asserts its interrupt.
FwComplete ==
    \E req \in inflight :
        /\ inflight' = inflight \ {req}
        /\ ring' = Append(ring, req)
        /\ asserted' = TRUE
        /\ UNCHANGED <<enabled, irqTask, owner, openCnt, core, asyncs, dispatcher,
                       pc, tsig, call, polls>>

---------------------------------------------------------------------------
\* Steps a task takes once it is in a call, and steps it chooses to begin.
TaskStep(t) ==
    \/ StopDispatcher(t) \/ CloseCore(t)
    \/ EnsureDispatcher(t) \/ EnsureDone(t)
    \/ WaitPoll(t) \/ WaitDone(t)
    \/ CallPoll(t) \/ WrapperPoll(t) \/ CallTimeout(t)

TaskBegin(t) ==
    \/ OpenLib(t) \/ CloseLib(t)
    \/ CallAsync(t) \/ CallAsyncRefused(t) \/ CancelAsync(t)
    \/ WaitAsync(t) \/ BeginCall(t)

DispatcherStep == DispatcherStart \/ DispatcherWake \/ DispatcherPoll
                  \/ DispatcherExit

Next == \/ \E t \in Tasks : TaskStep(t) \/ TaskBegin(t)
        \/ DispatcherStep
        \/ Isr
        \/ FwComplete

Spec == Init /\ [][Next]_vars

\* Tasks finish the calls they are in, the dispatcher and the interrupt server
\* run, semaphores are handed on in turn, and the card completes requests.
Fairness ==
    /\ \A t \in Tasks : SF_vars(TaskStep(t))
    /\ SF_vars(DispatcherStep)
    /\ WF_vars(Isr)
    /\ \A r \in [ctx : 1..MaxContexts, id : 1..MaxId] :
          WF_vars(FwComplete /\ inflight' = inflight \ {r})

FairSpec == Spec /\ Fairness

---------------------------------------------------------------------------
Request == [ctx : 0..MaxContexts, id : 0..(MaxId + 1)]

TypeOK ==
    /\ inflight \subseteq Request /\ ring \in Seq(Request)
    /\ {asserted, enabled, dispSig, dispBreak, stopReq} \subseteq BOOLEAN
    /\ irqTask \in Tasks \cup {Dispatcher, Nobody}
    /\ {owner, startTask, stopTask} \subseteq Tasks \cup {Nobody}
    /\ openCnt \in Nat
    /\ ctx \in 0..contexts /\ contexts \in 0..MaxContexts
    /\ nextId \in 1..(MaxId + 1)
    /\ pending \in Seq(Tasks)
    /\ async \in [Tasks -> [queued : BOOLEAN, completed : BOOLEAN,
                            req : Request, reply : Request]]
    /\ posted \in [Tasks -> Nat]
    /\ disp \in {"none", "created", "waiting", "polling", "exiting"}
    /\ pc \in [Tasks -> {"out", "idle", "ensure", "starting", "wait", "call",
                         "wrapper", "stop", "stopping", "close"}]
    /\ tsig \in [Tasks -> BOOLEAN] /\ call \in [Tasks -> Request]
    /\ polls \in [Tasks -> 0..WaitPolls]

\* A request is reported once when it completes, however it completes, and
\* never while it is queued.
ReportedOnce ==
    \A t \in Tasks :
        async[t].req # NoRequest =>
            posted[t] = IF async[t].completed THEN 1 ELSE 0

\* A completed request carries its own reply, or says it was cancelled; at worst it
\* carries the reply a context left behind that was closed before this one opened,
\* to its request with the same id.
OwnReply ==
    \A t \in Tasks :
        async[t].completed =>
            \/ async[t].reply \in {async[t].req, Cancelled}
            \/ /\ async[t].reply.id = async[t].req.id
               /\ async[t].reply.ctx < async[t].req.ctx

\* The dispatcher never sleeps on completions: when it waits and the ring is
\* not empty, a signal or an enabled interrupt that will wake it is pending.
NoLostWakeup ==
    disp = "waiting" /\ ring # <<>> =>
        \/ dispSig \/ dispBreak
        \/ (asserted /\ enabled /\ irqTask = Dispatcher)

\* A queued request is reported although its task only waits on its port.
QueuedIsReported ==
    \A t \in Tasks : async[t].queued ~> posted[t] > 0

\* A call to the library returns.
CallsReturn ==
    \A t \in Tasks : pc[t] \notin {"idle", "out"} ~> pc[t] \in {"idle", "out"}
=============================================================================
