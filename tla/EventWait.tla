----------------------------- MODULE EventWait -----------------------------
(***************************************************************************)
(* Waiting for asynchronous replies with a timeout                         *)
(* (amiga/include/zz9k/event_wait.h), as the programs built on it do:      *)
(* zz9k-libevent and -life (one request, one message), -batch and -cancel  *)
(* (several requests, one port), -ports (a port each) and -cb (a callback  *)
(* that signals the task).                                                 *)
(*                                                                         *)
(* One task waits for three kinds of signals at once: its reply ports or   *)
(* its callback, a timer request and Ctrl-C.  A signal and what it stands  *)
(* for are separate: Wait clears the bit, the message stays in the port.   *)
(* The library side is the pending list of AsyncLibrary: it posts each     *)
(* request's message once, in any order, or when the request is cancelled. *)
(***************************************************************************)
EXTENDS Naturals, Sequences, SequencesExt, FiniteSets

CONSTANTS
    Count,        \* requests of the tools with several
    Tools,        \* the tools the instance has
    MaxRounds,    \* rounds of zz9k-libeventlife, attempts of -cancel
    OthersOpen    \* whether another program has zz9k.library open

\* What a module that instantiates this one assumes of the constants.
EventWaitAssumption ==
    /\ {Count, MaxRounds} \subseteq Nat \ {0}
    /\ Tools \subseteq {"msg", "batch", "cancel", "ports", "callback"}
    /\ OthersOpen \subseteq BOOLEAN

VARIABLES
    tool,      \* the program that runs
    others,    \* another program keeps zz9k.library open
    pc,        \* where its task is
    round,     \* rounds or attempts begun
    pending,   \* requests on the library's pending list
    port,      \* messages in each reply port; callbacks that ran for "callback"
    signals,   \* signals set for the task
    woken,     \* signals the last Wait returned
    timer,     \* the timer request: "idle", "running", or "done" (replied)
    at,        \* port the drain is at
    got,       \* requests drained in this round of the wait
    seen,      \* requests the tool has dealt with
    expected,  \* requests it waits for
    lostRace,  \* the cancellation came too late
    result,    \* status of the wait, and in the end of the tool
    elapsed,   \* ghost: the time of the current wait has passed
    stray      \* ghost: messages posted to a port that was gone

env    == <<tool, others>>
helper == <<woken, timer, at, got, elapsed>>
prog   == <<round, seen, expected, lostRace>>
vars == <<tool, others, pc, round, pending, port, signals, woken, timer, at, got,
          seen, expected, lostRace, result, elapsed, stray>>

Single == {"msg", "callback"}
Used   == IF tool \in Single THEN {1} ELSE 1..Count
Ports  == IF tool = "ports" THEN 1..Count ELSE {1}

\* The port a request's message is posted to.
PortOf(r) == IF tool = "ports" THEN r ELSE 1

\* The signals: those of the ports are the ports themselves.
Timer == Count + 1
CtrlC == Count + 2

\* ZZ9K_EVENT_CANCEL_INDEX: the request zz9k-libeventcancel cancels, the last.
Cancelled == Count

\* Library open, ports and timer made, nothing queued.
InitAt(place) ==
    /\ tool \in Tools /\ others \in OthersOpen
    /\ pc = place /\ round = 1
    /\ pending = {} /\ port = [p \in 1..Count |-> <<>>] /\ signals = {}
    /\ woken = {} /\ timer = "idle" /\ at = 1 /\ got = {}
    /\ seen = {} /\ expected = {} /\ lostRace = FALSE /\ result = "NONE"
    /\ elapsed = FALSE /\ stray = {}

Init == InitAt("queue")

---------------------------------------------------------------------------
\* The tools.

AllQueued(k) ==
    /\ pc' = IF tool = "cancel" THEN "cancel" ELSE "enter"
    /\ k = Cardinality(Used) /\ UNCHANGED result

\* zz9k-libeventcancel waits for what was queued; the others leave at once.
QueuedInPart(k) ==
    /\ k < Cardinality(Used)
    /\ pc' = IF tool = "cancel" /\ k > 0 THEN "enter" ELSE "leave"
    /\ result' = "QUEUE_FAILED"

Queue ==
    /\ pc = "queue"
    /\ \E k \in 0..Cardinality(Used) :
        /\ pending' = 1..k /\ expected' = 1..k
        /\ AllQueued(k) \/ QueuedInPart(k)
    /\ UNCHANGED <<env, port, signals, helper, round, seen, lostRace, stray>>

\* ZZ9KCancelAsync: the message is posted at once with CANCELLED, or the
\* dispatcher was faster and the request is not pending any more.
Cancel ==
    /\ pc = "cancel" /\ pc' = "enter"
    /\ lostRace' = (Cancelled \notin pending)
    /\ pending' = pending \ {Cancelled}
    /\ IF Cancelled \in pending
       THEN /\ port' = [port EXCEPT ![1] = Append(@, Cancelled)]
            /\ signals' = signals \cup {1}
       ELSE UNCHANGED <<port, signals>>
    /\ UNCHANGED <<env, helper, round, seen, expected, result, stray>>

\* Faulty variant: stops at the last message but one.
AllButOneSeen == Cardinality(seen') + 1 >= Cardinality(expected)

AllSeen == Cardinality(seen') = Cardinality(expected)

\* What has arrived when the tool looks: zz9k-libeventcb looks at what its
\* callback noted, whatever the wait said about the time.
Arrived == IF tool = "callback" THEN ToSet(port[1]) ELSE got

\* Messages are counted; any other status ends the tool.
Handle ==
    /\ pc = "handle"
    /\ result' = IF tool = "callback" /\ result = "TIMEOUT" /\ Arrived # {}
                 THEN "OK" ELSE result
    /\ seen' = IF result' \in {"OK", "QUEUE_FAILED"} THEN seen \cup Arrived ELSE seen
    /\ pc' = IF result' \in {"OK", "QUEUE_FAILED"} /\ ~AllSeen THEN "enter" ELSE "leave"
    /\ got' = {} /\ woken' = {}
    /\ UNCHANGED <<env, round, pending, port, signals, timer, at, expected, lostRace,
                   elapsed, stray>>

\* zz9k_event_timer_close and DeleteMsgPort; the callback's signal is freed.
Leave ==
    /\ pc = "leave" /\ pc' = "close"
    /\ port' = [p \in 1..Count |-> <<>>]
    /\ signals' = signals \cap {CtrlC}
    /\ UNCHANGED <<env, pending, helper, prog, result, stray>>

\* CloseLibrary: the last one cancels what is pending without a message.
Close ==
    /\ pc = "close" /\ pc' = "closed"
    /\ pending' = IF others THEN pending ELSE {}
    /\ UNCHANGED <<env, port, signals, helper, prog, result, stray>>

\* Once more with new ports: zz9k-libeventlife (which opens the library again)
\* after a success, and -cancel (which kept it open) after a lost race.
Again ==
    /\ \/ pc = "closed" /\ tool = "msg"
       \/ pc = "close" /\ tool = "cancel" /\ lostRace
    /\ result = "OK" /\ round < MaxRounds
    /\ pc' = "queue" /\ round' = round + 1
    /\ seen' = {} /\ expected' = {} /\ lostRace' = FALSE /\ result' = "NONE"
    /\ elapsed' = FALSE
    /\ UNCHANGED <<env, pending, port, signals, woken, timer, at, got, stray>>

---------------------------------------------------------------------------
\* The wait: zz9k_event_wait_async_port, _ports, _msg and _signal.

\* zz9k_event_wait_signal looks at nothing before it waits.
Enter ==
    /\ pc = "enter" /\ pc' = IF tool = "callback" THEN "start" ELSE "drain"
    /\ at' = 1 /\ got' = {} /\ woken' = {}
    /\ UNCHANGED <<env, prog, pending, port, signals, timer, result, elapsed, stray>>

\* One port of zz9k_event_drain_async_ports: GetMsg until it is empty.  With
\* one request the single GetMsg of zz9k_event_wait_msg is the same.
Drain ==
    /\ pc = "drain"
    /\ got' = got \cup ToSet(port[at])
    /\ port' = [port EXCEPT ![at] = <<>>]
    /\ IF at + 1 \in Ports THEN at' = at + 1 /\ UNCHANGED pc
                           ELSE at' = 1 /\ pc' = "decide"
    /\ UNCHANGED <<env, prog, pending, signals, woken, timer, result, elapsed, stray>>

\* Faulty variant: the timer request is set up but not sent.
TimerNotSent == "idle"

TimerSent == "running"

\* Faulty variant: a wait begins with its signals cleared, to be rid of stale ones.
SignalsCleared == signals \ (Ports \cup {Timer})

SignalsKept == signals

\* zz9k_event_timer_start, when nothing had arrived yet.
Start ==
    /\ pc = "start" \/ (pc = "decide" /\ woken = {} /\ got = {})
    /\ timer' = TimerSent /\ elapsed' = FALSE /\ signals' = SignalsKept
    /\ pc' = "block"
    /\ UNCHANGED <<env, prog, pending, port, woken, at, got, result, stray>>

WaitMask == Ports \cup {Timer, CtrlC}

Block ==
    /\ pc = "block" /\ signals \cap WaitMask # {}
    /\ woken' = signals \cap WaitMask
    /\ signals' = signals \ WaitMask
    /\ got' = {}
    /\ pc' = IF tool = "callback" THEN "decide" ELSE "drain"
    /\ UNCHANGED <<env, prog, pending, port, timer, at, result, elapsed, stray>>

\* A drained reply, or the callback's own signal, beats Ctrl-C, and Ctrl-C the
\* timer; a port signal without a message is stale.
Answered == IF tool = "callback" THEN 1 \in woken ELSE got # {}

Decide ==
    /\ pc = "decide"
    /\ \/ /\ Answered
          /\ result' = IF result = "QUEUE_FAILED" THEN result ELSE "OK"
       \/ /\ ~Answered /\ CtrlC \in woken
          /\ result' = "CANCELLED"
       \/ /\ ~Answered /\ CtrlC \notin woken /\ Timer \in woken
          /\ result' = "TIMEOUT"
    /\ pc' = IF timer = "idle" THEN "handle" ELSE "finish"
    /\ UNCHANGED <<env, prog, pending, port, signals, woken, timer, at, got, elapsed,
                   stray>>

KeepWaiting ==
    /\ pc = "decide" /\ woken # {} /\ ~Answered /\ woken \cap {CtrlC, Timer} = {}
    /\ pc' = "block"
    /\ UNCHANGED <<env, prog, pending, port, signals, helper, result, stray>>

\* zz9k_event_timer_finish: CheckIO, AbortIO, WaitIO.  The reply of an aborted
\* request sets the port's signal unless WaitIO has to wait for it; that of a
\* request which had ended is only taken from the port.  No step clears the
\* signal.
Finish ==
    /\ pc = "finish" /\ pc' = "handle"
    /\ timer' = "idle"
    /\ \/ timer = "running" /\ signals' = signals \cup {Timer}
       \/ UNCHANGED signals
    /\ UNCHANGED <<env, prog, pending, port, woken, at, got, result, elapsed, stray>>

---------------------------------------------------------------------------
\* The surroundings.

Expire ==
    /\ timer = "running" /\ timer' = "done"
    /\ signals' = signals \cup {Timer}
    /\ elapsed' = TRUE
    /\ UNCHANGED <<env, pc, prog, pending, port, woken, at, got, result, stray>>

HasPorts == pc \notin {"close", "closed"}

\* The dispatcher takes request r off the list and posts its message, or calls
\* its callback, wherever the task is.
Complete(r) ==
    /\ r \in pending /\ pending' = pending \ {r}
    /\ IF HasPorts
       THEN /\ port' = [port EXCEPT ![PortOf(r)] = Append(@, r)]
            /\ signals' = signals \cup {PortOf(r)}
            /\ UNCHANGED stray
       ELSE /\ stray' = stray \cup {r}
            /\ UNCHANGED <<port, signals>>
    /\ UNCHANGED <<env, pc, prog, helper, result>>

Break ==
    /\ HasPorts /\ CtrlC \notin signals
    /\ signals' = signals \cup {CtrlC}
    /\ UNCHANGED <<env, pc, prog, pending, port, helper, result, stray>>

Step == \/ Queue \/ Cancel \/ Enter \/ Drain \/ Start \/ Block \/ Decide
        \/ KeepWaiting \/ Finish \/ Handle \/ Leave \/ Close \/ Again

Next == \/ Step \/ Expire \/ Break
        \/ \E r \in 1..Count : Complete(r)

Spec == Init /\ [][Next]_vars

\* The task runs and timer.device keeps its promise; nothing is assumed of the
\* library, so no reply need ever come.
Fairness == WF_vars(Step) /\ WF_vars(Expire)

FairSpec == Spec /\ Fairness

---------------------------------------------------------------------------
TypeOK ==
    /\ tool \in Tools /\ others \in BOOLEAN
    /\ pc \in {"queue", "cancel", "enter", "drain", "start", "block", "decide",
               "finish", "handle", "leave", "close", "closed"}
    /\ round \in 1..MaxRounds
    /\ pending \subseteq Used /\ port \in [1..Count -> Seq(Used)]
    /\ signals \subseteq WaitMask /\ woken \subseteq WaitMask
    /\ timer \in {"idle", "running", "done"}
    /\ at \in Ports /\ got \subseteq Used /\ seen \subseteq expected
    /\ expected \subseteq Used /\ lostRace \in BOOLEAN
    /\ result \in {"NONE", "OK", "TIMEOUT", "CANCELLED", "QUEUE_FAILED"}
    /\ elapsed \in BOOLEAN /\ stray \subseteq Used

\* The task never sleeps on a reply that is there: while it waits, every port
\* with a message in it has its signal set, whether the message came before
\* the first drain, during one, between two ports' drains, or with the signal
\* of another one.
NoReplySleptOn ==
    pc = "block" => \A p \in Ports : port[p] # <<>> => p \in signals

\* A program that ends well has had the message of each of its requests, and
\* the library holds none of them: nothing is posted to a port that is gone.
\* One that timed out, was cancelled or could not queue everything leaves its
\* requests behind.
SuccessLeavesNothing ==
    /\ (pc \in {"close", "closed"} /\ result = "OK") => seen = Used /\ pending = {}
    /\ stray # {} => result \in {"TIMEOUT", "CANCELLED", "QUEUE_FAILED"}

\* A wait that reports a timeout has waited for the time it was given: it keeps
\* waiting until a completion, cancel signal, or timeout is observed.
TimeoutIsGenuine == (pc = "handle" /\ result = "TIMEOUT") => elapsed

\* Whatever the library does, the program ends: every wait has its timer.
ToolEnds == (pc = "queue") ~> (pc = "closed")
=============================================================================
