------------------------------ MODULE IrqWait ------------------------------
(***************************************************************************)
(* Blocking calls on an armed context (host/src/zz9k_host.c): instead of   *)
(* polling in short naps, zz9k_call sleeps until the SDK completion        *)
(* interrupt, a 4 ms heartbeat timer or Ctrl-C.                            *)
(*                                                                         *)
(* zz9k_arm_completion_irq installs an interrupt server and enables the    *)
(* interrupt; zz9k_await_completion_locked is the wait, with a hard bound  *)
(* and a bounded drain after Ctrl-C; zz9k_disarm_completion_irq undoes the *)
(* arming and then watches the interrupt status for requests that were     *)
(* abandoned while the card still works on them.  The caller is the        *)
(* archive tool: it frees the buffers of a request that ended or failed,   *)
(* leaks those of a cancelled one, and stops after a cancellation.         *)
(*                                                                         *)
(* Every context has one interrupt enable bit, one acknowledge register    *)
(* and one server chain in common with the others.  The rings are those of *)
(* Mailbox, here a list of completions: which reply belongs to which call  *)
(* is settled there, so a request is just the token [ctx, n].              *)
(***************************************************************************)
EXTENDS Naturals, Sequences, FiniteSetsExt

CONSTANTS
    Contexts,      \* armed contexts, one task each
    NoCtx,         \* no context: the mailbox semaphore is free
    MaxCalls,      \* bound: calls made by one context
    HardBeats,     \* bound: wake-ups before the hard timeout has surely passed
    DrainPolls,    \* bound: polls before the drain has surely expired
    WatchReads,    \* bound: status reads before the watch window is over
    MayDie         \* whether the card may stop answering

ASSUME IrqWaitAssumption ==
    /\ NoCtx \notin Contexts
    /\ {MaxCalls, HardBeats, DrainPolls, WatchReads} \subseteq Nat \ {0}
    /\ MayDie \in BOOLEAN

VARIABLES
    board,       \* "up" or "dead"
    enabled,     \* the SDK interrupt enable bit
    pending,     \* the SDK bit of the interrupt status: the line is asserted
    servers,     \* contexts whose server is in the interrupt chain
    ring,        \* completions not yet consumed
    working,     \* requests the firmware has not completed
    lock,        \* holder of the mailbox semaphore
    pc,          \* where each context's task is
    calls,       \* calls it has made; the current one is the last
    signal,      \* irq_signal_mask is set for the task
    ctrlC,       \* SIGBREAKF_CTRL_C is set for the task
    late,        \* late_irq_expected
    retired,     \* local of the watch loop
    count,       \* wake-ups, drain polls or status reads of the current loop
    latched,     \* zz9k_archive_cancel_latched
    freed,       \* ghost: requests whose buffers were freed
    givenUp      \* ghost: requests a call left behind other than by Ctrl-C

irq    == <<enabled, pending, servers>>
firm   == <<board, ring, working>>
wait   == <<signal, ctrlC>>
tool   == <<calls, latched, freed, givenUp>>
vars == <<board, enabled, pending, servers, ring, working, lock, pc, calls,
          signal, ctrlC, late, retired, count, latched, freed, givenUp>>

Tokens == [ctx : Contexts, n : 1..MaxCalls]

\* Faulty variant: the id awaited is not the id sent.
TokenAhead(c) == [ctx |-> c, n |-> calls[c] + 1]

Token(c) == [ctx |-> c, n |-> calls[c]]

Init ==
    /\ board = "up" /\ enabled = FALSE /\ pending = FALSE /\ servers = {}
    /\ ring = <<>> /\ working = {} /\ lock = NoCtx
    /\ pc = [c \in Contexts |-> "unarmed"]
    /\ calls = [c \in Contexts |-> 0]
    /\ signal = [c \in Contexts |-> FALSE]
    /\ ctrlC = [c \in Contexts |-> FALSE]
    /\ late = [c \in Contexts |-> FALSE]
    /\ retired = [c \in Contexts |-> FALSE]
    /\ count = [c \in Contexts |-> 0]
    /\ latched = [c \in Contexts |-> FALSE]
    /\ freed = {} /\ givenUp = {}

Move(c, from, to) == pc[c] = from /\ pc' = [pc EXCEPT ![c] = to]

\* Faulty variant: a loop without its bound.
AgainForever(c, limit) == count' = count

\* Once more round a bounded loop, and its start.
Again(c, limit) == /\ count[c] < limit
                   /\ count' = [count EXCEPT ![c] = count[c] + 1]

Reset(c) == count' = [count EXCEPT ![c] = 0]

---------------------------------------------------------------------------
\* zz9k_arm_completion_irq: server first, stale state cleared, then enable.

\* Faulty variant: the interrupt is enabled before its server is there.
AfterArmEnableFirst(step) ==
    CASE step = "start"  -> "enable"
      [] step = "enable" -> "clear"
      [] step = "clear"  -> "add"
      [] step = "add"    -> "ready"

AfterArm(step) ==
    CASE step = "start"  -> "add"
      [] step = "add"    -> "clear"
      [] step = "clear"  -> "enable"
      [] step = "enable" -> "ready"

StartArm(c) ==
    /\ Move(c, "unarmed", AfterArm("start"))
    /\ UNCHANGED <<irq, firm, wait, tool, lock, late, retired, count>>

ArmAddServer(c) ==
    /\ Move(c, "add", AfterArm("add"))
    /\ servers' = servers \cup {c}
    /\ UNCHANGED <<enabled, pending, firm, wait, tool, lock, late, retired, count>>

ArmClear(c) ==
    /\ Move(c, "clear", AfterArm("clear"))
    /\ signal' = [signal EXCEPT ![c] = FALSE]
    /\ pending' = FALSE
    /\ UNCHANGED <<enabled, servers, firm, ctrlC, tool, lock, late, retired, count>>

ArmEnable(c) ==
    /\ Move(c, "enable", AfterArm("enable"))
    /\ enabled' = TRUE
    /\ UNCHANGED <<pending, servers, firm, wait, tool, lock, late, retired, count>>

---------------------------------------------------------------------------
\* zz9k_call on the armed context, semaphore held from enqueue to return.

CallBegin(c) ==
    /\ ~latched[c] /\ calls[c] < MaxCalls
    /\ lock = NoCtx /\ lock' = c
    /\ Move(c, "ready", "poll")
    /\ calls' = [calls EXCEPT ![c] = calls[c] + 1]
    /\ working' = working \cup {[ctx |-> c, n |-> calls[c] + 1]}
    /\ UNCHANGED <<irq, board, ring, wait, late, retired, count, latched, freed,
                   givenUp>>

\* The call returns and the tool deals with the buffers.  A cancelled run is
\* latched and leaks them; any other end frees them.

\* Faulty variant: a cancelled call's buffers are freed like any other's.
FreesAlways(status) == TRUE

FreesBuffers(status) == status # "CANCELLED"

Return(c, from, status, left) ==
    /\ Move(c, from, "ready")
    /\ lock' = NoCtx
    /\ latched' = [latched EXCEPT ![c] = status = "CANCELLED"]
    /\ freed' = IF FreesBuffers(status) THEN freed \cup {Token(c)} ELSE freed
    /\ givenUp' = givenUp \cup left
    /\ Reset(c)
    /\ UNCHANGED <<irq, board, working, calls, retired>>

OwnCompletion(c) == ring # <<>> /\ Head(ring) = Token(c)

AwaitReply(c) ==
    /\ board = "up" /\ OwnCompletion(c)
    /\ ring' = Tail(ring)
    /\ Return(c, "poll", "OK", {})
    /\ UNCHANGED <<wait, late>>

\* A foreign completion is dropped and the ring polled again, without a nap.
AwaitForeign(c) ==
    /\ pc[c] = "poll" /\ board = "up" /\ ring # <<>> /\ ~OwnCompletion(c)
    /\ ring' = Tail(ring)
    /\ UNCHANGED <<irq, board, working, wait, tool, lock, pc, late, retired, count>>

AwaitTransportError(c) ==
    /\ board = "dead"
    /\ Return(c, "poll", "BAD_REQUEST", {Token(c)})
    /\ UNCHANGED <<ring, wait, late>>

\* Faulty variant: sleeps without having looked at the ring.
BlocksBlindly == TRUE

BlocksOnEmpty == ring = <<>>

AwaitBlock(c) ==
    /\ board = "up" /\ BlocksOnEmpty
    /\ Move(c, "poll", "block")
    /\ UNCHANGED <<irq, firm, wait, tool, lock, late, retired, count>>

\* Wait returns for the interrupt's signal or for the heartbeat, which comes
\* whatever the interrupt does; it clears the signals it waited for.
AwaitWake(c) ==
    /\ ~ctrlC[c]
    /\ Move(c, "block", "bound")
    /\ signal' = [signal EXCEPT ![c] = FALSE]
    /\ UNCHANGED <<irq, firm, ctrlC, tool, lock, late, retired, count>>

AwaitAgain(c) ==
    /\ Move(c, "bound", "poll")
    /\ Again(c, HardBeats)
    /\ UNCHANGED <<irq, firm, wait, tool, lock, late, retired>>

\* The hard bound: the request stays in flight, and nobody expects its
\* interrupt.
AwaitTimeout(c) ==
    /\ Return(c, "bound", "TIMEOUT", {Token(c)})
    /\ UNCHANGED <<ring, wait, late>>

\* Wait returns for Ctrl-C, with or without the other signals.
AwaitBreak(c) ==
    /\ ctrlC[c]
    /\ Move(c, "block", "drain") /\ Reset(c)
    /\ ctrlC' = [ctrlC EXCEPT ![c] = FALSE]
    /\ signal' = [signal EXCEPT ![c] = FALSE]
    /\ UNCHANGED <<irq, firm, tool, lock, late, retired>>

DrainRetires(c) ==
    /\ board = "up" /\ OwnCompletion(c)
    /\ ring' = Tail(ring)
    /\ late' = [late EXCEPT ![c] = FALSE]
    /\ Return(c, "drain", "CANCELLED", {})
    /\ UNCHANGED wait

\* Faulty variant: an expired drain is not remembered.
ExpiredDrainForgotten(c) == late[c]
ExpiredDrain(c) == TRUE

\* One more poll, of an empty ring or a foreign completion; then either round
\* again, or the drain expires with the request in flight.
DrainPoll(c) ==
    /\ pc[c] = "drain" /\ board = "up" /\ ~OwnCompletion(c)
    /\ ring' = IF ring = <<>> THEN ring ELSE Tail(ring)
    /\ \/ /\ Again(c, DrainPolls)
          /\ UNCHANGED <<irq, board, working, wait, tool, lock, pc, late, retired>>
       \/ /\ late' = [late EXCEPT ![c] = ExpiredDrain(c)]
          /\ Return(c, "drain", "CANCELLED", {})
          /\ UNCHANGED wait

DrainTransportError(c) ==
    /\ board = "dead"
    /\ Return(c, "drain", "CANCELLED", {Token(c)})
    /\ UNCHANGED <<ring, wait, late>>

---------------------------------------------------------------------------
\* zz9k_disarm_completion_irq, first called explicitly; zz9k_close calls it
\* again and finds the context unarmed.

DisarmDisable(c) ==
    /\ Move(c, "ready", "silence")
    /\ enabled' = FALSE
    /\ UNCHANGED <<pending, servers, firm, wait, tool, lock, late, retired, count>>

DisarmAck(c) ==
    /\ Move(c, "silence", "remove")
    /\ pending' = FALSE
    /\ UNCHANGED <<enabled, servers, firm, wait, tool, lock, late, retired, count>>

DisarmRemoveServer(c) ==
    /\ Move(c, "remove", "watch")
    /\ servers' = servers \ {c}
    /\ retired' = [retired EXCEPT ![c] = ~late[c]]
    /\ UNCHANGED <<enabled, pending, firm, wait, tool, lock, late, count>>

\* A late assert: acknowledge it; it stands for the abandoned request.
WatchSeesAssert(c) ==
    /\ pc[c] = "watch" /\ (pending \/ board = "dead")
    /\ Again(c, WatchReads)
    /\ pending' = FALSE
    /\ retired' = [retired EXCEPT ![c] = TRUE]
    /\ UNCHANGED <<enabled, servers, firm, wait, tool, lock, pc, late>>

WatchReadsQuiet(c) ==
    /\ pc[c] = "watch" /\ ~pending
    /\ Again(c, WatchReads)
    /\ UNCHANGED <<irq, firm, wait, tool, lock, pc, late, retired>>

\* Quiet for half a second and nothing expected, or the window is over.
WatchEnds(c) ==
    /\ Move(c, "watch", "ack")
    /\ (retired[c] /\ ~pending) \/ count[c] = WatchReads
    /\ late' = [late EXCEPT ![c] = FALSE]
    /\ retired' = [retired EXCEPT ![c] = FALSE] /\ Reset(c)
    /\ UNCHANGED <<irq, firm, wait, tool, lock>>

DisarmFinalAck(c) ==
    /\ Move(c, "ack", "closed")
    /\ pending' = FALSE
    /\ signal' = [signal EXCEPT ![c] = FALSE]
    /\ UNCHANGED <<enabled, servers, firm, ctrlC, tool, lock, late, retired, count>>

---------------------------------------------------------------------------
\* The interrupt: the first server of the chain, whichever that is among equal
\* priorities, acknowledges, signals its own task and ends the chain.
Isr ==
    /\ pending /\ pending' = FALSE
    /\ \E c \in servers : signal' = [signal EXCEPT ![c] = TRUE]
    /\ UNCHANGED <<enabled, servers, firm, ctrlC, tool, lock, pc, late, retired,
                   count>>

\* The firmware posts a completion and asserts the line.  Asserting after a
\* disable is possible: it may have looked at the enable bit before.
FwComplete(t) ==
    /\ board = "up" /\ t \in working
    /\ working' = working \ {t}
    /\ ring' = Append(ring, t)
    /\ \/ pending' = TRUE
       \/ ~enabled /\ UNCHANGED pending
    /\ UNCHANGED <<board, enabled, servers, wait, tool, lock, pc, late, retired,
                   count>>

BoardDies ==
    /\ MayDie /\ board = "up" /\ board' = "dead"
    /\ working' = {}
    /\ UNCHANGED <<irq, ring, wait, tool, lock, pc, late, retired, count>>

\* The user breaks the tool while it runs.
Break(c) ==
    /\ pc[c] \in {"ready", "poll", "block", "bound", "drain"} /\ ~ctrlC[c]
    /\ ctrlC' = [ctrlC EXCEPT ![c] = TRUE]
    /\ UNCHANGED <<irq, firm, signal, tool, lock, pc, late, retired, count>>

---------------------------------------------------------------------------
Arm(c)    == StartArm(c) \/ ArmAddServer(c) \/ ArmClear(c) \/ ArmEnable(c)
Await(c)  == \/ AwaitReply(c) \/ AwaitForeign(c) \/ AwaitTransportError(c)
             \/ AwaitBlock(c) \/ AwaitWake(c) \/ AwaitAgain(c)
             \/ AwaitTimeout(c) \/ AwaitBreak(c)
Drain(c)  == DrainRetires(c) \/ DrainPoll(c) \/ DrainTransportError(c)
Disarm(c) == \/ DisarmAck(c) \/ DisarmRemoveServer(c) \/ WatchSeesAssert(c)
             \/ WatchReadsQuiet(c) \/ WatchEnds(c) \/ DisarmFinalAck(c)

ArmRest(c) == ArmAddServer(c) \/ ArmClear(c) \/ ArmEnable(c)

Next ==
    \/ \E c \in Contexts : \/ Arm(c) \/ CallBegin(c) \/ Await(c) \/ Drain(c)
                           \/ DisarmDisable(c) \/ Disarm(c) \/ Break(c)
    \/ Isr
    \/ \E t \in Tokens : FwComplete(t)
    \/ BoardDies

Spec == Init /\ [][Next]_vars

\* The task runs and its heartbeat timer fires.  Nothing is assumed of the
\* interrupt, the firmware, the user, or whether a program arms at all.
Fairness ==
    \A c \in Contexts : WF_vars(ArmRest(c) \/ Await(c) \/ Drain(c) \/ Disarm(c))

FairSpec == Spec /\ Fairness

---------------------------------------------------------------------------
BoundOfLoops == Max({HardBeats, DrainPolls, WatchReads})

TypeOK ==
    /\ board \in {"up", "dead"} /\ enabled \in BOOLEAN /\ pending \in BOOLEAN
    /\ servers \subseteq Contexts /\ ring \in Seq(Tokens) /\ working \subseteq Tokens
    /\ lock \in Contexts \cup {NoCtx}
    /\ pc \in [Contexts -> {"unarmed", "add", "clear", "enable", "ready", "poll",
                            "block", "bound", "drain", "silence", "remove",
                            "watch", "ack", "closed"}]
    /\ calls \in [Contexts -> 0..MaxCalls]
    /\ signal \in [Contexts -> BOOLEAN] /\ ctrlC \in [Contexts -> BOOLEAN]
    /\ late \in [Contexts -> BOOLEAN] /\ retired \in [Contexts -> BOOLEAN]
    /\ count \in [Contexts -> 0..BoundOfLoops]
    /\ latched \in [Contexts -> BOOLEAN]
    /\ freed \subseteq Tokens /\ givenUp \subseteq Tokens

\* The interrupt is never enabled without a server to handle it, whichever
\* contexts arm and disarm at the same time: an asserted line that nobody
\* handles stops the machine.
EnabledHasServer == enabled => servers # {}

\* No other context has armed: what the header asks of an armed context.
Alone(c) == \A d \in Contexts \ {c} : pc[d] = "unarmed"

\* With one armed context no completion is slept on: whenever its task is
\* about to wait for a request that has completed, the signal has been sent or
\* the interrupt that sends it is pending.  The heartbeat is not needed.
NoMissedWake ==
    \A c \in Contexts :
        (Alone(c) /\ pc[c] = "block" /\ \E i \in DOMAIN ring : ring[i] = Token(c))
            => signal[c] \/ (pending /\ c \in servers)

\* The watch after a disarm outlasts a request abandoned by Ctrl-C: with one
\* armed context it ends before its window is over only when the card is done
\* with that request.  A call that timed out before is excepted: its late
\* assert may be taken for the one expected.
WatchOutlastsCancelled ==
    [][\A c \in Contexts :
         (/\ Alone(c) /\ pc[c] = "watch" /\ pc'[c] = "ack"
          /\ count[c] < WatchReads)
            => \/ \A t \in working : t.ctx # c
               \/ \E t \in givenUp : t.ctx = c]_vars

\* Buffers are not freed while the card may still be working on them, unless
\* the call gave up on the request.
CancelledKeepsBuffers == freed \cap working \subseteq givenUp

\* The same without the exception.
BuffersOutliveRequest == freed \cap working = {}

\* Every armed call returns, and so does the disarm, when interrupts are
\* stolen by another context's server, disabled by its disarm, or never come.
Busy == {"poll", "block", "bound", "drain", "silence", "remove", "watch", "ack"}
CallsAndDisarmReturn ==
    \A c \in Contexts : pc[c] \in Busy ~> pc[c] \in {"ready", "closed"}
=============================================================================
