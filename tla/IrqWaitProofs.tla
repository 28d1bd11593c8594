--------------------------- MODULE IrqWaitProofs ---------------------------
(***************************************************************************)
(* For any number of armed contexts, calls and loop bounds: the interrupt  *)
(* is never enabled without a server; the buffers of a request are never   *)
(* freed under the card unless the call gave up on it; a context that is   *)
(* alone never sleeps on a reply that is there, and watches after its      *)
(* disarm until the card works on none of its requests.                    *)
(***************************************************************************)
EXTENDS IrqWait, TLAPS

\* Phases in which a context has enabled the interrupt and not disabled it,
\* and those in which its server is in the chain.
Armed == {"ready", "poll", "block", "bound", "drain"}
Chained == Armed \cup {"clear", "enable", "silence", "remove"}
Phases == Chained \cup {"unarmed", "add", "watch", "ack", "closed"}

\* Whoever disables does so for all, but whoever still counts on the
\* interrupt keeps its server in the chain: so a server is there whenever the
\* bit is set, set by that context or by another.
ArmingInv ==
    /\ pc \in [Contexts -> Phases]
    /\ \A c \in Contexts : pc[c] \in Chained => c \in servers
    /\ enabled => \E c \in Contexts : pc[c] \in Armed

---------------------------------------------------------------------------
\* A step of one context that touches neither the bit nor the chain.
LEMMA MoveKeepsArming ==
    ASSUME ArmingInv, NEW c \in Contexts, NEW to \in Phases,
           pc' = [pc EXCEPT ![c] = to], servers' = servers, enabled' = enabled,
           to \in Chained => c \in servers,
           pc[c] \in Armed => to \in Armed
    PROVE  ArmingInv'
  <1>1. pc' \in [Contexts -> Phases]
    BY DEF ArmingInv
  <1>2. \A d \in Contexts : pc'[d] = IF d = c THEN to ELSE pc[d]
    BY DEF ArmingInv
  <1>3. \A d \in Contexts : pc'[d] \in Chained => d \in servers'
    BY <1>2 DEF ArmingInv
  <1>4. enabled' => \E d \in Contexts : pc'[d] \in Armed
    BY <1>2 DEF ArmingInv
  <1>5. QED
    BY <1>1, <1>3, <1>4 DEF ArmingInv

\* A step that moves no context.
LEMMA StayKeepsArming ==
    ASSUME ArmingInv, pc' = pc, servers' = servers, enabled' = enabled
    PROVE  ArmingInv'
  BY DEF ArmingInv

\* Every way out of a call leads back to "ready".
LEMMA ReturnKeepsArming ==
    ASSUME ArmingInv, NEW c \in Contexts, NEW status, NEW left,
           NEW from \in Armed, Return(c, from, status, left)
    PROVE  ArmingInv'
  <1>1. /\ pc[c] = from /\ pc' = [pc EXCEPT ![c] = "ready"]
        /\ servers' = servers /\ enabled' = enabled
    BY DEF Return, Move, irq
  <1>2. c \in servers
    BY <1>1 DEF ArmingInv, Chained
  <1>3. QED
    BY <1>1, <1>2, MoveKeepsArming DEF Phases, Chained, Armed

\* Arming: the server is installed before the interrupt is enabled.
LEMMA ArmKeepsArming ==
    ASSUME ArmingInv, NEW c \in Contexts, Arm(c)
    PROVE  ArmingInv'
  <1>1. CASE StartArm(c)
    BY <1>1, MoveKeepsArming
    DEF StartArm, Move, AfterArm, irq, Phases, Chained, Armed
  <1>2. CASE ArmAddServer(c)
    <2>1. /\ pc[c] = "add" /\ pc' = [pc EXCEPT ![c] = "clear"]
          /\ servers' = servers \cup {c} /\ enabled' = enabled
      BY <1>2 DEF ArmAddServer, Move, AfterArm
    <2>2. \A d \in Contexts : pc'[d] = IF d = c THEN "clear" ELSE pc[d]
      BY <2>1 DEF ArmingInv
    <2>3. pc' \in [Contexts -> Phases]
      BY <2>1 DEF ArmingInv, Phases, Chained
    <2>4. QED
      BY <2>1, <2>2, <2>3 DEF ArmingInv, Chained, Armed
  <1>3. CASE ArmClear(c)
    <2>1. /\ pc[c] = "clear" /\ pc' = [pc EXCEPT ![c] = "enable"]
          /\ servers' = servers /\ enabled' = enabled
      BY <1>3 DEF ArmClear, Move, AfterArm
    <2>2. QED
      BY <2>1, MoveKeepsArming DEF ArmingInv, Phases, Chained, Armed
  <1>4. CASE ArmEnable(c)
    <2>1. /\ pc[c] = "enable" /\ pc' = [pc EXCEPT ![c] = "ready"]
          /\ servers' = servers
      BY <1>4 DEF ArmEnable, Move, AfterArm
    <2>2. \A d \in Contexts : pc'[d] = IF d = c THEN "ready" ELSE pc[d]
      BY <2>1 DEF ArmingInv
    <2>3. pc' \in [Contexts -> Phases]
      BY <2>1 DEF ArmingInv, Phases, Chained, Armed
    <2>4. QED
      BY <2>1, <2>2, <2>3 DEF ArmingInv, Chained, Armed
  <1>5. QED
    BY <1>1, <1>2, <1>3, <1>4 DEF Arm

\* The wait and the drain stay among the armed phases.
LEMMA WaitKeepsArming ==
    ASSUME ArmingInv, NEW c \in Contexts, Await(c) \/ Drain(c)
    PROVE  ArmingInv'
  <1>1. CASE AwaitReply(c) \/ AwaitTransportError(c)
    BY <1>1, ReturnKeepsArming DEF AwaitReply, AwaitTransportError, Armed
  <1>2. CASE AwaitTimeout(c)
    BY <1>2, ReturnKeepsArming DEF AwaitTimeout, Armed
  <1>3. CASE DrainRetires(c) \/ DrainTransportError(c)
    BY <1>3, ReturnKeepsArming DEF DrainRetires, DrainTransportError, Armed
  <1>4. CASE AwaitForeign(c)
    BY <1>4, StayKeepsArming DEF AwaitForeign, irq
  <1>5. CASE AwaitBlock(c) \/ AwaitWake(c) \/ AwaitAgain(c) \/ AwaitBreak(c)
    <2>1. PICK to \in Armed : /\ pc[c] \in Armed /\ pc' = [pc EXCEPT ![c] = to]
                              /\ servers' = servers /\ enabled' = enabled
      BY <1>5 DEF AwaitBlock, AwaitWake, AwaitAgain, AwaitBreak, Move, irq, Armed
    <2>2. c \in servers
      BY <2>1 DEF ArmingInv, Chained
    <2>3. QED
      BY <2>1, <2>2, MoveKeepsArming DEF Phases, Chained
  <1>6. CASE DrainPoll(c)
    <2>1. CASE Return(c, "drain", "CANCELLED", {})
      BY <2>1, ReturnKeepsArming DEF Armed
    <2>2. CASE ~Return(c, "drain", "CANCELLED", {})
      BY <1>6, <2>2, StayKeepsArming DEF DrainPoll, irq
    <2>3. QED
      BY <2>1, <2>2
  <1>7. QED
    BY <1>1, <1>2, <1>3, <1>4, <1>5, <1>6 DEF Await, Drain

\* Disarming: the interrupt is disabled before the server is removed.
LEMMA DisarmKeepsArming ==
    ASSUME ArmingInv, NEW c \in Contexts, DisarmDisable(c) \/ Disarm(c)
    PROVE  ArmingInv'
  <1>1. CASE DisarmDisable(c)
    <2>1. /\ pc[c] = "ready" /\ pc' = [pc EXCEPT ![c] = "silence"]
          /\ servers' = servers /\ enabled' = FALSE
      BY <1>1 DEF DisarmDisable, Move
    <2>2. \A d \in Contexts : pc'[d] = IF d = c THEN "silence" ELSE pc[d]
      BY <2>1 DEF ArmingInv
    <2>3. pc' \in [Contexts -> Phases]
      BY <2>1 DEF ArmingInv, Phases, Chained
    <2>4. QED
      BY <2>1, <2>2, <2>3 DEF ArmingInv, Chained, Armed
  <1>2. CASE DisarmAck(c)
    <2>1. /\ pc[c] = "silence" /\ pc' = [pc EXCEPT ![c] = "remove"]
          /\ servers' = servers /\ enabled' = enabled
      BY <1>2 DEF DisarmAck, Move
    <2>2. QED
      BY <2>1, MoveKeepsArming DEF ArmingInv, Phases, Chained, Armed
  <1>3. CASE DisarmRemoveServer(c)
    <2>1. /\ pc[c] = "remove" /\ pc' = [pc EXCEPT ![c] = "watch"]
          /\ servers' = servers \ {c} /\ enabled' = enabled
      BY <1>3 DEF DisarmRemoveServer, Move
    <2>2. \A d \in Contexts : pc'[d] = IF d = c THEN "watch" ELSE pc[d]
      BY <2>1 DEF ArmingInv
    <2>3. pc' \in [Contexts -> Phases]
      BY <2>1 DEF ArmingInv, Phases
    <2>4. QED
      BY <2>1, <2>2, <2>3 DEF ArmingInv, Chained, Armed
  <1>4. CASE WatchSeesAssert(c) \/ WatchReadsQuiet(c)
    BY <1>4, StayKeepsArming DEF WatchSeesAssert, WatchReadsQuiet, irq
  <1>5. CASE WatchEnds(c)
    BY <1>5, MoveKeepsArming DEF WatchEnds, Move, irq, Phases, Chained, Armed
  <1>6. CASE DisarmFinalAck(c)
    BY <1>6, MoveKeepsArming DEF DisarmFinalAck, Move, Phases, Chained, Armed
  <1>7. QED
    BY <1>1, <1>2, <1>3, <1>4, <1>5, <1>6 DEF Disarm

LEMMA ArmingInvariant == Spec => []ArmingInv
  <1>1. Init => ArmingInv
    BY DEF Init, ArmingInv, Phases, Chained, Armed
  <1>2. ArmingInv /\ [Next]_vars => ArmingInv'
    <2> SUFFICES ASSUME ArmingInv, [Next]_vars PROVE ArmingInv'
      OBVIOUS
    <2>1. ASSUME NEW c \in Contexts, Arm(c) PROVE ArmingInv'
      BY <2>1, ArmKeepsArming
    <2>2. ASSUME NEW c \in Contexts, CallBegin(c) PROVE ArmingInv'
      <3>1. /\ pc[c] = "ready" /\ pc' = [pc EXCEPT ![c] = "poll"]
            /\ servers' = servers /\ enabled' = enabled
        BY <2>2 DEF CallBegin, Move, irq
      <3>2. QED
        BY <3>1, MoveKeepsArming DEF ArmingInv, Phases, Chained, Armed
    <2>3. ASSUME NEW c \in Contexts, Await(c) \/ Drain(c) PROVE ArmingInv'
      BY <2>3, WaitKeepsArming
    <2>4. ASSUME NEW c \in Contexts, DisarmDisable(c) \/ Disarm(c)
          PROVE  ArmingInv'
      BY <2>4, DisarmKeepsArming
    <2>5. ASSUME NEW c \in Contexts, Break(c) PROVE ArmingInv'
      BY <2>5, StayKeepsArming DEF Break, irq
    <2>6. CASE Isr
      BY <2>6, StayKeepsArming DEF Isr
    <2>7. ASSUME NEW t \in Tokens, FwComplete(t) PROVE ArmingInv'
      BY <2>7, StayKeepsArming DEF FwComplete
    <2>8. CASE BoardDies
      BY <2>8, StayKeepsArming DEF BoardDies, irq
    <2>9. CASE UNCHANGED vars
      BY <2>9, StayKeepsArming DEF vars
    <2>10. QED
      BY <2>1, <2>2, <2>3, <2>4, <2>5, <2>6, <2>7, <2>8, <2>9 DEF Next
  <1>3. QED
    BY <1>1, <1>2, PTL DEF Spec

\* However many tasks arm and disarm at once, the SDK interrupt is enabled
\* only while some server is there to handle it.
THEOREM NoUnhandledInterrupt == Spec => []EnabledHasServer
  <1>1. ArmingInv => EnabledHasServer
    BY DEF ArmingInv, EnabledHasServer, Chained
  <1>2. QED
    BY <1>1, ArmingInvariant, PTL

---------------------------------------------------------------------------
\* A completion in the ring is not the firmware's any more, and a request is
\* numbered past all that went before: so what a reply releases is idle, and
\* what is sent was never released.
BufferInv ==
    /\ calls \in [Contexts -> Nat]
    /\ working \subseteq Tokens
    /\ ring \in Seq(Tokens)
    /\ freed \subseteq [ctx : Contexts, n : Nat]
    /\ \A t \in working \cup freed : t.n <= calls[t.ctx]
    /\ \A i \in 1..Len(ring) : /\ ring[i].n <= calls[ring[i].ctx]
                               /\ ring[i] \notin working
    /\ CancelledKeepsBuffers

\* The ring is as it was, or a completion was consumed.
Consumed == ring' = ring \/ (ring # <<>> /\ ring' = Tail(ring))

LEMMA ConsumedKeepsOrder ==
    ASSUME ring \in Seq(Tokens), Consumed
    PROVE  /\ ring' \in Seq(Tokens)
           /\ \A i \in 1..Len(ring') : \E j \in 1..Len(ring) : ring'[i] = ring[j]
  <1>1. CASE ring' = ring
    BY <1>1
  <1>2. CASE ring # <<>> /\ ring' = Tail(ring)
    <2>1. ring' \in Seq(Tokens) /\ Len(ring') = Len(ring) - 1 /\ Len(ring) \in Nat
      BY <1>2
    <2>2. \A i \in 1..Len(ring') : ring'[i] = ring[i + 1]
      BY <1>2
    <2>3. \A i \in 1..Len(ring') : i + 1 \in 1..Len(ring)
      BY <2>1
    <2>4. QED
      BY <2>1, <2>2, <2>3
  <1>3. QED
    BY <1>1, <1>2 DEF Consumed

\* A step that sends nothing, completes nothing and frees nothing.
LEMMA StayKeepsBuffers ==
    ASSUME BufferInv, Consumed, calls' = calls, freed' = freed,
           working' \subseteq working, givenUp' = givenUp
    PROVE  BufferInv'
  <1>1. /\ ring' \in Seq(Tokens)
        /\ \A i \in 1..Len(ring') : \E j \in 1..Len(ring) : ring'[i] = ring[j]
    BY ConsumedKeepsOrder DEF BufferInv
  <1>2. \A i \in 1..Len(ring') : /\ ring'[i].n <= calls'[ring'[i].ctx]
                                 /\ ring'[i] \notin working'
    BY <1>1 DEF BufferInv
  <1>3. CancelledKeepsBuffers'
    BY DEF BufferInv, CancelledKeepsBuffers
  <1>4. QED
    BY <1>1, <1>2, <1>3 DEF BufferInv

\* A call returns: what it frees is idle, or left behind knowingly.
LEMMA ReturnKeepsBuffers ==
    ASSUME BufferInv, NEW c \in Contexts, NEW from, NEW status, NEW left,
           Return(c, from, status, left), Consumed,
           \/ status = "CANCELLED"
           \/ Token(c) \notin working
           \/ Token(c) \in left
    PROVE  BufferInv'
  <1>1. /\ calls' = calls /\ working' = working /\ givenUp' = givenUp \cup left
        /\ freed' = IF FreesBuffers(status) THEN freed \cup {Token(c)} ELSE freed
    BY DEF Return
  <1>2. /\ Token(c) \in [ctx : Contexts, n : Nat]
        /\ Token(c).n = calls[c] /\ Token(c).ctx = c
    BY DEF Token, BufferInv
  <1>3. /\ ring' \in Seq(Tokens)
        /\ \A i \in 1..Len(ring') : \E j \in 1..Len(ring) : ring'[i] = ring[j]
    BY ConsumedKeepsOrder DEF BufferInv
  <1>4. \A i \in 1..Len(ring') : /\ ring'[i].n <= calls'[ring'[i].ctx]
                                 /\ ring'[i] \notin working'
    BY <1>1, <1>3 DEF BufferInv
  <1>5. calls[c] \in Nat
    BY DEF BufferInv
  <1>6. \A t \in working' \cup freed' : t.n <= calls'[t.ctx]
    BY <1>1, <1>2, <1>5 DEF BufferInv
  <1>7. freed' \subseteq [ctx : Contexts, n : Nat]
    BY <1>1, <1>2 DEF BufferInv
  <1>8. CancelledKeepsBuffers'
    BY <1>1 DEF BufferInv, CancelledKeepsBuffers, FreesBuffers
  <1>9. QED
    BY <1>1, <1>3, <1>4, <1>6, <1>7, <1>8 DEF BufferInv

\* A request is sent under a number of its own.
LEMMA CallKeepsBuffers ==
    ASSUME BufferInv, NEW c \in Contexts, CallBegin(c)
    PROVE  BufferInv'
  <1> DEFINE sent == [ctx |-> c, n |-> calls[c] + 1]
  <1>1. /\ calls' = [calls EXCEPT ![c] = calls[c] + 1] /\ calls[c] < MaxCalls
        /\ working' = working \cup {sent}
        /\ ring' = ring /\ freed' = freed /\ givenUp' = givenUp
    BY DEF CallBegin
  <1>2. calls[c] \in Nat /\ MaxCalls \in Nat
    BY IrqWaitAssumption DEF BufferInv
  <1>3. calls' \in [Contexts -> Nat]
    BY <1>1, <1>2 DEF BufferInv
  <1>4. \A d \in Contexts : calls[d] \in Nat /\ calls'[d] \in Nat /\ calls[d] <= calls'[d]
    BY <1>1, <1>2 DEF BufferInv
  <1>5. sent \in Tokens /\ sent.ctx = c /\ sent.n = calls[c] + 1 /\ calls'[c] = calls[c] + 1
    BY <1>1, <1>2 DEF Tokens, BufferInv
  <1>6. \A t \in working \cup freed : /\ t.ctx \in Contexts /\ t.n \in Nat
                                      /\ t.n <= calls[t.ctx]
    BY DEF BufferInv, Tokens
  <1>7. \A t \in working' \cup freed' : t.n <= calls'[t.ctx]
    BY <1>1, <1>2, <1>4, <1>5, <1>6
  <1>8. \A i \in 1..Len(ring) : /\ ring[i].ctx \in Contexts /\ ring[i].n \in Nat
                                /\ ring[i].n <= calls[ring[i].ctx]
    <2>1. \A t \in Tokens : t.ctx \in Contexts /\ t.n \in Nat
      BY DEF Tokens
    <2>2. \A i \in 1..Len(ring) : ring[i] \in Tokens
      BY DEF BufferInv
    <2>3. QED
      BY <2>1, <2>2 DEF BufferInv
  <1>9. \A i \in 1..Len(ring') : /\ ring'[i].n <= calls'[ring'[i].ctx]
                                 /\ ring'[i] # sent /\ ring'[i] \notin working
    BY <1>1, <1>2, <1>4, <1>5, <1>8 DEF BufferInv
  <1>10. sent \notin freed
    BY <1>2, <1>5, <1>6
  <1>11. CancelledKeepsBuffers'
    BY <1>1, <1>10 DEF BufferInv, CancelledKeepsBuffers
  <1>12. QED
    BY <1>1, <1>3, <1>5, <1>7, <1>9, <1>11 DEF BufferInv

\* The firmware is done with a request when it posts its completion.
LEMMA CompleteKeepsBuffers ==
    ASSUME BufferInv, NEW t \in Tokens, FwComplete(t)
    PROVE  BufferInv'
  <1>1. /\ t \in working /\ working' = working \ {t} /\ ring' = Append(ring, t)
        /\ calls' = calls /\ freed' = freed /\ givenUp' = givenUp
    BY DEF FwComplete, tool
  <1>2. /\ ring' \in Seq(Tokens) /\ Len(ring') = Len(ring) + 1 /\ Len(ring) \in Nat
        /\ ring'[Len(ring) + 1] = t
        /\ \A i \in 1..Len(ring) : ring'[i] = ring[i]
    BY <1>1 DEF BufferInv
  <1>3. \A i \in 1..Len(ring') : i \in 1..Len(ring) \/ i = Len(ring) + 1
    BY <1>2
  <1>4. \A i \in 1..Len(ring') : /\ ring'[i].n <= calls'[ring'[i].ctx]
                                 /\ ring'[i] \notin working'
    BY <1>1, <1>2, <1>3 DEF BufferInv
  <1>5. CancelledKeepsBuffers'
    BY <1>1 DEF BufferInv, CancelledKeepsBuffers
  <1>6. QED
    BY <1>1, <1>2, <1>4, <1>5 DEF BufferInv

\* The wait and the drain: a reply is read from the ring, a timeout and a
\* transport error give up, Ctrl-C keeps the buffers.
LEMMA WaitKeepsBuffers ==
    ASSUME BufferInv, NEW c \in Contexts, Await(c) \/ Drain(c)
    PROVE  BufferInv'
  <1>1. OwnCompletion(c) => Token(c) \notin working
    BY DEF OwnCompletion, BufferInv
  <1>2. CASE AwaitReply(c)
    BY <1>1, <1>2, ReturnKeepsBuffers DEF AwaitReply, Consumed, OwnCompletion
  <1>3. CASE AwaitForeign(c)
    BY <1>3, StayKeepsBuffers DEF AwaitForeign, Consumed, tool
  <1>4. CASE AwaitTransportError(c) \/ AwaitTimeout(c)
    BY <1>4, ReturnKeepsBuffers DEF AwaitTransportError, AwaitTimeout, Consumed
  <1>5. CASE AwaitBlock(c) \/ AwaitWake(c) \/ AwaitAgain(c) \/ AwaitBreak(c)
    BY <1>5, StayKeepsBuffers
    DEF AwaitBlock, AwaitWake, AwaitAgain, AwaitBreak, Consumed, tool, firm
  <1>6. CASE DrainRetires(c) \/ DrainTransportError(c)
    BY <1>6, ReturnKeepsBuffers
    DEF DrainRetires, DrainTransportError, Consumed, OwnCompletion
  <1>7. CASE DrainPoll(c)
    <2>1. Consumed
      BY <1>7 DEF DrainPoll, Consumed
    <2>2. CASE Return(c, "drain", "CANCELLED", {})
      BY <2>1, <2>2, ReturnKeepsBuffers
    <2>3. CASE ~Return(c, "drain", "CANCELLED", {})
      BY <1>7, <2>1, <2>3, StayKeepsBuffers DEF DrainPoll, tool
    <2>4. QED
      BY <2>2, <2>3
  <1>8. QED
    BY <1>2, <1>3, <1>4, <1>5, <1>6, <1>7 DEF Await, Drain

LEMMA BufferInvariant == Spec => []BufferInv
  <1>1. Init => BufferInv
    BY DEF Init, BufferInv, CancelledKeepsBuffers
  <1>2. BufferInv /\ [Next]_vars => BufferInv'
    <2> SUFFICES ASSUME BufferInv, [Next]_vars PROVE BufferInv'
      OBVIOUS
    <2>1. ASSUME NEW c \in Contexts, Arm(c) PROVE BufferInv'
      BY <2>1, StayKeepsBuffers
      DEF Arm, StartArm, ArmAddServer, ArmClear, ArmEnable, Consumed, tool, firm
    <2>2. ASSUME NEW c \in Contexts, CallBegin(c) PROVE BufferInv'
      BY <2>2, CallKeepsBuffers
    <2>3. ASSUME NEW c \in Contexts, Await(c) \/ Drain(c) PROVE BufferInv'
      BY <2>3, WaitKeepsBuffers
    <2>4. ASSUME NEW c \in Contexts, DisarmDisable(c) \/ Disarm(c)
          PROVE  BufferInv'
      BY <2>4, StayKeepsBuffers
      DEF DisarmDisable, Disarm, DisarmAck, DisarmRemoveServer, WatchSeesAssert,
          WatchReadsQuiet, WatchEnds, DisarmFinalAck, Consumed, tool, firm
    <2>5. ASSUME NEW c \in Contexts, Break(c) PROVE BufferInv'
      BY <2>5, StayKeepsBuffers DEF Break, Consumed, tool, firm
    <2>6. CASE Isr
      BY <2>6, StayKeepsBuffers DEF Isr, Consumed, tool, firm
    <2>7. ASSUME NEW t \in Tokens, FwComplete(t) PROVE BufferInv'
      BY <2>7, CompleteKeepsBuffers
    <2>8. CASE BoardDies
      BY <2>8, StayKeepsBuffers DEF BoardDies, Consumed, tool
    <2>9. CASE UNCHANGED vars
      BY <2>9, StayKeepsBuffers DEF vars, Consumed
    <2>10. QED
      BY <2>1, <2>2, <2>3, <2>4, <2>5, <2>6, <2>7, <2>8, <2>9 DEF Next
  <1>3. QED
    BY <1>1, <1>2, PTL DEF Spec

\* The buffers of a request are freed while the card works on it only after a
\* timeout or a transport error, whatever Ctrl-C, other contexts and late
\* completions do.
THEOREM BuffersOutliveCancelled == Spec => []CancelledKeepsBuffers
  <1>1. BufferInv => CancelledKeepsBuffers
    BY DEF BufferInv
  <1>2. QED
    BY <1>1, BufferInvariant, PTL

---------------------------------------------------------------------------
\* Type correctness.  A context waits only for a request it has made.
Calling == {"poll", "block", "bound", "drain"}

TypeInv ==
    /\ TypeOK
    /\ \A c \in Contexts : pc[c] \in Calling => calls[c] > 0

LEMMA MaxOfThree ==
    ASSUME NEW x \in Nat, NEW y \in Nat, NEW z \in Nat
    PROVE  Max({x, y, z}) \in {x, y, z} /\ \A w \in {x, y, z} : w <= Max({x, y, z})
  <1>1. \E m \in {x, y, z} : \A w \in {x, y, z} : m >= w
    OBVIOUS
  <1>2. Max({x, y, z}) = CHOOSE m \in {x, y, z} : \A w \in {x, y, z} : m >= w
    BY DEF Max
  <1>3. /\ Max({x, y, z}) \in {x, y, z}
        /\ \A w \in {x, y, z} : Max({x, y, z}) >= w
    BY <1>1, <1>2
  <1>4. QED
    BY <1>3

LEMMA LoopBounds ==
    /\ BoundOfLoops \in Nat
    /\ \A w \in {HardBeats, DrainPolls, WatchReads} : w \in Nat /\ w <= BoundOfLoops
  <1>1. HardBeats \in Nat /\ DrainPolls \in Nat /\ WatchReads \in Nat
    BY IrqWaitAssumption
  <1>2. QED
    BY <1>1, MaxOfThree DEF BoundOfLoops

\* Another round of a loop stays in the bound.
LEMMA AgainInBound ==
    ASSUME TypeOK, NEW c \in Contexts, NEW limit \in {HardBeats, DrainPolls, WatchReads},
           Again(c, limit)
    PROVE  count' \in [Contexts -> 0..BoundOfLoops]
  <1>1. count[c] \in 0..BoundOfLoops /\ count[c] + 1 \in 0..BoundOfLoops
    BY LoopBounds DEF Again, TypeOK
  <1>2. QED
    BY <1>1 DEF Again, TypeOK

LEMMA ResetInBound ==
    ASSUME TypeOK, NEW c \in Contexts, Reset(c)
    PROVE  count' \in [Contexts -> 0..BoundOfLoops]
  BY LoopBounds DEF Reset, TypeOK

\* The request a context waits for is one of its own.
LEMMA TokenType ==
    ASSUME TypeInv, NEW c \in Contexts, pc[c] \in Calling
    PROVE  Token(c) \in Tokens
  BY DEF TypeInv, TypeOK, Token, Tokens

LEMMA RingType ==
    ASSUME TypeOK, Consumed
    PROVE  ring' \in Seq(Tokens)
  BY ConsumedKeepsOrder DEF TypeOK

\* A call returns.
LEMMA ReturnKeepsTypes ==
    ASSUME TypeInv, NEW c \in Contexts, NEW from \in Calling, NEW status, NEW left,
           left \subseteq {Token(c)}, Return(c, from, status, left), Consumed,
           signal' = signal, ctrlC' = ctrlC, late' \in [Contexts -> BOOLEAN]
    PROVE  TypeInv'
  <1>1. /\ pc[c] = from /\ pc' = [pc EXCEPT ![c] = "ready"] /\ lock' = NoCtx
        /\ latched' = [latched EXCEPT ![c] = status = "CANCELLED"]
        /\ freed' \in {freed, freed \cup {Token(c)}} /\ givenUp' = givenUp \cup left
        /\ Reset(c)
        /\ UNCHANGED <<enabled, pending, servers, board, working, calls, retired>>
    BY DEF Return, Move, irq
  <1>2. Token(c) \in Tokens
    BY <1>1, TokenType
  <1>3. /\ board' \in {"up", "dead"} /\ enabled' \in BOOLEAN /\ pending' \in BOOLEAN
        /\ servers' \subseteq Contexts /\ working' \subseteq Tokens
        /\ calls' \in [Contexts -> 0..MaxCalls]
        /\ signal' \in [Contexts -> BOOLEAN] /\ ctrlC' \in [Contexts -> BOOLEAN]
        /\ retired' \in [Contexts -> BOOLEAN]
    BY <1>1 DEF TypeInv, TypeOK
  <1>4. freed' \subseteq Tokens /\ givenUp' \subseteq Tokens /\ lock' \in Contexts \cup {NoCtx}
    BY <1>1, <1>2 DEF TypeInv, TypeOK
  <1>5. ring' \in Seq(Tokens) /\ count' \in [Contexts -> 0..BoundOfLoops]
    BY <1>1, RingType, ResetInBound DEF TypeInv
  <1>6. /\ latched' \in [Contexts -> BOOLEAN]
        /\ pc' \in [Contexts -> {"unarmed", "add", "clear", "enable", "ready", "poll",
                                 "block", "bound", "drain", "silence", "remove",
                                 "watch", "ack", "closed"}]
    BY <1>1 DEF TypeInv, TypeOK
  <1>7. \A d \in Contexts : pc'[d] \in Calling => calls'[d] > 0
    BY <1>1 DEF TypeInv, TypeOK, Calling
  <1>8. QED
    BY <1>3, <1>4, <1>5, <1>6, <1>7 DEF TypeInv, TypeOK

\* A step that makes no call and ends none.
LEMMA StayKeepsTypes ==
    ASSUME TypeInv, Consumed, calls' = calls, latched' = latched, freed' = freed,
           givenUp' = givenUp, lock' = lock, working' = working, board' = board,
           enabled' \in BOOLEAN, pending' \in BOOLEAN, servers' \subseteq Contexts,
           signal' \in [Contexts -> BOOLEAN], ctrlC' \in [Contexts -> BOOLEAN],
           late' \in [Contexts -> BOOLEAN], retired' \in [Contexts -> BOOLEAN],
           count' \in [Contexts -> 0..BoundOfLoops],
           pc' \in [Contexts -> Phases],
           \A c \in Contexts : pc'[c] \in Calling => pc[c] \in Calling
    PROVE  TypeInv'
  <1>1. ring' \in Seq(Tokens)
    BY RingType DEF TypeInv
  <1>2. /\ board' \in {"up", "dead"} /\ working' \subseteq Tokens
        /\ lock' \in Contexts \cup {NoCtx} /\ calls' \in [Contexts -> 0..MaxCalls]
        /\ latched' \in [Contexts -> BOOLEAN] /\ freed' \subseteq Tokens
        /\ givenUp' \subseteq Tokens
    BY DEF TypeInv, TypeOK
  <1>3. pc' \in [Contexts -> {"unarmed", "add", "clear", "enable", "ready", "poll",
                              "block", "bound", "drain", "silence", "remove",
                              "watch", "ack", "closed"}]
    BY DEF Phases, Chained, Armed
  <1>4. \A c \in Contexts : pc'[c] \in Calling => calls'[c] > 0
    BY DEF TypeInv
  <1>5. QED
    BY <1>1, <1>2, <1>3, <1>4 DEF TypeInv, TypeOK

\* What TypeOK says of the variables such a step may leave alone.
LEMMA WaitTypes ==
    ASSUME TypeOK
    PROVE  /\ enabled \in BOOLEAN /\ pending \in BOOLEAN /\ servers \subseteq Contexts
           /\ signal \in [Contexts -> BOOLEAN] /\ ctrlC \in [Contexts -> BOOLEAN]
           /\ late \in [Contexts -> BOOLEAN] /\ retired \in [Contexts -> BOOLEAN]
           /\ count \in [Contexts -> 0..BoundOfLoops] /\ pc \in [Contexts -> Phases]
  BY DEF TypeOK, Phases, Chained, Armed

\* A step that moves one context, or none.
LEMMA MovedTo ==
    ASSUME TypeOK, NEW c \in Contexts, NEW to \in Phases, pc' = [pc EXCEPT ![c] = to],
           to \in Calling => pc[c] \in Calling
    PROVE  /\ pc' \in [Contexts -> Phases]
           /\ \A d \in Contexts : pc'[d] \in Calling => pc[d] \in Calling
  BY WaitTypes

LEMMA ArmKeepsTypes ==
    ASSUME TypeInv, NEW c \in Contexts, Arm(c)
    PROVE  TypeInv'
  <1>1. TypeOK
    BY DEF TypeInv
  <1>2. \E to \in Phases : pc' = [pc EXCEPT ![c] = to] /\ to \notin Calling
    BY DEF Arm, StartArm, ArmAddServer, ArmClear, ArmEnable, Move, AfterArm, Phases, Chained,
      Armed, Calling
  <1>3. /\ pc' \in [Contexts -> Phases]
        /\ \A d \in Contexts : pc'[d] \in Calling => pc[d] \in Calling
    BY <1>1, <1>2, MovedTo
  <1>4. /\ Consumed /\ UNCHANGED <<tool, lock, working, board, ctrlC, late, retired, count>>
        /\ enabled' \in {enabled, TRUE} /\ pending' \in {pending, FALSE}
        /\ servers' \in {servers, servers \cup {c}}
        /\ signal' \in {signal, [signal EXCEPT ![c] = FALSE]}
    BY DEF Arm, StartArm, ArmAddServer, ArmClear, ArmEnable, Consumed, irq, firm, wait
  <1>5. /\ enabled' \in BOOLEAN /\ pending' \in BOOLEAN /\ servers' \subseteq Contexts
        /\ signal' \in [Contexts -> BOOLEAN] /\ ctrlC' \in [Contexts -> BOOLEAN]
        /\ late' \in [Contexts -> BOOLEAN] /\ retired' \in [Contexts -> BOOLEAN]
        /\ count' \in [Contexts -> 0..BoundOfLoops]
    BY <1>1, <1>4, WaitTypes
  <1>6. QED
    BY <1>3, <1>4, <1>5, StayKeepsTypes DEF tool

LEMMA CallKeepsTypes ==
    ASSUME TypeInv, NEW c \in Contexts, CallBegin(c)
    PROVE  TypeInv'
  <1>1. /\ calls[c] < MaxCalls /\ lock' = c /\ pc' = [pc EXCEPT ![c] = "poll"]
        /\ calls' = [calls EXCEPT ![c] = calls[c] + 1]
        /\ working' = working \cup {[ctx |-> c, n |-> calls[c] + 1]}
        /\ UNCHANGED <<enabled, pending, servers, board, ring, signal, ctrlC, late, retired,
                       count, latched, freed, givenUp>>
    BY DEF CallBegin, Move, irq, wait
  <1>2. calls[c] \in Nat /\ calls[c] + 1 \in 1..MaxCalls
    BY <1>1, IrqWaitAssumption DEF TypeInv, TypeOK
  <1>3. [ctx |-> c, n |-> calls[c] + 1] \in Tokens /\ calls' \in [Contexts -> 0..MaxCalls]
    BY <1>1, <1>2 DEF Tokens, TypeInv, TypeOK
  <1>4. \A d \in Contexts : pc'[d] \in Calling => calls'[d] > 0
    BY <1>1, <1>2 DEF TypeInv, TypeOK
  <1>5. QED
    BY <1>1, <1>3, <1>4 DEF TypeInv, TypeOK

LEMMA WaitKeepsTypes ==
    ASSUME TypeInv, NEW c \in Contexts, Await(c) \/ Drain(c)
    PROVE  TypeInv'
  <1>1. TypeOK /\ c \in Contexts
    BY DEF TypeInv
  <1>2. CASE AwaitReply(c) \/ AwaitTransportError(c) \/ AwaitTimeout(c)
    <2>1. /\ Consumed /\ UNCHANGED <<signal, ctrlC, late>> /\ {"poll", "bound"} \subseteq Calling
          /\ {} \subseteq {Token(c)}
      BY <1>2 DEF AwaitReply, AwaitTransportError, AwaitTimeout, Consumed, OwnCompletion, wait,
        Calling
    <2>2. \/ Return(c, "poll", "OK", {}) \/ Return(c, "poll", "BAD_REQUEST", {Token(c)})
          \/ Return(c, "bound", "TIMEOUT", {Token(c)})
      BY <1>2 DEF AwaitReply, AwaitTransportError, AwaitTimeout
    <2>3. late' \in [Contexts -> BOOLEAN]
      BY <1>1, <2>1, WaitTypes
    <2>4. QED
      BY <2>1, <2>2, <2>3, ReturnKeepsTypes
  <1>3. CASE DrainRetires(c) \/ DrainTransportError(c)
    <2>1. /\ Consumed /\ UNCHANGED <<signal, ctrlC>> /\ "drain" \in Calling
          /\ late' \in {late, [late EXCEPT ![c] = FALSE]} /\ {} \subseteq {Token(c)}
      BY <1>3 DEF DrainRetires, DrainTransportError, Consumed, OwnCompletion, wait, Calling
    <2>2. \/ Return(c, "drain", "CANCELLED", {})
          \/ Return(c, "drain", "CANCELLED", {Token(c)})
      BY <1>3 DEF DrainRetires, DrainTransportError
    <2>3. late' \in [Contexts -> BOOLEAN]
      BY <1>1, <2>1, WaitTypes
    <2>4. QED
      BY <2>1, <2>2, <2>3, ReturnKeepsTypes
  <1>4. CASE AwaitForeign(c)
    BY <1>1, <1>4, WaitTypes, StayKeepsTypes DEF AwaitForeign, Consumed, irq, wait, tool
  <1>5. CASE AwaitBlock(c) \/ AwaitWake(c) \/ AwaitAgain(c) \/ AwaitBreak(c)
    <2>1. \E to \in Phases : pc' = [pc EXCEPT ![c] = to] /\ pc[c] \in Calling
      BY <1>5 DEF AwaitBlock, AwaitWake, AwaitAgain, AwaitBreak, Move, Phases, Chained, Armed,
        Calling
    <2>2. /\ pc' \in [Contexts -> Phases]
          /\ \A d \in Contexts : pc'[d] \in Calling => pc[d] \in Calling
      BY <1>1, <2>1, MovedTo
    <2>3. /\ UNCHANGED <<irq, firm, tool, lock, late, retired>>
          /\ signal' \in {signal, [signal EXCEPT ![c] = FALSE]}
          /\ ctrlC' \in {ctrlC, [ctrlC EXCEPT ![c] = FALSE]}
          /\ count' = count \/ Again(c, HardBeats) \/ Reset(c)
      BY <1>5 DEF AwaitBlock, AwaitWake, AwaitAgain, AwaitBreak, wait
    <2>4. count' \in [Contexts -> 0..BoundOfLoops]
      BY <1>1, <2>3, AgainInBound, ResetInBound, WaitTypes
    <2>5. signal' \in [Contexts -> BOOLEAN] /\ ctrlC' \in [Contexts -> BOOLEAN]
      BY <1>1, <2>3, WaitTypes
    <2>6. QED
      BY <1>1, <2>2, <2>3, <2>4, <2>5, WaitTypes, StayKeepsTypes DEF irq, firm, tool, Consumed
  <1>6. CASE DrainPoll(c)
    <2>1. Consumed
      BY <1>6 DEF DrainPoll, Consumed
    <2>2. CASE Return(c, "drain", "CANCELLED", {})
               /\ late' = [late EXCEPT ![c] = ExpiredDrain(c)] /\ UNCHANGED wait
      BY <1>1, <2>1, <2>2, WaitTypes, ReturnKeepsTypes DEF wait, Calling, ExpiredDrain
    <2>3. CASE Again(c, DrainPolls) /\ UNCHANGED <<irq, board, working, wait, tool, lock, pc,
                                                   late, retired>>
      BY <1>1, <2>1, <2>3, WaitTypes, AgainInBound, StayKeepsTypes DEF irq, wait, tool
    <2>4. QED
      BY <1>6, <2>2, <2>3 DEF DrainPoll
  <1>7. QED
    BY <1>2, <1>3, <1>4, <1>5, <1>6 DEF Await, Drain

LEMMA DisarmKeepsTypes ==
    ASSUME TypeInv, NEW c \in Contexts, DisarmDisable(c) \/ Disarm(c)
    PROVE  TypeInv'
  <1>1. TypeOK
    BY DEF TypeInv
  <1>2. /\ pc' \in [Contexts -> Phases]
        /\ \A d \in Contexts : pc'[d] \in Calling => pc[d] \in Calling
    <2>1. CASE UNCHANGED pc
      BY <1>1, <2>1, WaitTypes
    <2>2. CASE ~UNCHANGED pc
      <3>1. \E to \in Phases : pc' = [pc EXCEPT ![c] = to] /\ to \notin Calling
        BY <2>2 DEF DisarmDisable, Disarm, DisarmAck, DisarmRemoveServer, WatchSeesAssert,
          WatchReadsQuiet, WatchEnds, DisarmFinalAck, Move, Phases, Chained, Armed, Calling
      <3>2. QED
        BY <1>1, <3>1, MovedTo
    <2>3. QED
      BY <2>1, <2>2
  <1>3. /\ UNCHANGED <<firm, tool, lock, ctrlC>> /\ Consumed
        /\ enabled' \in {enabled, FALSE} /\ pending' \in {pending, FALSE}
        /\ servers' \in {servers, servers \ {c}}
        /\ signal' \in {signal, [signal EXCEPT ![c] = FALSE]}
        /\ late' \in {late, [late EXCEPT ![c] = FALSE]}
    BY DEF DisarmDisable, Disarm, DisarmAck, DisarmRemoveServer, WatchSeesAssert,
      WatchReadsQuiet, WatchEnds, DisarmFinalAck, irq, wait, firm, Consumed
  <1>4. retired' \in {retired, [retired EXCEPT ![c] = TRUE], [retired EXCEPT ![c] = FALSE],
                      [retired EXCEPT ![c] = ~late[c]]}
    BY DEF DisarmDisable, Disarm, DisarmAck, DisarmRemoveServer, WatchSeesAssert,
      WatchReadsQuiet, WatchEnds, DisarmFinalAck
  <1>5. count' = count \/ Again(c, WatchReads) \/ Reset(c)
    BY DEF DisarmDisable, Disarm, DisarmAck, DisarmRemoveServer, WatchSeesAssert,
      WatchReadsQuiet, WatchEnds, DisarmFinalAck
  <1>6. count' \in [Contexts -> 0..BoundOfLoops]
    BY <1>1, <1>5, AgainInBound, ResetInBound, WaitTypes
  <1>7. /\ enabled' \in BOOLEAN /\ pending' \in BOOLEAN /\ servers' \subseteq Contexts
        /\ signal' \in [Contexts -> BOOLEAN] /\ ctrlC' \in [Contexts -> BOOLEAN]
        /\ late' \in [Contexts -> BOOLEAN]
    BY <1>1, <1>3, WaitTypes
  <1>8. retired' \in [Contexts -> BOOLEAN]
    BY <1>1, <1>4, WaitTypes
  <1>9. QED
    BY <1>2, <1>3, <1>6, <1>7, <1>8, StayKeepsTypes DEF firm, tool

LEMMA RestKeepsTypes ==
    ASSUME TypeInv,
           \/ \E c \in Contexts : Break(c)
           \/ Isr
           \/ \E t \in Tokens : FwComplete(t)
           \/ BoardDies
           \/ UNCHANGED vars
    PROVE  TypeInv'
  <1>1. TypeOK
    BY DEF TypeInv
  <1>2. ASSUME NEW c \in Contexts, Break(c)
        PROVE  TypeInv'
    <2>1. ctrlC' \in [Contexts -> BOOLEAN]
      BY <1>1, <1>2, WaitTypes DEF Break
    <2>2. QED
      BY <1>1, <1>2, <2>1, WaitTypes, StayKeepsTypes DEF Break, Consumed, irq, firm, tool
  <1>3. CASE Isr
    <2>1. signal' \in [Contexts -> BOOLEAN] /\ pending' \in BOOLEAN
      BY <1>1, <1>3, WaitTypes DEF Isr
    <2>2. QED
      BY <1>1, <1>3, <2>1, WaitTypes, StayKeepsTypes DEF Isr, Consumed, firm, tool
  <1>4. ASSUME NEW t \in Tokens, FwComplete(t)
        PROVE  TypeInv'
    <2>1. working' \subseteq Tokens /\ ring' = Append(ring, t) /\ pending' \in {pending, TRUE}
      BY <1>1, <1>4 DEF FwComplete, TypeOK
    <2>3. ring' \in Seq(Tokens) /\ pending' \in BOOLEAN
      <3>1. ring \in Seq(Tokens) /\ pending \in BOOLEAN /\ t \in Tokens
        BY <1>1, <1>4 DEF TypeOK
      <3>2. pending' \in BOOLEAN
        BY <2>1, <3>1
      <3>3. Append(ring, t) \in Seq(Tokens)
        BY <3>1
      <3>4. QED
        BY <2>1, <3>2, <3>3
    <2>2. QED
      BY <1>4, <2>1, <2>3 DEF FwComplete, TypeInv, TypeOK, wait, tool
  <1>5. CASE BoardDies
    BY <1>5 DEF BoardDies, TypeInv, TypeOK, irq, wait, tool
  <1>6. CASE UNCHANGED vars
    BY <1>6 DEF vars, TypeInv, TypeOK
  <1>7. QED
    BY <1>2, <1>3, <1>4, <1>5, <1>6

LEMMA StepKeepsTypes ==
    ASSUME TypeInv, [Next]_vars
    PROVE  TypeInv'
  BY ArmKeepsTypes, CallKeepsTypes, WaitKeepsTypes, DisarmKeepsTypes, RestKeepsTypes DEF Next

LEMMA InitTypes == Init => TypeInv
  <1> SUFFICES ASSUME Init
               PROVE  TypeInv
    OBVIOUS
  <1>1. 0 \in 0..MaxCalls /\ 0 \in 0..BoundOfLoops
    BY LoopBounds, IrqWaitAssumption
  <1>2. /\ board = "up" /\ enabled = FALSE /\ pending = FALSE /\ servers = {} /\ ring = <<>>
        /\ working = {} /\ lock = NoCtx /\ freed = {} /\ givenUp = {}
    BY DEF Init
  <1>3. /\ pc = [c \in Contexts |-> "unarmed"] /\ calls = [c \in Contexts |-> 0]
        /\ count = [c \in Contexts |-> 0] /\ signal = [c \in Contexts |-> FALSE]
        /\ ctrlC = [c \in Contexts |-> FALSE] /\ late = [c \in Contexts |-> FALSE]
        /\ retired = [c \in Contexts |-> FALSE] /\ latched = [c \in Contexts |-> FALSE]
    BY DEF Init
  <1>4. ring \in Seq(Tokens)
    BY <1>2
  <1>5. /\ board \in {"up", "dead"} /\ enabled \in BOOLEAN /\ pending \in BOOLEAN
        /\ servers \subseteq Contexts /\ working \subseteq Tokens
        /\ lock \in Contexts \cup {NoCtx} /\ freed \subseteq Tokens /\ givenUp \subseteq Tokens
    BY <1>2
  <1>6. pc \in [Contexts -> {"unarmed", "add", "clear", "enable", "ready", "poll",
                             "block", "bound", "drain", "silence", "remove",
                             "watch", "ack", "closed"}]
    BY <1>3
  <1>7. /\ calls \in [Contexts -> 0..MaxCalls] /\ count \in [Contexts -> 0..BoundOfLoops]
        /\ signal \in [Contexts -> BOOLEAN] /\ ctrlC \in [Contexts -> BOOLEAN]
        /\ late \in [Contexts -> BOOLEAN] /\ retired \in [Contexts -> BOOLEAN]
        /\ latched \in [Contexts -> BOOLEAN]
    BY <1>1, <1>3
  <1>8. QED
    BY <1>3, <1>4, <1>5, <1>6, <1>7 DEF TypeInv, TypeOK, Calling

LEMMA TypeInvariant == Spec => []TypeInv
  BY InitTypes, StepKeepsTypes, PTL DEF Spec

\* Every variable has its type: no loop turns more often than its bound, and a call
\* only waits for, frees and gives up requests it has made.
THEOREM TypeCorrect == Spec => []TypeOK
  <1>1. TypeInv => TypeOK
    BY DEF TypeInv
  <1>2. QED
    BY <1>1, TypeInvariant, PTL

---------------------------------------------------------------------------
\* One armed context alone.
Own(c) == Arm(c) \/ CallBegin(c) \/ Await(c) \/ Drain(c) \/ DisarmDisable(c) \/ Disarm(c)
          \/ Break(c)

World == Isr \/ (\E t \in Tokens : FwComplete(t)) \/ BoardDies

\* The servers are those of the contexts between arming and disarming.
ChainInv == servers \subseteq {c \in Contexts : pc[c] \in Chained}

\* While it is alone nobody disables the interrupt behind its back, and it sleeps
\* only when it has looked at the ring.
WakeInv ==
    \A c \in Contexts :
        Alone(c) =>
            /\ pc[c] \in Armed => enabled
            /\ (pc[c] = "block" /\ \E i \in DOMAIN ring : ring[i] = Token(c))
                 => signal[c] \/ (pending /\ c \in servers)

\* Who takes a step has armed, and moves nobody else.
LEMMA ActsArmed ==
    ASSUME TypeOK, NEW d \in Contexts, Own(d)
    PROVE  pc'[d] # "unarmed" /\ \A e \in Contexts : e # d => pc'[e] = pc[e]
  <1>1. CASE Arm(d) \/ CallBegin(d)
    BY <1>1 DEF TypeOK, Arm, StartArm, ArmAddServer, ArmClear, ArmEnable, CallBegin, Move,
      AfterArm
  <1>2. CASE AwaitReply(d) \/ AwaitTransportError(d) \/ AwaitTimeout(d) \/ DrainRetires(d)
             \/ DrainTransportError(d)
    BY <1>2 DEF TypeOK, AwaitReply, AwaitTransportError, AwaitTimeout, DrainRetires,
      DrainTransportError, Return, Move
  <1>3. CASE AwaitForeign(d) \/ AwaitBlock(d) \/ AwaitWake(d) \/ AwaitAgain(d) \/ AwaitBreak(d)
    BY <1>3 DEF TypeOK, AwaitForeign, AwaitBlock, AwaitWake, AwaitAgain, AwaitBreak, Move
  <1>4. CASE DrainPoll(d)
    BY <1>4 DEF TypeOK, DrainPoll, Return, Move
  <1>5. CASE DisarmDisable(d) \/ Disarm(d) \/ Break(d)
    BY <1>5 DEF TypeOK, DisarmDisable, Disarm, DisarmAck, DisarmRemoveServer, WatchSeesAssert,
      WatchReadsQuiet, WatchEnds, DisarmFinalAck, Break, Move
  <1>6. QED
    BY <1>1, <1>2, <1>3, <1>4, <1>5 DEF Own, Await, Drain

LEMMA StaysAlone ==
    ASSUME TypeOK, NEW c \in Contexts, Alone(c)', [Next]_vars
    PROVE  Alone(c) /\ (Own(c) \/ World \/ UNCHANGED vars)
  <1>1. CASE \E d \in Contexts : Own(d)
    <2>1. PICK d \in Contexts : Own(d)
      BY <1>1
    <2>2. pc'[d] # "unarmed" /\ \A e \in Contexts : e # d => pc'[e] = pc[e]
      BY <2>1, ActsArmed
    <2>3. d = c
      BY <2>2 DEF Alone
    <2>4. QED
      BY <2>1, <2>2, <2>3 DEF Alone
  <1>2. CASE World \/ UNCHANGED vars
    <2>1. pc' = pc
      BY <1>2 DEF World, Isr, FwComplete, BoardDies, vars
    <2>2. QED
      BY <1>2, <2>1 DEF Alone
  <1>3. QED
    BY <1>1, <1>2 DEF Next, Own, World

LEMMA StepKeepsChain ==
    ASSUME TypeOK, ChainInv, [Next]_vars
    PROVE  ChainInv'
  <1>1. ASSUME NEW d \in Contexts, Own(d)
        PROVE  ChainInv'
    <2>1. \A e \in Contexts : e # d => pc'[e] = pc[e]
      BY <1>1, ActsArmed
    <2>2. servers' \subseteq servers \cup {d} /\ (d \in servers' => pc'[d] \in Chained)
      <3>1. CASE Arm(d) \/ CallBegin(d)
        BY <3>1 DEF TypeOK, ChainInv, Arm, StartArm, ArmAddServer, ArmClear, ArmEnable,
          CallBegin, Move, AfterArm, irq, Chained, Armed
      <3>2. CASE AwaitReply(d) \/ AwaitTransportError(d) \/ AwaitTimeout(d) \/ DrainRetires(d)
                 \/ DrainTransportError(d)
        BY <3>2 DEF TypeOK, ChainInv, AwaitReply, AwaitTransportError, AwaitTimeout,
          DrainRetires, DrainTransportError, Return, Move, irq, Chained, Armed
      <3>3. CASE AwaitForeign(d) \/ AwaitBlock(d) \/ AwaitWake(d) \/ AwaitAgain(d)
                 \/ AwaitBreak(d)
        BY <3>3 DEF TypeOK, ChainInv, AwaitForeign, AwaitBlock, AwaitWake, AwaitAgain,
          AwaitBreak, Move, irq, Chained, Armed
      <3>4. CASE DrainPoll(d)
        BY <3>4 DEF TypeOK, ChainInv, DrainPoll, Return, Move, irq, Chained, Armed
      <3>5. CASE DisarmDisable(d) \/ Disarm(d) \/ Break(d)
        BY <3>5 DEF TypeOK, ChainInv, DisarmDisable, Disarm, DisarmAck, DisarmRemoveServer,
          WatchSeesAssert, WatchReadsQuiet, WatchEnds, DisarmFinalAck, Break, Move, irq,
          Chained, Armed
      <3>6. QED
        BY <1>1, <3>1, <3>2, <3>3, <3>4, <3>5 DEF Own, Await, Drain
    <2>3. QED
      BY <2>1, <2>2 DEF ChainInv
  <1>2. CASE World \/ UNCHANGED vars
    BY <1>2 DEF ChainInv, World, Isr, FwComplete, BoardDies, vars, irq
  <1>3. QED
    BY <1>1, <1>2 DEF Next, Own, World

LEMMA StepKeepsWake ==
    ASSUME TypeInv, ArmingInv, ChainInv, WakeInv, [Next]_vars
    PROVE  WakeInv'
  <1> SUFFICES ASSUME NEW c \in Contexts, Alone(c)'
               PROVE  /\ pc'[c] \in Armed => enabled'
                      /\ (pc'[c] = "block" /\ \E i \in DOMAIN ring' : ring'[i] = Token(c)')
                           => signal'[c] \/ (pending' /\ c \in servers')
    BY DEF WakeInv
  <1>1. TypeOK /\ Alone(c) /\ (Own(c) \/ World \/ UNCHANGED vars)
    BY StaysAlone DEF TypeInv
  <1>2. /\ pc[c] \in Armed => enabled
        /\ (pc[c] = "block" /\ \E i \in DOMAIN ring : ring[i] = Token(c))
             => signal[c] \/ (pending /\ c \in servers)
    BY <1>1 DEF WakeInv
  <1>3. servers \subseteq {c} /\ (pc[c] \in Armed => c \in servers)
    BY <1>1 DEF ChainInv, ArmingInv, Alone, Chained, Armed
  <1>4. CASE Arm(c) \/ CallBegin(c)
    BY <1>1, <1>2, <1>4 DEF TypeOK, Arm, StartArm, ArmAddServer, ArmClear, ArmEnable,
      CallBegin, Move, AfterArm, irq, Armed
  <1>5. CASE AwaitReply(c) \/ AwaitTransportError(c) \/ AwaitTimeout(c) \/ DrainRetires(c)
             \/ DrainTransportError(c)
    BY <1>1, <1>2, <1>5 DEF TypeOK, AwaitReply, AwaitTransportError, AwaitTimeout,
      DrainRetires, DrainTransportError, Return, Move, irq, Armed
  <1>6. CASE AwaitForeign(c) \/ AwaitBlock(c) \/ AwaitWake(c) \/ AwaitAgain(c) \/ AwaitBreak(c)
    <2>1. enabled' = enabled /\ pc[c] \in Armed
      BY <1>6 DEF AwaitForeign, AwaitBlock, AwaitWake, AwaitAgain, AwaitBreak, Move, irq, Armed
    <2>2. pc'[c] = "block" => ring' = <<>>
      BY <1>1, <1>6 DEF TypeOK, AwaitForeign, AwaitBlock, AwaitWake, AwaitAgain, AwaitBreak,
        Move, firm, BlocksOnEmpty
    <2>3. QED
      BY <1>2, <2>1, <2>2
  <1>7. CASE DrainPoll(c)
    <2>1. enabled' = enabled /\ pc[c] = "drain" /\ pc'[c] # "block"
      BY <1>1, <1>7 DEF TypeOK, DrainPoll, Return, Move, irq
    <2>2. QED
      BY <1>2, <2>1 DEF Armed
  <1>8. CASE DisarmDisable(c) \/ Disarm(c)
    BY <1>1, <1>2, <1>8 DEF TypeOK, DisarmDisable, Disarm, DisarmAck, DisarmRemoveServer,
      WatchSeesAssert, WatchReadsQuiet, WatchEnds, DisarmFinalAck, Move, irq, Armed
  <1>9. CASE Break(c) \/ BoardDies \/ UNCHANGED vars
    BY <1>2, <1>9 DEF Break, BoardDies, vars, irq, firm, wait, tool, Token
  <1>10. CASE Isr
    <2>1. pc[c] = "block" => signal'[c]
      BY <1>1, <1>3, <1>10 DEF Isr, TypeOK
    <2>2. QED
      BY <1>2, <1>10, <2>1 DEF Isr
  <1>11. ASSUME NEW t \in Tokens, FwComplete(t)
         PROVE  /\ pc'[c] \in Armed => enabled'
                /\ pc'[c] = "block" => pending' /\ c \in servers'
    BY <1>2, <1>3, <1>11 DEF FwComplete, Armed
  <1>12. QED
    BY <1>1, <1>4, <1>5, <1>6, <1>7, <1>8, <1>9, <1>10, <1>11 DEF Own, World, Await, Drain

LEMMA WakeInvariant == Spec => [](ChainInv /\ WakeInv)
  <1>1. Init => ChainInv /\ WakeInv
    BY DEF Init, ChainInv, WakeInv, Armed
  <1>2. TypeInv /\ ArmingInv /\ ChainInv /\ WakeInv /\ [Next]_vars => (ChainInv /\ WakeInv)'
    BY StepKeepsChain, StepKeepsWake DEF TypeInv
  <1>3. QED
    BY <1>1, <1>2, TypeInvariant, ArmingInvariant, PTL DEF Spec

\* A task that is alone on the card never sleeps in zz9k_await_completion_locked on
\* a completion that is already in the ring, unless the interrupt is on its way.
THEOREM NeverSleepsOnReply == Spec => []NoMissedWake
  <1>1. WakeInv => NoMissedWake
    BY DEF WakeInv, NoMissedWake
  <1>2. QED
    BY <1>1, WakeInvariant, PTL

---------------------------------------------------------------------------
\* What the watch after a disarm knows.  Until the context has given up on a request
\* the card works on one of its own at most, the last; it is late when its call has
\* returned, and it is over when the interrupt is asserted after the disarm.
NotYetCalled == {"unarmed", "add", "clear", "enable"}

GaveUp(c) == \E t \in givenUp : t.ctx = c

WatchInv ==
    /\ \A t \in working : pc[t.ctx] \notin NotYetCalled
    /\ \A c \in Contexts :
         Alone(c) /\ ~GaveUp(c) =>
            /\ working \subseteq {Token(c)}
            /\ board = "dead" /\ pc[c] \notin Calling => working = {}
            /\ pc[c] \in {"ready", "silence", "remove"} /\ working # {} => late[c]
            /\ pc[c] = "ready" /\ working # {} => latched[c]
            /\ pc[c] \in {"remove", "watch"} /\ pending => working = {}
            /\ pc[c] = "watch" /\ retired[c] => working = {}

LEMMA WorkingStep ==
    ASSUME TypeInv, NEW d \in Contexts, Own(d)
    PROVE  working' = working \/ (CallBegin(d) /\ working' = working \cup {Token(d)'})
  <1>1. CASE CallBegin(d)
    <2>1. calls'[d] = calls[d] + 1
      BY <1>1 DEF CallBegin, TypeInv, TypeOK
    <2>2. QED
      BY <1>1, <2>1 DEF CallBegin, Token
  <1>2. CASE ~CallBegin(d)
    <2>1. CASE Arm(d) \/ Await(d)
      BY <2>1 DEF Arm, StartArm, ArmAddServer, ArmClear, ArmEnable, Await, AwaitReply,
        AwaitForeign, AwaitTransportError, AwaitBlock, AwaitWake, AwaitAgain, AwaitTimeout,
        AwaitBreak, Return, firm
    <2>2. CASE Drain(d) \/ DisarmDisable(d) \/ Disarm(d) \/ Break(d)
      BY <2>2 DEF Drain, DrainRetires, DrainPoll, DrainTransportError, Return, DisarmDisable,
        Disarm, DisarmAck, DisarmRemoveServer, WatchSeesAssert, WatchReadsQuiet, WatchEnds,
        DisarmFinalAck, Break, firm
    <2>3. QED
      BY <1>2, <2>1, <2>2 DEF Own
  <1>3. QED
    BY <1>1, <1>2

\* What one context knows of its requests.
Watched(c) ==
    /\ working \subseteq {Token(c)}
    /\ board = "dead" /\ pc[c] \notin Calling => working = {}
    /\ pc[c] \in {"ready", "silence", "remove"} /\ working # {} => late[c]
    /\ pc[c] = "ready" /\ working # {} => latched[c]
    /\ pc[c] \in {"remove", "watch"} /\ pending => working = {}
    /\ pc[c] = "watch" /\ retired[c] => working = {}

LEMMA WaitKeepsWatch ==
    ASSUME TypeInv, BufferInv, NEW c \in Contexts, Watched(c), ~GaveUp(c)',
           Await(c) \/ Drain(c)
    PROVE  Watched(c)'
  <1>1. TypeOK
    BY DEF TypeInv
  <1>2. /\ pc[c] \in Calling /\ working' = working /\ board' = board /\ Token(c)' = Token(c)
    BY DEF Await, Drain, AwaitReply, AwaitForeign, AwaitTransportError, AwaitBlock, AwaitWake,
      AwaitAgain, AwaitTimeout, AwaitBreak, DrainRetires, DrainPoll, DrainTransportError,
      Return, Move, firm, tool, Token, Calling
  <1>3. CASE pc'[c] \in Calling
    BY <1>2, <1>3 DEF Watched, Calling
  <1>4. CASE OwnCompletion(c) /\ pc'[c] = "ready"
    <2>1. Token(c) \notin working
      BY <1>4 DEF OwnCompletion, BufferInv
    <2>2. QED
      BY <1>2, <2>1 DEF Watched
  <1>5. CASE \E from, status : Return(c, from, status, {Token(c)})
    <2>1. Token(c) \in givenUp' /\ Token(c).ctx = c
      BY <1>5 DEF Return, Token
    <2>2. QED
      BY <2>1 DEF GaveUp
  <1>6. CASE /\ board = "up" /\ late' = [late EXCEPT ![c] = TRUE]
             /\ Return(c, "drain", "CANCELLED", {})
    <2>1. pc'[c] = "ready" /\ late'[c] /\ latched'[c]
      BY <1>1, <1>6 DEF Return, Move, TypeOK
    <2>2. QED
      BY <1>2, <1>6, <2>1 DEF Watched
  <1>7. CASE AwaitReply(c) \/ DrainRetires(c)
    BY <1>1, <1>4, <1>7 DEF AwaitReply, DrainRetires, Return, Move, TypeOK
  <1>8. CASE AwaitTransportError(c) \/ AwaitTimeout(c) \/ DrainTransportError(c)
    BY <1>5, <1>8 DEF AwaitTransportError, AwaitTimeout, DrainTransportError
  <1>9. CASE AwaitForeign(c) \/ AwaitBlock(c) \/ AwaitWake(c) \/ AwaitAgain(c) \/ AwaitBreak(c)
    BY <1>1, <1>3, <1>9 DEF AwaitForeign, AwaitBlock, AwaitWake, AwaitAgain, AwaitBreak, Move,
      Calling, TypeOK
  <1>10. CASE DrainPoll(c)
    BY <1>2, <1>3, <1>6, <1>10 DEF DrainPoll, ExpiredDrain, Calling
  <1>11. QED
    BY <1>7, <1>8, <1>9, <1>10 DEF Await, Drain

LEMMA DisarmKeepsWatch ==
    ASSUME TypeOK, NEW c \in Contexts, Watched(c), DisarmDisable(c) \/ Disarm(c)
    PROVE  Watched(c)'
  <1>1. working' = working /\ board' = board /\ Token(c)' = Token(c)
    BY DEF DisarmDisable, Disarm, DisarmAck, DisarmRemoveServer, WatchSeesAssert,
      WatchReadsQuiet, WatchEnds, DisarmFinalAck, firm, tool, Token
  <1>2. CASE DisarmDisable(c)
    <2>1. pc[c] = "ready" /\ pc'[c] = "silence" /\ late' = late
      BY <1>2 DEF DisarmDisable, Move, TypeOK
    <2>2. QED
      BY <1>1, <2>1 DEF Watched, Calling
  <1>3. CASE DisarmAck(c)
    <2>1. pc[c] = "silence" /\ pc'[c] = "remove" /\ late' = late /\ pending' = FALSE
      BY <1>3 DEF DisarmAck, Move, TypeOK
    <2>2. QED
      BY <1>1, <2>1 DEF Watched, Calling
  <1>4. CASE DisarmRemoveServer(c)
    <2>1. pc[c] = "remove" /\ pc'[c] = "watch" /\ pending' = pending /\ retired'[c] = ~late[c]
      BY <1>4 DEF DisarmRemoveServer, Move, TypeOK
    <2>2. QED
      BY <1>1, <2>1 DEF Watched, Calling
  <1>5. CASE WatchSeesAssert(c)
    <2>1. pc[c] = "watch" /\ (pending \/ board = "dead")
      BY <1>5 DEF WatchSeesAssert
    <2>2. working = {}
      BY <2>1 DEF Watched, Calling, TypeOK
    <2>3. QED
      BY <1>1, <2>2 DEF Watched
  <1>6. CASE WatchReadsQuiet(c)
    <2>1. pc' = pc /\ pending' = pending /\ retired' = retired /\ pc[c] = "watch"
      BY <1>6 DEF WatchReadsQuiet, irq
    <2>2. QED
      BY <1>1, <2>1 DEF Watched
  <1>7. CASE WatchEnds(c) \/ DisarmFinalAck(c)
    <2>1. pc[c] \in {"watch", "ack"} /\ pc'[c] \in {"ack", "closed"}
      BY <1>7 DEF WatchEnds, DisarmFinalAck, Move, TypeOK
    <2>2. QED
      BY <1>1, <2>1 DEF Watched, Calling
  <1>8. QED
    BY <1>2, <1>3, <1>4, <1>5, <1>6, <1>7 DEF Disarm

LEMMA OwnKeepsWatch ==
    ASSUME TypeInv, BufferInv, NEW c \in Contexts, Watched(c), ~GaveUp(c)', Own(c),
           \A t \in working : pc[t.ctx] \notin NotYetCalled
    PROVE  Watched(c)'
  <1>1. TypeOK
    BY DEF TypeInv
  <1>2. CASE Arm(c)
    <2>1. pc[c] \in NotYetCalled /\ working' = working
      BY <1>2 DEF Arm, StartArm, ArmAddServer, ArmClear, ArmEnable, Move, AfterArm, firm,
        NotYetCalled
    <2>2. working = {}
      BY <2>1 DEF Watched, Token
    <2>3. QED
      BY <2>1, <2>2 DEF Watched
  <1>3. CASE CallBegin(c)
    <2>1. pc[c] = "ready" /\ ~latched[c] /\ pc'[c] = "poll" /\ working' = working \cup {Token(c)'}
      BY <1>1, <1>3 DEF CallBegin, Move, Token, TypeOK
    <2>2. working = {}
      BY <2>1 DEF Watched
    <2>3. QED
      BY <2>1, <2>2 DEF Watched, Calling
  <1>4. CASE Break(c)
    BY <1>4 DEF Break, Watched, irq, firm, tool, Token
  <1>5. QED
    BY <1>1, <1>2, <1>3, <1>4, WaitKeepsWatch, DisarmKeepsWatch DEF Own

LEMMA WorldKeepsWatch ==
    ASSUME TypeOK, NEW c \in Contexts, Watched(c), World \/ UNCHANGED vars
    PROVE  Watched(c)'
  <1>1. CASE Isr
    BY <1>1 DEF Isr, Watched, firm, tool, Token
  <1>2. CASE BoardDies
    BY <1>2 DEF BoardDies, Watched
  <1>3. ASSUME NEW t \in Tokens, FwComplete(t)
        PROVE  Watched(c)'
    <2>1. working' = {}
      BY <1>3 DEF FwComplete, Watched
    <2>2. QED
      BY <2>1 DEF Watched
  <1>4. CASE UNCHANGED vars
    BY <1>4 DEF vars, Watched, Token
  <1>5. QED
    BY <1>1, <1>2, <1>3, <1>4 DEF World

LEMMA StepKeepsWatch ==
    ASSUME TypeInv, BufferInv, WatchInv, [Next]_vars
    PROVE  WatchInv'
  <1>1. TypeOK
    BY DEF TypeInv
  <1>2. ASSUME NEW c \in Contexts, Alone(c)', ~GaveUp(c)'
        PROVE  Watched(c)'
    <2>1. Alone(c) /\ (Own(c) \/ World \/ UNCHANGED vars)
      BY <1>1, <1>2, StaysAlone
    <2>2. givenUp \subseteq givenUp'
      BY <2>1 DEF Own, World, Arm, StartArm, ArmAddServer, ArmClear, ArmEnable, CallBegin,
        Await, Drain, AwaitReply, AwaitForeign, AwaitTransportError, AwaitBlock, AwaitWake,
        AwaitAgain, AwaitTimeout, AwaitBreak, DrainRetires, DrainPoll, DrainTransportError,
        Return, DisarmDisable, Disarm, DisarmAck, DisarmRemoveServer, WatchSeesAssert,
        WatchReadsQuiet, WatchEnds, DisarmFinalAck, Break, Isr, FwComplete, BoardDies, tool, vars
    <2>3. Watched(c)
      BY <1>2, <2>1, <2>2 DEF WatchInv, GaveUp, Watched
    <2>4. QED
      BY <1>1, <1>2, <2>1, <2>3, OwnKeepsWatch, WorldKeepsWatch DEF WatchInv
  <1>3. ASSUME NEW d \in Contexts, Own(d)
        PROVE  \A t \in working' : pc'[t.ctx] \notin NotYetCalled
    <2>1. \A e \in Contexts : e # d => pc'[e] = pc[e]
      BY <1>1, <1>3, ActsArmed
    <2>2. pc'[d] \in NotYetCalled => pc[d] \in NotYetCalled /\ ~CallBegin(d)
      <3>1. CASE Arm(d) \/ CallBegin(d)
        BY <1>1, <3>1 DEF Arm, StartArm, ArmAddServer, ArmClear, ArmEnable, CallBegin, Move,
          AfterArm, NotYetCalled, TypeOK
      <3>2. CASE AwaitReply(d) \/ AwaitTransportError(d) \/ AwaitTimeout(d) \/ DrainRetires(d)
                 \/ DrainTransportError(d)
        BY <1>1, <3>2 DEF AwaitReply, AwaitTransportError, AwaitTimeout, DrainRetires,
          DrainTransportError, Return, Move, NotYetCalled, TypeOK
      <3>3. CASE AwaitForeign(d) \/ AwaitBlock(d) \/ AwaitWake(d) \/ AwaitAgain(d)
                 \/ AwaitBreak(d)
        BY <1>1, <3>3 DEF AwaitForeign, AwaitBlock, AwaitWake, AwaitAgain, AwaitBreak, Move,
          NotYetCalled, TypeOK
      <3>4. CASE DrainPoll(d)
        BY <1>1, <3>4 DEF DrainPoll, Return, Move, NotYetCalled, TypeOK
      <3>5. CASE DisarmDisable(d) \/ Disarm(d) \/ Break(d)
        BY <1>1, <3>5 DEF DisarmDisable, Disarm, DisarmAck, DisarmRemoveServer,
          WatchSeesAssert, WatchReadsQuiet, WatchEnds, DisarmFinalAck, Break, Move,
          NotYetCalled, TypeOK
      <3>6. QED
        BY <1>3, <3>1, <3>2, <3>3, <3>4, <3>5 DEF Own, Await, Drain, CallBegin, Move,
          NotYetCalled
    <2>3. \A t \in working : t.ctx \in Contexts
      BY <1>1 DEF TypeOK, Tokens
    <2>4. Token(d)'.ctx = d
      BY DEF Token
    <2>5. QED
      BY <1>3, <2>1, <2>2, <2>3, <2>4, WorkingStep DEF WatchInv
  <1>4. ASSUME World \/ UNCHANGED vars
        PROVE  \A t \in working' : pc'[t.ctx] \notin NotYetCalled
    <2>1. pc' = pc /\ working' \subseteq working
      BY <1>4 DEF World, Isr, FwComplete, BoardDies, vars, firm
    <2>2. QED
      BY <2>1 DEF WatchInv
  <1>5. \A t \in working' : pc'[t.ctx] \notin NotYetCalled
    BY <1>3, <1>4 DEF Next, Own, World, WatchInv
  <1>6. QED
    BY <1>2, <1>5 DEF WatchInv, Watched

\* The watch of zz9k_disarm_completion_irq ends before its time only when the card has
\* finished with the request that Ctrl-C abandoned: no interrupt comes after the
\* server has gone.
THEOREM WatchOutlasts == Spec => WatchOutlastsCancelled
  <1>1. Init => WatchInv
    BY DEF Init, WatchInv
  <1>2. TypeInv /\ BufferInv /\ WatchInv /\ [Next]_vars => WatchInv'
    BY StepKeepsWatch
  <1> DEFINE OnlyWhenDone(c) ==
        (/\ Alone(c) /\ pc[c] = "watch" /\ pc'[c] = "ack"
         /\ count[c] < WatchReads)
          => \/ \A t \in working : t.ctx # c
             \/ \E t \in givenUp : t.ctx = c
  <1>3. ASSUME TypeInv, WatchInv, [Next]_vars
        PROVE  \A c \in Contexts : OnlyWhenDone(c)
    <2> SUFFICES ASSUME NEW c \in Contexts, Alone(c), pc[c] = "watch", pc'[c] = "ack",
                        count[c] < WatchReads, ~GaveUp(c)
                 PROVE  working = {}
      BY DEF GaveUp
    <2>1. TypeOK /\ Watched(c)
      BY <1>3 DEF TypeInv, WatchInv, Watched
    <2>2. Own(c)
      <3>1. ~(World \/ UNCHANGED vars)
        BY DEF World, Isr, FwComplete, BoardDies, vars
      <3>2. PICK d \in Contexts : Own(d)
        BY <1>3, <3>1 DEF Next, Own, World
      <3>3. d = c
        BY <2>1, <3>2, ActsArmed
      <3>4. QED
        BY <3>2, <3>3
    <2>3. WatchEnds(c)
      BY <2>1, <2>2 DEF Own, Arm, StartArm, ArmAddServer, ArmClear, ArmEnable, CallBegin,
        Await, Drain, AwaitReply, AwaitForeign, AwaitTransportError, AwaitBlock, AwaitWake,
        AwaitAgain, AwaitTimeout, AwaitBreak, DrainRetires, DrainPoll, DrainTransportError,
        Return, Move, DisarmDisable, Disarm, DisarmAck, DisarmRemoveServer, WatchSeesAssert,
        WatchReadsQuiet, DisarmFinalAck, Break
    <2>4. retired[c] /\ ~pending
      BY <2>1, <2>3, LoopBounds DEF WatchEnds, TypeOK
    <2>5. QED
      BY <2>1, <2>4 DEF Watched
  <1>4. TypeInv /\ WatchInv /\ [Next]_vars => [\A c \in Contexts : OnlyWhenDone(c)]_vars
    BY <1>3
  <1>5. QED
    BY <1>1, <1>2, <1>4, TypeInvariant, BufferInvariant, PTL DEF Spec, WatchOutlastsCancelled
=============================================================================
